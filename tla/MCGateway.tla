----------------------------- MODULE MCGateway -----------------------------
(* Gateway on small instances.                                             *)
EXTENDS Gateway

Body(verdict, writes, returns, size, finite) ==
    [verdict |-> verdict, writes |-> writes, returns |-> returns,
     size |-> size, finite |-> finite]

Invalid  == Body("invalid", FALSE, FALSE, 0, TRUE)
Raising  == Body("raises", FALSE, FALSE, 0, TRUE)
Rejected == Body("rejected", TRUE, FALSE, 0, TRUE)
Update   == Body("allowed", TRUE, FALSE, 2, TRUE)
NaNRow   == Body("allowed", TRUE, TRUE, 1, FALSE)
Select(n) == Body("allowed", FALSE, TRUE, n, TRUE)

\* One body of each kind, and results at and beyond the row limit.
KeyBodies == {Invalid, Raising, Rejected, Update, NaNRow,
              Select(MaxResults), Select(MaxResults + 1)}

\* The bodies that occupy a worker in different ways.
WorkerBodies == {Raising, Update, NaNRow}
=============================================================================
