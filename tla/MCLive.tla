------------------------------- MODULE MCLive -------------------------------
(* LiveGateway on small instances.                                         *)
EXTENDS LiveGateway, TLC

Body(verdict, writes, size) ==
    [verdict |-> verdict, writes |-> writes, returns |-> FALSE, size |-> size, finite |-> TRUE]

\* One request that the database never sees, and one that it may fail.
RejectedOrUpdate == {Body("rejected", FALSE, 0), Body("allowed", TRUE, 2)}

Symmetry == Permutations(Requests)
=============================================================================
