---------------------------- MODULE MCPageCards ----------------------------
(* PageCards on small instances.                                           *)
EXTENDS PageCards

CONSTANTS e1, e2, e3

\* Two entries of one outcome, one of another.
Mixed == [e \in Entries |-> IF e = e1 THEN "rejected" ELSE "allowed"]

AnyMemory == {{}} \cup {{filters} : filters \in SUBSET Outcomes}

TwoChips == {"allowed", "rejected"}
=============================================================================
