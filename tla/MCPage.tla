------------------------------- MODULE MCPage -------------------------------
(* ObservabilityPage on small instances.                                   *)
EXTENDS ObservabilityPage, TLC

AllowedOnly == {"allowed"}
AllAllowed == [e \in Entries |-> "allowed"]

Symmetry == Permutations(Streams) \cup Permutations(Entries)
=============================================================================
