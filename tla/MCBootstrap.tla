---------------------------- MODULE MCBootstrap ----------------------------
(* Bootstrap on small instances; every order of the rule modules is        *)
(* checked by the runs of QueryValidator.                                  *)
EXTENDS Bootstrap

ByName == <<"root_not_allowed", "unbounded_write", "dangerous_function",
            "data_modifying_cte", "forbidden_construct", "select_into">>

TwoListings == {ByName, [i \in DOMAIN ByName |-> ByName[Len(ByName) + 1 - i]]}
=============================================================================
