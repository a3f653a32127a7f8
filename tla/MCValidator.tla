---------------------------- MODULE MCValidator ----------------------------
(* QueryValidator on small instances.                                      *)
EXTENDS QueryValidator

Single(root, inner, where, into) ==
    [kind |-> "single",
     statement |-> {[root |-> root, inner |-> inner, where |-> where, into |-> into]}]

\* The early verdicts, and statements that break none, one, two or three rules.
KeyTexts ==
    [kind: Unjudged, statement: {{}}] \cup
    {Single("Select", {}, FALSE, FALSE),
     Single("Delete", {}, TRUE, FALSE),
     Single("Delete", {}, FALSE, FALSE),
     Single("Ddl", {}, FALSE, FALSE),
     Single("Other", {"Write"}, FALSE, FALSE),
     Single("Select", {"DangerousCall"}, TRUE, TRUE),
     Single("Update", {"Write", "Ddl"}, FALSE, FALSE)}
=============================================================================
