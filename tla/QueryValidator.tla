--------------------------- MODULE QueryValidator ---------------------------
(***************************************************************************)
(* The SQL validator and its rule registry.  At start-up the adapter       *)
(* package's modules are imported in the order the file system lists       *)
(* them; importing a rule module appends its class to the registry.  The   *)
(* validator then asks the rules in registry order and reports the first   *)
(* rejection.                                                              *)
(***************************************************************************)
EXTENDS SqlRules, Functions

CONSTANTS
    Texts,          \* the query payloads that are validated, see TextType in SqlRules
    MaxCalls        \* bound: how many validate() calls are followed

ASSUME ValidatorAssumption ==
    /\ Texts \subseteq TextType
    /\ MaxCalls \in Nat

VARIABLES
    registered,     \* _classes_by_dialect["postgres"]
    cache,          \* _instance_cache["postgres"], <<>> while absent
    serving,        \* build_app() has returned
    calls           \* history: the validate() calls, <<text, verdict>>

vars == <<registered, cache, serving, calls>>

Init ==
    /\ registered = <<>>
    /\ cache = <<>>
    /\ serving = FALSE
    /\ calls = <<>>

\* Importing a rule module runs its @sql_rule decorator.
ImportRule(rule) ==
    /\ ~serving
    /\ rule \notin Range(registered)
    /\ registered' = Append(registered, rule)
    /\ cache' = <<>>
    /\ UNCHANGED <<serving, calls>>

\* build_app() returns once every module of the package is imported.
StartServing ==
    /\ ~serving
    /\ Range(registered) = Rules
    /\ serving' = TRUE
    /\ UNCHANGED <<registered, cache, calls>>

\* rules_for: the cached instances, made on the first call.
RulesFor == IF cache = <<>> THEN registered ELSE cache

\* Mutant: the rules are kept in a set and asked in any order.
ValidateUnordered(text) ==
    /\ serving
    /\ Len(calls) < MaxCalls
    /\ \E i \in DOMAIN RulesFor :
        LET rotated == SubSeq(RulesFor, i, Len(RulesFor)) \o SubSeq(RulesFor, 1, i - 1)
        IN  calls' = Append(calls, <<text, Verdict(rotated, text)>>)
    /\ cache' = RulesFor
    /\ UNCHANGED <<registered, serving>>

Validate(text) ==
    /\ serving
    /\ Len(calls) < MaxCalls
    /\ cache' = RulesFor
    /\ calls' = Append(calls, <<text, Verdict(RulesFor, text)>>)
    /\ UNCHANGED <<registered, serving>>

Next ==
    \/ \E rule \in Rules : ImportRule(rule)
    \/ StartServing
    \/ \E text \in Texts : Validate(text)

Spec == Init /\ [][Next]_vars

-----------------------------------------------------------------------------
TypeOK ==
    /\ registered \in Seq(Rules)
    /\ cache \in Seq(Rules)
    /\ serving \in BOOLEAN
    /\ calls \in Seq(Texts \X Codes)
    /\ Len(calls) <= MaxCalls

\* Whatever order the file system lists the rule modules in, the validator lets
\* through exactly the statements that break no rule.
VerdictIgnoresOrder ==
    \A i \in DOMAIN calls : calls[i][2] = "allowed" <=> MayRun(calls[i][1])

\* Within one process the same payload is always rejected for the same reason:
\* the order of the rules is fixed once the first request has been served.
ReasonIsStable ==
    \A i, j \in DOMAIN calls : calls[i][1] = calls[j][1] => calls[i][2] = calls[j][2]
=============================================================================
