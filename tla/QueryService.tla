---------------------------- MODULE QueryService ----------------------------
(***************************************************************************)
(* What POST /query promises its callers, whatever fails inside: a query   *)
(* is asked once, its writes take effect at most once, "done" is answered  *)
(* only for writes that are in effect, "refused" only for a query that     *)
(* never has an effect.  "failed" (502) promises nothing: the commit may   *)
(* have been in flight, and may still take effect after the answer.        *)
(***************************************************************************)
CONSTANTS
    Requests,       \* one POST /query call each
    Queries,        \* what may be asked
    Writes(_)       \* does the query change the database?

VARIABLES
    asked,          \* asked[r]: the set holding the query of r, empty before
    answer,         \* answer[r]
    effects         \* the requests whose writes are in effect

svars == <<asked, answer, effects>>

Answers == {"none", "done", "refused", "failed", "unknown"}

Init ==
    /\ asked = [r \in Requests |-> {}]
    /\ answer = [r \in Requests |-> "none"]
    /\ effects = {}

Ask(r) ==
    /\ asked[r] = {}
    /\ \E q \in Queries : asked' = [asked EXCEPT ![r] = {q}]
    /\ UNCHANGED <<answer, effects>>

\* The writes of an unanswered or a failed query take effect, all at once.
Apply(r) ==
    /\ answer[r] \in {"none", "failed"}
    /\ \E q \in asked[r] : Writes(q)
    /\ r \notin effects
    /\ effects' = effects \cup {r}
    /\ UNCHANGED <<asked, answer>>

Answer(r, a) ==
    /\ asked[r] # {}
    /\ answer[r] = "none"
    /\ a = "done" => \A q \in asked[r] : Writes(q) => r \in effects
    /\ a = "refused" => r \notin effects
    /\ answer' = [answer EXCEPT ![r] = a]
    /\ UNCHANGED <<asked, effects>>

Next ==
    \E r \in Requests :
        \/ Ask(r)
        \/ Apply(r)
        \/ \E a \in Answers \ {"none"} : Answer(r, a)

Spec == Init /\ [][Next]_svars
=============================================================================
