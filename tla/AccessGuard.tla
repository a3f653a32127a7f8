---------------------------- MODULE AccessGuard ----------------------------
(***************************************************************************)
(* The two layers a query passes.  The access guard bundles the scrubber,  *)
(* the validator and the executor; the executor's statements run as        *)
(* agent_rw, and the database decides on them by the privileges the role   *)
(* holds at that moment.  A client may also connect as agent_rw itself,    *)
(* past the first layer.                                                   *)
(***************************************************************************)
EXTENDS SqlRules, QueryScrubber, RolePermissions

CONSTANTS
    Requests,       \* the requests that are followed
    Queries,        \* what may be asked, see IsQuery
    RuleOrders      \* the orders in which a start may have registered the rules

\* How each part sees a query: what the validator judges, the literals the scrubber
\* finds or passes over, the privileges the database asks for.  What is one literal is
\* no statement.
\* "documented" is the outcome the README gives for it, "open" where it gives none.
IsQuery(q) ==
    /\ q.text \in TextType
    /\ q.tree.size \in Nat /\ q.tree.unvisited \subseteq 1..q.tree.size
    /\ q.tree.lone => q.text.kind = "single" /\ \A s \in q.text.statement : s.root = "Other"
    /\ q.documented \in Codes \cup {"open", "denied", "done"}

ASSUME GuardAssumption ==
    /\ \A rules \in RuleOrders : rules \in Seq(Rules) /\ Range(rules) = Rules
    /\ \A q \in Queries : IsQuery(q)

VARIABLES
    query,          \* query[r]: what request r asks, {} before it asks
    outcome,        \* outcome[r]: how far it has come
    logged          \* logged[r]: the literals of the query as the log shows them

requestVars == <<query, outcome, logged>>
vars == <<roleVars, requestVars>>

Init ==
    /\ RoleInit
    /\ query = [r \in Requests |-> {}]
    /\ outcome = [r \in Requests |-> "new"]
    /\ logged = [r \in Requests |-> <<>>]

\* The use case: scrub first, then validate, with the rules in the order in which
\* this start of the gateway registered them; a rejection ends the request.
Ask(r, q) ==
    /\ outcome[r] = "new"
    /\ query' = [query EXCEPT ![r] = {q}]
    /\ logged' = [logged EXCEPT ![r] = Scrub(q.tree)]
    /\ \E rules \in RuleOrders :
        outcome' = [outcome EXCEPT ![r] = Verdict(rules, q.text)]
    /\ UNCHANGED roleVars

\* A client that connects to the database as agent_rw by itself.
AskDirectly(r, q) ==
    /\ outcome[r] = "new"
    /\ query' = [query EXCEPT ![r] = {q}]
    /\ outcome' = [outcome EXCEPT ![r] = "direct"]
    /\ UNCHANGED <<roleVars, logged>>

\* The statement reaches the database, which refuses it, for a privilege or already
\* the login, or runs it.
Execute(r) ==
    /\ outcome[r] \in {"allowed", "direct"}
    /\ \E q \in query[r] :
        outcome' = [outcome EXCEPT ![r] =
            IF Permits(held, q.needs) THEN "done" ELSE "denied"]
    /\ UNCHANGED <<roleVars, query, logged>>

Next ==
    \/ RoleNext /\ UNCHANGED requestVars
    \/ \E r \in Requests, q \in Queries : Ask(r, q) \/ AskDirectly(r, q)
    \/ \E r \in Requests : Execute(r)

Spec == Init /\ [][Next]_vars

-----------------------------------------------------------------------------
TypeOK ==
    /\ held \subseteq Privileges /\ before \subseteq Privileges
    /\ step \in 0..Len(Script)
    /\ runs \in 0..MaxRuns
    /\ cleared \in BOOLEAN /\ installed \in BOOLEAN
    /\ query \in [Requests -> SUBSET Queries]
    /\ outcome \in [Requests -> Codes \cup {"new", "direct", "done", "denied"}]
    /\ logged \in [Requests -> Seq({"kept", "marker", "placeholder"})]

Ran(r) == outcome[r] # "done" /\ outcome'[r] = "done"

\* Once the script has set the role to zero, no statement of the role reads what
\* the script's comments call unreachable: whatever the role could do before,
\* wherever this run or a later one stops, and with or without the first layer.
SecretsStayUnread ==
    [][\A r \in Requests :
        Ran(r) /\ cleared => \A q \in query[r] : q.needs \cap Secrets = {}]_vars

\* "Even if Layer 1 lets a DROP through, this role cannot execute it": nor may it
\* create or truncate a table.
SchemaStaysIntact ==
    [][\A r \in Requests :
        Ran(r) /\ cleared => \A q \in query[r] : \A p \in q.needs : p[1] \notin SchemaKinds]_vars

\* The README's table of scenarios, in whatever order a start registered the rules:
\* each query ends at the layer the table says.  One it has rejected is rejected, for a
\* rule the query breaks; the table's reason is such a rule, but not always the first.
\* One it lets through passes, and with the script complete and a role that may log in
\* the database decides as the table says.
EndsInDocumentedLayer ==
    [][\A r \in Requests : \A q \in query'[r] :
        q.documented # "open" /\ outcome'[r] # outcome[r] =>
            /\ outcome'[r] \in Codes \ {"allowed"} =>
                    {outcome'[r], q.documented} \subseteq Reasons(q.text)
            /\ outcome'[r] = "allowed" => q.documented \in {"denied", "done"}
            /\ outcome[r] = "allowed" /\ installed /\ MayLogIn(held) =>
                    outcome'[r] = q.documented]_vars

Kept(r) == {i \in DOMAIN logged[r] : logged[r][i] = "kept"}

\* A query that reaches the database has been logged without any literal that the
\* scrubber's traversal visits: what it shows is of the classes it passes over.
VisitedLiteralsStayOutOfTheLog ==
    \A r \in Requests : \A q \in query[r] :
        outcome[r] \in {"allowed", "done", "denied"} => Kept(r) \subseteq q.tree.unvisited
=============================================================================
