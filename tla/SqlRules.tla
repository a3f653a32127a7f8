------------------------------ MODULE SqlRules ------------------------------
(***************************************************************************)
(* What the SQL validator reads of a payload, the check of each of the six *)
(* rules, and the verdict of a list of rules.  Parsing is sqlglot's.       *)
(***************************************************************************)
EXTENDS Integers, Sequences

\* The rule classes of the postgres adapter, by the code they reject with.
Rules == {"root_not_allowed", "unbounded_write", "dangerous_function",
          "data_modifying_cte", "forbidden_construct", "select_into"}

Writes == {"Insert", "Update", "Delete"}

\* A parsed statement: the type of its root ("Ddl" for the types of
\* FORBIDDEN_TYPES, "Other" for any other type that is no allowed root), what
\* occurs below the root, and whether the root has a WHERE or an INTO.
StatementType ==
    [root: Writes \cup {"Select", "Ddl", "Other"},
     inner: SUBSET {"Write", "Ddl", "DangerousCall"},
     where: BOOLEAN, into: BOOLEAN]

\* A payload by the branch of validate() it takes: not a string; blank or without
\* a statement; refused by the parser; several statements; one.
Unjudged == {"payload_type_mismatch", "empty_query", "parse_error", "multi_statement"}
TextType == [kind: Unjudged, statement: {{}}]
                \cup [kind: {"single"}, statement: {{s} : s \in StatementType}]

\* The check() of each rule, as the condition under which it rejects.
RootIsForeign(s) == s.root \notin Writes \cup {"Select"}
WriteIsUnbounded(s) == s.root \in {"Update", "Delete"} /\ ~s.where
CallsDangerously(s) == "DangerousCall" \in s.inner
NestsWrite(s) == "Write" \in s.inner
HoldsForbidden(s) == s.root = "Ddl" \/ "Ddl" \in s.inner
SelectsInto(s) == s.root = "Select" /\ s.into

Rejects(rule, s) ==
    CASE rule = "root_not_allowed" -> RootIsForeign(s)
      [] rule = "unbounded_write" -> WriteIsUnbounded(s)
      [] rule = "dangerous_function" -> CallsDangerously(s)
      [] rule = "data_modifying_cte" -> NestsWrite(s)
      [] rule = "forbidden_construct" -> HoldsForbidden(s)
      [] rule = "select_into" -> SelectsInto(s)

\* The loop of validate(): the first rule that rejects gives its code.
FirstRejections(rules, s) ==
    {i \in DOMAIN rules :
        Rejects(rules[i], s) /\ \A j \in 1..i - 1 : ~Rejects(rules[j], s)}

\* Mutant: a later rule overrules an earlier rejection.
JudgeLastWins(rules, s) ==
    IF Rejects(rules[Len(rules)], s) THEN rules[Len(rules)] ELSE "allowed"

Judge(rules, s) ==
    IF FirstRejections(rules, s) = {} THEN "allowed"
    ELSE rules[CHOOSE i \in FirstRejections(rules, s) : TRUE]

\* The code validate() answers for a payload.
Verdict(rules, text) ==
    IF text.kind = "single" THEN Judge(rules, CHOOSE s \in text.statement : TRUE)
    ELSE text.kind

Codes == Rules \cup Unjudged \cup {"allowed"}

\* All that speaks against a payload: every rule it breaks, or its early verdict.
Reasons(text) ==
    IF text.kind = "single"
    THEN {rule \in Rules : \E s \in text.statement : Rejects(rule, s)}
    ELSE {text.kind}

\* What the gateway lets through, independently of any rule order: exactly one
\* statement, a read or a write at the root, bounded if it updates or deletes,
\* creating no table, with no write, DDL or blocked call below the root.
MayRun(text) ==
    /\ text.kind = "single"
    /\ \A s \in text.statement :
        /\ s.root \in {"Select", "Insert", "Update", "Delete"}
        /\ s.root \in {"Update", "Delete"} => s.where
        /\ s.root = "Select" => ~s.into
        /\ s.inner = {}
=============================================================================
