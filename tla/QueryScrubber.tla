--------------------------- MODULE QueryScrubber ---------------------------
(***************************************************************************)
(* The scrubber: a statement is logged with every literal replaced, by a   *)
(* marker where the literal is written to a column with a sensitive name,  *)
(* by a numbered placeholder elsewhere.  A literal is a number here.       *)
(*                                                                         *)
(* What find_all(exp.Literal) visits are strings and numbers.  The parser  *)
(* has classes of their own for E'..', $$..$$, b'..' and x'..', which it   *)
(* does not visit: tree.unvisited.                                         *)
(***************************************************************************)
EXTENDS Integers, Sequences, Functions

\* The columns of the schema whose name the sensitive pattern finds; it finds
\* "pin" in shipping_address_id.
SensitiveColumns ==
    {"password_hash", "api_key", "ssn", "cvv_hash", "session_token", "token_hash",
     "shipping_address_id"}

\* One assignment of an UPDATE's SET list: a column or a tuple of columns, and the
\* literals in the value, or in each member of it when the value is a tuple too.
\* A target of any other kind is not looked at.
AssignmentMarks(a) ==
    LET sensitive == {i \in DOMAIN a.columns : a.columns[i] \in SensitiveColumns}
    IN  CASE a.target = "column" /\ sensitive # {} -> UNION Range(a.values)
          [] a.target = "tuple" /\ a.listed ->
                UNION {a.values[i] : i \in sensitive \cap DOMAIN a.values}
          [] OTHER -> {}

\* An INSERT: its column list (empty when it has none), and the literals of each
\* value of each row of VALUES, or of each projection of a SELECT.  Other sources
\* are not looked at.
InsertMarks(insert) ==
    LET sensitive == {i \in DOMAIN insert.columns : insert.columns[i] \in SensitiveColumns}
    IN  IF insert.source \in {"values", "select"}
        THEN UNION {UNION {row[i] : i \in sensitive \cap DOMAIN row} : row \in insert.rows}
        ELSE {}

\* The literals that get a marker, of every UPDATE and INSERT in the statement.
Marked(tree) ==
    UNION {AssignmentMarks(a) : a \in tree.assignments}
        \cup UNION {InsertMarks(insert) : insert \in tree.inserts}

\* Mutant: only the sensitive literals are replaced.
FateOnlySensitive(tree, i) ==
    IF i \in Marked(tree) \ tree.unvisited THEN "marker" ELSE "kept"

\* replace() puts a node into the place of a visited literal below its parent.  A
\* statement that is one literal has no parent, and keeps it.
Fate(tree, i) ==
    CASE tree.lone \/ i \in tree.unvisited -> "kept"
      [] i \in Marked(tree) -> "marker"
      [] OTHER -> "placeholder"

\* What the log shows in the place of each literal; a payload that does not parse
\* is logged as <unparseable>, without any.
Scrub(tree) ==
    IF tree.parsed THEN [i \in 1..tree.size |-> Fate(tree, i)] ELSE <<>>
=============================================================================
