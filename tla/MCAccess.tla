------------------------------ MODULE MCAccess ------------------------------
(* AccessGuard on small instances.                                         *)
EXTENDS AccessGuard

\* The listing by name, and the listings that begin with each of the other files.
ByName == <<"root_not_allowed", "unbounded_write", "dangerous_function",
            "data_modifying_cte", "forbidden_construct", "select_into">>
EachFirst == {SubSeq(ByName, i, 6) \o SubSeq(ByName, 1, i - 1) : i \in 1..6}

\* A new database; one whose role was once granted whole tables; one on which an
\* administrator had also let everybody read files and create tables; one whose role
\* may not log in.
EarlierRights ==
    LET wide == {<<"ROLE", "agent_rw", "*">>, <<"LOGIN", "agent_rw", "*">>,
                 <<"USAGE", "public", "*">>}
                    \cup OnTable(TableKinds, "users") \cup OnTable({"SELECT"}, "sessions")
    IN  {{}, wide, wide \cup {<<"CREATE", "public", "*">>}
                        \cup ({"EXECUTE"} \X SchemaFunctions \X {"*"})
                        \cup ({"EXECUTE TO PUBLIC"} \X FileFunctions \X {"*"}),
         wide \ {<<"LOGIN", "agent_rw", "*">>}}

Text(root, inner, where) ==
    [kind |-> "single",
     statement |-> {[root |-> root, inner |-> inner, where |-> where, into |-> FALSE]}]
Broken(code) == [kind |-> code, statement |-> {}]

NoLiterals == [parsed |-> TRUE, lone |-> FALSE, size |-> 0, unvisited |-> {},
               assignments |-> {}, inserts |-> {}]
Literals(n) == [NoLiterals EXCEPT !.size = n]

Query(text, tree, privileges, documented) ==
    [text |-> text, tree |-> tree, documented |-> documented,
     needs |-> {<<"USAGE", "public", "*">>} \cup privileges]

Reads(table, columns) == OnColumns("SELECT", table, columns)

Demo ==
    {Query(Text("Select", {}, TRUE), Literals(1),
        Reads("users", {"id", "email", "name"}), "done"),
     Query(Text("Ddl", {}, FALSE), NoLiterals, {<<"OWN", "users", "*">>}, "root_not_allowed"),
     Query(Text("Delete", {}, FALSE), NoLiterals, OnTable({"DELETE"}, "orders"),
        "unbounded_write"),
     Query(Text("Select", {"Write"}, FALSE), Literals(1),
        OnTable({"DELETE", "SELECT"}, "orders"), "data_modifying_cte"),
     Query(Text("Select", {"DangerousCall"}, FALSE), Literals(1),
        {<<"EXECUTE", "pg_read_file(text)", "*">>}, "dangerous_function"),
     Query(Broken("multi_statement"), Literals(1), {<<"OWN", "users", "*">>},
        "multi_statement"),
     Query(Text("Select", {}, TRUE), Literals(1), Reads("users", {"id", "password_hash"}),
        "denied"),
     Query(Text("Select", {}, TRUE), Literals(1), Reads("users", Columns.users), "denied"),
     Query(Text("Update", {}, TRUE),
        [Literals(2) EXCEPT !.assignments =
            {[target |-> "column", columns |-> <<"status">>, listed |-> FALSE,
              values |-> <<{1}>>]}],
        OnColumns("UPDATE", "orders", {"status"}) \cup Reads("orders", {"id"}), "done"),
     Query(Text("Insert", {}, FALSE),
        [Literals(3) EXCEPT !.inserts =
            {[columns |-> <<"email", "name", "password_hash">>, source |-> "values",
              rows |-> {<<{1}, {2}, {3}>>}]}],
        OnColumns("INSERT", "users", {"email", "name", "password_hash"})
            \cup {<<"NEXTVAL", "users", "*">>}, "done")}

\* Statements the table has no row for, some of which only the second layer stops.
Open ==
    {Query(Text("Select", {}, FALSE), NoLiterals, Reads("sessions", Columns.sessions), "open"),
     Query(Text("Select", {}, FALSE), NoLiterals, Reads("payments", {"cvv_hash"}), "open"),
     Query(Text("Insert", {}, FALSE), Literals(2), OnTable({"INSERT"}, "activity_log")
        \cup {<<"NEXTVAL", "activity_log", "*">>}, "open"),
     Query(Text("Ddl", {}, FALSE), NoLiterals, {<<"TRUNCATE", "orders", "*">>}, "open"),
     Query(Text("Ddl", {}, FALSE), NoLiterals, {<<"CREATE", "public", "*">>}, "open"),
     Query(Text("Other", {}, FALSE), [Literals(1) EXCEPT !.lone = TRUE], {}, "open"),
     Query(Broken("parse_error"), [NoLiterals EXCEPT !.parsed = FALSE], {}, "open"),
     Query(Text("Update", {}, TRUE),
        [Literals(3) EXCEPT !.assignments =
            {[target |-> "tuple", columns |-> <<"name", "password_hash">>, listed |-> TRUE,
              values |-> <<{1}, {2}>>]}],
        OnColumns("UPDATE", "users", {"name", "password_hash"}) \cup Reads("users", {"id"}),
        "open"),
     \* UPDATE users SET password_hash = E'...' WHERE id = 1
     Query(Text("Update", {}, TRUE),
        [Literals(2) EXCEPT !.unvisited = {1}, !.assignments =
            {[target |-> "column", columns |-> <<"password_hash">>, listed |-> FALSE,
              values |-> <<{1}>>]}],
        OnColumns("UPDATE", "users", {"password_hash"}) \cup Reads("users", {"id"}),
        "open")}

AllQueries == Demo \cup Open
=============================================================================
