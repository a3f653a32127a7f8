-------------------------- MODULE RolePermissions --------------------------
(***************************************************************************)
(* The second layer: what init.sql lets the role agent_rw do.  The script  *)
(* is run statement by statement against a new or an existing database,    *)
(* may stop at any statement and may be run again, while the role is in    *)
(* use.                                                                    *)
(*                                                                         *)
(* A privilege is <<kind, object, column>>; column "*" is a privilege on   *)
(* the whole object.                                                       *)
(***************************************************************************)
EXTENDS Integers, Sequences

CONSTANTS
    Earlier,        \* the privileges the role may have had before, as sets
    MaxRuns         \* bound: how often the script is run

Columns ==
    [users |-> {"id", "email", "name", "password_hash", "api_key", "phone",
                "date_of_birth", "ssn", "user", "group", "created_at"},
     addresses |-> {"id", "user_id", "kind", "street", "city", "postal_code",
                    "country", "created_at"},
     products |-> {"id", "sku", "name", "description", "category", "price_cents",
                   "stock", "created_at"},
     orders |-> {"id", "user_id", "amount", "status", "shipping_address_id", "order",
                 "type", "analyse", "created_at"},
     order_items |-> {"id", "order_id", "product_id", "quantity", "unit_price_cents"},
     payments |-> {"id", "order_id", "amount", "method", "card_last_four", "cvv_hash",
                   "transaction_id", "created_at"},
     sessions |-> {"id", "user_id", "session_token", "expires_at", "ip_address",
                   "user_agent", "created_at"},
     api_tokens |-> {"id", "user_id", "label", "token_hash", "scopes", "last_used_at",
                     "created_at"},
     activity_log |-> {"id", "user_id", "event_type", "payload", "created_at"}]

Tables == DOMAIN Columns
ColumnNames == {"*"} \cup UNION {Columns[table] : table \in Tables}

\* The functions of pg_catalog the script names, and any that was put into "public".
FileFunctions ==
    {"pg_read_file(text)", "pg_read_file(text,bigint,bigint)", "pg_ls_dir(text)"}
SchemaFunctions == {"public.function"}
RowKinds == {"SELECT", "INSERT", "UPDATE", "DELETE"}
TableKinds == RowKinds \cup {"TRUNCATE"}

\* What the role may hold: that it is there, the login, and privileges.  It owns
\* nothing, and on pg_catalog and through PUBLIC it has only what everybody may have
\* on the functions above.
Privileges ==
    ({"ROLE", "LOGIN"} \X {"agent_rw"} \X {"*"})
        \cup ({"USAGE", "CREATE"} \X {"public"} \X {"*"})
        \cup ((TableKinds \cup {"NEXTVAL"}) \X Tables \X ColumnNames)
        \cup ({"EXECUTE"} \X SchemaFunctions \X {"*"})
        \cup ({"EXECUTE TO PUBLIC"} \X FileFunctions \X {"*"})

Exists(privileges) == <<"ROLE", "agent_rw", "*">> \in privileges
MayLogIn(privileges) == <<"LOGIN", "agent_rw", "*">> \in privileges

\* A role that is not there holds nothing of its own.
ASSUME RoleAssumption ==
    /\ Earlier \subseteq SUBSET Privileges
    /\ \A privileges \in Earlier :
        Exists(privileges) \/ \A p \in privileges : p[1] = "EXECUTE TO PUBLIC"
    /\ MaxRuns \in Nat

OnTable(kinds, table) == {<<kind, table, "*">> : kind \in kinds}
OnColumns(kind, table, columns) == {<<kind, table, column>> : column \in columns}

-----------------------------------------------------------------------------
(* The statements of the script: what they take, what they give, and what    *)
(* makes them do nothing.  The tables and their rows change no privilege and *)
(* are left out.                                                             *)

Grant(privileges) == [kinds |-> {}, objects |-> {}, grants |-> privileges, unless |-> {}]
Revoke(kinds, objects) == [kinds |-> kinds, objects |-> objects, grants |-> {}, unless |-> {}]

\* IF NOT EXISTS: a role that is there is left as it is, able to log in or not.
CreateRole ==
    [Grant({"ROLE", "LOGIN"} \X {"agent_rw"} \X {"*"})
        EXCEPT !.unless = {<<"ROLE", "agent_rw", "*">>}]

\* "Start from zero."
RevokeSchema == Revoke({"USAGE", "CREATE"}, {"public"})

\* Mutant: only the privileges the script itself gives are taken away.
RevokeTablesOnlyRows == Revoke(RowKinds, Tables)

\* A privilege revoked on a table is revoked on its columns.
RevokeTables == Revoke(TableKinds, Tables)
RevokeSequences == Revoke({"NEXTVAL"}, Tables)
RevokeFunctions == Revoke({"EXECUTE"}, SchemaFunctions)

GrantSchema == Grant({<<"USAGE", "public", "*">>})

\* Mutant: users is granted as a whole, as the other tables are.
GrantUserReadsWhole == Grant(OnTable({"SELECT"}, "users"))

GrantUserReads == Grant(OnColumns("SELECT", "users",
    {"id", "email", "name", "phone", "user", "group", "created_at"}))

\* Mutant: the list misses a column the agent writes.
GrantUserInsertsShort == Grant(OnColumns("INSERT", "users", {"email", "name", "phone"}))

GrantUserInserts == Grant(OnColumns("INSERT", "users",
    {"email", "name", "password_hash", "phone", "date_of_birth"}))
GrantUserUpdates == Grant(OnColumns("UPDATE", "users",
    {"email", "name", "phone", "password_hash"}))
GrantAddresses == Grant(OnTable(RowKinds, "addresses"))
GrantProducts == Grant(OnTable({"SELECT"}, "products"))

\* Mutant: GRANT ALL in the place of the four row privileges.
GrantOrdersAll == Grant(OnTable(TableKinds, "orders"))

GrantOrders == Grant(OnTable(RowKinds, "orders"))
GrantOrderItems == Grant(OnTable(RowKinds, "order_items"))
GrantPayments == Grant(OnColumns("SELECT", "payments",
    {"id", "order_id", "amount", "method", "transaction_id", "created_at"}))
GrantActivityLog == Grant(OnTable({"INSERT"}, "activity_log"))
GrantSequences == Grant({<<"NEXTVAL", table, "*">> : table \in Tables})

RevokeFromPublic(function) == Revoke({"EXECUTE TO PUBLIC"}, {function})

Script ==
    <<CreateRole,
      RevokeSchema, RevokeTables, RevokeSequences, RevokeFunctions,
      GrantSchema, GrantUserReads, GrantUserInserts, GrantUserUpdates,
      GrantAddresses, GrantProducts, GrantOrders, GrantOrderItems,
      GrantPayments, GrantActivityLog, GrantSequences,
      RevokeFromPublic("pg_read_file(text)"),
      RevokeFromPublic("pg_read_file(text,bigint,bigint)"),
      RevokeFromPublic("pg_ls_dir(text)")>>

\* The statement that ends "Start from zero."
ZeroStep == 5

\* What the role is meant to have in the end.
Declared == UNION {Script[i].grants : i \in DOMAIN Script}

VARIABLES
    held,           \* the privileges of agent_rw, through itself or PUBLIC
    before,         \* history: those it had before the first run
    step,           \* the statement of the script to run next, 0 when it does not run
    runs,           \* how often the script was started
    cleared,        \* history: the role was set to zero at least once
    installed       \* history: the last run of the script was complete

roleVars == <<held, before, step, runs, cleared, installed>>

RoleInit ==
    /\ held \in Earlier
    /\ before = held
    /\ step = 0
    /\ runs = 0
    /\ cleared = FALSE
    /\ installed = FALSE

StartScript ==
    /\ step = 0
    /\ runs < MaxRuns
    /\ step' = 1
    /\ runs' = runs + 1
    /\ installed' = FALSE
    /\ UNCHANGED <<held, before, cleared>>

After(statement, privileges) ==
    IF statement.unless \cap privileges # {} THEN privileges
    ELSE {p \in privileges : ~(p[1] \in statement.kinds /\ p[2] \in statement.objects)}
            \cup statement.grants

\* One statement, in a transaction of its own.
RunStatement ==
    /\ step # 0
    /\ held' = After(Script[step], held)
    /\ step' = IF step = Len(Script) THEN 0 ELSE step + 1
    /\ cleared' = (cleared \/ step = ZeroStep)
    /\ installed' = (step = Len(Script))
    /\ UNCHANGED <<before, runs>>

\* A statement fails, or the connection is lost: the script stops there.
StopScript ==
    /\ step # 0
    /\ step' = 0
    /\ UNCHANGED <<held, before, runs, cleared, installed>>

RoleNext == StartScript \/ RunStatement \/ StopScript

\* How PostgreSQL decides on one privilege a statement needs.
Grants(privileges, p) ==
    \/ p \in privileges
    \/ <<p[1], p[2], "*">> \in privileges
    \/ p[1] = "EXECUTE" /\ <<"EXECUTE TO PUBLIC", p[2], "*">> \in privileges

Permits(privileges, needs) ==
    /\ MayLogIn(privileges)
    /\ \A p \in needs : Grants(privileges, p)

-----------------------------------------------------------------------------
\* What no statement of the role may read: "unreachable", "no permissions at all"
\* and "never reads them" in the comments of the script.
Secrets ==
    OnColumns("SELECT", "users", {"password_hash", "api_key", "ssn", "date_of_birth"})
        \cup OnColumns("SELECT", "payments", {"card_last_four", "cvv_hash"})
        \cup UNION {OnColumns("SELECT", table, Columns[table]) :
                        table \in {"sessions", "api_tokens", "activity_log"}}

\* What only the owner of the schema may do.
SchemaKinds == {"OWN", "CREATE", "TRUNCATE"}

\* An existing role that may not log in.
NoLogin(privileges) == Exists(privileges) /\ ~MayLogIn(privileges)

\* A complete run leaves exactly the declared privileges, whatever the role had
\* before and wherever earlier runs had stopped.  One thing is not in the script's
\* hands: a role that was there without LOGIN is left without it.
CompleteMeansDeclared ==
    installed =>
        held = IF NoLogin(before) THEN Declared \ {<<"LOGIN", "agent_rw", "*">>} ELSE Declared
=============================================================================
