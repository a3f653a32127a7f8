------------------------- MODULE AccessGuardProofs -------------------------
(* Theorems about RolePermissions and AccessGuard, for every set of        *)
(* queries, every earlier state of the role and any number of runs.        *)
EXTENDS AccessGuard, SequenceTheorems, TLAPS

\* What is proved of the validator's verdict, for any order of the rules.
ValidatorProofs == INSTANCE QueryValidatorProofs
    WITH Texts <- {}, MaxCalls <- 0, registered <- <<>>, cache <- <<>>, serving <- TRUE,
         calls <- <<>>

-----------------------------------------------------------------------------
(* What the statements of the script are.                                  *)

LEMMA TableNames ==
    Tables = {"users", "addresses", "products", "orders", "order_items", "payments",
              "sessions", "api_tokens", "activity_log"}
BY DEF Tables, Columns

LEMMA UserColumns ==
    {"id", "email", "name", "password_hash", "phone", "date_of_birth", "user", "group",
     "created_at"} \subseteq ColumnNames
<1>1. /\ "users" \in Tables
      /\ Columns["users"] = {"id", "email", "name", "password_hash", "api_key", "phone",
                            "date_of_birth", "ssn", "user", "group", "created_at"}
    BY DEF Tables, Columns
<1> QED
    BY <1>1 DEF ColumnNames

LEMMA PaymentColumns ==
    {"id", "order_id", "amount", "method", "transaction_id", "created_at"} \subseteq ColumnNames
<1>1. /\ "payments" \in Tables
      /\ Columns["payments"] = {"id", "order_id", "amount", "method", "card_last_four",
                               "cvv_hash", "transaction_id", "created_at"}
    BY DEF Tables, Columns
<1> QED
    BY <1>1 DEF ColumnNames

\* What the script may give the role once it is there: no right on the schema, nothing
\* to everybody, and of the reads only those of columns that are no secret.
Harmless(p) ==
    /\ p[1] \notin SchemaKinds \cup {"EXECUTE", "EXECUTE TO PUBLIC", "ROLE", "LOGIN"}
    /\ p[1] = "SELECT" =>
        \/ p[2] = "users" /\ p[3] \in {"id", "email", "name", "phone", "user", "group",
                                       "created_at"}
        \/ p[2] = "payments" /\ p[3] \in {"id", "order_id", "amount", "method",
                                          "transaction_id", "created_at"}
        \/ p[2] \in {"addresses", "products", "orders", "order_items"}

LEMMA TableRights ==
    ASSUME NEW kind \in TableKinds \cup {"NEXTVAL"}, NEW table \in Tables,
           NEW column \in ColumnNames
    PROVE  <<kind, table, column>> \in Privileges
BY DEF Privileges

LEMMA StarIsAColumnName == "*" \in ColumnNames
BY DEF ColumnNames

\* A grant on a table, or on some of its columns, that reads no secret.
LEMMA TableGrantIsHarmless ==
    ASSUME NEW kinds \in SUBSET RowKinds, NEW table \in Tables, NEW p \in OnTable(kinds, table),
           "SELECT" \in kinds => table \in {"addresses", "products", "orders", "order_items"}
    PROVE  Harmless(p) /\ p \in Privileges
<1>1. PICK kind \in kinds : p = <<kind, table, "*">>
    BY DEF OnTable
<1>2. p \in Privileges
    BY <1>1, TableRights, StarIsAColumnName DEF TableKinds
<1>3. p[1] = kind /\ p[2] = table
    BY <1>1
<1> QED
    BY <1>2, <1>3 DEF Harmless, RowKinds, SchemaKinds

LEMMA ColumnGrantIsHarmless ==
    ASSUME NEW kind \in RowKinds, NEW table \in Tables, NEW columns \in SUBSET ColumnNames,
           NEW p \in OnColumns(kind, table, columns),
           kind = "SELECT" =>
              \/ table = "users" /\ columns \subseteq {"id", "email", "name", "phone", "user",
                                                      "group", "created_at"}
              \/ table = "payments" /\ columns \subseteq {"id", "order_id", "amount", "method",
                                                         "transaction_id", "created_at"}
    PROVE  Harmless(p) /\ p \in Privileges
<1>1. PICK column \in columns : p = <<kind, table, column>>
    BY DEF OnColumns
<1>2. p \in Privileges
    BY <1>1, TableRights DEF TableKinds
<1>3. p[1] = kind /\ p[2] = table /\ p[3] = column
    BY <1>1
<1> QED
    BY <1>2, <1>3 DEF Harmless, RowKinds, SchemaKinds

OnlyHarmless(privileges) == \A p \in privileges : Harmless(p) /\ p \in Privileges

LEMMA ScriptSteps ==
    /\ Len(Script) = 19
    /\ DOMAIN Script = 1..19
BY DEF Script

\* The role itself and its login, which only the first statement gives.
Role == <<"ROLE", "agent_rw", "*">>
Login == <<"LOGIN", "agent_rw", "*">>

LEMMA RoleAndLogin ==
    /\ Role[1] = "ROLE" /\ Login[1] = "LOGIN" /\ Role # Login
    /\ Role \in Privileges /\ Login \in Privileges
<1>1. Role[1] = "ROLE" /\ Login[1] = "LOGIN"
    BY DEF Role, Login
<1>2. {Role, Login} \subseteq {"ROLE", "LOGIN"} \X {"agent_rw"} \X {"*"}
    BY DEF Role, Login
<1> QED
    BY <1>1, <1>2 DEF Privileges

LEMMA RoleCreation ==
    /\ Script[1].grants = {Role, Login}
    /\ Script[1].kinds = {}
    /\ Script[1].unless = {Role}
<1>1. {"ROLE", "LOGIN"} \X {"agent_rw"} \X {"*"} = {Role, Login}
    BY DEF Role, Login
<1>2. Script[1] = CreateRole
    BY DEF Script
<1> QED
    BY <1>1, <1>2 DEF CreateRole, Grant, Role

\* Every other statement does its work whatever there is.
LEMMA NothingElseIsSkipped == \A i \in 2..19 : Script[i].unless = {}
<1>1. /\ Script[2].unless = {} /\ Script[3].unless = {} /\ Script[4].unless = {}
      /\ Script[5].unless = {}
    BY DEF Script, RevokeSchema, RevokeTables, RevokeSequences, RevokeFunctions, Revoke
<1>2. /\ Script[6].unless = {} /\ Script[7].unless = {} /\ Script[8].unless = {}
      /\ Script[9].unless = {}
    BY DEF Script, GrantSchema, GrantUserReads, GrantUserInserts, GrantUserUpdates, Grant
<1>3. /\ Script[10].unless = {} /\ Script[11].unless = {} /\ Script[12].unless = {}
      /\ Script[13].unless = {}
    BY DEF Script, GrantAddresses, GrantProducts, GrantOrders, GrantOrderItems, Grant
<1>4. /\ Script[14].unless = {} /\ Script[15].unless = {} /\ Script[16].unless = {}
    BY DEF Script, GrantPayments, GrantActivityLog, GrantSequences, Grant
<1>5. /\ Script[17].unless = {} /\ Script[18].unless = {} /\ Script[19].unless = {}
    BY DEF Script, RevokeFromPublic, Revoke
<1> QED
    BY <1>1, <1>2, <1>3, <1>4, <1>5

\* What each of the other statements gives.
LEMMA ScriptGrantsAreHarmless ==
    /\ OnlyHarmless(Script[2].grants)
    /\ OnlyHarmless(Script[3].grants)
    /\ OnlyHarmless(Script[4].grants)
    /\ OnlyHarmless(Script[5].grants)
    /\ OnlyHarmless(Script[6].grants)
    /\ OnlyHarmless(Script[7].grants)
    /\ OnlyHarmless(Script[8].grants)
    /\ OnlyHarmless(Script[9].grants)
    /\ OnlyHarmless(Script[10].grants)
    /\ OnlyHarmless(Script[11].grants)
    /\ OnlyHarmless(Script[12].grants)
    /\ OnlyHarmless(Script[13].grants)
    /\ OnlyHarmless(Script[14].grants)
    /\ OnlyHarmless(Script[15].grants)
    /\ OnlyHarmless(Script[16].grants)
    /\ OnlyHarmless(Script[17].grants)
    /\ OnlyHarmless(Script[18].grants)
    /\ OnlyHarmless(Script[19].grants)
<1>2. OnlyHarmless(Script[2].grants)
    <2>1. Script[2].grants = {}
        BY DEF Script, RevokeSchema, Revoke
    <2> QED
        BY <2>1 DEF OnlyHarmless
<1>3. OnlyHarmless(Script[3].grants)
    <2>1. Script[3].grants = {}
        BY DEF Script, RevokeTables, Revoke
    <2> QED
        BY <2>1 DEF OnlyHarmless
<1>4. OnlyHarmless(Script[4].grants)
    <2>1. Script[4].grants = {}
        BY DEF Script, RevokeSequences, Revoke
    <2> QED
        BY <2>1 DEF OnlyHarmless
<1>5. OnlyHarmless(Script[5].grants)
    <2>1. Script[5].grants = {}
        BY DEF Script, RevokeFunctions, Revoke
    <2> QED
        BY <2>1 DEF OnlyHarmless
<1>6. OnlyHarmless(Script[6].grants)
    <2>1. Script[6].grants = {<<"USAGE", "public", "*">>}
        BY DEF Script, GrantSchema, Grant
    <2>2. Harmless(<<"USAGE", "public", "*">>)
        BY DEF Harmless, SchemaKinds
    <2>3. <<"USAGE", "public", "*">> \in Privileges
        BY DEF Privileges
    <2> QED
        BY <2>1, <2>2, <2>3 DEF OnlyHarmless
<1>7. OnlyHarmless(Script[7].grants)
    <2>1. Script[7].grants = OnColumns("SELECT", "users",
                {"id", "email", "name", "phone", "user", "group", "created_at"})
        BY DEF Script, GrantUserReads, Grant
    <2> QED
        BY <2>1, TableNames, UserColumns, ColumnGrantIsHarmless DEF OnlyHarmless, RowKinds
<1>8. OnlyHarmless(Script[8].grants)
    <2>1. Script[8].grants = OnColumns("INSERT", "users",
                {"email", "name", "password_hash", "phone", "date_of_birth"})
        BY DEF Script, GrantUserInserts, Grant
    <2> QED
        BY <2>1, TableNames, UserColumns, ColumnGrantIsHarmless DEF OnlyHarmless, RowKinds
<1>9. OnlyHarmless(Script[9].grants)
    <2>1. Script[9].grants = OnColumns("UPDATE", "users",
                {"email", "name", "phone", "password_hash"})
        BY DEF Script, GrantUserUpdates, Grant
    <2> QED
        BY <2>1, TableNames, UserColumns, ColumnGrantIsHarmless DEF OnlyHarmless, RowKinds
<1>10. OnlyHarmless(Script[10].grants)
    <2>1. Script[10].grants = OnTable(RowKinds, "addresses")
        BY DEF Script, GrantAddresses, Grant
    <2> QED
        BY <2>1, TableNames, TableGrantIsHarmless DEF OnlyHarmless, RowKinds
<1>11. OnlyHarmless(Script[11].grants)
    <2>1. Script[11].grants = OnTable({"SELECT"}, "products")
        BY DEF Script, GrantProducts, Grant
    <2> QED
        BY <2>1, TableNames, TableGrantIsHarmless DEF OnlyHarmless, RowKinds
<1>12. OnlyHarmless(Script[12].grants)
    <2>1. Script[12].grants = OnTable(RowKinds, "orders")
        BY DEF Script, GrantOrders, Grant
    <2> QED
        BY <2>1, TableNames, TableGrantIsHarmless DEF OnlyHarmless, RowKinds
<1>13. OnlyHarmless(Script[13].grants)
    <2>1. Script[13].grants = OnTable(RowKinds, "order_items")
        BY DEF Script, GrantOrderItems, Grant
    <2> QED
        BY <2>1, TableNames, TableGrantIsHarmless DEF OnlyHarmless, RowKinds
<1>14. OnlyHarmless(Script[14].grants)
    <2>1. Script[14].grants = OnColumns("SELECT", "payments",
                {"id", "order_id", "amount", "method", "transaction_id", "created_at"})
        BY DEF Script, GrantPayments, Grant
    <2> QED
        BY <2>1, TableNames, PaymentColumns, ColumnGrantIsHarmless DEF OnlyHarmless, RowKinds
<1>15. OnlyHarmless(Script[15].grants)
    <2>1. Script[15].grants = OnTable({"INSERT"}, "activity_log")
        BY DEF Script, GrantActivityLog, Grant
    <2> QED
        BY <2>1, TableNames, TableGrantIsHarmless DEF OnlyHarmless, RowKinds
<1>16. OnlyHarmless(Script[16].grants)
    <2>1. Script[16].grants = {<<"NEXTVAL", table, "*">> : table \in Tables}
        BY DEF Script, GrantSequences, Grant
    <2>2. \A table \in Tables : Harmless(<<"NEXTVAL", table, "*">>)
        BY DEF Harmless, SchemaKinds
    <2>3. \A table \in Tables : <<"NEXTVAL", table, "*">> \in Privileges
        BY TableRights, StarIsAColumnName
    <2> QED
        BY <2>1, <2>2, <2>3 DEF OnlyHarmless
<1>17. OnlyHarmless(Script[17].grants)
    <2>1. Script[17].grants = {}
        BY DEF Script, RevokeFromPublic, Revoke
    <2> QED
        BY <2>1 DEF OnlyHarmless
<1>18. OnlyHarmless(Script[18].grants)
    <2>1. Script[18].grants = {}
        BY DEF Script, RevokeFromPublic, Revoke
    <2> QED
        BY <2>1 DEF OnlyHarmless
<1>19. OnlyHarmless(Script[19].grants)
    <2>1. Script[19].grants = {}
        BY DEF Script, RevokeFromPublic, Revoke
    <2> QED
        BY <2>1 DEF OnlyHarmless
<1> QED
    BY <1>2, <1>3, <1>4, <1>5, <1>6, <1>7, <1>8, <1>9, <1>10,
        <1>11, <1>12, <1>13, <1>14, <1>15, <1>16, <1>17, <1>18, <1>19

LEMMA GrantsAreHarmless == \A i \in 2..19 : OnlyHarmless(Script[i].grants)
BY ScriptGrantsAreHarmless

LEMMA DeclaredIsHarmless ==
    ASSUME NEW p \in Declared
    PROVE  p \in {Role, Login} \/ (Harmless(p) /\ p \in Privileges)
<1>1. PICK i \in 1..19 : p \in Script[i].grants
    BY ScriptSteps DEF Declared
<1>2. i = 1 \/ i \in 2..19
    OBVIOUS
<1> QED
    BY <1>1, <1>2, RoleCreation, GrantsAreHarmless DEF OnlyHarmless

\* All a statement of the script may give is declared, and it is all that is.
LEMMA DeclaredIsGranted ==
    ASSUME NEW i \in 1..19
    PROVE  Script[i].grants \subseteq Declared
BY ScriptSteps DEF Declared

-----------------------------------------------------------------------------
(* What the statements that take privileges away take.                     *)

Takes(statement, p) == p[1] \in statement.kinds /\ p[2] \in statement.objects

LEMMA Revokes ==
    /\ Script[2].kinds = {"USAGE", "CREATE"} /\ Script[2].objects = {"public"}
    /\ Script[3].kinds = TableKinds /\ Script[3].objects = Tables
    /\ Script[4].kinds = {"NEXTVAL"} /\ Script[4].objects = Tables
    /\ Script[5].kinds = {"EXECUTE"} /\ Script[5].objects = SchemaFunctions
    /\ Script[17].kinds = {"EXECUTE TO PUBLIC"}
    /\ Script[17].objects = {"pg_read_file(text)"}
    /\ Script[18].kinds = {"EXECUTE TO PUBLIC"}
    /\ Script[18].objects = {"pg_read_file(text,bigint,bigint)"}
    /\ Script[19].kinds = {"EXECUTE TO PUBLIC"}
    /\ Script[19].objects = {"pg_ls_dir(text)"}
<1>1. Script[2].kinds = {"USAGE", "CREATE"} /\ Script[2].objects = {"public"}
    BY DEF Script, RevokeSchema, Revoke
<1>2. Script[3].kinds = TableKinds /\ Script[3].objects = Tables
    BY DEF Script, RevokeTables, Revoke
<1>3. Script[4].kinds = {"NEXTVAL"} /\ Script[4].objects = Tables
    BY DEF Script, RevokeSequences, Revoke
<1>4. Script[5].kinds = {"EXECUTE"} /\ Script[5].objects = SchemaFunctions
    BY DEF Script, RevokeFunctions, Revoke
<1>5. /\ Script[17].kinds = {"EXECUTE TO PUBLIC"}
      /\ Script[17].objects = {"pg_read_file(text)"}
    BY DEF Script, RevokeFromPublic, Revoke
<1>6. /\ Script[18].kinds = {"EXECUTE TO PUBLIC"}
      /\ Script[18].objects = {"pg_read_file(text,bigint,bigint)"}
    BY DEF Script, RevokeFromPublic, Revoke
<1>7. /\ Script[19].kinds = {"EXECUTE TO PUBLIC"}
      /\ Script[19].objects = {"pg_ls_dir(text)"}
    BY DEF Script, RevokeFromPublic, Revoke
<1> QED
    BY <1>1, <1>2, <1>3, <1>4, <1>5, <1>6, <1>7

LEMMA ScriptTakesNothing == \A i \in {1} \cup 6..16 : Script[i].kinds = {}
<1>1. Script[1].kinds = {} /\ Script[6].kinds = {}
    BY RoleCreation DEF Script, GrantSchema, Grant
<1>2. Script[7].kinds = {} /\ Script[8].kinds = {} /\ Script[9].kinds = {}
    BY DEF Script, GrantUserReads, GrantUserInserts, GrantUserUpdates, Grant
<1>3. Script[10].kinds = {} /\ Script[11].kinds = {} /\ Script[12].kinds = {}
    BY DEF Script, GrantAddresses, GrantProducts, GrantOrders, Grant
<1>4. Script[13].kinds = {} /\ Script[14].kinds = {}
    BY DEF Script, GrantOrderItems, GrantPayments, Grant
<1>5. Script[15].kinds = {} /\ Script[16].kinds = {}
    BY DEF Script, GrantActivityLog, GrantSequences, Grant
<1> QED
    BY <1>1, <1>2, <1>3, <1>4, <1>5

LEMMA KindsTaken ==
    /\ \A i \in 2..5 : {"ROLE", "LOGIN"} \cap Script[i].kinds = {}
    /\ \A i \in 17..19 : Script[i].kinds = {"EXECUTE TO PUBLIC"}
<1> DEFINE Given(kinds) == {"ROLE", "LOGIN"} \cap kinds = {}
<1>1. Given(TableKinds)
    BY DEF TableKinds, RowKinds
<1>2. /\ Given(Script[2].kinds) /\ Given(Script[3].kinds)
      /\ Given(Script[4].kinds) /\ Given(Script[5].kinds)
    BY <1>1, Revokes
<1>3. /\ Script[17].kinds = {"EXECUTE TO PUBLIC"}
      /\ Script[18].kinds = {"EXECUTE TO PUBLIC"}
      /\ Script[19].kinds = {"EXECUTE TO PUBLIC"}
    BY Revokes
<1>4. \A i \in 2..5 : Given(Script[i].kinds)
    <2>1. \A i \in 2..5 : i = 2 \/ i = 3 \/ i = 4 \/ i = 5
        OBVIOUS
    <2> QED
        BY <1>2, <2>1, Zenon
<1>5. \A i \in 17..19 : Script[i].kinds = {"EXECUTE TO PUBLIC"}
    <2>1. \A i \in 17..19 : i = 17 \/ i = 18 \/ i = 19
        OBVIOUS
    <2> QED
        BY <1>3, <2>1, Zenon
<1> QED
    BY <1>4, <1>5

\* Until the role is set to zero, the script gives nothing but the role and its login.
LEMMA EarlyGrants == \A i \in 2..5 : Script[i].grants = {}
<1>1. /\ Script[2].grants = {} /\ Script[3].grants = {}
      /\ Script[4].grants = {} /\ Script[5].grants = {}
    BY DEF Script, RevokeSchema, RevokeTables, RevokeSequences, RevokeFunctions, Revoke
<1> QED
    BY <1>1

\* The kinds of privilege there are, and on what.
LEMMA PrivilegeKinds ==
    ASSUME NEW p \in Privileges
    PROVE  \/ p \in {Role, Login}
           \/ p[1] \in {"USAGE", "CREATE"} /\ p[2] = "public"
           \/ p[1] \in TableKinds \cup {"NEXTVAL"} /\ p[2] \in Tables
           \/ p[1] = "EXECUTE" /\ p[2] \in SchemaFunctions
           \/ p[1] = "EXECUTE TO PUBLIC" /\ p[2] \in FileFunctions
<1> DEFINE P1 == {"ROLE", "LOGIN"} \X {"agent_rw"} \X {"*"}
           P2 == {"USAGE", "CREATE"} \X {"public"} \X {"*"}
           P3 == (TableKinds \cup {"NEXTVAL"}) \X Tables \X ColumnNames
           P4 == {"EXECUTE"} \X SchemaFunctions \X {"*"}
           P5 == {"EXECUTE TO PUBLIC"} \X FileFunctions \X {"*"}
<1>1. p \in P1 \/ p \in P2 \/ p \in P3 \/ p \in P4 \/ p \in P5
    BY DEF Privileges
<1>2. p \in P1 => p \in {Role, Login}
    BY DEF Role, Login
<1>3. p \in P2 => p[1] \in {"USAGE", "CREATE"} /\ p[2] = "public"
    OBVIOUS
<1>4. p \in P3 => p[1] \in TableKinds \cup {"NEXTVAL"} /\ p[2] \in Tables
    OBVIOUS
<1>5. p \in P4 => p[1] = "EXECUTE" /\ p[2] \in SchemaFunctions
    OBVIOUS
<1>6. p \in P5 => p[1] = "EXECUTE TO PUBLIC" /\ p[2] \in FileFunctions
    OBVIOUS
<1> HIDE DEF P1, P2, P3, P4, P5
<1> QED
    BY <1>1, <1>2, <1>3, <1>4, <1>5, <1>6

LEMMA PrivilegeObjects ==
    ASSUME NEW p \in Privileges
    PROVE  /\ p[1] \in {"USAGE", "CREATE"} => p[2] = "public"
           /\ p[1] \in TableKinds => p[2] \in Tables
<1> DEFINE kind == p[1]
           object == p[2]
<1>1. \/ kind \in {"ROLE", "LOGIN"}
      \/ kind \in {"USAGE", "CREATE"} /\ object = "public"
      \/ kind \in TableKinds \cup {"NEXTVAL"} /\ object \in Tables
      \/ kind \in {"EXECUTE", "EXECUTE TO PUBLIC"}
    <2>1. p \in {Role, Login} => kind \in {"ROLE", "LOGIN"}
        BY RoleAndLogin, Zenon
    <2> QED
        BY <2>1, PrivilegeKinds, Zenon
<1> HIDE DEF kind, object
<1>2. /\ kind \in {"USAGE", "CREATE"} => object = "public"
      /\ kind \in TableKinds => object \in Tables
    BY <1>1 DEF TableKinds, RowKinds
<1> QED
    BY <1>2 DEF kind, object

LEMMA NobodyOwns ==
    ASSUME NEW p \in Privileges
    PROVE  p[1] # "OWN"
<1> DEFINE kind == p[1]
<1>1. \/ kind \in {"ROLE", "LOGIN"}
      \/ kind \in {"USAGE", "CREATE"}
      \/ kind \in TableKinds \cup {"NEXTVAL"}
      \/ kind \in {"EXECUTE", "EXECUTE TO PUBLIC"}
    <2>1. p \in {Role, Login} => kind \in {"ROLE", "LOGIN"}
        BY RoleAndLogin, Zenon
    <2> QED
        BY <2>1, PrivilegeKinds, Zenon
<1> HIDE DEF kind
<1>2. kind # "OWN"
    BY <1>1 DEF TableKinds, RowKinds
<1> QED
    BY <1>2 DEF kind

LEMMA SchemaRightsAreTaken ==
    ASSUME NEW p \in Privileges, p[1] \in {"USAGE", "CREATE"}
    PROVE  Takes(Script[2], p)
<1>1. p[2] = "public"
    BY PrivilegeObjects
<1>2. Script[2].kinds = {"USAGE", "CREATE"} /\ Script[2].objects = {"public"}
    BY Revokes
<1> DEFINE statement == Script[2]
<1> HIDE DEF statement
<1> QED
    BY <1>1, <1>2 DEF Takes, statement

LEMMA TableRightsAreTaken ==
    ASSUME NEW p \in Privileges, p[1] \in TableKinds
    PROVE  Takes(Script[3], p)
<1>1. p[2] \in Tables
    BY PrivilegeObjects
<1>2. Script[3].kinds = TableKinds /\ Script[3].objects = Tables
    BY Revokes
<1> QED
    BY <1>1, <1>2 DEF Takes

\* The script leaves no privilege alone that it does not give.
LEMMA EverythingIsTakenOrDeclared ==
    ASSUME NEW p \in Privileges
    PROVE  p \in Declared \/ \E i \in 1..19 : Takes(Script[i], p)
<1>1. CASE p \in {Role, Login}
    <2>1. Script[1].grants \subseteq Declared
        BY DeclaredIsGranted
    <2> QED
        BY <1>1, <2>1, RoleCreation
<1>2. CASE p[1] \in {"USAGE", "CREATE"}
    BY <1>2, SchemaRightsAreTaken
<1>3. CASE p[1] \in TableKinds
    BY <1>3, TableRightsAreTaken
<1>4. CASE p[1] = "NEXTVAL" /\ p[2] \in Tables
    <2>1. p[1] \in Script[4].kinds /\ p[2] \in Script[4].objects
        BY <1>4, Revokes
    <2> QED
        BY <2>1 DEF Takes
<1>5. CASE p[1] = "EXECUTE" /\ p[2] \in SchemaFunctions
    <2>1. p[1] \in Script[5].kinds /\ p[2] \in Script[5].objects
        BY <1>5, Revokes
    <2> QED
        BY <2>1 DEF Takes
<1>6. CASE p[1] = "EXECUTE TO PUBLIC" /\ p[2] \in FileFunctions
    <2>1. p[2] \in Script[17].objects \/ p[2] \in Script[18].objects \/ p[2] \in Script[19].objects
        BY <1>6, Revokes DEF FileFunctions
    <2>2. \A i \in 17..19 : p[1] \in Script[i].kinds
        BY <1>6, KindsTaken
    <2>3. 17 \in 1..19 /\ 18 \in 1..19 /\ 19 \in 1..19
        OBVIOUS
    <2>4. p[1] \in Script[17].kinds /\ p[1] \in Script[18].kinds /\ p[1] \in Script[19].kinds
        BY <2>2
    <2> QED
        BY <2>1, <2>3, <2>4 DEF Takes
<1> QED
    BY <1>1, <1>2, <1>3, <1>4, <1>5, <1>6, PrivilegeKinds

-----------------------------------------------------------------------------
(* The privileges while the script runs.                                   *)

RoleTypeOK ==
    /\ held \subseteq Privileges /\ before \subseteq Privileges
    /\ step \in 0..19
    /\ runs \in 0..MaxRuns
    /\ cleared \in BOOLEAN /\ installed \in BOOLEAN

\* From the statement that takes a kind of privilege away, the role holds of that
\* kind only what the script declares.
OnlyDeclared(kinds) == \A p \in held : p[1] \in kinds => p \in Declared
ZeroInv ==
    /\ cleared \/ step >= 3 => OnlyDeclared({"USAGE", "CREATE"})
    /\ cleared \/ step >= 4 => OnlyDeclared(TableKinds)

\* While the script runs, what it has given since its first statement is still
\* there, and what is not declared is still to be taken away.
ProgressInv ==
    step # 0 =>
        /\ \A j \in 2..step - 1 : Script[j].grants \subseteq held
        /\ \A p \in held : p \in Declared \/ \E i \in step..19 : Takes(Script[i], p)

\* The first statement makes a role that may log in, or leaves the one there is.
LoginInv ==
    /\ NoLogin(held) <=> NoLogin(before)
    /\ step >= 2 => Exists(held)

RoleInv == RoleTypeOK /\ ZeroInv /\ ProgressInv /\ LoginInv /\ CompleteMeansDeclared

\* No statement takes away what an earlier one has given.
LEMMA GrantsSurvive ==
    ASSUME NEW i \in 2..19, NEW j \in 2..i - 1, NEW p \in Script[j].grants
    PROVE  ~Takes(Script[i], p)
<1>1. Harmless(p)
    BY GrantsAreHarmless, ScriptSteps DEF OnlyHarmless
<1> DEFINE statement == Script[i]
<1>2. CASE i \in 17..19
    <2>1. statement.kinds = {"EXECUTE TO PUBLIC"}
        BY <1>2, KindsTaken
    <2>2. p[1] # "EXECUTE TO PUBLIC"
        BY <1>1 DEF Harmless
    <2> HIDE DEF statement
    <2>3. ~Takes(statement, p)
        BY <2>1, <2>2 DEF Takes
    <2> QED
        BY <2>3 DEF statement
<1>3. CASE i \in 6..16
    <2>1. Script[i].kinds = {}
        BY <1>3, ScriptTakesNothing
    <2> QED
        BY <2>1 DEF Takes
<1>4. CASE i \in 2..5
    BY <1>4, EarlyGrants
<1> QED
    BY <1>2, <1>3, <1>4

\* None takes the role or its login away, or gives them again.
LEMMA RoleAndLoginStay ==
    ASSUME NEW i \in 2..19, NEW p \in {Role, Login}
    PROVE  ~Takes(Script[i], p) /\ p \notin Script[i].grants
<1> DEFINE kind == p[1]
           statement == Script[i]
<1>1. kind \in {"ROLE", "LOGIN"}
    BY RoleAndLogin, Zenon
<1>2. kind \notin statement.kinds
    <2>1. CASE i \in 2..5
        BY <1>1, <2>1, KindsTaken
    <2>2. CASE i \in 6..16
        BY <2>2, ScriptTakesNothing
    <2>3. CASE i \in 17..19
        BY <1>1, <2>3, KindsTaken
    <2> QED
        BY <2>1, <2>2, <2>3
<1>3. ~Harmless(p)
    BY <1>1 DEF Harmless
<1>4. p \notin statement.grants
    BY <1>3, GrantsAreHarmless DEF OnlyHarmless
<1> QED
    BY <1>2, <1>4 DEF Takes

LEMMA RoleInitially == RoleInit => RoleInv
<1> SUFFICES ASSUME RoleInit PROVE RoleInv
    OBVIOUS
<1>1. held \subseteq Privileges
    BY RoleAssumption DEF RoleInit
<1>2. MaxRuns \in Nat
    BY RoleAssumption
<1>3. step \in 0..19 /\ runs \in 0..MaxRuns
    BY <1>2 DEF RoleInit
<1>4. RoleTypeOK
    BY <1>1, <1>3 DEF RoleInit, RoleTypeOK
<1> QED
    BY <1>4 DEF RoleInit, RoleInv, ZeroInv, ProgressInv, LoginInv, CompleteMeansDeclared

LEMMA StartKeeps ==
    ASSUME RoleInv, StartScript
    PROVE  RoleInv'
<1>0. held \subseteq Privileges /\ held' = held /\ step' = 1 /\ cleared' = cleared
    BY DEF RoleInv, RoleTypeOK, StartScript
<1>1. RoleTypeOK'
    <2>1. MaxRuns \in Nat
        BY RoleAssumption
    <2>2. step' \in 0..19 /\ runs' \in 0..MaxRuns
        BY <2>1 DEF RoleInv, RoleTypeOK, StartScript
    <2> QED
        BY <2>2 DEF RoleInv, RoleTypeOK, StartScript
<1>2. ZeroInv'
    BY <1>0 DEF RoleInv, ZeroInv, OnlyDeclared
<1>3. ProgressInv'
    <2>1. ASSUME NEW p \in held
          PROVE  p \in Declared \/ \E i \in 1..19 : Takes(Script[i], p)
        BY <1>0, <2>1, EverythingIsTakenOrDeclared
    <2> QED
        BY <1>0, <2>1 DEF ProgressInv
<1>4. LoginInv' /\ CompleteMeansDeclared'
    BY DEF StartScript, RoleInv, LoginInv, NoLogin, Exists, MayLogIn, CompleteMeansDeclared
<1> QED
    BY <1>1, <1>2, <1>3, <1>4 DEF RoleInv

LEMMA StopKeeps ==
    ASSUME RoleInv, StopScript
    PROVE  RoleInv'
<1>1. RoleTypeOK'
    BY DEF RoleInv, RoleTypeOK, StopScript
<1>2. ZeroInv'
    BY DEF RoleInv, ZeroInv, OnlyDeclared, StopScript
<1>3. ProgressInv' /\ CompleteMeansDeclared'
    BY DEF RoleInv, ProgressInv, StopScript, CompleteMeansDeclared
<1>4. LoginInv'
    BY DEF RoleInv, LoginInv, StopScript, NoLogin, Exists, MayLogIn
<1> QED
    BY <1>1, <1>2, <1>3, <1>4 DEF RoleInv

\* What a statement does to a set of privileges.
LEMMA AfterStatement ==
    ASSUME NEW i \in 1..19, NEW privileges
    PROVE  LET next == After(Script[i], privileges)
           IN  /\ \A p \in next :
                    p \in Script[i].grants \/ (p \in privileges /\ ~Takes(Script[i], p))
               /\ \A p \in privileges : Takes(Script[i], p) \/ p \in next
               /\ i >= 2 => Script[i].grants \subseteq next
               /\ i = 1 => next = IF Exists(privileges) THEN privileges
                                  ELSE privileges \cup {Role, Login}
<1>1. CASE i = 1
    <2>1. Role \in privileges <=> Exists(privileges)
        BY DEF Role, Exists
    <2>2. After(Script[1], privileges) = IF Exists(privileges) THEN privileges
                                         ELSE privileges \cup {Role, Login}
        BY <2>1, RoleCreation DEF After
    <2>3. \A p : ~Takes(Script[1], p)
        BY RoleCreation DEF Takes
    <2> QED
        BY <1>1, <2>2, <2>3, RoleCreation
<1>2. CASE i \in 2..19
    <2>1. Script[i].unless = {}
        BY <1>2, NothingElseIsSkipped
    <2>2. After(Script[i], privileges)
            = {p \in privileges : ~Takes(Script[i], p)} \cup Script[i].grants
        BY <2>1 DEF After, Takes
    <2> QED
        BY <1>2, <2>2
<1> QED
    BY <1>1, <1>2

\* One statement of the script, as a step from one set of privileges to the next.
LEMMA RunKeeps ==
    ASSUME RoleInv, RunStatement
    PROVE  RoleInv'
<1> DEFINE statement == Script[step]
<1>0. /\ step \in 1..19
      /\ held' = After(statement, held)
      /\ step' = IF step = 19 THEN 0 ELSE step + 1
      /\ cleared' = (cleared \/ step = 5)
      /\ installed' = (step = 19)
      /\ runs' = runs /\ before' = before
    BY ScriptSteps DEF RoleInv, RoleTypeOK, RunStatement, ZeroStep
<1>11. cleared' => cleared \/ step = 5
    BY Zenon DEF RunStatement, ZeroStep
<1>1. statement.grants \subseteq Privileges /\ statement.grants \subseteq Declared
    <2>1. statement.grants \subseteq Declared
        BY <1>0, DeclaredIsGranted
    <2> QED
        BY <2>1, DeclaredIsHarmless, RoleAndLogin
<1>2. \A p \in held' : p \in statement.grants \/ (p \in held /\ ~Takes(statement, p))
    BY <1>0, AfterStatement
<1>3. step >= 2 => statement.grants \subseteq held'
    BY <1>0, AfterStatement
<1>4. \A p \in held : Takes(statement, p) \/ p \in held'
    BY <1>0, AfterStatement
<1>5. RoleTypeOK'
    <2>1. held' \subseteq Privileges
        BY <1>1, <1>2 DEF RoleInv, RoleTypeOK
    <2> QED
        BY <1>0, <2>1 DEF RoleInv, RoleTypeOK
<1>6. ZeroInv'
    <2>1. ASSUME NEW kinds, OnlyDeclared(kinds)
          PROVE  OnlyDeclared(kinds)'
        BY <1>1, <1>2, <2>1 DEF OnlyDeclared
    <2>2. ASSUME step = 2
          PROVE  OnlyDeclared({"USAGE", "CREATE"})'
        <3>1. ASSUME NEW p \in held', p[1] \in {"USAGE", "CREATE"}
              PROVE  p \in statement.grants
            BY <1>2, <1>5, <2>2, <3>1, SchemaRightsAreTaken DEF RoleTypeOK
        <3> QED
            BY <1>1, <3>1 DEF OnlyDeclared
    <2>3. ASSUME step = 3
          PROVE  OnlyDeclared(TableKinds)'
        <3>1. ASSUME NEW p \in held', p[1] \in TableKinds
              PROVE  p \in statement.grants
            BY <1>2, <1>5, <2>3, <3>1, TableRightsAreTaken DEF RoleTypeOK
        <3> QED
            BY <1>1, <3>1 DEF OnlyDeclared
    <2>4. cleared' \/ step' >= 3 => cleared \/ step >= 3 \/ step = 2
        <3>1. step' >= 3 => step >= 3 \/ step = 2
            BY <1>0
        <3>2. cleared' => cleared \/ step >= 3
            BY <1>11
        <3> QED
            BY <3>1, <3>2
    <2>5. cleared' \/ step' >= 4 => cleared \/ step >= 4 \/ step = 3
        <3>1. step' >= 4 => step >= 4 \/ step = 3
            BY <1>0
        <3>2. cleared' => cleared \/ step >= 4
            BY <1>11
        <3> QED
            BY <3>1, <3>2
    <2>6. cleared' \/ step' >= 3 => OnlyDeclared({"USAGE", "CREATE"})'
        BY <2>1, <2>2, <2>4 DEF RoleInv, ZeroInv
    <2>7. cleared' \/ step' >= 4 => OnlyDeclared(TableKinds)'
        BY <2>1, <2>3, <2>5 DEF RoleInv, ZeroInv
    <2> QED
        BY <2>6, <2>7 DEF ZeroInv
<1>7. \A j \in 2..step : Script[j].grants \subseteq held'
    <2>1. ASSUME NEW j \in 2..step - 1
          PROVE  Script[j].grants \subseteq held'
        <3>1. \A p \in Script[j].grants : ~Takes(statement, p)
            BY <1>0, GrantsSurvive
        <3>2. Script[j].grants \subseteq held
            BY <1>0 DEF RoleInv, ProgressInv
        <3> QED
            BY <1>4, <3>1, <3>2
    <2> QED
        BY <1>0, <1>3, <2>1
<1>8. \A p \in held' : p \in Declared \/ \E i \in step + 1..19 : Takes(Script[i], p)
    <2>1. ASSUME NEW p \in held', p \notin statement.grants
          PROVE  p \in Declared \/ \E i \in step + 1..19 : Takes(Script[i], p)
        <3>1. p \in held /\ ~Takes(Script[step], p)
            BY <1>2, <2>1
        <3>2. p \in Declared \/ \E i \in step..19 : Takes(Script[i], p)
            BY <1>0, <3>1 DEF RoleInv, ProgressInv
        <3>3. \A i \in step..19 : i = step \/ i \in step + 1..19
            BY <1>0
        <3> QED
            BY <3>1, <3>2, <3>3
    <2> QED
        BY <1>1, <2>1
<1>9. ProgressInv'
    BY <1>0, <1>7, <1>8 DEF ProgressInv
<1>12. /\ NoLogin(held') <=> NoLogin(before)
       /\ Exists(held')
    <2>1. NoLogin(held) <=> NoLogin(before)
        BY DEF RoleInv, LoginInv
    <2>2. CASE step = 1
        <3>1. held' = IF Exists(held) THEN held ELSE held \cup {Role, Login}
            BY <1>0, <2>2, AfterStatement
        <3> QED
            BY <2>1, <3>1 DEF NoLogin, Exists, MayLogIn, Role, Login
    <2>3. CASE step \in 2..19
        <3>1. \A p \in {Role, Login} : p \in held' <=> p \in held
            BY <1>2, <1>4, <2>3, RoleAndLoginStay
        <3>2. Exists(held)
            BY <2>3 DEF RoleInv, LoginInv
        <3> QED
            BY <2>1, <3>1, <3>2 DEF NoLogin, Exists, MayLogIn, Role, Login
    <2> QED
        BY <1>0, <2>2, <2>3
<1>13. LoginInv'
    <2>1. NoLogin(held)' <=> NoLogin(before)'
        BY <1>0, <1>12 DEF NoLogin, Exists, MayLogIn
    <2>2. Exists(held)'
        BY <1>12 DEF Exists
    <2> QED
        BY <2>1, <2>2 DEF LoginInv
<1>10. CompleteMeansDeclared'
    <2> SUFFICES ASSUME step = 19
                 PROVE  held' = IF NoLogin(before) THEN Declared \ {Login} ELSE Declared
        BY <1>0 DEF CompleteMeansDeclared, Login, NoLogin, Exists, MayLogIn
    <2>1. held' \subseteq Declared
        BY <1>8
    <2>2. Role \in held' /\ (Login \in held' <=> ~NoLogin(before))
        BY <1>12 DEF NoLogin, Exists, MayLogIn, Role, Login
    <2>3. \A p \in Declared : p \in {Role, Login} \/ p \in held'
        <3>1. ASSUME NEW p \in Declared
              PROVE  p \in {Role, Login} \/ p \in held'
            <4>1. PICK j \in 1..19 : p \in Script[j].grants
                BY ScriptSteps DEF Declared
            <4>2. j = 1 \/ j \in 2..19
                OBVIOUS
            <4> QED
                BY <1>7, <4>1, <4>2, RoleCreation
        <3> QED
            BY <3>1
    <2> QED
        BY <2>1, <2>2, <2>3
<1> QED
    BY <1>5, <1>6, <1>9, <1>10, <1>13 DEF RoleInv

LEMMA RoleKeeps ==
    ASSUME RoleInv, RoleNext \/ UNCHANGED roleVars
    PROVE  RoleInv'
<1>1. CASE UNCHANGED roleVars
    BY <1>1 DEF RoleInv, RoleTypeOK, ZeroInv, OnlyDeclared, ProgressInv, LoginInv,
        NoLogin, Exists, MayLogIn, CompleteMeansDeclared, roleVars
<1> QED
    BY <1>1, StartKeeps, RunKeeps, StopKeeps DEF RoleNext

-----------------------------------------------------------------------------
(* The requests.                                                           *)

Fates == {"kept", "marker", "placeholder"}

LEMMA ScrubType ==
    ASSUME NEW q \in Queries
    PROVE  Scrub(q.tree) \in Seq(Fates)
<1>1. q.tree.size \in Nat
    BY GuardAssumption DEF IsQuery
<1>2. \A i \in 1..q.tree.size : Fate(q.tree, i) \in Fates
    BY DEF Fate, Fates
<1>3. [i \in 1..q.tree.size |-> Fate(q.tree, i)] \in Seq(Fates)
    BY <1>1, <1>2
<1> QED
    BY <1>3 DEF Scrub

\* Equal sets give the same choice.
LEMMA SameChoice ==
    ASSUME NEW S, NEW T, S = T
    PROVE  (CHOOSE x \in S : TRUE) = (CHOOSE x \in T : TRUE)
OBVIOUS

\* What the rules let through is no statement that is one literal.
LEMMA GuardVerdict ==
    ASSUME NEW q \in Queries, NEW rules \in RuleOrders
    PROVE  /\ Verdict(rules, q.text) \in Codes
           /\ Verdict(rules, q.text) = "allowed" => ~q.tree.lone
<1>1. /\ rules \in Seq(Rules) /\ Range(rules) = Rules
      /\ q.text \in TextType
      /\ q.tree.lone => q.text.kind = "single" /\ \A s \in q.text.statement : s.root = "Other"
    BY GuardAssumption DEF IsQuery
<1>2. /\ Verdict(rules, q.text) \in Codes
      /\ Verdict(rules, q.text) = "allowed" <=> MayRun(q.text)
    <2>1. /\ ValidatorProofs!Rules = Rules
          /\ ValidatorProofs!Codes = Codes
          /\ ValidatorProofs!TextType = TextType
          /\ ValidatorProofs!Range(rules) = Range(rules)
        BY DEF ValidatorProofs!Rules, Rules, ValidatorProofs!Codes, Codes,
            ValidatorProofs!Unjudged, Unjudged, ValidatorProofs!TextType, TextType,
            ValidatorProofs!StatementType, StatementType, ValidatorProofs!Writes, Writes,
            ValidatorProofs!Range, Range
    <2>2. \A s : ValidatorProofs!Judge(rules, s) = Judge(rules, s)
        <3>1. \A rule, s : ValidatorProofs!Rejects(rule, s) = Rejects(rule, s)
            BY DEF ValidatorProofs!Rejects, Rejects, ValidatorProofs!Writes, Writes,
                ValidatorProofs!RootIsForeign, RootIsForeign,
                ValidatorProofs!WriteIsUnbounded, WriteIsUnbounded,
                ValidatorProofs!CallsDangerously, CallsDangerously,
                ValidatorProofs!NestsWrite, NestsWrite,
                ValidatorProofs!HoldsForbidden, HoldsForbidden,
                ValidatorProofs!SelectsInto, SelectsInto
        <3>2. \A s : ValidatorProofs!FirstRejections(rules, s) = FirstRejections(rules, s)
            BY <3>1 DEF ValidatorProofs!FirstRejections, FirstRejections
        <3>3. ASSUME NEW s
              PROVE  ValidatorProofs!Judge(rules, s) = Judge(rules, s)
            <4>1. (CHOOSE i \in ValidatorProofs!FirstRejections(rules, s) : TRUE)
                      = (CHOOSE i \in FirstRejections(rules, s) : TRUE)
                BY <3>2, SameChoice
            <4> QED
                BY <3>2, <4>1 DEF ValidatorProofs!Judge, Judge
        <3> QED
            BY <3>3
    <2>3. ValidatorProofs!Verdict(rules, q.text) = Verdict(rules, q.text)
        BY <2>2 DEF ValidatorProofs!Verdict, Verdict
    <2>4. ValidatorProofs!MayRun(q.text) = MayRun(q.text)
        BY DEF ValidatorProofs!MayRun, MayRun
    <2>5. ValidatorProofs!ValidatorAssumption
        BY DEF ValidatorProofs!ValidatorAssumption
    <2> QED
        BY <1>1, <2>1, <2>3, <2>4, <2>5, ValidatorProofs!VerdictIsOrderless
<1>3. ASSUME MayRun(q.text), q.tree.lone
      PROVE  FALSE
    <2>1. PICK s \in StatementType : q.text.statement = {s}
        BY <1>1, <1>3 DEF TextType, Unjudged
    <2> QED
        BY <1>1, <1>3, <2>1 DEF MayRun
<1> QED
    BY <1>2, <1>3

\* But for a statement that is one literal, no visited literal is kept.
LEMMA ScrubLeavesUnvisited ==
    ASSUME NEW q \in Queries, ~q.tree.lone
    PROVE  \A i \in DOMAIN Scrub(q.tree) :
                Scrub(q.tree)[i] = "kept" => i \in q.tree.unvisited
<1>1. \A i : Fate(q.tree, i) = "kept" => i \in q.tree.unvisited
    BY DEF Fate
<1> QED
    BY <1>1 DEF Scrub

Outcomes == Codes \cup {"new", "direct", "done", "denied"}
Harbours == {"new", "allowed", "direct", "done", "denied"}

\* A request asks one query, and what is not rejected has left in the log no literal
\* but those the scrubber passes over; nothing has before anything is scrubbed.
RequestInv ==
    /\ query \in [Requests -> SUBSET Queries]
    /\ outcome \in [Requests -> Outcomes]
    /\ logged \in [Requests -> Seq(Fates)]
    /\ \A r \in Requests : \A p, q \in query[r] : p = q
    /\ \A r \in Requests : outcome[r] = "new" => Kept(r) = {}
    /\ \A r \in Requests : outcome[r] \in Harbours =>
            \A q \in query[r] : Kept(r) \subseteq q.tree.unvisited

IInv == RoleInv /\ RequestInv

LEMMA AskKeeps ==
    ASSUME RequestInv, NEW r \in Requests, NEW q \in Queries, Ask(r, q)
    PROVE  RequestInv'
<1>0. PICK rules \in RuleOrders : outcome' = [outcome EXCEPT ![r] = Verdict(rules, q.text)]
    BY DEF Ask
<1> DEFINE verdict == Verdict(rules, q.text)
           shown == Scrub(q.tree)
<1>1. /\ query' = [query EXCEPT ![r] = {q}]
      /\ logged' = [logged EXCEPT ![r] = shown]
      /\ outcome' = [outcome EXCEPT ![r] = verdict]
    BY <1>0 DEF Ask
<1>2. shown \in Seq(Fates)
    BY ScrubType
<1>3. verdict \in Outcomes
    BY GuardVerdict DEF Outcomes
<1>4. /\ verdict # "new"
      /\ verdict \in Harbours =>
            \A i \in DOMAIN shown : shown[i] = "kept" => i \in q.tree.unvisited
    <2>1. verdict # "new" /\ (verdict \in Harbours => verdict = "allowed")
        BY GuardVerdict DEF Codes, Rules, Unjudged, Harbours
    <2> QED
        BY <2>1, GuardVerdict, ScrubLeavesUnvisited
<1> HIDE DEF verdict, shown
<1>5. query' \in [Requests -> SUBSET Queries] /\ outcome' \in [Requests -> Outcomes]
    BY <1>1, <1>3 DEF RequestInv
<1>6. logged' \in [Requests -> Seq(Fates)]
    BY <1>1, <1>2 DEF RequestInv
<1>7. \A t \in Requests : \A m, n \in query'[t] : m = n
    BY <1>1 DEF RequestInv
<1>8. /\ logged'[r] = shown /\ outcome'[r] = verdict /\ query'[r] = {q}
      /\ \A t \in Requests \ {r} :
            logged'[t] = logged[t] /\ outcome'[t] = outcome[t] /\ query'[t] = query[t]
    BY <1>1 DEF RequestInv
<1>9. \A t \in Requests : outcome'[t] = "new" => Kept(t)' = {}
    BY <1>4, <1>8 DEF RequestInv, Kept
<1>10. \A t \in Requests : outcome'[t] \in Harbours =>
            \A m \in query'[t] : Kept(t)' \subseteq m.tree.unvisited
    <2>1. ASSUME NEW t \in Requests \ {r}, outcome'[t] \in Harbours, NEW m \in query'[t]
          PROVE  Kept(t)' \subseteq m.tree.unvisited
        BY <1>8, <2>1 DEF RequestInv, Kept
    <2>2. ASSUME outcome'[r] \in Harbours, NEW m \in query'[r]
          PROVE  Kept(r)' \subseteq m.tree.unvisited
        BY <1>4, <1>8, <2>2 DEF Kept
    <2> QED
        BY <2>1, <2>2
<1> QED
    BY <1>5, <1>6, <1>7, <1>9, <1>10 DEF RequestInv

LEMMA AskDirectlyKeeps ==
    ASSUME RequestInv, NEW r \in Requests, NEW q \in Queries, AskDirectly(r, q)
    PROVE  RequestInv'
<1>1. /\ query' = [query EXCEPT ![r] = {q}]
      /\ outcome' = [outcome EXCEPT ![r] = "direct"]
      /\ logged' = logged
      /\ outcome[r] = "new"
    BY DEF AskDirectly
<1>2. "direct" \in Outcomes
    BY DEF Outcomes
<1>3. query' \in [Requests -> SUBSET Queries] /\ outcome' \in [Requests -> Outcomes]
    BY <1>1, <1>2 DEF RequestInv
<1>4. \A t \in Requests : \A m, n \in query'[t] : m = n
    BY <1>1 DEF RequestInv
<1>5. /\ outcome'[r] = "direct" /\ Kept(r)' = {}
      /\ \A t \in Requests \ {r} : outcome'[t] = outcome[t] /\ query'[t] = query[t]
      /\ \A t \in Requests : Kept(t)' = Kept(t)
    BY <1>1 DEF RequestInv, Kept
<1>6. \A t \in Requests : outcome'[t] = "new" => Kept(t)' = {}
    BY <1>5 DEF RequestInv
<1>7. \A t \in Requests : outcome'[t] \in Harbours =>
            \A m \in query'[t] : Kept(t)' \subseteq m.tree.unvisited
    BY <1>5 DEF RequestInv
<1> QED
    BY <1>1, <1>3, <1>4, <1>6, <1>7 DEF RequestInv

LEMMA ExecuteKeeps ==
    ASSUME RequestInv, NEW r \in Requests, Execute(r)
    PROVE  RequestInv'
<1>1. PICK answer \in {"done", "denied"} : outcome' = [outcome EXCEPT ![r] = answer]
    BY DEF Execute
<1>2. UNCHANGED <<query, logged>> /\ outcome[r] \in Harbours
    BY DEF Execute, Harbours
<1>3. answer \in Outcomes
    BY DEF Outcomes
<1>4. outcome' \in [Requests -> Outcomes]
    BY <1>1, <1>3 DEF RequestInv
<1>5. /\ \A t \in Requests : outcome'[t] = "new" => outcome[t] = "new"
      /\ \A t \in Requests : outcome'[t] \in Harbours => outcome[t] \in Harbours
    BY <1>1, <1>2 DEF RequestInv
<1>6. /\ \A t \in Requests : outcome'[t] = "new" => Kept(t)' = {}
      /\ \A t \in Requests : outcome'[t] \in Harbours =>
            \A m \in query'[t] : Kept(t)' \subseteq m.tree.unvisited
    BY <1>2, <1>5 DEF RequestInv, Kept
<1> QED
    BY <1>2, <1>4, <1>6 DEF RequestInv

LEMMA RequestsKeep ==
    ASSUME RequestInv, UNCHANGED requestVars
    PROVE  RequestInv'
BY DEF RequestInv, Kept, requestVars

LEMMA GuardInductive == Spec => []IInv
<1>1. Init => IInv
    <2> SUFFICES ASSUME Init PROVE IInv
        OBVIOUS
    <2>1. RoleInv
        BY RoleInitially DEF Init
    <2>2. <<>> \in Seq(Fates) /\ DOMAIN <<>> = {} /\ "new" \in Outcomes
        BY DEF Outcomes
    <2>3. \A r \in Requests : Kept(r) = {}
        BY <2>2 DEF Init, Kept
    <2>4. RequestInv
        BY <2>2, <2>3 DEF Init, RequestInv
    <2> QED
        BY <2>1, <2>4 DEF IInv
<1>2. IInv /\ [Next]_vars => IInv'
    <2> SUFFICES ASSUME IInv, [Next]_vars PROVE IInv'
        OBVIOUS
    <2>0. RoleInv /\ RequestInv
        BY DEF IInv
    <2>1. CASE RoleNext /\ UNCHANGED requestVars
        BY <2>0, <2>1, RoleKeeps, RequestsKeep DEF IInv
    <2>2. ASSUME NEW r \in Requests, NEW q \in Queries, Ask(r, q) \/ AskDirectly(r, q)
          PROVE  IInv'
        <3>1. UNCHANGED roleVars
            BY <2>2 DEF Ask, AskDirectly
        <3> QED
            BY <2>0, <2>2, <3>1, RoleKeeps, AskKeeps, AskDirectlyKeeps DEF IInv
    <2>3. ASSUME NEW r \in Requests, Execute(r)
          PROVE  IInv'
        <3>1. UNCHANGED roleVars
            BY <2>3 DEF Execute
        <3> QED
            BY <2>0, <2>3, <3>1, RoleKeeps, ExecuteKeeps DEF IInv
    <2>4. CASE UNCHANGED vars
        BY <2>0, <2>4, RoleKeeps, RequestsKeep DEF IInv, vars
    <2> QED
        BY <2>1, <2>2, <2>3, <2>4 DEF Next
<1> QED
    BY <1>1, <1>2, PTL DEF Spec

-----------------------------------------------------------------------------
\* The role, the script and the requests keep their types.
THEOREM GuardTypeCorrect == Spec => []TypeOK
<1>1. IInv => TypeOK
    BY ScriptSteps DEF IInv, RoleInv, RoleTypeOK, RequestInv, TypeOK, Outcomes, Fates
<1> QED
    BY <1>1, GuardInductive, PTL

\* Whatever the role had before and wherever earlier runs of init.sql had stopped, a
\* complete run leaves exactly what it declares; only a role that was there without
\* LOGIN is left without it.
THEOREM GuardCompleteMeansDeclared == Spec => []CompleteMeansDeclared
<1>1. IInv => CompleteMeansDeclared
    BY DEF IInv, RoleInv
<1> QED
    BY <1>1, GuardInductive, PTL

\* A query that reaches the database is in the log without any literal that the
\* scrubber's traversal visits: what it shows is of the classes it passes over.
THEOREM GuardLogsNoVisitedLiterals == Spec => []VisitedLiteralsStayOutOfTheLog
<1>1. IInv => VisitedLiteralsStayOutOfTheLog
    BY DEF IInv, RequestInv, VisitedLiteralsStayOutOfTheLog, Harbours
<1> QED
    BY <1>1, GuardInductive, PTL

-----------------------------------------------------------------------------
(* What the database runs.                                                 *)

\* A privilege the database grants once the role was set to zero reads no secret
\* and does not touch the schema.
LEMMA GrantedIsHarmless ==
    ASSUME RoleInv, cleared, NEW p, Grants(held, p),
           p[1] \in {"SELECT"} \cup SchemaKinds
    PROVE  /\ p[1] = "SELECT"
           /\ \E h \in held : h = p \/ h = <<p[1], p[2], "*">>
           /\ \A h \in held : h[1] = "SELECT" => Harmless(h)
<1>1. PICK h \in held : h = p \/ h = <<p[1], p[2], "*">>
    BY DEF Grants, SchemaKinds
<1>2. h[1] = p[1]
    BY <1>1
<1>3. \A g \in held : g[1] \in {"USAGE", "CREATE"} \cup TableKinds => Harmless(g)
    <2>1. ASSUME NEW g \in held, g[1] \in {"USAGE", "CREATE"} \cup TableKinds
          PROVE  g \in Declared
        BY <2>1 DEF RoleInv, ZeroInv, OnlyDeclared
    <2>2. ASSUME NEW g \in {Role, Login}
          PROVE  g[1] \notin {"USAGE", "CREATE"} \cup TableKinds
        <3>1. g[1] \in {"ROLE", "LOGIN"}
            BY RoleAndLogin, Zenon
        <3> QED
            BY <3>1 DEF TableKinds, RowKinds
    <2> QED
        BY <2>1, <2>2, DeclaredIsHarmless
<1>4. h[1] # "OWN"
    <2>1. h \in Privileges
        BY DEF RoleInv, RoleTypeOK
    <2> QED
        BY <2>1, NobodyOwns
<1>5. h[1] \notin SchemaKinds
    <2>1. ASSUME h[1] \in {"CREATE", "TRUNCATE"}
          PROVE  FALSE
        <3>1. Harmless(h)
            BY <1>3, <2>1 DEF TableKinds
        <3> QED
            BY <2>1, <3>1 DEF Harmless, SchemaKinds
    <2> QED
        BY <1>4, <2>1 DEF SchemaKinds
<1>6. p[1] = "SELECT"
    BY <1>2, <1>5
<1> QED
    BY <1>1, <1>3, <1>6 DEF TableKinds, RowKinds

LEMMA SecretsAreHarmful ==
    ASSUME NEW p \in Secrets
    PROVE  /\ p[1] = "SELECT"
           /\ ~Harmless(p)
           /\ ~Harmless(<<p[1], p[2], "*">>)
<1> DEFINE users == {"password_hash", "api_key", "ssn", "date_of_birth"}
           payments == {"card_last_four", "cvv_hash"}
           hidden == {"sessions", "api_tokens", "activity_log"}
<1>1. \/ \E c \in users : p = <<"SELECT", "users", c>>
      \/ \E c \in payments : p = <<"SELECT", "payments", c>>
      \/ \E t \in hidden : \E c \in Columns[t] : p = <<"SELECT", t, c>>
    BY DEF Secrets, OnColumns
<1>2. \A c \in users : ~Harmless(<<"SELECT", "users", c>>)
    BY DEF Harmless
<1>3. \A c \in payments : ~Harmless(<<"SELECT", "payments", c>>)
    BY DEF Harmless
<1>4. \A t \in hidden : \A c : ~Harmless(<<"SELECT", t, c>>)
    BY DEF Harmless
<1>5. \A t \in hidden \cup {"users", "payments"} : ~Harmless(<<"SELECT", t, "*">>)
    BY DEF Harmless
<1>6. \A t, c : <<"SELECT", t, c>>[1] = "SELECT" /\ <<"SELECT", t, c>>[2] = t
    OBVIOUS
<1> HIDE DEF users, payments
<1>7. CASE \E c \in users : p = <<"SELECT", "users", c>>
    BY <1>2, <1>5, <1>6, <1>7, Zenon
<1>8. CASE \E c \in payments : p = <<"SELECT", "payments", c>>
    BY <1>3, <1>5, <1>6, <1>8, Zenon
<1>9. CASE \E t \in hidden : \E c \in Columns[t] : p = <<"SELECT", t, c>>
    BY <1>4, <1>5, <1>6, <1>9, Zenon
<1> QED
    BY <1>1, <1>7, <1>8, <1>9

\* What was asked when a request ends with "done" had every privilege it needs.
LEMMA RanWasPermitted ==
    ASSUME IInv, [Next]_vars, NEW r \in Requests, Ran(r)
    PROVE  \A q \in query[r] : \A p \in q.needs : Grants(held, p)
<1>0. RequestInv
    BY DEF IInv
<1>1. CASE RoleNext /\ UNCHANGED requestVars
    BY <1>1 DEF Ran, requestVars
<1>2. ASSUME NEW t \in Requests, NEW q \in Queries, Ask(t, q) \/ AskDirectly(t, q)
      PROVE  FALSE
    <2>1. \E answer \in Codes \cup {"direct"} : outcome' = [outcome EXCEPT ![t] = answer]
        BY <1>2, GuardVerdict DEF Ask, AskDirectly
    <2>0. PICK answer \in Codes \cup {"direct"} : outcome' = [outcome EXCEPT ![t] = answer]
        BY <2>1
    <2>2. answer # "done"
        BY DEF Codes, Rules, Unjudged
    <2> QED
        BY <1>0, <2>0, <2>2 DEF Ran, RequestInv
<1>3. ASSUME NEW t \in Requests, Execute(t)
      PROVE  \A q \in query[r] : \A p \in q.needs : Grants(held, p)
    <2>1. PICK q \in query[t] : outcome' = [outcome EXCEPT ![t] =
                                    IF Permits(held, q.needs) THEN "done" ELSE "denied"]
        BY <1>3 DEF Execute
    <2>2. t = r /\ Permits(held, q.needs)
        BY <1>0, <2>1 DEF Ran, RequestInv
    <2>3. \A m \in query[r] : m = q
        BY <1>0, <2>1, <2>2 DEF RequestInv
    <2> QED
        BY <2>2, <2>3 DEF Permits
<1>4. CASE UNCHANGED vars
    BY <1>4 DEF Ran, vars, requestVars
<1> QED
    BY <1>1, <1>2, <1>3, <1>4 DEF Next

\* Once init.sql has set the role to zero, no statement of the role reads what the
\* script calls unreachable, whatever the role had before, wherever the script stops
\* and with or without the first layer.
THEOREM GuardSecretsStayUnread == Spec => SecretsStayUnread
<1>1. ASSUME IInv, [Next]_vars, NEW r \in Requests, Ran(r), cleared, NEW q \in query[r]
      PROVE  q.needs \cap Secrets = {}
    <2> SUFFICES ASSUME NEW p \in q.needs, p \in Secrets PROVE FALSE
        OBVIOUS
    <2>1. Grants(held, p)
        BY <1>1, RanWasPermitted
    <2>2. p[1] = "SELECT" /\ ~Harmless(p) /\ ~Harmless(<<p[1], p[2], "*">>)
        BY SecretsAreHarmful
    <2>3. PICK h \in held : (h = p \/ h = <<p[1], p[2], "*">>) /\ (h[1] = "SELECT" => Harmless(h))
        BY <1>1, <2>1, <2>2, GrantedIsHarmless DEF IInv
    <2>4. <<p[1], p[2], "*">>[1] = p[1]
        OBVIOUS
    <2> QED
        BY <2>2, <2>3, <2>4, Zenon
<1>2. IInv /\ [Next]_vars =>
        [\A r \in Requests :
            Ran(r) /\ cleared => \A q \in query[r] : q.needs \cap Secrets = {}]_vars
    BY <1>1
<1> QED
    BY <1>2, GuardInductive, PTL DEF Spec, SecretsStayUnread

\* Nor does one drop, create or truncate a table.
THEOREM GuardSchemaStaysIntact == Spec => SchemaStaysIntact
<1>1. ASSUME IInv, [Next]_vars, NEW r \in Requests, Ran(r), cleared, NEW q \in query[r],
             NEW p \in q.needs
      PROVE  p[1] \notin SchemaKinds
    <2>1. Grants(held, p)
        BY <1>1, RanWasPermitted
    <2>2. p[1] \in SchemaKinds => p[1] = "SELECT"
        BY <1>1, <2>1, GrantedIsHarmless DEF IInv
    <2> QED
        BY <2>2 DEF SchemaKinds
<1>2. IInv /\ [Next]_vars =>
        [\A r \in Requests : Ran(r) /\ cleared =>
            \A q \in query[r] : \A p \in q.needs : p[1] \notin SchemaKinds]_vars
    BY <1>1
<1> QED
    BY <1>2, GuardInductive, PTL DEF Spec, SchemaStaysIntact
=============================================================================
