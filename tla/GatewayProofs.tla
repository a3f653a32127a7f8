---------------------------- MODULE GatewayProofs ---------------------------
(***************************************************************************)
(* Proofs about Gateway, for any requests, probes and query bodies, any    *)
(* number of workers and crashes, and any limits; and at the end about     *)
(* LiveGateway, for any number of streams and any capacities of the feed.  *)
(***************************************************************************)
EXTENDS LiveGateway, FiniteSetTheorems, SequenceTheorems, TLAPS

USE GatewayAssumption

BeforeDatabase == {"idle", "received", "analyse", "connect"}

\* What is known of a request from the place it stands at: it has decided on
\* nothing before it is done with the database, and on something once it records;
\* and a decision says how its transaction ended.
CallInv ==
    \A r \in Requests :
        /\ pc[r] = "idle" <=> query[r] = {}
        /\ pc[r] \in BeforeDatabase => tx[r] = "none"
        /\ pc[r] \in BeforeDatabase \cup InDatabase => decision[r] = "none"
        /\ pc[r] \in {"record", "respond"} => decision[r] # "none"
        /\ decision[r] = "allowed" => tx[r] = "committed"
        /\ decision[r] = "rejected" => tx[r] = "none"

\* An answer other than 502 leaves no transaction in doubt.
AnswerInv ==
    \A r \in Requests :
        /\ pc[r] # "done" => response[r] = 0
        /\ response[r] \in {200, 400, 422, 500} => tx[r] \in {"none", "committed"}

\* What an entry says was decided is what the use case decided.
EntryInv ==
    \A s \in Sinks : \A entry \in Range(sinks[s]) : entry.decision = decision[entry.id]

\* A request holds a session exactly while it executes in the database, and only
\* a held session has an open transaction.
SessionInv ==
    \A r \in Requests :
        /\ connection[r] <=> pc[r] \in InDatabase
        /\ tx[r] = "open" => connection[r]

OnWorkers == {r \in Requests : pc[r] \in OnWorker}
Pinging == {p \in Probes : probe[p] = "pinging"}

\* The pool is never overcommitted, however many requests and probes there are.
WorkerInv ==
    /\ IsFiniteSet(OnWorkers)
    /\ IsFiniteSet(Pinging)
    /\ BusyWorkers <= Workers

\* A request has one body, and what it is about to commit, or has been allowed,
\* is the outcome of that body.
ResultInv ==
    \A r \in Requests : \A q \in query[r] :
        /\ query[r] = {q}
        /\ pc[r] \in {"commit", "acknowledge"} \/ decision[r] = "allowed"
             => outcome[r] = IF q.returns THEN ReadOutcome(q) ELSE WriteOutcome(q)

\* An answer is the status of the decision, given once every sink has been tried;
\* 422 and 500 are also the answers without a decision.
StatusInv ==
    \A r \in Requests :
        response[r] # 0 =>
            \/ decision[r] # "none" /\ response[r] = Status(r) /\ sinkAt[r] = 4
            \/ decision[r] = "none" /\ response[r] \in {422, 500}

Position == [stdout |-> 1, memory |-> 2, jsonl |-> 3]

\* A line says what its request came to, was written when the recorder was at its
\* sink, and is the only one of its request there.
LineInv ==
    \A s \in Sinks : \A i \in DOMAIN sinks[s] :
        /\ Position[s] < sinkAt[sinks[s][i].id]
        /\ CardRows(sinks[s][i]) = [returned |-> outcome[sinks[s][i].id].rows,
                                    affected |-> outcome[sinks[s][i].id].affected,
                                    truncated |-> outcome[sinks[s][i].id].truncated]
        /\ s # "memory" => sinks[s][i].sample = 0
        /\ \A j \in DOMAIN sinks[s] : sinks[s][j].id = sinks[s][i].id => j = i

\* The recorder starts with the first sink, ends with the last, and a sink it has
\* passed has either recorded the request or missed it.
SinkAtInv ==
    \A r \in Requests :
        /\ pc[r] \in BeforeDatabase \cup InDatabase => sinkAt[r] = 1
        /\ pc[r] = "respond" => sinkAt[r] = 4
        /\ \A s \in Sinks :
            /\ r \in missed[s] => Position[s] < sinkAt[r]
            /\ Position[s] < sinkAt[r] /\ Active(s) /\ (s = "memory" => crashes = 0)
                => (Holds(s, r) = {} <=> r \in missed[s])

-----------------------------------------------------------------------------
LEMMA QueryFacts ==
    ASSUME TypeOK, NEW r \in Requests, NEW q \in query[r]
    PROVE  /\ q \in Queries
           /\ q.size \in Nat
           /\ q.returns \in BOOLEAN
           /\ q.finite \in BOOLEAN
  BY DEF TypeOK, QueryType

LEMMA OutcomeOfRead ==
    ASSUME NEW q \in QueryType
    PROVE  ReadOutcome(q) \in OutcomeType
  BY DEF ReadOutcome, FetchedRows, Minimum, OutcomeType, QueryType

LEMMA OutcomeOfWrite ==
    ASSUME NEW q \in QueryType
    PROVE  WriteOutcome(q) \in OutcomeType
  BY DEF WriteOutcome, OutcomeType, QueryType

LEMMA NoOutcomeTypeOK == NoOutcome \in OutcomeType
  BY DEF NoOutcome, OutcomeType

LEMMA EntryTypeOK ==
    ASSUME TypeOK, NEW r \in Requests, decision[r] # "none", NEW s \in Sinks
    PROVE  /\ Entry(r) \in EntryType
           /\ Payload(s, Entry(r)) \in EntryType
           /\ Payload(s, Entry(r)).id = r
           /\ Payload(s, Entry(r)).decision = decision[r]
<1>1. /\ outcome[r].rows \in 0..MaxResults
      /\ outcome[r].affected \in Nat
      /\ outcome[r].truncated \in BOOLEAN
  BY DEF TypeOK, OutcomeType
<1>2. Minimum(outcome[r].rows, MaxSample) \in 0..MaxSample /\ 0 \in 0..MaxSample
  BY <1>1 DEF Minimum
<1>3. decision[r] \in {"rejected", "allowed", "db_error"}
  BY DEF TypeOK
<1>4. Entry(r) \in EntryType
  BY <1>1, <1>2, <1>3 DEF Entry, EntryType
<1>5. [Entry(r) EXCEPT !.sample = 0] =
          [id |-> r, decision |-> decision[r], returned |-> outcome[r].rows,
           affected |-> outcome[r].affected, sample |-> 0, truncated |-> outcome[r].truncated]
  BY DEF Entry
<1>6. [Entry(r) EXCEPT !.sample = 0] \in EntryType
  BY <1>1, <1>2, <1>3, <1>5 DEF EntryType
<1>. QED
  BY <1>4, <1>5, <1>6 DEF Entry, Payload

LEMMA InitTypeOK == Init => TypeOK
  BY EmptySeq, NoOutcomeTypeOK DEF Init, TypeOK, Places, SinkOrder

\* The steps that only move a request on.
LEMMA MoveTypeOK ==
    ASSUME TypeOK, NEW r \in Requests, NEW place \in Places, Goto(r, place),
           UNCHANGED <<query, databaseVars, outcome, decision, recordVars, response,
                       probe, crashes>>
    PROVE  TypeOK'
  BY DEF TypeOK, Goto, databaseVars, recordVars

LEMMA SubmitTypeOK ==
    ASSUME TypeOK, NEW r \in Requests, NEW q \in Queries, Submit(r, q)
    PROVE  TypeOK'
  BY DEF TypeOK, Submit, Goto, Places, databaseVars, recordVars

LEMMA DatabaseErrorTypeOK ==
    ASSUME TypeOK, NEW r \in Requests, DatabaseError(r)
    PROVE  TypeOK'
<1>1. /\ connection' = [connection EXCEPT ![r] = FALSE]
      /\ tx' = [tx EXCEPT ![r] = IF @ = "open" THEN "aborted" ELSE @]
      /\ outcome' = [outcome EXCEPT ![r] = NoOutcome]
      /\ decision' = [decision EXCEPT ![r] = "db_error"]
      /\ pc' = [pc EXCEPT ![r] = "record"]
      /\ UNCHANGED <<query, timeoutSet, sinkAt, sinks, missed, response, probe, crashes>>
  BY DEF DatabaseError, Goto, recordVars
<1>2. /\ connection' \in [Requests -> BOOLEAN]
      /\ tx' \in [Requests -> {"none", "open", "committing", "committed", "aborted"}]
      /\ outcome' \in [Requests -> OutcomeType]
      /\ decision' \in [Requests -> {"none", "rejected", "allowed", "db_error"}]
      /\ pc' \in [Requests -> Places]
  BY <1>1, NoOutcomeTypeOK DEF TypeOK, Places, OnWorker
<1>. QED
  BY <1>1, <1>2 DEF TypeOK

LEMMA FetchTypeOK ==
    ASSUME TypeOK, NEW r \in Requests, Fetch(r)
    PROVE  TypeOK'
<1>1. PICK q \in query[r] :
          outcome' = [outcome EXCEPT ![r] = IF q.returns THEN ReadOutcome(q) ELSE WriteOutcome(q)]
  BY DEF Fetch
<1>2. q \in QueryType
  BY DEF TypeOK
<1>3. outcome' \in [Requests -> OutcomeType]
  BY <1>1, <1>2, OutcomeOfRead, OutcomeOfWrite DEF TypeOK
<1>4. pc' \in [Requests -> Places]
  BY DEF TypeOK, Fetch, Goto, Places, OnWorker, InDatabase
<1>. QED
  BY <1>3, <1>4 DEF TypeOK, Fetch, databaseVars, recordVars

LEMMA RecordNextTypeOK ==
    ASSUME TypeOK, CallInv, NEW r \in Requests, RecordNext(r)
    PROVE  TypeOK'
<1>. DEFINE s == SinkOrder[sinkAt[r]]
<1>1. /\ sinkAt[r] \in 1..3
      /\ sinks' = [sinks EXCEPT ![s] = Written(s, r)]
      /\ sinkAt' = [sinkAt EXCEPT ![r] = @ + 1]
      /\ UNCHANGED <<query, pc, databaseVars, outcome, decision, missed, response, probe, crashes>>
  BY DEF TypeOK, RecordNext, SinkOrder
<1>2. s \in Sinks
  BY <1>1 DEF SinkOrder, Sinks
<1>3. Payload(s, Entry(r)) \in EntryType
  BY <1>2, EntryTypeOK DEF RecordNext, CallInv
<1>4. Written(s, r) \in Seq(EntryType)
  BY <1>2, <1>3 DEF TypeOK, Written
<1>5. sinks' \in [Sinks -> Seq(EntryType)]
  BY <1>1, <1>2, <1>4 DEF TypeOK
<1>6. sinkAt' \in [Requests -> 1..Len(SinkOrder) + 1]
  BY <1>1 DEF TypeOK, SinkOrder
<1>. QED
  BY <1>1, <1>5, <1>6 DEF TypeOK, databaseVars

LEMMA SinkFailsTypeOK ==
    ASSUME TypeOK, NEW r \in Requests, SinkFails(r)
    PROVE  TypeOK'
<1>1. sinkAt[r] \in 1..3
  BY DEF TypeOK, SinkFails, SinkOrder
<1>2. sinkAt' \in [Requests -> 1..Len(SinkOrder) + 1]
  BY <1>1 DEF TypeOK, SinkFails, SinkOrder
<1>3. missed' \in [Sinks -> SUBSET Requests]
  <2>1. SinkOrder[sinkAt[r]] \in Sinks
    BY <1>1 DEF SinkOrder, Sinks
  <2>2. PICK s \in Sinks : missed' = [missed EXCEPT ![s] = @ \cup {r}]
    BY <2>1 DEF SinkFails
  <2>. QED
    BY <2>2 DEF TypeOK
<1>. QED
  BY <1>2, <1>3 DEF TypeOK, SinkFails, databaseVars

LEMMA StatusType ==
    ASSUME TypeOK, NEW r \in Requests
    PROVE  Status(r) \in {200, 400, 500, 502}
<1>1. decision[r] = "rejected" \/ decision[r] = "allowed"
          \/ decision[r] \notin {"rejected", "allowed"}
  OBVIOUS
<1>. QED
  BY <1>1 DEF Status

LEMMA ExecuteTypeOK ==
    ASSUME TypeOK, CallInv, NEW r \in Requests, Execute(r)
    PROVE  TypeOK'
<1>. USE DEF Places, OnWorker, InDatabase, Goto
<1>1. CASE StartWorker(r) \/ Admit(r) \/ Run(r) \/ RecordReturns(r)
  BY <1>1, MoveTypeOK DEF StartWorker, Admit, Run, RecordReturns
<1>2. CASE RefuseInvalid(r) \/ AnalysisRaises(r)
  <2>1. /\ pc' = [pc EXCEPT ![r] = "done"]
        /\ \E status \in {422, 500} : response' = [response EXCEPT ![r] = status]
        /\ UNCHANGED <<query, databaseVars, outcome, decision, recordVars, probe, crashes>>
    BY <1>2 DEF RefuseInvalid, AnalysisRaises
  <2>. QED
    BY <2>1 DEF TypeOK, databaseVars, recordVars
<1>3. CASE Reject(r)
  BY <1>3 DEF TypeOK, Reject, databaseVars, recordVars
<1>4. CASE Connect(r)
  BY <1>4 DEF TypeOK, Connect, recordVars
<1>5. CASE SetTimeout(r)
  BY <1>5 DEF TypeOK, SetTimeout, recordVars
<1>6. CASE SendCommit(r)
  BY <1>6 DEF TypeOK, SendCommit, recordVars
<1>7. CASE Committed(r)
  BY <1>7 DEF TypeOK, Committed, recordVars
<1>8. CASE CallFails(r) \/ StatementTimeout(r)
  BY <1>8, DatabaseErrorTypeOK DEF CallFails, StatementTimeout
<1>9. CASE Respond(r)
  BY <1>9, StatusType DEF TypeOK, Respond, databaseVars, recordVars
<1>. QED
  BY <1>1, <1>2, <1>3, <1>4, <1>5, <1>6, <1>7, <1>8, <1>9,
     FetchTypeOK, RecordNextTypeOK, SinkFailsTypeOK DEF Execute

LEMMA NextTypeOK ==
    ASSUME TypeOK, CallInv, [Next]_vars
    PROVE  TypeOK'
<1>1. ASSUME NEW r \in Requests, Block(r)
      PROVE  TypeOK'
  BY <1>1, MoveTypeOK DEF Block, Places, OnWorker, InDatabase
<1>2. ASSUME NEW r \in Requests, Database(r)
      PROVE  TypeOK'
  <2>1. /\ \E state \in {"committed", "aborted"} : tx' = [tx EXCEPT ![r] = state]
        /\ UNCHANGED <<query, pc, connection, timeoutSet, outcome, decision, recordVars,
                       response, probe, crashes>>
    BY <1>2 DEF Database, ServerCommits, ServerAborts
  <2>. QED
    BY <2>1 DEF TypeOK, recordVars
<1>3. ASSUME NEW p \in Probes, AskReadiness(p) \/ Probe(p)
      PROVE  TypeOK'
  <2>1. /\ \E state \in {"waiting", "pinging", "ready", "not_ready"} :
              probe' = [probe EXCEPT ![p] = state]
        /\ UNCHANGED <<query, pc, databaseVars, outcome, decision, recordVars, response,
                       crashes>>
    BY <1>3 DEF AskReadiness, Probe, StartPing, AnswerReadiness, ReadinessReport
  <2>. QED
    BY <2>1 DEF TypeOK, databaseVars, recordVars
<1>4. CASE Crash
  <2>1. <<>> \in Seq(EntryType)
    BY EmptySeq
  <2>. QED
    BY <1>4, <2>1 DEF TypeOK, Crash, Places, Sinks
<1>5. CASE UNCHANGED vars
  BY <1>5 DEF TypeOK, vars, databaseVars, recordVars
<1>. QED
  BY <1>1, <1>2, <1>3, <1>4, <1>5, SubmitTypeOK, ExecuteTypeOK DEF Next

-----------------------------------------------------------------------------
(* Decisions, transactions and answers.                                    *)

LEMMA ExecuteCallInv ==
    ASSUME TypeOK, CallInv, NEW r \in Requests, Execute(r)
    PROVE  CallInv'
<1>. USE DEF BeforeDatabase, InDatabase, Goto
<1>1. CASE RefuseInvalid(r) \/ StartWorker(r) \/ Admit(r) \/ AnalysisRaises(r)
  BY <1>1 DEF TypeOK, CallInv, RefuseInvalid, StartWorker, Admit, AnalysisRaises, databaseVars
<1>2. CASE Reject(r)
  BY <1>2 DEF TypeOK, CallInv, Reject, databaseVars
<1>3. CASE Connect(r) \/ SetTimeout(r)
  BY <1>3 DEF TypeOK, CallInv, Connect, SetTimeout
<1>4. CASE Run(r) \/ Fetch(r) \/ SendCommit(r)
  <2>1. CASE Run(r) \/ Fetch(r)
    <3>1. /\ pc[r] \in InDatabase
          /\ \E place \in InDatabase : pc' = [pc EXCEPT ![r] = place]
          /\ UNCHANGED <<query, tx, decision>>
      BY <2>1 DEF Run, Fetch, databaseVars
    <3>. QED
      BY <3>1 DEF TypeOK, CallInv
  <2>2. CASE SendCommit(r)
    BY <2>2 DEF TypeOK, CallInv, SendCommit
  <2>. QED
    BY <1>4, <2>1, <2>2
<1>5. CASE Committed(r)
  BY <1>5 DEF TypeOK, CallInv, Committed
<1>6. CASE CallFails(r) \/ StatementTimeout(r)
  BY <1>6 DEF TypeOK, CallInv, CallFails, StatementTimeout, DatabaseError
<1>7. CASE RecordNext(r) \/ SinkFails(r)
  BY <1>7 DEF CallInv, RecordNext, SinkFails, databaseVars
<1>8. CASE RecordReturns(r) \/ Respond(r)
  BY <1>8 DEF TypeOK, CallInv, RecordReturns, Respond, databaseVars
<1>. QED
  BY <1>1, <1>2, <1>3, <1>4, <1>5, <1>6, <1>7, <1>8 DEF Execute

LEMMA NextCallInv ==
    ASSUME TypeOK, CallInv, [Next]_vars
    PROVE  CallInv'
<1>. USE DEF BeforeDatabase, InDatabase, Goto
<1>1. ASSUME NEW r \in Requests, NEW q \in Queries, Submit(r, q)
      PROVE  CallInv'
  BY <1>1 DEF TypeOK, CallInv, Submit, databaseVars
<1>2. ASSUME NEW r \in Requests, Block(r) \/ Database(r)
      PROVE  CallInv'
  BY <1>2 DEF TypeOK, CallInv, Block, Database, ServerCommits, ServerAborts, databaseVars
<1>3. ASSUME NEW p \in Probes, AskReadiness(p) \/ Probe(p)
      PROVE  CallInv'
  BY <1>3 DEF CallInv, AskReadiness, Probe, StartPing, AnswerReadiness, databaseVars
<1>4. CASE Crash
  BY <1>4 DEF TypeOK, CallInv, Crash
<1>5. CASE UNCHANGED vars
  BY <1>5 DEF CallInv, vars, databaseVars
<1>. QED
  BY <1>1, <1>2, <1>3, <1>4, <1>5, ExecuteCallInv DEF Next

LEMMA AnswerKept ==
    ASSUME AnswerInv, UNCHANGED response,
           \A r \in Requests : pc'[r] # "done" => pc[r] # "done",
           \A r \in Requests :
               pc[r] = "done" /\ tx[r] \in {"none", "committed"} => tx'[r] = tx[r]
    PROVE  AnswerInv'
  BY DEF AnswerInv

LEMMA NextAnswerInv ==
    ASSUME TypeOK, CallInv, AnswerInv, [Next]_vars
    PROVE  AnswerInv'
<1>. USE DEF BeforeDatabase, InDatabase, Goto
<1>1. ASSUME NEW r \in Requests, Execute(r)
      PROVE  AnswerInv'
  <2>1. CASE RefuseInvalid(r) \/ AnalysisRaises(r)
    BY <2>1 DEF TypeOK, CallInv, AnswerInv, RefuseInvalid, AnalysisRaises, databaseVars
  <2>2. CASE Respond(r)
    <3>1. decision[r] \in {"rejected", "allowed", "db_error"}
      BY <2>2 DEF TypeOK, CallInv, Respond
    <3>2. Status(r) = 502 \/ tx[r] \in {"none", "committed"}
      BY <3>1 DEF CallInv, Status
    <3>3. /\ pc' = [pc EXCEPT ![r] = "done"]
          /\ response' = [response EXCEPT ![r] = Status(r)]
          /\ UNCHANGED tx
      BY <2>2 DEF Respond, databaseVars
    <3>. QED
      BY <3>2, <3>3 DEF TypeOK, AnswerInv
  <2>3. CASE StartWorker(r) \/ Reject(r) \/ Admit(r) \/ RecordReturns(r)
    BY <2>3 DEF TypeOK, AnswerInv, StartWorker, Reject, Admit, RecordReturns, databaseVars
  <2>4. CASE Connect(r)
    BY <2>4, AnswerKept DEF TypeOK, Connect
  <2>5. CASE SetTimeout(r) \/ Run(r) \/ Fetch(r) \/ SendCommit(r) \/ Committed(r)
    BY <2>5, AnswerKept DEF TypeOK, SetTimeout, Run, Fetch, SendCommit, Committed, databaseVars
  <2>6. CASE CallFails(r) \/ StatementTimeout(r)
    BY <2>6, AnswerKept DEF TypeOK, CallFails, StatementTimeout, DatabaseError
  <2>7. CASE RecordNext(r) \/ SinkFails(r)
    BY <2>7 DEF AnswerInv, RecordNext, SinkFails, databaseVars
  <2>. QED
    BY <1>1, <2>1, <2>2, <2>3, <2>4, <2>5, <2>6, <2>7 DEF Execute
<1>2. ASSUME NEW r \in Requests, NEW q \in Queries, Submit(r, q)
      PROVE  AnswerInv'
  BY <1>2 DEF TypeOK, AnswerInv, Submit, databaseVars
<1>3. ASSUME NEW r \in Requests, Block(r) \/ Database(r)
      PROVE  AnswerInv'
  <2>1. CASE Block(r)
    BY <2>1, AnswerKept DEF TypeOK, Block, databaseVars
  <2>2. CASE Database(r)
    BY <2>2, AnswerKept DEF TypeOK, Database, ServerCommits, ServerAborts
  <2>. QED
    BY <1>3, <2>1, <2>2
<1>4. ASSUME NEW p \in Probes, AskReadiness(p) \/ Probe(p)
      PROVE  AnswerInv'
  BY <1>4 DEF AnswerInv, AskReadiness, Probe, StartPing, AnswerReadiness, databaseVars
<1>5. CASE Crash
  BY <1>5 DEF TypeOK, AnswerInv, Crash
<1>6. CASE UNCHANGED vars
  BY <1>6 DEF AnswerInv, vars, databaseVars
<1>. QED
  BY <1>1, <1>2, <1>3, <1>4, <1>5, <1>6 DEF Next


-----------------------------------------------------------------------------
(* The entries are true.                                                   *)

LEMMA EntryKept ==
    ASSUME TypeOK, EntryInv, UNCHANGED sinks,
           \A r \in Requests : decision[r] # "none" => decision'[r] = decision[r]
    PROVE  EntryInv'
<1>1. ASSUME NEW s \in Sinks, NEW entry \in Range(sinks[s])
      PROVE  entry.decision = decision'[entry.id]
  <2>1. entry \in EntryType
    BY RangeOfSeq DEF TypeOK
  <2>2. entry.id \in Requests /\ entry.decision # "none"
    BY <2>1 DEF EntryType
  <2>. QED
    BY <2>2 DEF EntryInv
<1>. QED
  BY <1>1 DEF EntryInv

\* An entry is written once its request has decided.
LEMMA RecordNextEntryInv ==
    ASSUME TypeOK, CallInv, EntryInv, NEW r \in Requests, RecordNext(r)
    PROVE  EntryInv'
<1>1. sinkAt[r] \in 1..3
  BY DEF TypeOK, RecordNext, SinkOrder
<1>2. SinkOrder[sinkAt[r]] \in Sinks
  BY <1>1 DEF SinkOrder, Sinks
<1>3. PICK s \in Sinks : sinks' = [sinks EXCEPT ![s] = Written(s, r)]
  BY <1>2 DEF RecordNext
<1>4. /\ Payload(s, Entry(r)) \in EntryType
      /\ Payload(s, Entry(r)).id = r
      /\ Payload(s, Entry(r)).decision = decision[r]
  BY EntryTypeOK DEF CallInv, RecordNext
<1>5. sinks[s] \in Seq(EntryType)
  BY DEF TypeOK
<1>6. Range(Append(sinks[s], Payload(s, Entry(r)))) = Range(sinks[s]) \cup {Payload(s, Entry(r))}
  BY <1>4, <1>5, AppendProperties, LenProperties DEF Range
<1>7. Range(Written(s, r)) \subseteq Range(sinks[s]) \cup {Payload(s, Entry(r))}
  BY <1>6 DEF Written
<1>8. UNCHANGED decision
  BY DEF RecordNext
<1>9. ASSUME NEW t \in Sinks, NEW entry \in Range(sinks'[t])
      PROVE  entry.decision = decision'[entry.id]
  <2>1. CASE t = s
    <3>1. sinks'[t] = Written(s, r)
      BY <1>3, <2>1 DEF TypeOK
    <3>2. entry \in Range(sinks[s]) \/ entry = Payload(s, Entry(r))
      BY <1>7, <3>1
    <3>. QED
      BY <1>4, <1>8, <3>2 DEF EntryInv
  <2>2. CASE t # s
    <3>1. sinks'[t] = sinks[t]
      BY <1>3, <2>2 DEF TypeOK
    <3>. QED
      BY <1>8, <3>1 DEF EntryInv
  <2>. QED
    BY <2>1, <2>2
<1>. QED
  BY <1>9 DEF EntryInv

LEMMA NextEntryInv ==
    ASSUME TypeOK, CallInv, EntryInv, [Next]_vars
    PROVE  EntryInv'
<1>1. ASSUME NEW r \in Requests, Execute(r)
      PROVE  EntryInv'
  <2>1. CASE Reject(r) \/ Committed(r)
    <3>1. decision[r] = "none"
      BY <2>1 DEF CallInv, Reject, Committed, BeforeDatabase, InDatabase
    <3>. QED
      BY <2>1, <3>1, EntryKept DEF TypeOK, Reject, Committed, recordVars
  <2>2. CASE CallFails(r) \/ StatementTimeout(r)
    <3>1. decision[r] = "none"
      BY <2>2 DEF CallInv, CallFails, StatementTimeout, BeforeDatabase, InDatabase
    <3>. QED
      BY <2>2, <3>1, EntryKept DEF TypeOK, CallFails, StatementTimeout, DatabaseError, recordVars
  <2>3. CASE UNCHANGED <<sinks, decision>>
    BY <2>3, EntryKept
  <2>. QED
    BY <1>1, <2>1, <2>2, <2>3, RecordNextEntryInv
    DEF Execute, RefuseInvalid, StartWorker, Admit, AnalysisRaises, Connect, SetTimeout, Run,
        Fetch, SendCommit, SinkFails, RecordReturns, Respond, recordVars
<1>2. CASE Crash
  <2>1. ASSUME NEW s \in Sinks
        PROVE  Range(sinks'[s]) \subseteq Range(sinks[s])
    <3>1. sinks' = [sinks EXCEPT !["memory"] = <<>>]
      BY <1>2 DEF Crash
    <3>2. Range(<<>>) = {}
      BY DEF Range
    <3>. QED
      BY <3>1, <3>2 DEF TypeOK
  <2>. QED
    BY <1>2, <2>1 DEF EntryInv, Crash
<1>3. CASE UNCHANGED <<sinks, decision>>
  BY <1>3, EntryKept
<1>. QED
  BY <1>1, <1>2, <1>3
  DEF Next, Submit, Block, Database, ServerCommits, ServerAborts, AskReadiness, Probe, StartPing,
      AnswerReadiness, vars, recordVars

-----------------------------------------------------------------------------
(* Sessions, workers and results.                                          *)

LEMMA NextSessionInv ==
    ASSUME TypeOK, CallInv, SessionInv, [Next]_vars
    PROVE  SessionInv'
<1>. USE DEF InDatabase, Goto
<1>1. ASSUME NEW r \in Requests, Execute(r)
      PROVE  SessionInv'
  <2>1. CASE RefuseInvalid(r) \/ StartWorker(r) \/ Admit(r) \/ AnalysisRaises(r) \/ Reject(r)
    BY <2>1 DEF TypeOK, SessionInv, RefuseInvalid, StartWorker, Admit, AnalysisRaises, Reject,
                databaseVars
  <2>2. CASE Connect(r)
    BY <2>2 DEF TypeOK, SessionInv, Connect
  <2>9. CASE SetTimeout(r)
    BY <2>9 DEF TypeOK, SessionInv, SetTimeout
  <2>3. CASE Run(r) \/ Fetch(r)
    BY <2>3 DEF TypeOK, SessionInv, Run, Fetch, databaseVars
  <2>4. CASE SendCommit(r)
    BY <2>4 DEF TypeOK, SessionInv, SendCommit
  <2>5. CASE Committed(r)
    BY <2>5 DEF TypeOK, SessionInv, Committed
  <2>6. CASE CallFails(r) \/ StatementTimeout(r)
    <3>1. /\ connection' = [connection EXCEPT ![r] = FALSE]
          /\ tx' = [tx EXCEPT ![r] = IF @ = "open" THEN "aborted" ELSE @]
          /\ pc' = [pc EXCEPT ![r] = "record"]
      BY <2>6 DEF CallFails, StatementTimeout, DatabaseError
    <3>2. tx'[r] # "open"
      BY <3>1 DEF TypeOK
    <3>. QED
      BY <3>1, <3>2 DEF TypeOK, SessionInv
  <2>7. CASE RecordNext(r) \/ SinkFails(r)
    BY <2>7 DEF SessionInv, RecordNext, SinkFails, databaseVars
  <2>8. CASE RecordReturns(r) \/ Respond(r)
    BY <2>8 DEF TypeOK, SessionInv, RecordReturns, Respond, databaseVars
  <2>. QED
    BY <1>1, <2>1, <2>2, <2>3, <2>4, <2>5, <2>6, <2>7, <2>8, <2>9 DEF Execute
<1>2. ASSUME NEW r \in Requests, NEW q \in Queries, Submit(r, q)
      PROVE  SessionInv'
  BY <1>2 DEF TypeOK, SessionInv, Submit, databaseVars
<1>3. ASSUME NEW r \in Requests, Block(r)
      PROVE  SessionInv'
  BY <1>3 DEF TypeOK, SessionInv, Block, databaseVars
<1>4. ASSUME NEW r \in Requests, Database(r)
      PROVE  SessionInv'
  BY <1>4 DEF TypeOK, SessionInv, Database, ServerCommits, ServerAborts
<1>5. ASSUME NEW p \in Probes, AskReadiness(p) \/ Probe(p)
      PROVE  SessionInv'
  BY <1>5 DEF SessionInv, AskReadiness, Probe, StartPing, AnswerReadiness, databaseVars
<1>6. CASE Crash
  BY <1>6 DEF TypeOK, SessionInv, Crash
<1>7. CASE UNCHANGED vars
  BY <1>7 DEF SessionInv, vars, databaseVars
<1>. QED
  BY <1>1, <1>2, <1>3, <1>4, <1>5, <1>6, <1>7 DEF Next

\* Nothing but the start of a worker or of a ping takes a thread of the pool.
LEMMA BusyKept ==
    ASSUME WorkerInv, OnWorkers' \subseteq OnWorkers, Pinging' \subseteq Pinging
    PROVE  WorkerInv'
<1>1. /\ IsFiniteSet(OnWorkers') /\ Cardinality(OnWorkers') <= Cardinality(OnWorkers)
      /\ IsFiniteSet(Pinging') /\ Cardinality(Pinging') <= Cardinality(Pinging)
  BY FS_Subset DEF WorkerInv
<1>2. /\ Cardinality(OnWorkers') \in Nat /\ Cardinality(OnWorkers) \in Nat
      /\ Cardinality(Pinging') \in Nat /\ Cardinality(Pinging) \in Nat
  BY <1>1, FS_CardinalityType DEF WorkerInv
<1>3. /\ BusyWorkers = Cardinality(OnWorkers) + Cardinality(Pinging)
      /\ BusyWorkers' = Cardinality(OnWorkers') + Cardinality(Pinging')
  BY DEF BusyWorkers, OnWorkers, Pinging
<1>4. BusyWorkers' <= Workers
  BY <1>1, <1>2, <1>3 DEF WorkerInv
<1>. QED
  BY <1>1, <1>4 DEF WorkerInv

LEMMA BusyGrows ==
    ASSUME WorkerInv, BusyWorkers < Workers, NEW x,
           \/ OnWorkers' \subseteq OnWorkers \cup {x} /\ Pinging' \subseteq Pinging
           \/ OnWorkers' \subseteq OnWorkers /\ Pinging' \subseteq Pinging \cup {x}
    PROVE  WorkerInv'
<1>1. /\ IsFiniteSet(OnWorkers) /\ Cardinality(OnWorkers) \in Nat
      /\ IsFiniteSet(Pinging) /\ Cardinality(Pinging) \in Nat
  BY FS_CardinalityType DEF WorkerInv
<1>2. /\ IsFiniteSet(OnWorkers \cup {x})
      /\ Cardinality(OnWorkers \cup {x}) \in Nat
      /\ Cardinality(OnWorkers \cup {x}) <= Cardinality(OnWorkers) + 1
  <2>1. /\ IsFiniteSet(OnWorkers \cup {x})
        /\ Cardinality(OnWorkers \cup {x})
               = IF x \in OnWorkers THEN Cardinality(OnWorkers) ELSE Cardinality(OnWorkers) + 1
    BY <1>1, FS_AddElement
  <2>. QED
    BY <1>1, <2>1
<1>3. /\ IsFiniteSet(Pinging \cup {x})
      /\ Cardinality(Pinging \cup {x}) \in Nat
      /\ Cardinality(Pinging \cup {x}) <= Cardinality(Pinging) + 1
  <2>1. /\ IsFiniteSet(Pinging \cup {x})
        /\ Cardinality(Pinging \cup {x})
               = IF x \in Pinging THEN Cardinality(Pinging) ELSE Cardinality(Pinging) + 1
    BY <1>1, FS_AddElement
  <2>. QED
    BY <1>1, <2>1
<1>4. /\ IsFiniteSet(OnWorkers') /\ IsFiniteSet(Pinging')
      /\ \/ /\ Cardinality(OnWorkers') <= Cardinality(OnWorkers \cup {x})
            /\ Cardinality(Pinging') <= Cardinality(Pinging)
         \/ /\ Cardinality(OnWorkers') <= Cardinality(OnWorkers)
            /\ Cardinality(Pinging') <= Cardinality(Pinging \cup {x})
  BY <1>1, <1>2, <1>3, FS_Subset
<1>5. Cardinality(OnWorkers') \in Nat /\ Cardinality(Pinging') \in Nat
  BY <1>4, FS_CardinalityType
<1>6. /\ BusyWorkers = Cardinality(OnWorkers) + Cardinality(Pinging)
      /\ BusyWorkers' = Cardinality(OnWorkers') + Cardinality(Pinging')
  BY DEF BusyWorkers, OnWorkers, Pinging
<1>7. BusyWorkers' <= Workers
  BY <1>1, <1>2, <1>3, <1>4, <1>5, <1>6
<1>. QED
  BY <1>4, <1>7 DEF WorkerInv

LEMMA NextWorkerInv ==
    ASSUME TypeOK, WorkerInv, [Next]_vars
    PROVE  WorkerInv'
<1>. USE DEF Goto
<1>1. ASSUME NEW r \in Requests, StartWorker(r)
      PROVE  WorkerInv'
  <2>1. OnWorkers' \subseteq OnWorkers \cup {r} /\ Pinging' = Pinging
    BY <1>1 DEF TypeOK, StartWorker, OnWorkers, Pinging
  <2>. QED
    BY <1>1, <2>1, BusyGrows DEF StartWorker
<1>2. ASSUME NEW p \in Probes, StartPing(p)
      PROVE  WorkerInv'
  <2>1. OnWorkers' = OnWorkers /\ Pinging' \subseteq Pinging \cup {p}
    BY <1>2 DEF TypeOK, StartPing, OnWorkers, Pinging
  <2>. QED
    BY <1>2, <2>1, BusyGrows DEF StartPing
<1>3. ASSUME NEW r \in Requests, UNCHANGED probe,
             pc' = pc \/ \E place \in Places : /\ pc' = [pc EXCEPT ![r] = place]
                                               /\ place \in OnWorker => pc[r] \in OnWorker
      PROVE  WorkerInv'
  <2>1. OnWorkers' \subseteq OnWorkers /\ Pinging' = Pinging
    <3>1. \A other \in Requests : pc'[other] \in OnWorker => pc[other] \in OnWorker
      <4>1. CASE UNCHANGED pc
        BY <4>1
      <4>2. ASSUME NEW place \in Places, pc' = [pc EXCEPT ![r] = place],
                   place \in OnWorker => pc[r] \in OnWorker
            PROVE  \A other \in Requests : pc'[other] \in OnWorker => pc[other] \in OnWorker
        BY <4>2 DEF TypeOK
      <4>. QED
        BY <1>3, <4>1, <4>2
    <3>. QED
      BY <1>3, <3>1 DEF OnWorkers, Pinging
  <2>. QED
    BY <2>1, BusyKept
<1>4. ASSUME NEW r \in Requests, Execute(r) \/ Block(r), ~StartWorker(r)
      PROVE  /\ UNCHANGED probe
             /\ pc' = pc \/ \E place \in Places : /\ pc' = [pc EXCEPT ![r] = place]
                                                  /\ place \in OnWorker => pc[r] \in OnWorker
  <2>. USE DEF Places, OnWorker, InDatabase
  <2>1. CASE RefuseInvalid(r) \/ Reject(r) \/ Admit(r) \/ AnalysisRaises(r) \/ Connect(r)
    BY <2>1 DEF RefuseInvalid, Reject, Admit, AnalysisRaises, Connect
  <2>2. CASE SetTimeout(r) \/ Run(r) \/ Block(r) \/ Fetch(r) \/ SendCommit(r) \/ Committed(r)
    BY <2>2 DEF SetTimeout, Run, Block, Fetch, SendCommit, Committed
  <2>3. CASE CallFails(r) \/ StatementTimeout(r)
    BY <2>3 DEF CallFails, StatementTimeout, DatabaseError
  <2>4. CASE RecordNext(r) \/ SinkFails(r) \/ RecordReturns(r) \/ Respond(r)
    BY <2>4 DEF RecordNext, SinkFails, RecordReturns, Respond
  <2>. QED
    BY <1>4, <2>1, <2>2, <2>3, <2>4 DEF Execute
<1>5. ASSUME NEW r \in Requests, NEW q \in Queries, Submit(r, q)
      PROVE  WorkerInv'
  <2>1. /\ pc' = [pc EXCEPT ![r] = "received"]
        /\ UNCHANGED probe
        /\ "received" \in Places \ OnWorker
    BY <1>5 DEF Submit, Places, OnWorker, InDatabase
  <2>. QED
    BY <1>3, <2>1
<1>6. ASSUME NEW r \in Requests, Database(r)
      PROVE  WorkerInv'
  BY <1>3, <1>6 DEF Database, ServerCommits, ServerAborts
<1>7. ASSUME NEW p \in Probes, AskReadiness(p) \/ AnswerReadiness(p)
      PROVE  WorkerInv'
  <2>1. OnWorkers' = OnWorkers /\ Pinging' \subseteq Pinging
    BY <1>7 DEF TypeOK, AskReadiness, AnswerReadiness, ReadinessReport, OnWorkers, Pinging
  <2>. QED
    BY <2>1, BusyKept
<1>8. CASE Crash
  <2>1. OnWorkers' \subseteq OnWorkers /\ Pinging' \subseteq Pinging
    BY <1>8 DEF Crash, OnWorkers, Pinging, OnWorker, InDatabase
  <2>. QED
    BY <2>1, BusyKept
<1>9. CASE UNCHANGED vars
  BY <1>9, BusyKept DEF vars, OnWorkers, Pinging
<1>. QED
  BY <1>1, <1>2, <1>3, <1>4, <1>5, <1>6, <1>7, <1>8, <1>9 DEF Next, Probe

LEMMA ResultKept ==
    ASSUME ResultInv, UNCHANGED <<query, outcome>>,
           \A r \in Requests : decision'[r] = "allowed" =>
               decision[r] = "allowed" \/ pc[r] = "acknowledge",
           \A r \in Requests : pc'[r] \in {"commit", "acknowledge"} =>
               pc[r] \in {"commit", "acknowledge"}
    PROVE  ResultInv'
  BY DEF ResultInv

LEMMA NextResultInv ==
    ASSUME TypeOK, CallInv, ResultInv, [Next]_vars
    PROVE  ResultInv'
<1>. USE DEF Goto
<1>1. ASSUME NEW r \in Requests, Execute(r)
      PROVE  ResultInv'
  <2>1. CASE RefuseInvalid(r) \/ StartWorker(r) \/ Admit(r) \/ AnalysisRaises(r) \/ Reject(r)
    BY <2>1, ResultKept DEF TypeOK, RefuseInvalid, StartWorker, Admit, AnalysisRaises, Reject
  <2>2. CASE Connect(r) \/ SetTimeout(r) \/ Run(r) \/ SendCommit(r)
    BY <2>2, ResultKept DEF TypeOK, Connect, SetTimeout, Run, SendCommit
  <2>3. CASE Committed(r)
    BY <2>3, ResultKept DEF TypeOK, Committed
  <2>4. CASE RecordNext(r) \/ SinkFails(r) \/ RecordReturns(r) \/ Respond(r)
    BY <2>4, ResultKept DEF TypeOK, RecordNext, SinkFails, RecordReturns, Respond
  <2>5. CASE Fetch(r)
    <3>1. PICK q \in query[r] :
              outcome' = [outcome EXCEPT ![r] =
                              IF q.returns THEN ReadOutcome(q) ELSE WriteOutcome(q)]
      BY <2>5 DEF Fetch
    <3>2. query[r] = {q}
      BY DEF ResultInv
    <3>3. outcome'[r] = IF q.returns THEN ReadOutcome(q) ELSE WriteOutcome(q)
      BY <3>1 DEF TypeOK
    <3>4. pc' = [pc EXCEPT ![r] = "commit"] /\ UNCHANGED <<query, decision>>
      BY <2>5 DEF Fetch
    <3>5. \A s \in Requests \ {r} : outcome'[s] = outcome[s] /\ pc'[s] = pc[s]
      BY <3>1, <3>4 DEF TypeOK
    <3>. QED
      BY <3>2, <3>3, <3>4, <3>5 DEF ResultInv
  <2>6. CASE CallFails(r) \/ StatementTimeout(r)
    <3>1. /\ outcome' = [outcome EXCEPT ![r] = NoOutcome]
          /\ decision' = [decision EXCEPT ![r] = "db_error"]
          /\ pc' = [pc EXCEPT ![r] = "record"]
          /\ UNCHANGED query
      BY <2>6 DEF CallFails, StatementTimeout, DatabaseError
    <3>. QED
      BY <3>1 DEF TypeOK, ResultInv
  <2>. QED
    BY <1>1, <2>1, <2>2, <2>3, <2>4, <2>5, <2>6 DEF Execute
<1>2. ASSUME NEW r \in Requests, NEW q \in Queries, Submit(r, q)
      PROVE  ResultInv'
  <2>1. decision[r] = "none"
    BY <1>2 DEF CallInv, Submit, BeforeDatabase
  <2>. QED
    BY <1>2, <2>1 DEF TypeOK, ResultInv, Submit
<1>3. ASSUME NEW r \in Requests, Block(r) \/ Database(r)
      PROVE  ResultInv'
  BY <1>3, ResultKept DEF TypeOK, Block, Database, ServerCommits, ServerAborts
<1>4. ASSUME NEW p \in Probes, AskReadiness(p) \/ Probe(p)
      PROVE  ResultInv'
  BY <1>4, ResultKept DEF AskReadiness, Probe, StartPing, AnswerReadiness
<1>5. CASE Crash
  BY <1>5, ResultKept DEF Crash
<1>6. CASE UNCHANGED vars
  BY <1>6, ResultKept DEF vars
<1>. QED
  BY <1>1, <1>2, <1>3, <1>4, <1>5, <1>6 DEF Next

-----------------------------------------------------------------------------
(* Answers and the lines of the sinks.                                     *)

LEMMA PositionOfSink ==
    /\ \A s \in Sinks : Position[s] \in 1..3 /\ SinkOrder[Position[s]] = s
    /\ \A k \in 1..3 : SinkOrder[k] \in Sinks /\ Position[SinkOrder[k]] = k
  BY DEF Position, SinkOrder, Sinks

LEMMA StatusKept ==
    ASSUME StatusInv, UNCHANGED <<response, sinkAt>>,
           \A r \in Requests : response[r] # 0 =>
               decision'[r] = decision[r] /\ outcome'[r] = outcome[r]
    PROVE  StatusInv'
  BY DEF StatusInv, Status

LEMMA NextStatusInv ==
    ASSUME TypeOK, CallInv, AnswerInv, SinkAtInv, StatusInv, [Next]_vars
    PROVE  StatusInv'
<1>. USE DEF Goto
<1>1. ASSUME NEW r \in Requests, Execute(r)
      PROVE  StatusInv'
  <2>1. CASE RefuseInvalid(r) \/ AnalysisRaises(r)
    <3>1. decision[r] = "none"
      BY <2>1 DEF CallInv, RefuseInvalid, AnalysisRaises, BeforeDatabase
    <3>2. response' = [response EXCEPT ![r] = 422] \/ response' = [response EXCEPT ![r] = 500]
      BY <2>1 DEF RefuseInvalid, AnalysisRaises
    <3>3. UNCHANGED <<decision, outcome, sinkAt>>
      BY <2>1 DEF RefuseInvalid, AnalysisRaises, recordVars
    <3>4. response'[r] \in {422, 500} /\ \A q \in Requests \ {r} : response'[q] = response[q]
      BY <3>2 DEF TypeOK
    <3>. QED
      BY <3>1, <3>3, <3>4 DEF StatusInv, Status
  <2>2. CASE Respond(r)
    <3>1. decision[r] # "none" /\ sinkAt[r] = 4
      BY <2>2 DEF CallInv, SinkAtInv, Respond
    <3>2. /\ response' = [response EXCEPT ![r] = Status(r)]
          /\ UNCHANGED <<decision, outcome, sinkAt>>
      BY <2>2 DEF Respond, recordVars
    <3>3. response'[r] = Status(r) /\ \A q \in Requests \ {r} : response'[q] = response[q]
      BY <3>2 DEF TypeOK
    <3>. QED
      BY <3>1, <3>2, <3>3 DEF StatusInv, Status
  <2>3. CASE RecordNext(r) \/ SinkFails(r)
    <3>1. response[r] = 0
      BY <2>3 DEF AnswerInv, RecordNext, SinkFails
    <3>2. /\ UNCHANGED <<response, decision, outcome>>
          /\ sinkAt' = [sinkAt EXCEPT ![r] = @ + 1]
      BY <2>3 DEF RecordNext, SinkFails
    <3>. QED
      BY <3>1, <3>2 DEF TypeOK, StatusInv, Status
  <2>4. CASE Reject(r) \/ Committed(r) \/ Fetch(r) \/ CallFails(r) \/ StatementTimeout(r)
    <3>1. response[r] = 0
      BY <2>4 DEF AnswerInv, Reject, Committed, Fetch, CallFails, StatementTimeout
    <3>2. /\ UNCHANGED <<response, sinkAt>>
          /\ \A q \in Requests \ {r} : decision'[q] = decision[q] /\ outcome'[q] = outcome[q]
      BY <2>4 DEF TypeOK, Reject, Committed, Fetch, CallFails, StatementTimeout, DatabaseError,
                  recordVars
    <3>. QED
      BY <3>1, <3>2, StatusKept
  <2>5. CASE UNCHANGED <<response, sinkAt, decision, outcome>>
    BY <2>5, StatusKept
  <2>. QED
    BY <1>1, <2>1, <2>2, <2>3, <2>4, <2>5
    DEF Execute, StartWorker, Admit, Connect, SetTimeout, Run, SendCommit, RecordReturns, recordVars
<1>2. CASE UNCHANGED <<response, sinkAt, decision, outcome>>
  BY <1>2, StatusKept
<1>. QED
  BY <1>1, <1>2
  DEF Next, Submit, Block, Database, ServerCommits, ServerAborts, AskReadiness, Probe, StartPing,
      AnswerReadiness, Crash, vars, recordVars

-----------------------------------------------------------------------------
LEMMA LineType ==
    ASSUME TypeOK, NEW s \in Sinks, NEW i \in DOMAIN sinks[s]
    PROVE  /\ sinks[s][i].id \in Requests
           /\ sinks[s][i].decision # "none"
           /\ Len(sinks[s]) \in Nat
           /\ DOMAIN sinks[s] = 1..Len(sinks[s])
<1>1. sinks[s] \in Seq(EntryType)
  BY DEF TypeOK
<1>2. sinks[s][i] \in EntryType
  BY <1>1
<1>3. sinks[s][i].id \in Requests /\ sinks[s][i].decision # "none"
  BY <1>2 DEF EntryType
<1>4. Len(sinks[s]) \in Nat /\ DOMAIN sinks[s] = 1..Len(sinks[s])
  BY <1>1
<1>. QED
  BY <1>3, <1>4

\* What a line says of its request stays so: a request with a line has decided.
LEMMA LineKept ==
    ASSUME TypeOK, LineInv, UNCHANGED sinks,
           \A r \in Requests : sinkAt'[r] \in Nat /\ sinkAt'[r] >= sinkAt[r],
           \A r \in Requests : sinkAt[r] > 1 => outcome'[r] = outcome[r]
    PROVE  LineInv'
<1>1. ASSUME NEW s \in Sinks, NEW i \in DOMAIN sinks[s], NEW r, r = sinks[s][i].id
      PROVE  Position[s] < sinkAt'[r] /\ outcome'[r] = outcome[r]
  <2>1. r \in Requests
    BY <1>1, LineType
  <2>2. Position[s] < sinkAt[r] /\ Position[s] \in 1..3 /\ sinkAt[r] \in 1..4
    BY <1>1, <2>1, PositionOfSink DEF LineInv, TypeOK, SinkOrder
  <2>. QED
    BY <2>1, <2>2
<1>. QED
  BY <1>1 DEF LineInv, CardRows

LEMMA WrittenLines ==
    ASSUME TypeOK, NEW r \in Requests, NEW s \in Sinks, decision[r] # "none",
           NEW lines, lines = Written(s, r), NEW i \in DOMAIN lines
    PROVE  \/ i \in DOMAIN sinks[s] /\ lines[i] = sinks[s][i]
           \/ i = Len(sinks[s]) + 1 /\ lines[i] = Payload(s, Entry(r)) /\ Active(s)
<1>1. Payload(s, Entry(r)) \in EntryType /\ sinks[s] \in Seq(EntryType)
  BY EntryTypeOK DEF TypeOK
<1>2. CASE s = "jsonl" /\ ~JsonlPathSet
  BY <1>2 DEF Written
<1>3. CASE ~(s = "jsonl" /\ ~JsonlPathSet)
  <2>1. lines = Append(sinks[s], Payload(s, Entry(r)))
    BY <1>3 DEF Written
  <2>2. /\ Len(sinks[s]) \in Nat
        /\ DOMAIN lines = 1..Len(sinks[s]) + 1
        /\ DOMAIN sinks[s] = 1..Len(sinks[s])
    BY <1>1, <2>1
  <2>3. \A k \in 1..Len(sinks[s]) : lines[k] = sinks[s][k]
    BY <1>1, <2>1
  <2>4. lines[Len(sinks[s]) + 1] = Payload(s, Entry(r))
    BY <1>1, <2>1
  <2>5. i \in 1..Len(sinks[s]) \/ i = Len(sinks[s]) + 1
    BY <2>2
  <2>. QED
    BY <1>3, <2>2, <2>3, <2>4, <2>5 DEF Active
<1>. QED
  BY <1>2, <1>3

LEMMA PayloadRows ==
    ASSUME NEW r \in Requests, NEW s \in Sinks
    PROVE  /\ CardRows(Payload(s, Entry(r))) = [returned |-> outcome[r].rows,
                                                affected |-> outcome[r].affected,
                                                truncated |-> outcome[r].truncated]
           /\ s # "memory" => Payload(s, Entry(r)).sample = 0
  BY DEF CardRows, Payload, Entry

LEMMA RecordNextLineInv ==
    ASSUME TypeOK, CallInv, LineInv, NEW r \in Requests, RecordNext(r)
    PROVE  LineInv'
<1>1. sinkAt[r] \in 1..3 /\ decision[r] # "none"
  BY DEF TypeOK, CallInv, RecordNext, SinkOrder
<1>2. PICK s \in Sinks : s = SinkOrder[sinkAt[r]] /\ Position[s] = sinkAt[r]
  BY <1>1, PositionOfSink
<1>3. /\ sinks' = [sinks EXCEPT ![s] = Written(s, r)]
      /\ sinkAt' = [sinkAt EXCEPT ![r] = @ + 1]
      /\ UNCHANGED outcome
  BY <1>2 DEF RecordNext
<1>4. /\ sinkAt'[r] = sinkAt[r] + 1
      /\ \A q \in Requests \ {r} : sinkAt'[q] = sinkAt[q]
      /\ \A q \in Requests : sinkAt[q] \in Nat
      /\ sinks'[s] = Written(s, r)
      /\ \A t \in Sinks \ {s} : sinks'[t] = sinks[t]
      /\ \A t \in Sinks : Position[t] \in Nat
  <2>1. sinks \in [Sinks -> Seq(EntryType)] /\ sinkAt \in [Requests -> 1..4]
    BY DEF TypeOK, SinkOrder
  <2>2. /\ sinkAt'[r] = sinkAt[r] + 1
        /\ \A q \in Requests \ {r} : sinkAt'[q] = sinkAt[q]
        /\ \A q \in Requests : sinkAt[q] \in Nat
    BY <1>3, <2>1
  <2>3. /\ sinks'[s] = Written(s, r)
        /\ \A t \in Sinks \ {s} : sinks'[t] = sinks[t]
    BY <1>3, <2>1
  <2>. QED
    BY <2>2, <2>3, PositionOfSink
<1>5. \A t \in Sinks : \A i \in DOMAIN sinks[t] :
          /\ sinks[t][i].id \in Requests
          /\ i # Len(sinks[t]) + 1
          /\ Position[t] < sinkAt'[sinks[t][i].id]
  <2>1. ASSUME NEW t \in Sinks, NEW i \in DOMAIN sinks[t]
        PROVE  /\ sinks[t][i].id \in Requests
               /\ i # Len(sinks[t]) + 1
               /\ Position[t] < sinkAt'[sinks[t][i].id]
    <3>1. /\ sinks[t][i].id \in Requests
          /\ Len(sinks[t]) \in Nat
          /\ i \in 1..Len(sinks[t])
      BY LineType
    <3>2. Position[t] < sinkAt[sinks[t][i].id]
      BY DEF LineInv
    <3>. QED
      BY <1>1, <1>4, <3>1, <3>2
  <2>. QED
    BY <2>1
<1>6. \A i \in DOMAIN sinks[s] : sinks[s][i].id # r
  <2>1. ASSUME NEW i \in DOMAIN sinks[s], sinks[s][i].id = r
        PROVE  FALSE
    <3>1. Position[s] < sinkAt[r]
      BY <2>1 DEF LineInv
    <3>. QED
      BY <1>1, <1>2, <3>1
  <2>. QED
    BY <2>1
<1>7. Payload(s, Entry(r)).id = r
  BY <1>1, EntryTypeOK
<1>8. ASSUME NEW t \in Sinks, NEW lines, lines = sinks'[t], NEW i \in DOMAIN lines
      PROVE  /\ Position[t] < sinkAt'[lines[i].id]
             /\ CardRows(lines[i]) = [returned |-> outcome[lines[i].id].rows,
                                      affected |-> outcome[lines[i].id].affected,
                                      truncated |-> outcome[lines[i].id].truncated]
             /\ t # "memory" => lines[i].sample = 0
             /\ \A j \in DOMAIN lines : lines[j].id = lines[i].id => j = i
  <2>1. CASE t # s
    <3>1. lines = sinks[t]
      BY <1>4, <1>8, <2>1
    <3>2. Position[t] < sinkAt'[sinks[t][i].id]
      BY <1>5, <1>8, <3>1
    <3>. QED
      BY <1>8, <3>1, <3>2 DEF LineInv
  <2>2. CASE t = s
    <3>1. \A j \in DOMAIN lines :
              \/ j \in DOMAIN sinks[s] /\ lines[j] = sinks[s][j]
              \/ j = Len(sinks[s]) + 1 /\ lines[j] = Payload(s, Entry(r))
      BY <1>1, <1>4, <1>8, <2>2, WrittenLines
    <3>2. CASE i \in DOMAIN sinks[s] /\ lines[i] = sinks[s][i]
      <4>1. /\ Position[s] < sinkAt'[lines[i].id]
            /\ lines[i].id # r
            /\ CardRows(lines[i]) = [returned |-> outcome[lines[i].id].rows,
                                     affected |-> outcome[lines[i].id].affected,
                                     truncated |-> outcome[lines[i].id].truncated]
            /\ s # "memory" => lines[i].sample = 0
            /\ \A j \in DOMAIN sinks[s] : sinks[s][j].id = lines[i].id => j = i
        BY <1>5, <1>6, <3>2 DEF LineInv
      <4>2. \A j \in DOMAIN lines : lines[j].id = lines[i].id => j = i
        BY <1>7, <3>1, <4>1
      <4>. QED
        BY <2>2, <4>1, <4>2
    <3>3. CASE i = Len(sinks[s]) + 1 /\ lines[i] = Payload(s, Entry(r))
      <4>1. lines[i].id = r /\ Position[s] < sinkAt'[r]
        BY <1>1, <1>2, <1>4, <1>7, <3>3
      <4>2. \A j \in DOMAIN lines : lines[j].id = lines[i].id => j = i
        BY <1>6, <3>1, <3>3, <4>1
      <4>. QED
        BY <2>2, <3>3, <4>1, <4>2, PayloadRows
    <3>. QED
      BY <3>1, <3>2, <3>3
  <2>. QED
    BY <2>1, <2>2
<1>. QED
  BY <1>3, <1>8 DEF LineInv, CardRows

LEMMA NextLineInv ==
    ASSUME TypeOK, CallInv, SinkAtInv, LineInv, [Next]_vars
    PROVE  LineInv'
<1>1. \A r \in Requests : sinkAt[r] \in Nat
  BY DEF TypeOK
<1>2. CASE UNCHANGED <<sinks, sinkAt, outcome>>
  BY <1>1, <1>2, LineKept
<1>3. ASSUME NEW r \in Requests, Fetch(r) \/ CallFails(r) \/ StatementTimeout(r)
      PROVE  LineInv'
  <2>1. /\ sinkAt[r] = 1
        /\ UNCHANGED <<sinks, sinkAt>>
    BY <1>3 DEF SinkAtInv, Fetch, CallFails, StatementTimeout, DatabaseError, BeforeDatabase,
                InDatabase, recordVars
  <2>2. \A q \in Requests \ {r} : outcome'[q] = outcome[q]
    BY <1>3 DEF TypeOK, Fetch, CallFails, StatementTimeout, DatabaseError
  <2>. QED
    BY <1>1, <2>1, <2>2, LineKept
<1>4. ASSUME NEW r \in Requests, SinkFails(r)
      PROVE  LineInv'
  <2>1. UNCHANGED <<sinks, outcome>> /\ sinkAt' = [sinkAt EXCEPT ![r] = @ + 1]
    BY <1>4 DEF SinkFails
  <2>2. \A q \in Requests : sinkAt'[q] \in Nat /\ sinkAt'[q] >= sinkAt[q]
    BY <2>1 DEF TypeOK
  <2>. QED
    BY <2>1, <2>2, LineKept
<1>5. CASE Crash
  <2>1. /\ UNCHANGED <<sinkAt, outcome>>
        /\ sinks' = [sinks EXCEPT !["memory"] = <<>>]
    BY <1>5 DEF Crash
  <2>2. \A s \in Sinks : sinks'[s] = IF s = "memory" THEN <<>> ELSE sinks[s]
    BY <2>1 DEF TypeOK
  <2>. QED
    BY <2>1, <2>2 DEF LineInv, CardRows
<1>. QED
  BY <1>2, <1>3, <1>4, <1>5, RecordNextLineInv
  DEF Next, Execute, Submit, RefuseInvalid, StartWorker, Reject, Admit, AnalysisRaises, Connect,
      SetTimeout, Run, SendCommit, Committed, RecordReturns, Respond, Block, Database,
      ServerCommits, ServerAborts, AskReadiness, Probe, StartPing, AnswerReadiness, vars, recordVars

-----------------------------------------------------------------------------
\* The steps that record nothing.
LEMMA SinkAtKept ==
    ASSUME TypeOK, SinkAtInv, UNCHANGED <<recordVars, crashes>>,
           \A r \in Requests : pc'[r] \in BeforeDatabase \cup InDatabase =>
               pc[r] \in BeforeDatabase \cup InDatabase,
           \A r \in Requests : pc'[r] = "respond" => pc[r] = "respond" \/ sinkAt[r] > 3
    PROVE  SinkAtInv'
<1>1. \A r \in Requests : sinkAt[r] \in 1..4
  BY DEF TypeOK, SinkOrder
<1>2. UNCHANGED <<sinkAt, sinks, missed>>
  BY DEF recordVars
<1>. QED
  BY <1>1, <1>2 DEF SinkAtInv, Holds

\* Before the recorder comes to a sink there is no line of the request in it.
LEMMA NoLineYet ==
    ASSUME TypeOK, LineInv, NEW r \in Requests, NEW s \in Sinks, Position[s] >= sinkAt[r]
    PROVE  Holds(s, r) = {}
<1>1. ASSUME NEW i \in DOMAIN sinks[s], sinks[s][i].id = r
      PROVE  FALSE
  <2>1. Position[s] < sinkAt[r]
    BY <1>1 DEF LineInv
  <2>. QED
    <3>1. sinkAt[r] \in 1..4 /\ Position[s] \in 1..3
      BY PositionOfSink DEF TypeOK, SinkOrder
    <3>. QED
      BY <2>1, <3>1
<1>. QED
  BY <1>1 DEF Holds

\* Recording a request makes its line, and touches nobody else's.
LEMMA HoldsAfterWriting ==
    ASSUME TypeOK, NEW r \in Requests, NEW s \in Sinks, decision[r] # "none",
           sinks' = [sinks EXCEPT ![s] = Written(s, r)]
    PROVE  /\ Active(s) => Holds(s, r)' # {}
           /\ \A q \in Requests : \A t \in Sinks : q # r \/ t # s => Holds(t, q)' = Holds(t, q)
<1>1. /\ sinks'[s] = Written(s, r)
      /\ \A t \in Sinks \ {s} : sinks'[t] = sinks[t]
  BY DEF TypeOK
<1>2. /\ sinks[s] \in Seq(EntryType)
      /\ Payload(s, Entry(r)) \in EntryType
      /\ Payload(s, Entry(r)).id = r
  BY EntryTypeOK DEF TypeOK
<1>3. CASE s = "jsonl" /\ ~JsonlPathSet
  BY <1>1, <1>3 DEF Written, Active, Holds
<1>4. CASE ~(s = "jsonl" /\ ~JsonlPathSet)
  <2>1. sinks'[s] = Append(sinks[s], Payload(s, Entry(r)))
    BY <1>1, <1>4 DEF Written
  <2>2. /\ Len(sinks[s]) \in Nat
        /\ DOMAIN sinks[s] = 1..Len(sinks[s])
        /\ DOMAIN sinks'[s] = 1..Len(sinks[s]) + 1
        /\ \A k \in 1..Len(sinks[s]) : sinks'[s][k] = sinks[s][k]
        /\ sinks'[s][Len(sinks[s]) + 1] = Payload(s, Entry(r))
    BY <1>2, <2>1
  <2>3. Len(sinks[s]) + 1 \in Holds(s, r)'
    BY <1>2, <2>2 DEF Holds
  <2>4. ASSUME NEW q \in Requests, NEW t \in Sinks, q # r \/ t # s
        PROVE  Holds(t, q)' = Holds(t, q)
    <3>1. CASE t # s
      BY <1>1, <3>1 DEF Holds
    <3>2. CASE t = s
      <4>1. \A i \in DOMAIN sinks'[s] : sinks'[s][i].id = q => i \in 1..Len(sinks[s])
        BY <1>2, <2>2, <2>4, <3>2
      <4>2. 1..Len(sinks[s]) \subseteq 1..Len(sinks[s]) + 1
        BY <2>2
      <4>. QED
        BY <2>2, <3>2, <4>1, <4>2 DEF Holds
    <3>. QED
      BY <3>1, <3>2
  <2>. QED
    BY <2>3, <2>4
<1>. QED
  BY <1>3, <1>4

LEMMA RecordNextSinkAtInv ==
    ASSUME TypeOK, CallInv, SinkAtInv, LineInv, NEW r \in Requests, RecordNext(r)
    PROVE  SinkAtInv'
<1>1. sinkAt[r] \in 1..3 /\ decision[r] # "none" /\ pc[r] = "record"
  BY DEF TypeOK, CallInv, RecordNext, SinkOrder
<1>2. PICK s \in Sinks : s = SinkOrder[sinkAt[r]] /\ Position[s] = sinkAt[r]
  BY <1>1, PositionOfSink
<1>3. /\ sinks' = [sinks EXCEPT ![s] = Written(s, r)]
      /\ sinkAt' = [sinkAt EXCEPT ![r] = @ + 1]
      /\ UNCHANGED <<pc, missed, crashes>>
  BY <1>2 DEF RecordNext
<1>4. /\ sinkAt'[r] = sinkAt[r] + 1
      /\ \A q \in Requests \ {r} : sinkAt'[q] = sinkAt[q]
  BY <1>3 DEF TypeOK
<1>5. /\ Active(s) => Holds(s, r)' # {}
      /\ \A q \in Requests : \A t \in Sinks : q # r \/ t # s => Holds(t, q)' = Holds(t, q)
  BY <1>1, <1>3, HoldsAfterWriting
<1>6. r \notin missed[s]
  BY <1>1, <1>2 DEF SinkAtInv
<1>7. ASSUME NEW q \in Requests, NEW t \in Sinks
      PROVE  /\ q \in missed'[t] => Position[t] < sinkAt'[q]
             /\ Position[t] < sinkAt'[q] /\ Active(t) /\ (t = "memory" => crashes' = 0)
                 => (Holds(t, q)' = {} <=> q \in missed'[t])
  <2>1. CASE q = r /\ t = s
    BY <1>1, <1>2, <1>3, <1>4, <1>5, <1>6, <2>1
  <2>2. CASE q # r
    BY <1>3, <1>4, <1>5, <2>2 DEF SinkAtInv
  <2>3. CASE q = r /\ t # s
    <3>1. Position[t] # Position[s] /\ Position[t] \in 1..3
      BY <2>3, PositionOfSink
    <3>. QED
      BY <1>1, <1>2, <1>3, <1>4, <1>5, <2>3, <3>1 DEF SinkAtInv
  <2>. QED
    BY <2>1, <2>2, <2>3
<1>8. ASSUME NEW q \in Requests
      PROVE  /\ pc'[q] \in BeforeDatabase \cup InDatabase => sinkAt'[q] = 1
             /\ pc'[q] = "respond" => sinkAt'[q] = 4
  BY <1>1, <1>3, <1>4 DEF SinkAtInv, BeforeDatabase, InDatabase
<1>. QED
  BY <1>7, <1>8 DEF SinkAtInv, Active

LEMMA SinkFailsSinkAtInv ==
    ASSUME TypeOK, SinkAtInv, LineInv, NEW r \in Requests, SinkFails(r)
    PROVE  SinkAtInv'
<1>1. sinkAt[r] \in 1..3 /\ pc[r] = "record"
  BY DEF TypeOK, SinkFails, SinkOrder
<1>2. PICK s \in Sinks : s = SinkOrder[sinkAt[r]] /\ Position[s] = sinkAt[r]
  BY <1>1, PositionOfSink
<1>3. /\ missed' = [missed EXCEPT ![s] = @ \cup {r}]
      /\ sinkAt' = [sinkAt EXCEPT ![r] = @ + 1]
      /\ UNCHANGED <<pc, sinks, crashes>>
  BY <1>2 DEF SinkFails
<1>4. /\ sinkAt'[r] = sinkAt[r] + 1
      /\ \A q \in Requests \ {r} : sinkAt'[q] = sinkAt[q]
      /\ missed'[s] = missed[s] \cup {r}
      /\ \A t \in Sinks \ {s} : missed'[t] = missed[t]
  BY <1>3 DEF TypeOK
<1>5. Holds(s, r) = {}
  BY <1>1, <1>2, NoLineYet
<1>6. \A q \in Requests : \A t \in Sinks : Holds(t, q)' = Holds(t, q)
  BY <1>3 DEF Holds
<1>7. ASSUME NEW q \in Requests, NEW t \in Sinks
      PROVE  /\ q \in missed'[t] => Position[t] < sinkAt'[q]
             /\ Position[t] < sinkAt'[q] /\ Active(t) /\ (t = "memory" => crashes' = 0)
                 => (Holds(t, q)' = {} <=> q \in missed'[t])
  <2>1. CASE q = r /\ t = s
    BY <1>1, <1>2, <1>4, <1>5, <1>6, <2>1
  <2>2. CASE q # r
    BY <1>3, <1>4, <1>6, <2>2 DEF SinkAtInv
  <2>3. CASE q = r /\ t # s
    <3>1. Position[t] # Position[s] /\ Position[t] \in 1..3
      BY <2>3, PositionOfSink
    <3>. QED
      BY <1>1, <1>2, <1>3, <1>4, <1>6, <2>3, <3>1 DEF SinkAtInv
  <2>. QED
    BY <2>1, <2>2, <2>3
<1>8. ASSUME NEW q \in Requests
      PROVE  /\ pc'[q] \in BeforeDatabase \cup InDatabase => sinkAt'[q] = 1
             /\ pc'[q] = "respond" => sinkAt'[q] = 4
  BY <1>1, <1>3, <1>4 DEF SinkAtInv, BeforeDatabase, InDatabase
<1>. QED
  BY <1>7, <1>8 DEF SinkAtInv, Active

LEMMA NextSinkAtInv ==
    ASSUME TypeOK, CallInv, SinkAtInv, LineInv, [Next]_vars
    PROVE  SinkAtInv'
<1>. USE DEF Goto, BeforeDatabase, InDatabase
<1>1. ASSUME NEW r \in Requests, Execute(r)
      PROVE  SinkAtInv'
  <2>1. CASE RefuseInvalid(r) \/ StartWorker(r) \/ Admit(r) \/ AnalysisRaises(r) \/ Reject(r)
    BY <2>1, SinkAtKept DEF TypeOK, RefuseInvalid, StartWorker, Admit, AnalysisRaises, Reject
  <2>2. CASE Connect(r) \/ SetTimeout(r) \/ Run(r)
    BY <2>2, SinkAtKept DEF TypeOK, Connect, SetTimeout, Run
  <2>3. CASE Fetch(r) \/ SendCommit(r) \/ Committed(r)
    BY <2>3, SinkAtKept DEF TypeOK, Fetch, SendCommit, Committed
  <2>4. CASE CallFails(r) \/ StatementTimeout(r)
    BY <2>4, SinkAtKept DEF TypeOK, CallFails, StatementTimeout, DatabaseError
  <2>5. CASE RecordReturns(r) \/ Respond(r)
    BY <2>5, SinkAtKept DEF TypeOK, RecordReturns, Respond, SinkOrder
  <2>. QED
    BY <1>1, <2>1, <2>2, <2>3, <2>4, <2>5, RecordNextSinkAtInv, SinkFailsSinkAtInv DEF Execute
<1>2. ASSUME NEW r \in Requests, NEW q \in Queries, Submit(r, q)
      PROVE  SinkAtInv'
  BY <1>2, SinkAtKept DEF TypeOK, Submit
<1>3. ASSUME NEW r \in Requests, Block(r)
      PROVE  SinkAtInv'
  BY <1>3, SinkAtKept DEF TypeOK, Block
<1>4. CASE UNCHANGED <<pc, recordVars, crashes>>
  BY <1>4, SinkAtKept
<1>5. CASE Crash
  <2>1. /\ UNCHANGED <<sinkAt, missed>>
        /\ crashes' = crashes + 1 /\ crashes' # 0
        /\ \A r \in Requests : pc'[r] \in {"idle", "done", "lost"} /\ (pc'[r] = "idle" => pc[r] = "idle")
        /\ \A s \in Sinks : s # "memory" => sinks'[s] = sinks[s]
    BY <1>5 DEF TypeOK, Crash
  <2>2. \A r \in Requests : \A s \in Sinks : s # "memory" => Holds(s, r)' = Holds(s, r)
    BY <2>1 DEF Holds
  <2>. QED
    BY <2>1, <2>2 DEF SinkAtInv, Active
<1>. QED
  BY <1>1, <1>2, <1>3, <1>4, <1>5
  DEF Next, Database, ServerCommits, ServerAborts, AskReadiness, Probe, StartPing,
      AnswerReadiness, vars

-----------------------------------------------------------------------------
IInv == /\ TypeOK /\ CallInv /\ AnswerInv /\ EntryInv
        /\ SessionInv /\ WorkerInv /\ ResultInv
        /\ StatusInv /\ LineInv /\ SinkAtInv

LEMMA InitIInv == Init => IInv
<1>. SUFFICES ASSUME Init
              PROVE  IInv
  OBVIOUS
<1>1. CallInv /\ AnswerInv /\ EntryInv
  BY DEF Init, CallInv, AnswerInv, EntryInv, Range, BeforeDatabase, InDatabase
<1>2. SessionInv /\ ResultInv /\ StatusInv
  BY DEF Init, SessionInv, InDatabase, ResultInv, StatusInv
<1>3. WorkerInv
  <2>1. OnWorkers = {} /\ Pinging = {}
    BY DEF Init, OnWorkers, Pinging, OnWorker, InDatabase
  <2>2. IsFiniteSet({}) /\ Cardinality({}) = 0
    BY FS_EmptySet
  <2>3. BusyWorkers = Cardinality(OnWorkers) + Cardinality(Pinging)
    BY DEF BusyWorkers, OnWorkers, Pinging
  <2>. QED
    BY <2>1, <2>2, <2>3 DEF WorkerInv
<1>4. LineInv /\ SinkAtInv
  <2>1. \A s \in Sinks : DOMAIN sinks[s] = {} /\ missed[s] = {}
    BY DEF Init
  <2>2. \A r \in Requests : pc[r] = "idle" /\ sinkAt[r] = 1
    BY DEF Init
  <2>. QED
    BY <2>1, <2>2, PositionOfSink DEF LineInv, SinkAtInv, Holds
<1>. QED
  BY <1>1, <1>2, <1>3, <1>4, InitTypeOK DEF IInv

LEMMA GatewayKeeps ==
    ASSUME IInv, [Next]_vars
    PROVE  IInv'
  BY NextTypeOK, NextCallInv, NextAnswerInv, NextEntryInv, NextSessionInv, NextWorkerInv,
     NextResultInv, NextStatusInv, NextLineInv, NextSinkAtInv DEF IInv

LEMMA GatewayInductive == Spec => []IInv
<1>1. IInv /\ [Next]_vars => IInv'
  BY GatewayKeeps
<1>. QED
  BY <1>1, InitIInv, PTL DEF Spec

\* Every variable keeps its type; in particular no outcome has more rows than the
\* limit, and no entry more sample rows than configured.
THEOREM GatewayTypeCorrect == Spec => []TypeOK
<1>1. IInv => TypeOK
  BY DEF IInv
<1>. QED
  BY <1>1, GatewayInductive, PTL

\* No line of any sink claims a write that the database has not committed, or a
\* rejection of a query that the database has seen, across failures and crashes.
THEOREM GatewayEntriesAreTrue == Spec => []EntriesAreTrue
<1>1. ASSUME IInv
      PROVE  EntriesAreTrue
  <2>1. SUFFICES ASSUME NEW s \in Sinks, NEW entry \in Range(sinks[s])
                 PROVE  /\ entry.decision = "allowed" => tx[entry.id] = "committed"
                        /\ entry.decision = "rejected" => tx[entry.id] = "none"
    BY DEF EntriesAreTrue
  <2>2. entry \in EntryType
    BY <1>1, RangeOfSeq DEF IInv, TypeOK
  <2>3. entry.id \in Requests /\ entry.decision = decision[entry.id]
    BY <1>1, <2>2 DEF IInv, EntryInv, EntryType
  <2>. QED
    BY <1>1, <2>3 DEF IInv, CallInv
<1>. QED
  BY <1>1, GatewayInductive, PTL

\* What an allowed query came to tells the size of its result.
LEMMA OutcomeTellsSize ==
    ASSUME IInv, NEW r \in Requests, NEW q \in query[r], q.returns, decision[r] = "allowed"
    PROVE  TellsSize(outcome[r].rows, outcome[r].truncated, q)
<1>1. outcome[r] = ReadOutcome(q)
  BY DEF IInv, ResultInv
<1>2. q.size \in Nat
  BY QueryFacts DEF IInv
<1>3. /\ outcome[r].rows = Minimum(FetchedRows(q), MaxResults)
      /\ outcome[r].truncated = (FetchedRows(q) > MaxResults)
  BY <1>1 DEF ReadOutcome
<1>4. CASE q.size > MaxResults
  <2>1. FetchedRows(q) = MaxResults + 1 /\ Minimum(FetchedRows(q), MaxResults) = MaxResults
    BY <1>2, <1>4 DEF FetchedRows, Minimum
  <2>2. (FetchedRows(q) > MaxResults) = TRUE
    BY <2>1
  <2>3. outcome[r].truncated
    BY <1>3, <2>2
  <2>. QED
    BY <1>3, <1>4, <2>1, <2>3 DEF TellsSize
<1>5. CASE ~(q.size > MaxResults)
  <2>1. FetchedRows(q) = q.size /\ Minimum(FetchedRows(q), MaxResults) = q.size
    BY <1>2, <1>5 DEF FetchedRows, Minimum
  <2>2. (FetchedRows(q) > MaxResults) = FALSE
    BY <1>5, <2>1
  <2>3. ~outcome[r].truncated
    BY <1>3, <2>2
  <2>. QED
    BY <1>3, <2>1, <2>3 DEF TellsSize
<1>. QED
  BY <1>4, <1>5

\* The answer to a query that returns rows, and every line about it in stdout, memory
\* and the file, tell the size of its result, whatever fails around it.
THEOREM GatewayTellsTruncation == Spec => []TruncationIsTold
<1>1. ASSUME IInv, NEW r \in Requests, NEW q \in query[r], q.returns, response[r] = 200
      PROVE  TellsSize(outcome[r].rows, outcome[r].truncated, q)
  <2>1. Status(r) = 200
    BY <1>1 DEF IInv, StatusInv
  <2>2. decision[r] \in {"none", "rejected", "allowed", "db_error"}
    BY <1>1 DEF IInv, TypeOK
  <2>3. decision[r] = "allowed"
    BY <2>1, <2>2 DEF Status
  <2>. QED
    BY <1>1, <2>3, OutcomeTellsSize
<1>2. ASSUME IInv, NEW r \in Requests, NEW q \in query[r], q.returns,
             NEW s \in Sinks, NEW i \in Holds(s, r), sinks[s][i].decision = "allowed"
      PROVE  TellsSize(sinks[s][i].returned, sinks[s][i].truncated, q)
  <2>. DEFINE entry == sinks[s][i]
  <2>1. i \in DOMAIN sinks[s] /\ entry.id = r
    BY <1>2 DEF Holds
  <2>2. entry \in Range(sinks[s])
    BY <2>1 DEF Range
  <2>3. decision[r] = "allowed"
    BY <1>2, <2>1, <2>2 DEF IInv, EntryInv
  <2>4. CardRows(entry) = [returned |-> outcome[r].rows, affected |-> outcome[r].affected,
                           truncated |-> outcome[r].truncated]
    BY <1>2, <2>1 DEF IInv, LineInv
  <2>5. entry.returned = outcome[r].rows /\ entry.truncated = outcome[r].truncated
    BY <2>4 DEF CardRows
  <2>. QED
    BY <1>2, <2>3, <2>5, OutcomeTellsSize
<1>3. IInv => TruncationIsTold
  BY <1>1, <1>2 DEF TruncationIsTold
<1>. QED
  BY <1>3, GatewayInductive, PTL

\* However many requests and probes arrive and whatever fails, sessions are held
\* by executing requests alone, and there are never more than the pool has threads.
THEOREM GatewayBoundsSessions == Spec => []SessionsAreBounded
<1>1. ASSUME IInv
      PROVE  SessionsAreBounded
  <2>. DEFINE held == {r \in Requests : connection[r]}
  <2>1. held \subseteq OnWorkers
    BY <1>1 DEF IInv, SessionInv, OnWorkers, OnWorker
  <2>2. /\ IsFiniteSet(held)
        /\ Cardinality(held) <= Cardinality(OnWorkers)
    BY <1>1, <2>1, FS_Subset DEF IInv, WorkerInv
  <2>3. /\ Cardinality(held) \in Nat
        /\ Cardinality(OnWorkers) \in Nat
        /\ Cardinality(Pinging) \in Nat
    BY <1>1, <2>2, FS_CardinalityType DEF IInv, WorkerInv
  <2>4. Cardinality(OnWorkers) + Cardinality(Pinging) <= Workers
    BY <1>1 DEF IInv, WorkerInv, BusyWorkers, OnWorkers, Pinging
  <2>5. Cardinality(held) <= Workers
    BY <2>2, <2>3, <2>4
  <2>. QED
    BY <1>1, <2>5 DEF IInv, SessionInv, SessionsAreBounded
<1>. QED
  BY <1>1, GatewayInductive, PTL

\* At its answer a request has exactly one line in every sink that did not fail on
\* it, and that line says what its caller was told.
THEOREM GatewayRecordsOnce == Spec => []OneEntryPerSink
<1>1. ASSUME IInv, NEW r \in Requests, NEW s \in Sinks
      PROVE  Cardinality(Holds(s, r)) <= 1
  <2>1. \A i, j \in Holds(s, r) : i = j
    BY <1>1 DEF IInv, LineInv, Holds
  <2>2. CASE Holds(s, r) = {}
    BY <2>2, FS_EmptySet
  <2>3. ASSUME NEW i \in Holds(s, r)
        PROVE  Cardinality(Holds(s, r)) <= 1
    <3>1. Holds(s, r) = {i}
      BY <2>1, <2>3
    <3>2. Cardinality({i}) = 1
      BY FS_Singleton
    <3>. QED
      BY <3>1, <3>2
  <2>. QED
    BY <2>2, <2>3
<1>2. ASSUME IInv, NEW r \in Requests, NEW s \in Sinks, NEW i \in Holds(s, r)
      PROVE  Lawful(r, sinks[s][i]) /\ (s # "memory" => sinks[s][i].sample = 0)
  <2>. DEFINE entry == sinks[s][i]
  <2>1. i \in DOMAIN sinks[s] /\ entry.id = r
    BY <1>2 DEF Holds
  <2>2. /\ CardRows(entry) = [returned |-> outcome[r].rows,
                              affected |-> outcome[r].affected,
                              truncated |-> outcome[r].truncated]
        /\ s # "memory" => entry.sample = 0
    BY <1>2, <2>1 DEF IInv, LineInv
  <2>3. entry.decision = decision[r]
    <3>1. entry \in Range(sinks[s])
      BY <2>1 DEF Range
    <3>. QED
      BY <1>2, <2>1, <3>1 DEF IInv, EntryInv
  <2>4. decision[r] \in {"rejected", "allowed", "db_error"}
    <3>1. entry.decision # "none"
      BY <1>2, <2>1, LineType DEF IInv
    <3>. QED
      BY <1>2, <2>3, <3>1 DEF IInv, TypeOK
  <2>5. response[r] # 0 => response[r] = Status(r)
    BY <1>2, <2>4 DEF IInv, StatusInv
  <2>6. /\ response[r] \in {200, 400, 502} => response[r] = CardStatus(entry)
        /\ response[r] = 500 => entry.decision = "allowed" /\ ~outcome[r].finite
    <3>1. CASE decision[r] = "rejected"
      BY <2>3, <2>5, <3>1 DEF Status, CardStatus
    <3>2. CASE decision[r] = "allowed"
      BY <2>3, <2>5, <3>2 DEF Status, CardStatus
    <3>3. CASE decision[r] = "db_error"
      BY <2>3, <2>5, <3>3 DEF Status, CardStatus
    <3>. QED
      BY <2>4, <3>1, <3>2, <3>3
  <2>. QED
    BY <2>2, <2>3, <2>6 DEF Lawful
<1>3. ASSUME IInv, NEW r \in Requests, NEW s \in Sinks, response[r] \in {200, 400, 502},
             Active(s), s = "memory" => crashes = 0
      PROVE  Holds(s, r) = {} <=> r \in missed[s]
  <2>1. sinkAt[r] = 4
    BY <1>3 DEF IInv, StatusInv
  <2>2. Position[s] < sinkAt[r]
    BY <2>1, PositionOfSink
  <2>. QED
    BY <1>3, <2>2 DEF IInv, SinkAtInv
<1>4. IInv => OneEntryPerSink
  BY <1>1, <1>2, <1>3 DEF OneEntryPerSink
<1>. QED
  BY <1>4, GatewayInductive, PTL

-----------------------------------------------------------------------------
(* The gateway implements QueryService.                                    *)

AnswersGiven == [r \in Requests |-> AnswerOf(response[r])]

\* A step that asks, answers and commits nothing.
LEMMA ServiceStutter ==
    ASSUME UNCHANGED <<query, response>>,
           \A r \in Requests : tx'[r] = "committed" <=> tx[r] = "committed"
    PROVE  UNCHANGED Service!svars
  BY DEF Service!svars, AnswerOf, Durable, IsWrite

\* A function that differs from f at r alone is f updated at r.
LEMMA FunctionUpdate ==
    ASSUME NEW S, NEW T, NEW f \in [S -> T], NEW g \in [S -> T], NEW r \in S, NEW a,
           \A q \in S : g[q] = IF q = r THEN a ELSE f[q]
    PROVE  g = [f EXCEPT ![r] = a]
  OBVIOUS

\* A step that answers request r.
LEMMA ServiceAnswers ==
    ASSUME IInv, NEW r \in Requests,
           response[r] = 0, query[r] # {},
           response'[r] \in {200, 400, 422, 500, 502},
           \A q \in Requests : q # r => response'[q] = response[q],
           UNCHANGED <<query, tx>>,
           response'[r] = 200 => tx[r] = "committed",
           response'[r] \in {400, 422} => tx[r] = "none"
    PROVE  Service!Next
<1>1. UNCHANGED Durable
  BY DEF Durable, IsWrite
<1>2. PICK a : a = AnswerOf(response'[r])
  OBVIOUS
<1>3. a \in Service!Answers \ {"none"}
  BY <1>2 DEF AnswerOf, Service!Answers
<1>4. AnswerOf(response[r]) = "none"
  BY DEF AnswerOf
<1>5. a = "done" => response'[r] = 200
  BY <1>2 DEF AnswerOf
<1>6. a = "refused" => response'[r] \in {400, 422}
  BY <1>2 DEF AnswerOf
<1>7. \A q \in Requests : q # r => AnswerOf(response'[q]) = AnswerOf(response[q])
  BY DEF AnswerOf
<1>8. AnswersGiven' = [AnswersGiven EXCEPT ![r] = a]
  <2>1. /\ AnswersGiven \in [Requests -> Service!Answers]
        /\ AnswersGiven' \in [Requests -> Service!Answers]
    BY DEF AnswersGiven, AnswerOf, Service!Answers
  <2>2. \A q \in Requests : AnswersGiven'[q] = IF q = r THEN a ELSE AnswersGiven[q]
    BY <1>2, <1>7 DEF AnswersGiven
  <2>. QED
    BY <2>1, <2>2, FunctionUpdate
<1>9. a = "done" => \A q \in query[r] : IsWrite(q) => r \in Durable
  BY <1>5 DEF Durable
<1>10. a = "refused" => r \notin Durable
  BY <1>6 DEF Durable
<1>11. Service!Answer(r, a)
  BY <1>1, <1>4, <1>8, <1>9, <1>10 DEF Service!Answer, AnswersGiven
<1>. QED
  BY <1>3, <1>11 DEF Service!Next

LEMMA SubmitAsks ==
    ASSUME IInv, NEW r \in Requests, NEW q \in Queries, Submit(r, q)
    PROVE  Service!Next
<1>1. query[r] = {} /\ tx[r] = "none"
  BY DEF IInv, CallInv, Submit, BeforeDatabase
<1>2. query' = [query EXCEPT ![r] = {q}] /\ UNCHANGED <<tx, response>>
  BY DEF Submit, databaseVars
<1>3. UNCHANGED Durable
  BY <1>1, <1>2 DEF Durable, IInv, TypeOK
<1>4. UNCHANGED AnswersGiven
  BY <1>2 DEF AnswersGiven, AnswerOf
<1>5. Service!Ask(r)
  BY <1>1, <1>2, <1>3, <1>4 DEF Service!Ask, AnswersGiven
<1>. QED
  BY <1>5 DEF Service!Next

\* The database commits for a caller that has no answer, or has been told 502.
LEMMA CommitApplies ==
    ASSUME IInv, NEW r \in Requests, ServerCommits(r)
    PROVE  [Service!Next]_(Service!svars)
<1>1. /\ tx[r] = "committing"
      /\ tx' = [tx EXCEPT ![r] = "committed"]
      /\ UNCHANGED <<query, response>>
  BY DEF ServerCommits
<1>2. UNCHANGED AnswersGiven
  BY <1>1 DEF AnswersGiven, AnswerOf
<1>3. response[r] \in {0, 502}
  <2>1. response[r] \in {0, 200, 400, 422, 500, 502}
    BY DEF IInv, TypeOK
  <2>2. response[r] \notin {200, 400, 422, 500}
    BY <1>1 DEF IInv, AnswerInv
  <2>. QED
    BY <2>1, <2>2
<1>4. AnswersGiven[r] \in {"none", "failed"}
  BY <1>3 DEF AnswersGiven, AnswerOf
<1>5. \A q \in Requests \ {r} : tx'[q] = tx[q]
  BY <1>1 DEF IInv, TypeOK
<1>6. tx'[r] = "committed"
  BY <1>1 DEF IInv, TypeOK
<1>7. CASE \E q \in query[r] : IsWrite(q)
  <2>1. r \notin Durable
    BY <1>1 DEF Durable
  <2>2. Durable' = Durable \cup {r}
    BY <1>1, <1>5, <1>6, <1>7 DEF Durable, IsWrite
  <2>3. Service!Apply(r)
    BY <1>1, <1>2, <1>4, <1>7, <2>1, <2>2 DEF Service!Apply, AnswersGiven
  <2>. QED
    BY <2>3 DEF Service!Next
<1>8. CASE ~\E q \in query[r] : IsWrite(q)
  <2>1. UNCHANGED Durable
    BY <1>1, <1>5, <1>8 DEF Durable, IsWrite
  <2>. QED
    BY <1>1, <1>2, <2>1 DEF Service!svars, AnswersGiven
<1>. QED
  BY <1>7, <1>8

LEMMA ExecuteServes ==
    ASSUME IInv, NEW r \in Requests, Execute(r)
    PROVE  [Service!Next]_(Service!svars)
<1>1. CASE RefuseInvalid(r) \/ AnalysisRaises(r)
  <2>1. tx[r] = "none" /\ response[r] = 0 /\ query[r] # {}
    BY <1>1 DEF IInv, CallInv, AnswerInv, RefuseInvalid, AnalysisRaises, BeforeDatabase
  <2>2. response' = [response EXCEPT ![r] = 422] \/ response' = [response EXCEPT ![r] = 500]
    BY <1>1 DEF RefuseInvalid, AnalysisRaises
  <2>3. UNCHANGED <<query, tx>>
    BY <1>1 DEF RefuseInvalid, AnalysisRaises, databaseVars
  <2>4. /\ response'[r] \in {422, 500}
        /\ \A q \in Requests : q # r => response'[q] = response[q]
    BY <2>2 DEF IInv, TypeOK
  <2>. QED
    BY <2>1, <2>3, <2>4, ServiceAnswers
<1>2. CASE Respond(r)
  <2>1. response[r] = 0 /\ query[r] # {}
    BY <1>2 DEF IInv, CallInv, AnswerInv, Respond
  <2>2. decision[r] \in {"rejected", "allowed", "db_error"}
    BY <1>2 DEF IInv, TypeOK, CallInv, Respond
  <2>3. /\ Status(r) \in {200, 400, 500, 502}
        /\ Status(r) = 200 => decision[r] = "allowed"
        /\ Status(r) = 400 => decision[r] = "rejected"
    BY <2>2 DEF Status
  <2>4. /\ Status(r) = 200 => tx[r] = "committed"
        /\ Status(r) = 400 => tx[r] = "none"
    BY <2>3 DEF IInv, CallInv
  <2>5. response' = [response EXCEPT ![r] = Status(r)] /\ UNCHANGED <<query, tx>>
    BY <1>2 DEF Respond, databaseVars
  <2>6. /\ response'[r] = Status(r)
        /\ \A q \in Requests : q # r => response'[q] = response[q]
    BY <2>5 DEF IInv, TypeOK
  <2>. QED
    BY <2>1, <2>3, <2>4, <2>5, <2>6, ServiceAnswers
<1>3. CASE UNCHANGED <<query, response, tx>>
  BY <1>3, ServiceStutter
<1>4. CASE Connect(r)
  <2>1. tx[r] = "none" /\ tx' = [tx EXCEPT ![r] = "open"] /\ UNCHANGED <<query, response>>
    BY <1>4 DEF IInv, CallInv, Connect, BeforeDatabase
  <2>. QED
    BY <2>1, ServiceStutter DEF IInv, TypeOK
<1>5. CASE SendCommit(r)
  <2>1. tx[r] = "open" /\ tx' = [tx EXCEPT ![r] = "committing"] /\ UNCHANGED <<query, response>>
    BY <1>5 DEF SendCommit
  <2>. QED
    BY <2>1, ServiceStutter DEF IInv, TypeOK
<1>6. CASE CallFails(r) \/ StatementTimeout(r)
  <2>1. /\ tx' = [tx EXCEPT ![r] = IF @ = "open" THEN "aborted" ELSE @]
        /\ UNCHANGED <<query, response>>
    BY <1>6 DEF CallFails, StatementTimeout, DatabaseError
  <2>. QED
    BY <2>1, ServiceStutter DEF IInv, TypeOK
<1>. QED
  BY <1>1, <1>2, <1>3, <1>4, <1>5, <1>6
  DEF Execute, StartWorker, Reject, Admit, SetTimeout, Run, Fetch, Committed, RecordNext,
      SinkFails, RecordReturns, databaseVars

LEMMA NextServes ==
    ASSUME IInv, [Next]_vars
    PROVE  [Service!Next]_(Service!svars)
<1>1. CASE UNCHANGED <<query, response, tx>>
  BY <1>1, ServiceStutter
<1>2. ASSUME NEW r \in Requests, ServerAborts(r)
      PROVE  [Service!Next]_(Service!svars)
  <2>1. /\ tx[r] # "committed"
        /\ tx' = [tx EXCEPT ![r] = "aborted"]
        /\ UNCHANGED <<query, response>>
    BY <1>2 DEF ServerAborts
  <2>. QED
    BY <2>1, ServiceStutter DEF IInv, TypeOK
<1>3. CASE Crash
  <2>1. /\ tx' = [r \in Requests |-> IF tx[r] = "open" THEN "aborted" ELSE tx[r]]
        /\ UNCHANGED <<query, response>>
    BY <1>3 DEF Crash
  <2>. QED
    BY <2>1, ServiceStutter
<1>. QED
  BY <1>1, <1>2, <1>3, SubmitAsks, ExecuteServes, CommitApplies
  DEF Next, Block, Database, AskReadiness, Probe, StartPing, AnswerReadiness, databaseVars,
      vars

\* Whatever fails inside, callers get what QueryService promises: no write twice,
\* "done" only for what is in effect, "refused" only for what never will be.
THEOREM GatewayImplementsService == Spec => ImplementsQueryService
<1>1. Init => Service!Init
  BY DEF Init, Service!Init, AnswerOf, Durable
<1>2. IInv /\ [Next]_vars => [Service!Next]_(Service!svars)
  BY NextServes
<1>. QED
  BY <1>1, <1>2, GatewayInductive, PTL DEF Spec, ImplementsQueryService, Service!Spec

-----------------------------------------------------------------------------
(* The gateway and the feed together.  Each keeps its own invariants; what *)
(* the composition adds is that the worker thread is still in the in-memory *)
(* recorder while an entry of its is handed over.                          *)

FeedProofs == INSTANCE ObservabilityFeedProofs WITH Entries <- Requests

USE StreamAssumption

LEMMA SameFeed ==
    /\ Feed!Init => FeedProofs!Init
    /\ \A r : Feed!RecordEntry(r) => FeedProofs!RecordEntry(r)
    /\ \A r, c : Feed!Deliver(r, c) => FeedProofs!Deliver(r, c)
    /\ Feed!PutIfPossible => FeedProofs!PutIfPossible
    /\ \A c : Feed!Generator(c) \/ Feed!Cancelled(c) => FeedProofs!Generator(c) \/ FeedProofs!Cancelled(c)
    /\ \A c : Feed!Client(c) => FeedProofs!Client(c)
  BY DEF Feed!Init, FeedProofs!Init,
         Feed!RecordEntry, Feed!Deliver, Feed!PutIfPossible, Feed!Generator,
         Feed!Cancelled, Feed!Subscribe, Feed!Snapshot, Feed!ReplayNext, Feed!Await,
         Feed!TakeNext, Feed!Heartbeat, Feed!ReturnOnDisconnect, Feed!Finish,
         Feed!LoopFree, Feed!Resumed, Feed!Yield, Feed!Streaming, Feed!Recorded,
         Feed!Returned, Feed!Push, Feed!Range, Feed!Client, Feed!Open, Feed!ClientRead,
         Feed!Disconnect, Feed!recorderVars, Feed!loopVars, Feed!streamVars,
         Feed!historyVars,
         FeedProofs!RecordEntry, FeedProofs!Deliver, FeedProofs!PutIfPossible,
         FeedProofs!Generator, FeedProofs!Cancelled, FeedProofs!Subscribe,
         FeedProofs!Snapshot, FeedProofs!ReplayNext, FeedProofs!Await,
         FeedProofs!TakeNext, FeedProofs!Heartbeat, FeedProofs!ReturnOnDisconnect,
         FeedProofs!Finish, FeedProofs!LoopFree, FeedProofs!Resumed, FeedProofs!Yield,
         FeedProofs!Streaming, FeedProofs!Recorded, FeedProofs!Returned,
         FeedProofs!Push, FeedProofs!Range, FeedProofs!Client, FeedProofs!Open,
         FeedProofs!ClientRead, FeedProofs!Disconnect, FeedProofs!recorderVars,
         FeedProofs!loopVars, FeedProofs!streamVars, FeedProofs!historyVars

LEMMA LiveFeedStep ==
    ASSUME [LiveNext]_allVars
    PROVE  [FeedProofs!Next]_(FeedProofs!vars)
<1>. USE DEF FeedProofs!vars, FeedProofs!recorderVars, FeedProofs!loopVars,
             FeedProofs!streamVars, FeedProofs!historyVars
<1>1. ASSUME NEW r \in Requests, RecordInMemory(r) \/ \E c \in Streams : HandOver(r, c)
      PROVE  FeedProofs!Next
  BY <1>1, SameFeed
  DEF RecordInMemory, HandOver, FeedProofs!Next, FeedProofs!Server, FeedProofs!Record
<1>2. ASSUME RunCallback \/ \E c \in Streams : Stream(c)
      PROVE  FeedProofs!Next
  BY <1>2, SameFeed DEF RunCallback, Stream, FeedProofs!Next, FeedProofs!Server
<1>3. CASE UNCHANGED feedVars
  BY <1>3 DEF feedVars
<1>. QED
  BY <1>1, <1>2, <1>3
  DEF LiveNext, Ask, Thread, Proceed, InDatabaseServer, allVars

LEMMA LiveGatewayStep ==
    ASSUME [LiveNext]_allVars
    PROVE  [Next]_vars
<1>1. ASSUME NEW r \in Requests, RecordInMemory(r) \/ Proceed(r)
      PROVE  Next
  BY <1>1 DEF RecordInMemory, Proceed, Execute, Next
<1>2. ASSUME NEW r \in Requests, (\E q \in Queries : Ask(r, q)) \/ InDatabaseServer(r)
      PROVE  Next
  BY <1>2 DEF Ask, InDatabaseServer, Next
<1>3. CASE UNCHANGED vars
  BY <1>3
<1>. QED
  BY <1>1, <1>2, <1>3 DEF LiveNext, Thread, HandOver, Stream, RunCallback, allVars

FeedInv ==
    /\ FeedProofs!TypeOK
    /\ FeedProofs!LifecycleInv
    /\ FeedProofs!NoSilentGap
    /\ FeedProofs!PathInv

\* Where a thread is in the loop over the sinks tells where its entry is: it is in
\* the ring once the recorder has passed the in-memory sink, and in the thread's
\* hands only until the recorder goes on.
HandInv ==
    \A r \in Requests :
        /\ r \in FeedProofs!Recorded <=> sinkAt[r] > 2
        /\ targets[r] # {} => sinkAt[r] = 3
        /\ decision[r] = "none" => sinkAt[r] = 1

\* A request answered before another was submitted has its answer, and if both are
\* recorded, its record() had returned when the other's began.
BeforeInv ==
    /\ answeredBefore \in [Requests -> SUBSET Requests]
    /\ \A r \in Requests : \A s \in answeredBefore[r] :
        /\ response[s] # 0
        /\ {r, s} \subseteq FeedProofs!Recorded => s \in prior[r]

LiveInv == IInv /\ FeedInv /\ HandInv /\ BeforeInv

LEMMA HandKept ==
    ASSUME HandInv, UNCHANGED <<sinkAt, decision, log>>,
           \A r \in Requests : targets'[r] \subseteq targets[r]
    PROVE  HandInv'
  BY DEF HandInv, FeedProofs!Recorded

LEMMA BeforeKept ==
    ASSUME BeforeInv, UNCHANGED <<answeredBefore, log, prior>>,
           \A r \in Requests : response[r] # 0 => response'[r] # 0
    PROVE  BeforeInv'
  BY DEF BeforeInv, FeedProofs!Recorded

\* What an answered request has left behind.
LEMMA AnsweredIsOver ==
    ASSUME LiveInv, NEW s \in Requests, response[s] # 0
    PROVE  pc[s] = "done" /\ targets[s] = {}
<1>1. pc[s] = "done"
  BY DEF LiveInv, IInv, AnswerInv
<1>2. sinkAt[s] # 3
  BY DEF LiveInv, IInv, StatusInv, HandInv
<1>. QED
  BY <1>1, <1>2 DEF LiveInv, HandInv

LEMMA RecordInMemoryLive ==
    ASSUME LiveInv, NEW r \in Requests, RecordInMemory(r)
    PROVE  HandInv' /\ BeforeInv'
<1>1. /\ pc[r] = "record" /\ sinkAt[r] = 2 /\ decision[r] # "none"
      /\ sinkAt \in [Requests -> 1..4]
      /\ sinkAt' = [sinkAt EXCEPT ![r] = @ + 1]
      /\ UNCHANGED <<decision, response, answeredBefore>>
  BY DEF RecordInMemory, AtMemory, RecordNext, SinkOrder, LiveInv, IInv, TypeOK, CallInv
<1>2. /\ targets' = [targets EXCEPT ![r] = subscribers]
      /\ log' = Append(log, r)
      /\ prior' = [prior EXCEPT ![r] = FeedProofs!Returned]
  BY SameFeed DEF RecordInMemory, FeedProofs!RecordEntry
<1>3. /\ log \in Seq(Requests)
      /\ targets \in [Requests -> SUBSET Streams]
      /\ prior \in [Requests -> SUBSET Requests]
  BY DEF LiveInv, FeedInv, FeedProofs!TypeOK
<1>4. FeedProofs!Recorded' = FeedProofs!Recorded \cup {r}
  BY <1>2, <1>3, FeedProofs!RangeOfAppend DEF FeedProofs!Recorded
<1>5. HandInv'
  <2>1. SUFFICES ASSUME NEW q \in Requests
                 PROVE  /\ q \in FeedProofs!Recorded' <=> sinkAt'[q] > 2
                        /\ targets'[q] # {} => sinkAt'[q] = 3
                        /\ decision'[q] = "none" => sinkAt'[q] = 1
    BY DEF HandInv
  <2>2. CASE q = r
    BY <1>1, <1>4, <2>2
  <2>3. CASE q # r
    <3>1. sinkAt'[q] = sinkAt[q] /\ targets'[q] = targets[q]
      BY <1>1, <1>2, <1>3, <2>3
    <3>. QED
      BY <1>1, <1>4, <2>3, <3>1 DEF LiveInv, HandInv
  <2>. QED
    BY <2>2, <2>3
<1>6. BeforeInv'
  <2>1. SUFFICES ASSUME NEW p \in Requests, NEW s \in answeredBefore[p],
                        {p, s} \subseteq FeedProofs!Recorded'
                 PROVE  s \in prior'[p]
    BY <1>1 DEF LiveInv, BeforeInv
  <2>2. s \in Requests /\ response[s] # 0
    BY DEF LiveInv, BeforeInv
  <2>3. s # r
    BY <1>1, <2>2, AnsweredIsOver
  <2>4. s \in FeedProofs!Recorded
    BY <1>4, <2>1, <2>3
  <2>5. CASE p = r
    <3>1. s \in FeedProofs!Returned
      BY <2>2, <2>4, AnsweredIsOver DEF FeedProofs!Returned
    <3>. QED
      BY <1>2, <1>3, <2>5, <3>1
  <2>6. CASE p # r
    <3>1. p \in FeedProofs!Recorded /\ prior'[p] = prior[p]
      BY <1>2, <1>3, <1>4, <2>1, <2>6
    <3>. QED
      BY <2>4, <3>1 DEF LiveInv, BeforeInv
  <2>. QED
    BY <2>5, <2>6
<1>. QED
  BY <1>5, <1>6

\* A thread that goes on passes no in-memory sink, keeps its decision once it has
\* one, and takes back no answer.
LEMMA ProceedMoves ==
    ASSUME IInv, NEW r \in Requests, ~AtMemory(r), Execute(r)
    PROVE  /\ \/ sinkAt' = sinkAt
              \/ /\ sinkAt' = [sinkAt EXCEPT ![r] = @ + 1]
                 /\ sinkAt[r] \in {1, 3}
                 /\ decision[r] # "none"
           /\ \/ decision' = decision
              \/ \E d : d # "none" /\ decision' = [decision EXCEPT ![r] = d]
           /\ \A s \in Requests : response[s] # 0 => response'[s] # 0
<1>. USE DEF IInv, TypeOK
<1>1. CASE RecordNext(r) \/ SinkFails(r)
  <2>1. /\ pc[r] = "record" /\ sinkAt[r] <= 3
        /\ sinkAt' = [sinkAt EXCEPT ![r] = @ + 1]
        /\ UNCHANGED <<decision, response>>
    BY <1>1 DEF RecordNext, SinkFails, SinkOrder
  <2>2. sinkAt[r] \in 1..4 /\ sinkAt[r] # 2
    BY <2>1 DEF AtMemory, SinkOrder
  <2>. QED
    BY <2>1, <2>2 DEF CallInv
<1>2. CASE RefuseInvalid(r) \/ AnalysisRaises(r) \/ Respond(r)
  <2>1. /\ UNCHANGED <<sinkAt, decision>>
        /\ \E status : status # 0 /\ response' = [response EXCEPT ![r] = status]
    <3>1. Status(r) # 0
      BY DEF Status
    <3>. QED
      BY <1>2, <3>1 DEF RefuseInvalid, AnalysisRaises, Respond, recordVars
  <2>. QED
    BY <2>1
<1>3. CASE Reject(r) \/ Committed(r) \/ CallFails(r) \/ StatementTimeout(r)
  <2>1. /\ UNCHANGED <<sinkAt, response>>
        /\ \E d : d # "none" /\ decision' = [decision EXCEPT ![r] = d]
    BY <1>3 DEF Reject, Committed, CallFails, StatementTimeout, DatabaseError, recordVars
  <2>. QED
    BY <2>1
<1>4. CASE \/ StartWorker(r) \/ Admit(r) \/ Connect(r) \/ SetTimeout(r) \/ Run(r)
           \/ Fetch(r) \/ SendCommit(r) \/ RecordReturns(r)
  <2>1. UNCHANGED <<sinkAt, decision, response>>
    BY <1>4 DEF StartWorker, Admit, Connect, SetTimeout, Run, Fetch, SendCommit,
                RecordReturns, recordVars
  <2>. QED
    BY <2>1
<1>. QED
  BY <1>1, <1>2, <1>3, <1>4 DEF Execute

LEMMA ProceedLive ==
    ASSUME LiveInv, NEW r \in Requests, Proceed(r)
    PROVE  HandInv' /\ BeforeInv'
<1>1. /\ targets[r] = {}
      /\ UNCHANGED <<targets, log, prior, answeredBefore>>
      /\ Execute(r) /\ ~AtMemory(r)
  BY DEF Proceed, feedVars
<1>2. BeforeInv'
  BY <1>1, ProceedMoves, BeforeKept DEF LiveInv
<1>3. sinkAt \in [Requests -> 1..4] /\ DOMAIN decision = Requests
  BY DEF LiveInv, IInv, TypeOK, SinkOrder
<1>4. HandInv'
  <2>1. SUFFICES ASSUME NEW q \in Requests
                 PROVE  /\ q \in FeedProofs!Recorded <=> sinkAt'[q] > 2
                        /\ targets[q] # {} => sinkAt'[q] = 3
                        /\ decision'[q] = "none" => sinkAt'[q] = 1
    BY <1>1 DEF HandInv, FeedProofs!Recorded
  <2>2. /\ q \in FeedProofs!Recorded <=> sinkAt[q] > 2
        /\ targets[q] # {} => sinkAt[q] = 3
        /\ decision[q] = "none" => sinkAt[q] = 1
    BY DEF LiveInv, HandInv
  <2>3. decision'[q] = "none" => decision[q] = "none"
    BY <1>1, <1>3, ProceedMoves DEF LiveInv
  <2>4. \/ sinkAt' = sinkAt
        \/ /\ sinkAt' = [sinkAt EXCEPT ![r] = @ + 1]
           /\ sinkAt[r] \in {1, 3}
           /\ decision'[r] # "none"
    BY <1>1, <1>3, ProceedMoves DEF LiveInv
  <2>5. CASE q = r
    BY <1>1, <1>3, <2>2, <2>3, <2>4, <2>5
  <2>6. CASE q # r
    <3>1. sinkAt'[q] = sinkAt[q]
      BY <1>3, <2>4, <2>6
    <3>. QED
      BY <2>2, <2>3, <3>1
  <2>. QED
    BY <2>5, <2>6
<1>. QED
  BY <1>2, <1>4

LEMMA AskLive ==
    ASSUME LiveInv, NEW r \in Requests, NEW q \in Queries, Ask(r, q)
    PROVE  HandInv' /\ BeforeInv'
<1>1. /\ pc[r] = "idle"
      /\ answeredBefore' = [answeredBefore EXCEPT ![r] = Answered]
      /\ UNCHANGED <<sinkAt, decision, response, targets, log, prior>>
  BY DEF Ask, Submit, recordVars, feedVars
<1>2. HandInv'
  BY <1>1, HandKept DEF LiveInv
<1>3. r \notin FeedProofs!Recorded
  <2>1. sinkAt[r] = 1
    BY <1>1 DEF LiveInv, IInv, SinkAtInv, BeforeDatabase
  <2>. QED
    BY <2>1 DEF LiveInv, HandInv
<1>4. BeforeInv'
  <2>1. answeredBefore \in [Requests -> SUBSET Requests] /\ Answered \in SUBSET Requests
    BY DEF LiveInv, BeforeInv, Answered
  <2>2. answeredBefore' \in [Requests -> SUBSET Requests]
    BY <1>1, <2>1
  <2>3. FeedProofs!Recorded' = FeedProofs!Recorded
    BY <1>1 DEF FeedProofs!Recorded
  <2>4. ASSUME NEW p \in Requests, NEW s \in answeredBefore'[p]
        PROVE  /\ response'[s] # 0
               /\ {p, s} \subseteq FeedProofs!Recorded' => s \in prior'[p]
    <3>1. CASE p = r
      BY <1>1, <1>3, <2>1, <2>3, <2>4, <3>1 DEF Answered
    <3>2. CASE p # r
      BY <1>1, <2>1, <2>3, <2>4, <3>2 DEF LiveInv, BeforeInv
    <3>. QED
      BY <3>1, <3>2
  <2>. QED
    BY <2>2, <2>4 DEF BeforeInv
<1>. QED
  BY <1>2, <1>4

\* Streams and callbacks touch neither the gateway nor what is recorded.
LEMMA StreamsLive ==
    ASSUME LiveInv, RunCallback \/ \E c \in Streams : Stream(c)
    PROVE  HandInv' /\ BeforeInv'
<1>1. UNCHANGED <<targets, log, prior>>
  BY DEF RunCallback, Stream, Feed!PutIfPossible, Feed!Generator, Feed!Cancelled, Feed!Client,
         Feed!Subscribe, Feed!Snapshot, Feed!ReplayNext, Feed!Await, Feed!TakeNext,
         Feed!Heartbeat, Feed!ReturnOnDisconnect, Feed!Finish, Feed!Open, Feed!ClientRead,
         Feed!Disconnect, Feed!recorderVars, Feed!historyVars
<1>2. UNCHANGED <<sinkAt, decision, response, answeredBefore>>
  BY DEF RunCallback, Stream, vars, recordVars
<1>. QED
  BY <1>1, <1>2, HandKept, BeforeKept DEF LiveInv

LEMMA LiveNextKeeps ==
    ASSUME LiveInv, [LiveNext]_allVars
    PROVE  HandInv' /\ BeforeInv'
<1>1. ASSUME NEW r \in Requests, NEW c \in Streams, HandOver(r, c)
      PROVE  HandInv' /\ BeforeInv'
  <2>1. /\ UNCHANGED <<log, prior, sinkAt, decision, response, answeredBefore>>
        /\ targets' = [targets EXCEPT ![r] = @ \ {c}]
    BY <1>1 DEF HandOver, Feed!Deliver, Feed!historyVars, vars, recordVars
  <2>2. \A q \in Requests : targets'[q] \subseteq targets[q]
    BY <2>1 DEF LiveInv, FeedInv, FeedProofs!TypeOK
  <2>. QED
    BY <2>1, <2>2, HandKept, BeforeKept DEF LiveInv
<1>2. ASSUME NEW r \in Requests, InDatabaseServer(r)
      PROVE  HandInv' /\ BeforeInv'
  <2>1. UNCHANGED <<log, prior, targets, sinkAt, decision, response, answeredBefore>>
    BY <1>2
    DEF InDatabaseServer, Block, Database, ServerCommits, ServerAborts, recordVars, feedVars
  <2>. QED
    BY <2>1, HandKept, BeforeKept DEF LiveInv
<1>3. CASE UNCHANGED allVars
  <2>1. UNCHANGED <<log, prior, targets, sinkAt, decision, response, answeredBefore>>
    BY <1>3 DEF allVars, feedVars, vars, recordVars
  <2>. QED
    BY <2>1, HandKept, BeforeKept DEF LiveInv
<1>. QED
  BY <1>1, <1>2, <1>3, AskLive, RecordInMemoryLive, ProceedLive, StreamsLive
  DEF LiveNext, Thread

LEMMA LiveInductive == LiveSpec => []LiveInv
<1>1. LiveInit => LiveInv
  <2>1. LiveInit => IInv
    BY InitIInv DEF LiveInit
  <2>2. LiveInit => FeedInv
    <3>1. FeedProofs!Init => FeedProofs!TypeOK /\ FeedProofs!PathInv
      BY FeedProofs!InitTypeOK, FeedProofs!InitPath
    <3>2. FeedProofs!Init => FeedProofs!LifecycleInv /\ FeedProofs!NoSilentGap
      BY DEF FeedProofs!Init, FeedProofs!LifecycleInv, FeedProofs!SubscribersAreOpen,
             FeedProofs!ClosedLoopIsQuiet, FeedProofs!NoSilentGap, FeedProofs!Streaming
    <3>. QED
      BY <3>1, <3>2, SameFeed DEF LiveInit, FeedInv
  <2>3. LiveInit => HandInv /\ BeforeInv
    BY DEF LiveInit, Init, Feed!Init, HandInv, BeforeInv, FeedProofs!Recorded, FeedProofs!Range
  <2>. QED
    BY <2>1, <2>2, <2>3 DEF LiveInv
<1>2. LiveInv /\ [LiveNext]_allVars => IInv'
  BY LiveGatewayStep, GatewayKeeps DEF LiveInv
<1>3. LiveInv /\ [LiveNext]_allVars => FeedInv'
  BY LiveFeedStep, FeedProofs!NextTypeOK, FeedProofs!NextLifecycle, FeedProofs!NextNoSilentGap,
     FeedProofs!NextPath
  DEF LiveInv, FeedInv
<1>4. LiveInv /\ [LiveNext]_allVars => LiveInv'
  BY <1>2, <1>3, LiveNextKeeps DEF LiveInv
<1>. QED
  BY <1>1, <1>4, PTL DEF LiveSpec

\* For any requests, streams and capacities, a caller has its answer only when its
\* entry is with every stream there is: replayed, sent, in the loop, in the queue,
\* refused by a full queue, or gone from the ring before the stream began.
THEOREM LiveAnswersFollowThePage == LiveSpec => []AnsweredIsOnItsWay
<1>1. ASSUME LiveInv
      PROVE  AnsweredIsOnItsWay
  <2>1. SUFFICES ASSUME NEW r \in Requests, NEW c \in Streams,
                        response[r] \in {200, 400, 502}, phase[c] \in Feed!Streaming
                 PROVE  \/ r \in Range(snap[c]) \cup Range(live[c]) \cup Range(queue[c])
                        \/ <<c, r>> \in Range(ready)
                        \/ r \in dropped[c] \cup old[c]
    BY DEF AnsweredIsOnItsWay
  <2>2. response[r] # 0 /\ sinkAt[r] = 4
    BY <1>1, <2>1 DEF LiveInv, IInv, StatusInv
  <2>3. r \in FeedProofs!Recorded /\ targets[r] = {}
    BY <1>1, <2>2 DEF LiveInv, HandInv
  <2>4. phase[c] \in FeedProofs!Streaming
    BY <2>1 DEF Feed!Streaming, FeedProofs!Streaming
  <2>5. r \in old[c] \cup FeedProofs!Range(snap[c]) \cup FeedProofs!Range(live[c])
               \cup FeedProofs!Outstanding(c) \cup dropped[c]
    BY <1>1, <2>3, <2>4 DEF LiveInv, FeedInv, FeedProofs!NoSilentGap
  <2>. QED
    BY <2>3, <2>5 DEF FeedProofs!Outstanding, FeedProofs!Range, Range
<1>. QED
  BY <1>1, LiveInductive, PTL

\* For any requests and streams, the live feed never shows a request before one
\* that had been answered when it was submitted.
THEOREM LiveKeepsAnswerOrder == LiveSpec => []AnswerOrderIsLiveOrder
<1>1. ASSUME LiveInv
      PROVE  AnswerOrderIsLiveOrder
  <2>1. SUFFICES ASSUME NEW c \in Streams, NEW i \in DOMAIN live[c], NEW j \in DOMAIN live[c],
                        i < j, live[c][j] \in answeredBefore[live[c][i]]
                 PROVE  FALSE
    BY DEF AnswerOrderIsLiveOrder
  <2>2. live[c][j] \notin prior[live[c][i]]
    BY <1>1, <2>1
    DEF LiveInv, FeedInv, FeedProofs!PathInv, FeedProofs!PathInOrder, FeedProofs!InOrder,
        FeedProofs!MayFollow
  <2>3. {live[c][i], live[c][j]} \subseteq FeedProofs!Recorded
    BY <1>1 DEF LiveInv, FeedInv, FeedProofs!PathInv, FeedProofs!OnlyRecordedTravel,
                FeedProofs!Sent, FeedProofs!Range
  <2>4. FeedProofs!Recorded \subseteq Requests
    BY <1>1 DEF LiveInv, FeedInv, FeedProofs!TypeOK, FeedProofs!Recorded, FeedProofs!Range
  <2>. QED
    BY <1>1, <2>1, <2>2, <2>3, <2>4 DEF LiveInv, BeforeInv
<1>. QED
  BY <1>1, LiveInductive, PTL

-----------------------------------------------------------------------------
(* Neither notices the other.                                              *)

\* With the recorder and its streams behind it, the gateway takes no step it would
\* not take alone, so whatever is proved of the gateway holds of the whole.
THEOREM LiveImplementsGateway == LiveSpec => Spec
<1>1. LiveInit => Init
  BY DEF LiveInit
<1>2. [LiveNext]_allVars => [Next]_vars
  BY LiveGatewayStep
<1>. QED
  BY <1>1, <1>2, PTL DEF LiveSpec, Spec

\* Fed by the threads of the requests, with one record() call under way in each, the
\* recorder and the streams are as ObservabilityFeed describes them.
THEOREM LiveImplementsFeed == LiveSpec => Feed!Spec
<1>1. LiveInit => Feed!Init
  BY DEF LiveInit
<1>2. ASSUME [LiveNext]_allVars
      PROVE  [Feed!Next]_(Feed!vars)
  <2>. USE DEF Feed!vars, Feed!recorderVars, Feed!loopVars, Feed!streamVars, Feed!historyVars
  <2>1. ASSUME NEW r \in Requests, RecordInMemory(r) \/ \E c \in Streams : HandOver(r, c)
        PROVE  Feed!Next
    BY <2>1 DEF RecordInMemory, HandOver, Feed!Next, Feed!Server, Feed!Record
  <2>2. ASSUME RunCallback \/ \E c \in Streams : Stream(c)
        PROVE  Feed!Next
    BY <2>2 DEF RunCallback, Stream, Feed!Next, Feed!Server
  <2>3. CASE UNCHANGED feedVars
    BY <2>3 DEF feedVars
  <2>. QED
    BY <1>2, <2>1, <2>2, <2>3 DEF LiveNext, Ask, Thread, Proceed, InDatabaseServer, allVars
<1>. QED
  BY <1>1, <1>2, PTL DEF LiveSpec, Feed!Spec

\* The callers are promised with the page what they are promised without: a write takes
\* effect at most once, and "done" is answered only for what is committed.
THEOREM LiveImplementsService == LiveSpec => ImplementsQueryService
BY LiveImplementsGateway, GatewayImplementsService
=============================================================================
