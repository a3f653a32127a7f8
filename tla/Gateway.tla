------------------------------ MODULE Gateway ------------------------------
(***************************************************************************)
(* The life of POST /query: request validation, scrubbing and validating   *)
(* the SQL, one transaction on a database session of its own, recording    *)
(* the entry in every sink, answering.  Requests run concurrently on a     *)
(* bounded pool of worker threads, which the probes share.  The database   *)
(* is a second party: it may refuse, abort or lose the connection at any   *)
(* step, and it decides a commit on its own.  The process may crash.       *)
(***************************************************************************)
EXTENDS Integers, Sequences, Functions, FiniteSets

CONSTANTS
    Requests,       \* one POST /query call each; stands for its request_id too
    Probes,         \* one GET /readiness call each
    Queries,        \* the query bodies clients send, see QueryType
    Workers,        \* threads of the pool that runs the endpoints
    MaxResults,     \* settings.max_results
    MaxSample,      \* settings.max_sample_rows_in_observability
    JsonlPathSet,   \* OBSERVABILITY_JSONL_PATH is set
    MaxCrashes      \* bound: how often the process crashes

\* What the steps tell apart of a query body:
\*   verdict  "invalid": refused by QueryRequest; "raises": makes the SQL parser
\*            raise something else than SqlglotError; "rejected" or "allowed":
\*            the validator's verdict
\*   writes   the statement changes rows
\*   returns  it has a result set (SELECT, or a write with RETURNING)
\*   size     how many rows that result set has, or how many rows a write
\*            without one changes
\*   finite   no cell of it is a NaN or an infinity
QueryType == [verdict: {"invalid", "raises", "rejected", "allowed"},
              writes: BOOLEAN, returns: BOOLEAN, size: Nat, finite: BOOLEAN]

ASSUME GatewayAssumption ==
    /\ Queries \subseteq QueryType
    /\ Workers \in Nat \ {0}
    /\ MaxResults \in Nat \ {0}
    /\ MaxSample \in Nat
    /\ JsonlPathSet \in BOOLEAN
    /\ MaxCrashes \in Nat

VARIABLES
    query,          \* query[r]: the set holding the body of r, empty before
    pc,             \* where request r stands
    connection,     \* r holds a psycopg connection
    timeoutSet,     \* the session of r has its statement_timeout
    tx,             \* the transaction of r, as the database sees it
    outcome,        \* the QueryOutcomeDto of r
    decision,       \* the decision the use case took for r
    sinkAt,         \* the sink the multi-sink recorder is at, for r
    sinks,          \* sinks[s]: the entries sink s holds
    missed,         \* missed[s]: history, the requests sink s failed to record
    response,       \* the HTTP status answered to r, 0 before
    probe,          \* where each probe stands
    crashes         \* how often the process has crashed

databaseVars == <<connection, timeoutSet, tx>>
recordVars == <<sinkAt, sinks, missed>>
vars == <<query, pc, databaseVars, outcome, decision, recordVars, response,
          probe, crashes>>

Minimum(m, n) == IF m < n THEN m ELSE n

NoOutcome ==
    [succeeded |-> FALSE, rows |-> 0, affected |-> 0, truncated |-> FALSE, finite |-> TRUE]

\* The order in which the recorder is assembled.
SinkOrder == <<"stdout", "memory", "jsonl">>
Sinks == {"stdout", "memory", "jsonl"}

Init ==
    /\ query = [r \in Requests |-> {}]
    /\ pc = [r \in Requests |-> "idle"]
    /\ connection = [r \in Requests |-> FALSE]
    /\ timeoutSet = [r \in Requests |-> FALSE]
    /\ tx = [r \in Requests |-> "none"]
    /\ outcome = [r \in Requests |-> NoOutcome]
    /\ decision = [r \in Requests |-> "none"]
    /\ sinkAt = [r \in Requests |-> 1]
    /\ sinks = [s \in Sinks |-> <<>>]
    /\ missed = [s \in Sinks |-> {}]
    /\ response = [r \in Requests |-> 0]
    /\ probe = [p \in Probes |-> "idle"]
    /\ crashes = 0

Goto(r, place) == pc' = [pc EXCEPT ![r] = place]

\* The steps of execute() that hold a database session.
InDatabase == {"configure", "run", "stuck", "fetch", "commit", "acknowledge"}

\* The steps that occupy a worker thread.
OnWorker == {"analyse", "connect", "record", "respond"} \cup InDatabase

BusyWorkers ==
    Cardinality({r \in Requests : pc[r] \in OnWorker})
        + Cardinality({p \in Probes : probe[p] = "pinging"})

-----------------------------------------------------------------------------
(* The HTTP boundary.                                                      *)

Submit(r, q) ==
    /\ pc[r] = "idle"
    /\ query' = [query EXCEPT ![r] = {q}]
    /\ Goto(r, "received")
    /\ UNCHANGED <<databaseVars, outcome, decision, recordVars, response, probe, crashes>>

\* QueryRequest refuses the body: 422, and the use case is never called.
RefuseInvalid(r) ==
    /\ pc[r] = "received"
    /\ \E q \in query[r] : q.verdict = "invalid"
    /\ response' = [response EXCEPT ![r] = 422]
    /\ Goto(r, "done")
    /\ UNCHANGED <<query, databaseVars, outcome, decision, recordVars, probe, crashes>>

\* The endpoint is a plain function: it waits for a thread of the pool.
StartWorker(r) ==
    /\ pc[r] = "received"
    /\ \E q \in query[r] : q.verdict # "invalid"
    /\ BusyWorkers < Workers
    /\ Goto(r, "analyse")
    /\ UNCHANGED <<query, databaseVars, outcome, decision, recordVars, response, probe, crashes>>

-----------------------------------------------------------------------------
(* ExecuteQueryUseCase.execute.  Scrubbing and validating are pure.        *)

Reject(r) ==
    /\ pc[r] = "analyse"
    /\ \E q \in query[r] : q.verdict = "rejected"
    /\ decision' = [decision EXCEPT ![r] = "rejected"]
    /\ Goto(r, "record")
    /\ UNCHANGED <<query, databaseVars, outcome, recordVars, response, probe, crashes>>

Admit(r) ==
    /\ pc[r] = "analyse"
    /\ \E q \in query[r] : q.verdict = "allowed"
    /\ Goto(r, "connect")
    /\ UNCHANGED <<query, databaseVars, outcome, decision, recordVars, response, probe, crashes>>

\* An exception nobody catches leaves the use case before anything is recorded.
AnalysisRaises(r) ==
    /\ pc[r] = "analyse"
    /\ \E q \in query[r] : q.verdict = "raises"
    /\ response' = [response EXCEPT ![r] = 500]
    /\ Goto(r, "done")
    /\ UNCHANGED <<query, databaseVars, outcome, decision, recordVars, probe, crashes>>

-----------------------------------------------------------------------------
(* PostgresQueryExecutorAdapter.execute.                                   *)

Connect(r) ==
    /\ pc[r] = "connect"
    /\ connection' = [connection EXCEPT ![r] = TRUE]
    /\ tx' = [tx EXCEPT ![r] = "open"]
    /\ Goto(r, "configure")
    /\ UNCHANGED <<query, timeoutSet, outcome, decision, recordVars, response, probe, crashes>>

\* Mutant: the timeout is not in force when the statement runs.
SetTimeoutForgotten(r) ==
    /\ pc[r] = "configure"
    /\ tx[r] = "open"
    /\ Goto(r, "run")
    /\ UNCHANGED <<query, databaseVars, outcome, decision, recordVars, response, probe, crashes>>

\* set_config('statement_timeout', ..., true)
SetTimeout(r) ==
    /\ pc[r] = "configure"
    /\ tx[r] = "open"
    /\ timeoutSet' = [timeoutSet EXCEPT ![r] = TRUE]
    /\ Goto(r, "run")
    /\ UNCHANGED <<query, connection, tx, outcome, decision, recordVars, response, probe, crashes>>

\* cursor.execute(query_text) returns ...
Run(r) ==
    /\ pc[r] = "run"
    /\ tx[r] = "open"
    /\ Goto(r, "fetch")
    /\ UNCHANGED <<query, databaseVars, outcome, decision, recordVars, response, probe, crashes>>

\* ... or the statement blocks for good, on a lock or because it is too slow ...
Block(r) ==
    /\ pc[r] = "run"
    /\ tx[r] = "open"
    /\ Goto(r, "stuck")
    /\ UNCHANGED <<query, databaseVars, outcome, decision, recordVars, response, probe, crashes>>

\* Mutant: one row too few is fetched.
FetchedRowsWithoutProbe(q) == Minimum(q.size, MaxResults)

\* fetchmany(max + 1) tells a full result from a truncated one.
FetchedRows(q) == Minimum(q.size, MaxResults + 1)

ReadOutcome(q) ==
    LET rows == Minimum(FetchedRows(q), MaxResults)
    IN  [succeeded |-> TRUE, rows |-> rows, affected |-> 0,
         truncated |-> FetchedRows(q) > MaxResults,
         finite |-> q.finite \/ rows = 0]

WriteOutcome(q) ==
    [succeeded |-> TRUE, rows |-> 0, affected |-> q.size, truncated |-> FALSE, finite |-> TRUE]

Fetch(r) ==
    /\ pc[r] = "fetch"
    /\ tx[r] = "open"
    /\ \E q \in query[r] :
        outcome' = [outcome EXCEPT ![r] = IF q.returns THEN ReadOutcome(q) ELSE WriteOutcome(q)]
    /\ Goto(r, "commit")
    /\ UNCHANGED <<query, databaseVars, decision, recordVars, response, probe, crashes>>

\* connection.commit() sends COMMIT and waits.
SendCommit(r) ==
    /\ pc[r] = "commit"
    /\ tx[r] = "open"
    /\ tx' = [tx EXCEPT ![r] = "committing"]
    /\ Goto(r, "acknowledge")
    /\ UNCHANGED <<query, connection, timeoutSet, outcome, decision, recordVars,
                   response, probe, crashes>>

\* Mutant: the commit is not waited for.
CommittedUnchecked(r) ==
    /\ pc[r] = "acknowledge"
    /\ connection' = [connection EXCEPT ![r] = FALSE]
    /\ decision' = [decision EXCEPT ![r] = "allowed"]
    /\ Goto(r, "record")
    /\ UNCHANGED <<query, timeoutSet, tx, outcome, recordVars, response, probe, crashes>>

\* commit() returned: the outcome is returned, the connection closed.
Committed(r) ==
    /\ pc[r] = "acknowledge"
    /\ tx[r] = "committed"
    /\ connection' = [connection EXCEPT ![r] = FALSE]
    /\ decision' = [decision EXCEPT ![r] = "allowed"]
    /\ Goto(r, "record")
    /\ UNCHANGED <<query, timeoutSet, tx, outcome, recordVars, response, probe, crashes>>

\* Mutant: the connection is not closed on the error path.
DatabaseErrorLeaking(r) ==
    /\ outcome' = [outcome EXCEPT ![r] = NoOutcome]
    /\ decision' = [decision EXCEPT ![r] = "db_error"]
    /\ Goto(r, "record")
    /\ UNCHANGED <<query, databaseVars, recordVars, response, probe, crashes>>

\* psycopg.Error from any of the calls above.  Leaving the with-block closes the
\* connection, which ends an open transaction but not a COMMIT already sent.
DatabaseError(r) ==
    /\ connection' = [connection EXCEPT ![r] = FALSE]
    /\ tx' = [tx EXCEPT ![r] = IF @ = "open" THEN "aborted" ELSE @]
    /\ outcome' = [outcome EXCEPT ![r] = NoOutcome]
    /\ decision' = [decision EXCEPT ![r] = "db_error"]
    /\ Goto(r, "record")
    /\ UNCHANGED <<query, timeoutSet, recordVars, response, probe, crashes>>

\* Mutant: a failed commit is retried on a new connection.
CallFailsRetrying(r) ==
    /\ pc[r] \in {"connect", "configure", "run", "fetch", "commit", "acknowledge"}
    /\ IF pc[r] = "acknowledge"
       THEN /\ connection' = [connection EXCEPT ![r] = FALSE]
            /\ tx' = [tx EXCEPT ![r] = "none"]
            /\ Goto(r, "connect")
            /\ UNCHANGED <<query, timeoutSet, outcome, decision, recordVars, response, probe, crashes>>
       ELSE DatabaseError(r)

CallFails(r) ==
    /\ pc[r] \in {"connect", "configure", "run", "fetch", "commit", "acknowledge"}
    /\ DatabaseError(r)

\* ... until the database cancels it.
StatementTimeout(r) ==
    /\ pc[r] = "stuck"
    /\ timeoutSet[r]
    /\ DatabaseError(r)

\* The database decides, whether or not anyone still listens.
ServerCommits(r) ==
    /\ tx[r] = "committing"
    /\ tx' = [tx EXCEPT ![r] = "committed"]
    /\ UNCHANGED <<query, pc, connection, timeoutSet, outcome, decision, recordVars,
                   response, probe, crashes>>

ServerAborts(r) ==
    /\ tx[r] \in {"open", "committing"}
    /\ tx' = [tx EXCEPT ![r] = "aborted"]
    /\ UNCHANGED <<query, pc, connection, timeoutSet, outcome, decision, recordVars,
                   response, probe, crashes>>

-----------------------------------------------------------------------------
(* Recording: MultiSinkObservabilityRecorderAdapter.record.                *)

Entry(r) ==
    [id |-> r, decision |-> decision[r],
     returned |-> outcome[r].rows, affected |-> outcome[r].affected,
     sample |-> Minimum(outcome[r].rows, MaxSample),
     truncated |-> outcome[r].truncated]

\* to_json_payload: stdout and the file get no row data.
Payload(s, entry) == IF s = "memory" THEN entry ELSE [entry EXCEPT !.sample = 0]

\* Each sink appends under its own lock; the file sink does nothing without a path.
Written(s, r) ==
    IF s = "jsonl" /\ ~JsonlPathSet THEN sinks[s]
    ELSE Append(sinks[s], Payload(s, Entry(r)))

\* The next sink records the entry.
RecordNext(r) ==
    LET s == SinkOrder[sinkAt[r]]
    IN  /\ pc[r] = "record"
        /\ sinkAt[r] <= Len(SinkOrder)
        /\ sinks' = [sinks EXCEPT ![s] = Written(s, r)]
        /\ sinkAt' = [sinkAt EXCEPT ![r] = @ + 1]
        /\ UNCHANGED <<query, pc, databaseVars, outcome, decision, missed, response,
                       probe, crashes>>

\* Mutant: the failure of one sink ends the loop over the sinks.
SinkFailsUnisolated(r) ==
    LET s == SinkOrder[sinkAt[r]]
    IN  /\ pc[r] = "record"
        /\ sinkAt[r] <= Len(SinkOrder)
        /\ s # "memory"
        /\ s = "jsonl" => JsonlPathSet
        /\ missed' = [missed EXCEPT ![s] = @ \cup {r}]
        /\ sinkAt' = [sinkAt EXCEPT ![r] = Len(SinkOrder) + 1]
        /\ UNCHANGED <<query, pc, databaseVars, outcome, decision, sinks, response,
                       probe, crashes>>

\* The next sink raises (a closed pipe, a full disk): logged, and the loop goes on.
SinkFails(r) ==
    LET s == SinkOrder[sinkAt[r]]
    IN  /\ pc[r] = "record"
        /\ sinkAt[r] <= Len(SinkOrder)
        /\ s # "memory"
        /\ s = "jsonl" => JsonlPathSet
        /\ missed' = [missed EXCEPT ![s] = @ \cup {r}]
        /\ sinkAt' = [sinkAt EXCEPT ![r] = @ + 1]
        /\ UNCHANGED <<query, pc, databaseVars, outcome, decision, sinks, response,
                       probe, crashes>>

RecordReturns(r) ==
    /\ pc[r] = "record"
    /\ sinkAt[r] > Len(SinkOrder)
    /\ Goto(r, "respond")
    /\ UNCHANGED <<query, databaseVars, outcome, decision, recordVars, response, probe, crashes>>

\* The JSON encoder of an allowed response refuses NaN and infinities.
Status(r) ==
    CASE decision[r] = "rejected" -> 400
      [] decision[r] = "allowed" -> IF outcome[r].finite THEN 200 ELSE 500
      [] OTHER -> 502

Respond(r) ==
    /\ pc[r] = "respond"
    /\ response' = [response EXCEPT ![r] = Status(r)]
    /\ Goto(r, "done")
    /\ UNCHANGED <<query, databaseVars, outcome, decision, recordVars, probe, crashes>>

-----------------------------------------------------------------------------
(* The readiness probe, which needs a worker too.                          *)

AskReadiness(p) ==
    /\ probe[p] = "idle"
    /\ probe' = [probe EXCEPT ![p] = "waiting"]
    /\ UNCHANGED <<query, pc, databaseVars, outcome, decision, recordVars, response, crashes>>

StartPing(p) ==
    /\ probe[p] = "waiting"
    /\ BusyWorkers < Workers
    /\ probe' = [probe EXCEPT ![p] = "pinging"]
    /\ UNCHANGED <<query, pc, databaseVars, outcome, decision, recordVars, response, crashes>>

\* 200 and "ready", or 503 and "not_ready".
ReadinessReport(up) == IF up THEN "ready" ELSE "not_ready"

\* ping() connects with a timeout and never raises.
AnswerReadiness(p) ==
    /\ probe[p] = "pinging"
    /\ \E up \in BOOLEAN :
        probe' = [probe EXCEPT ![p] = ReadinessReport(up)]
    /\ UNCHANGED <<query, pc, databaseVars, outcome, decision, recordVars, response, crashes>>

-----------------------------------------------------------------------------
\* The process dies and is restarted.  Calls in flight are lost, and so is the
\* in-memory buffer; the database ends the sessions it had open.
Crash ==
    /\ crashes < MaxCrashes
    /\ crashes' = crashes + 1
    /\ pc' = [r \in Requests |-> IF pc[r] \in {"idle", "done"} THEN pc[r] ELSE "lost"]
    /\ connection' = [r \in Requests |-> FALSE]
    /\ tx' = [r \in Requests |-> IF tx[r] = "open" THEN "aborted" ELSE tx[r]]
    /\ sinks' = [sinks EXCEPT !["memory"] = <<>>]
    /\ probe' = [p \in Probes |-> IF probe[p] \in {"waiting", "pinging"} THEN "idle" ELSE probe[p]]
    /\ UNCHANGED <<query, timeoutSet, outcome, decision, sinkAt, missed, response>>

Execute(r) ==
    \/ RefuseInvalid(r)
    \/ StartWorker(r)
    \/ Reject(r)
    \/ Admit(r)
    \/ AnalysisRaises(r)
    \/ Connect(r)
    \/ SetTimeout(r)
    \/ Run(r)
    \/ Fetch(r)
    \/ SendCommit(r)
    \/ Committed(r)
    \/ CallFails(r)
    \/ StatementTimeout(r)
    \/ RecordNext(r)
    \/ SinkFails(r)
    \/ RecordReturns(r)
    \/ Respond(r)

Database(r) == ServerCommits(r) \/ ServerAborts(r)

Probe(p) == StartPing(p) \/ AnswerReadiness(p)

Next ==
    \/ \E r \in Requests :
        \/ \E q \in Queries : Submit(r, q)
        \/ Execute(r)
        \/ Block(r)
        \/ Database(r)
    \/ \E p \in Probes : AskReadiness(p) \/ Probe(p)
    \/ Crash

Spec == Init /\ [][Next]_vars

\* A worker thread goes on while it can, and the database ends every statement
\* that has a timeout and every commit.  Blocking is never forced.
Fairness ==
    /\ \A r \in Requests : WF_vars(Execute(r)) /\ WF_vars(Database(r) /\ tx[r] = "committing")
    /\ \A p \in Probes : WF_vars(Probe(p))

FairSpec == Spec /\ Fairness

-----------------------------------------------------------------------------
(* What the page makes of an entry.                                        *)

\* outcomeFor: the status the card says the caller got.
CardStatus(entry) ==
    CASE entry.decision = "allowed" -> 200
      [] entry.decision = "rejected" -> 400
      [] entry.decision = "db_error" -> 502

\* The numbers of deriveDescription and buildCompactResultHtml, which leave out
\* what is zero.
CardRows(entry) ==
    [returned |-> entry.returned, affected |-> entry.affected, truncated |-> entry.truncated]

-----------------------------------------------------------------------------
Places == {"idle", "received", "done", "lost"} \cup OnWorker

OutcomeType == [succeeded: BOOLEAN, rows: 0..MaxResults, affected: Nat,
                truncated: BOOLEAN, finite: BOOLEAN]

EntryType == [id: Requests, decision: {"rejected", "allowed", "db_error"},
              returned: 0..MaxResults, affected: Nat, sample: 0..MaxSample, truncated: BOOLEAN]

TypeOK ==
    /\ query \in [Requests -> SUBSET Queries]
    /\ pc \in [Requests -> Places]
    /\ connection \in [Requests -> BOOLEAN]
    /\ timeoutSet \in [Requests -> BOOLEAN]
    /\ tx \in [Requests -> {"none", "open", "committing", "committed", "aborted"}]
    /\ outcome \in [Requests -> OutcomeType]
    /\ decision \in [Requests -> {"none", "rejected", "allowed", "db_error"}]
    /\ sinkAt \in [Requests -> 1..Len(SinkOrder) + 1]
    /\ sinks \in [Sinks -> Seq(EntryType)]
    /\ missed \in [Sinks -> SUBSET Requests]
    /\ response \in [Requests -> {0, 200, 400, 422, 500, 502}]
    /\ probe \in [Probes -> {"idle", "waiting", "pinging", "ready", "not_ready"}]
    /\ crashes \in 0..MaxCrashes

IsWrite(q) == q.verdict = "allowed" /\ q.writes

\* The requests whose writes are durable in the database.
Durable == {r \in Requests : tx[r] = "committed" /\ \E q \in query[r] : IsWrite(q)}

\* An entry that says "allowed" was written after the database had acknowledged
\* the commit, so no log line, in any sink and across crashes, reports a write
\* that is not there; one that says "rejected" stands for a query the database
\* never saw.
EntriesAreTrue ==
    \A s \in Sinks : \A entry \in Range(sinks[s]) :
        /\ entry.decision = "allowed" => tx[entry.id] = "committed"
        /\ entry.decision = "rejected" => tx[entry.id] = "none"

\* A request recorded and answered is the same request: at its answer it has
\* exactly one entry in every sink that did not fail on it (the memory of a
\* crashed process aside), and the card made of it has the status, the row counts
\* and the truncation its caller was told.  Only a result that cannot be encoded
\* has an entry and the answer 500.  Row data is only in memory.
Holds(s, r) == {i \in DOMAIN sinks[s] : sinks[s][i].id = r}

Lawful(r, entry) ==
    /\ entry.decision = decision[r]
    /\ CardRows(entry) = [returned |-> outcome[r].rows,
                          affected |-> outcome[r].affected,
                          truncated |-> outcome[r].truncated]
    /\ response[r] \in {200, 400, 502} => response[r] = CardStatus(entry)
    /\ response[r] = 500 => entry.decision = "allowed" /\ ~outcome[r].finite

Active(s) == s # "jsonl" \/ JsonlPathSet

OneEntryPerSink ==
    \A r \in Requests : \A s \in Sinks :
        /\ Cardinality(Holds(s, r)) <= 1
        /\ \A i \in Holds(s, r) :
            /\ Lawful(r, sinks[s][i])
            /\ s # "memory" => sinks[s][i].sample = 0
        /\ response[r] \in {200, 400, 502} /\ Active(s) /\ (s = "memory" => crashes = 0)
            => (Holds(s, r) = {} <=> r \in missed[s])

\* Told that a result is complete, its reader knows all of it; told that it is
\* truncated, as much of it as allowed, and there was more.
TellsSize(rows, truncated, q) ==
    IF truncated THEN rows = MaxResults /\ q.size > MaxResults ELSE rows = q.size

\* The answer to a query that returns rows tells the size of its result, and so does
\* every line about it in every sink, whether it was answered, could not be encoded or
\* was cut off by a crash.
TruncationIsTold ==
    \A r \in Requests : \A q \in query[r] : q.returns =>
        /\ response[r] = 200 => TellsSize(outcome[r].rows, outcome[r].truncated, q)
        /\ \A s \in Sinks : \A i \in Holds(s, r) :
            sinks[s][i].decision = "allowed" =>
                TellsSize(sinks[s][i].returned, sinks[s][i].truncated, q)

\* No session outlives its request: a connection is held only by a worker inside
\* execute(), on the error paths too, so the pool bounds the sessions; and a
\* transaction nobody holds is never left open.
SessionsAreBounded ==
    /\ \A r \in Requests :
        /\ connection[r] <=> pc[r] \in InDatabase
        /\ tx[r] = "open" => connection[r]
    /\ Cardinality({r \in Requests : connection[r]}) <= Workers

\* Every request that is received is answered, and every probe too: neither a
\* failing database nor statements that block keep the workers for ever.
EveryRequestIsAnswered ==
    \A r \in Requests : pc[r] = "received" ~> response[r] # 0

EveryProbeIsAnswered ==
    \A p \in Probes : probe[p] = "waiting" ~> probe[p] \in {"ready", "not_ready"}

\* The promise to callers, kept by this implementation.
AnswerOf(status) ==
    CASE status = 0 -> "none"
      [] status = 200 -> "done"
      [] status \in {400, 422} -> "refused"
      [] status = 502 -> "failed"
      [] OTHER -> "unknown"

Service == INSTANCE QueryService WITH
    Writes <- IsWrite,
    asked <- query,
    answer <- [r \in Requests |-> AnswerOf(response[r])],
    effects <- Durable

\* The gateway implements QueryService: no write twice, none after an answer
\* other than 502, "done" only for what is committed.
ImplementsQueryService == Service!Spec
=============================================================================
