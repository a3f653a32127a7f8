# SQL gateway: specifications and proofs

TLA+ models of the SQL gateway in `src/`, checked by TLC on small instances, and
theorems about them checked by TLAPS for all values of the constants. Paths below
are relative to `src/src/` unless they start with `src/`.

- [The system](#the-system)
- [Modules](#modules)
- [Runs](#runs)
- [Fairness](#fairness)
- [Proofs](#proofs)
- [Findings](#findings)
- [Abstractions and limits](#abstractions-and-limits)
- [Plan](#plan)

## The system

An agent posts SQL to the gateway. The gateway scrubs it for the log, validates it
with a set of rules, runs it in a transaction under a restricted role, records one
observability entry, and answers. Operators watch the entries live in a browser.

| component | state | operations |
|---|---|---|
| `POST /query` endpoint (`application/controllers/http/gateway`) | none; the request body, the answer | validate the body (422), run the use case on a worker thread, map the result to 200, 400 or 502 |
| use case (`application/use_cases/execute_query_use_case.py`) | none; the decision and the outcome of the call | scrub, validate, execute, record, return, with early returns for a rejection and a database error |
| Postgres executor (`infrastructure/persistence/postgres/query_executor_adapter.py`) | one connection and one transaction per call | connect, set the statement timeout, run, fetch `max_results + 1` rows, commit, close; `ping` |
| recorders (`infrastructure/observability`) | stdout, an in-memory ring, a JSONL file | offer an entry to each sink, isolating failures; drop row data for stdout and the file |
| in-memory recorder and live streams (`in_memory_observability_recorder_adapter.py`, `observability_http_controller.py`) | the ring, the subscriber set, a bounded queue, a drop count and a warning time per subscriber, callbacks on the event loop, generators | record, deliver, snapshot, subscribe, replay, serve live, heartbeat, end on disconnect |
| observability page (the script inside `observability_http_controller.py`) | cards, seen request ids, counters, filters and their copy in localStorage, an animation frame, one `EventSource` | add a card, evict the oldest, filter, save and restore the filters, even out the rows, reconnect |
| validator, registry and rules (`infrastructure/persistence/sql`, `.../postgres/rules`) | the registered classes and the instance cache | register on import, judge a payload by the rules in order |
| scrubber (`infrastructure/persistence/sql/query_scrubber_adapter.py`) | none | replace the literals of a statement |
| probes (`application/controllers/http/probes`) | none | health; readiness, which pings the database from a worker thread |
| start-up (`main.py`, `infrastructure/config/settings.py`) | the settings, read twice, the imported modules, the container and its singletons, the mounted routers | check the settings, import the adapter, build the container, wire and mount the controllers, or exit with a message |
| schema and role (`infrastructure/persistence/postgres/init.sql`) | tables and privileges of `agent_rw` | create the role, take everything from it, grant it what it needs; permit or deny a statement |

How they interact. Endpoints are plain functions, so the framework runs them on a
bounded pool of threads: concurrent requests, and the readiness probe, meet in that
pool, in the sinks (each with its own lock) and in the database. `record()` of the
in-memory sink runs on such a thread and crosses to the event loop by
`call_soon_threadsafe`; streams are generators on the loop and read the ring under
the sink's lock. The page reads a stream over the network and reconnects by itself.

What is hard here, and what must hold:

- **Snapshot and subscription.** A stream replays the ring and then serves its queue,
  while threads record. Nothing may fall between the two, however a `record()` is
  interleaved with subscribing: `NoSilentGap`.
- **Delivery outside the lock.** `record()` copies the subscriber set under the lock
  and hands the entry over afterwards. Overlapping records may be swapped; records
  that do not overlap may not, and nothing may be delivered twice: `LiveOrder`,
  `LiveOnce`.
- **Slow and lost clients.** A full queue refuses entries for that stream alone
  (`ReaderIsServed`), and a stream whose client is gone must end and be unsubscribed
  although nothing wakes it but a timeout (`SubscribersAreOpen`,
  `GoneClientIsReleased`).
- **Replay on the page.** Every reconnect repeats the ring; the page must neither show
  an entry twice at once nor lose one, while it evicts cards and forgets their ids:
  `FilterMatchesCards`, `CaughtUpPageIsComplete`. That it never makes a second card on a
  later connection does not hold: `DedupesAcrossReconnects`, see [Findings](#findings).
- **Filters and frames.** Filters are clicked between arrivals and restored by a reload;
  every arrival, click and resize replaces the pending animation frame:
  `HiddenMatchesFilters`, `RowsAreAligned`.
- **Answers and pages.** `record()` runs on the thread that answers. An answer must not be
  ahead of the pages (`AnsweredIsOnItsWay`, `AnswerOrderIsLiveOrder`), a card must say what
  the caller was told (`OneEntryPerSink`), and neither a page that does not read nor a loop
  that closes may keep `record()` (`RecordReturns`).
- **Torn lines.** Threads share the file, a write may stop in the middle of a line, and the
  file outlives the process: `LinesAreNotMixed`, `DamageIsOneLine`, `HistoryIsKept`; the
  lock must survive a failed write: `EveryCallEnds`.
- **Half a start.** The settings are read twice and may change in between, and any step may
  end the start: `ServesWhole`, `ServesValidSettings`, `NoFailureRecurs`, `GatewayStarts`,
  `LoadsTheRegistry`.
- **Commit in doubt.** The connection may be lost while COMMIT is in flight, and the
  process may die between the commit and the entry. What the caller is told and what
  the log says must stay true: `ImplementsQueryService`, `EntriesAreTrue`.
- **Partial failure of recording.** A failing sink must not cost another sink its
  entry: `OneEntryPerSink`.
- **Limits.** Results are cut at `max_results`, and the caller and every log line tell so
  (`TruncationIsTold`); each request has a session of its own, which no error path may
  leak (`SessionsAreBounded`); statements that block hold threads that the probe needs
  too (`EveryRequestIsAnswered`, `EveryProbeIsAnswered`).
- **Rule order.** Rules are found by walking the package, registered in the order the
  file system lists their files, and the first rejection wins: `LoadsTheRegistry`,
  `VerdictIgnoresOrder`, `ReasonIsStable`.
- **Refusals and the clock.** The warning about a slow subscriber is throttled by a clock
  that starts anywhere. Warnings must be apart, count every refused entry exactly once
  and not be put off for ever: `WarningsAreApart`, `EveryRefusalIsCounted`,
  `SilenceIsShort`.
- **Two layers.** `init.sql` changes the privileges one statement at a time, may stop
  between two and is run again on databases that were granted more, while the role is in
  use. What its comments call unreachable must stay so, with or without the validator
  in front: `CompleteMeansDeclared`, `SecretsStayUnread`, `SchemaStaysIntact`. What the first
  layer lets through the second must permit or stop as documented:
  `EndsInDocumentedLayer`.
- **Literals in the log.** The scrubber finds literals by one traversal and the sensitive
  ones by another, and cannot replace one that is the whole statement. What reaches the
  database must be logged without any that the traversal visits
  (`VisitedLiteralsStayOutOfTheLog`); it does not visit all, see [Findings](#findings).

`PROJECT.json` lists these hazards with the line at which each one bites, and maps
every definition to the lines it models.

## Modules

| module | models |
|---|---|
| `ObservabilityFeed` | the in-memory recorder, the event loop and the stream generators |
| `PageCards` | the page's own state: cards, request ids, counters, filters and their memory, the animation frame |
| `ObservabilityPage` | extends `PageCards` by the connections of the tab, each of which is a stream of an instance of `ObservabilityFeed` |
| `QueryService` | what `POST /query` promises its callers, with nothing inside |
| `Gateway` | the life of a request from the body to the answer, the database as a second party, the sinks, the probe; implements `QueryService` |
| `LiveGateway` | composes `Gateway` and `ObservabilityFeed`: the request's thread records into the feed; the numbers a card shows |
| `JsonlFile` | the file sink in detail: lock, partial writes, crash and restart on the same file |
| `Bootstrap` | `build_app()` and the operator who repairs what its messages name; implements `QueryValidator`'s view of the start |
| `SqlRules` | the payload, the six rules and the first-rejection loop, as operators |
| `QueryValidator` | extends the rules by the import of their modules, the registry and its cache |
| `SlowConsumer` | the throttled warning about one subscriber, with the clock |
| `QueryScrubber` | which literals of a statement are replaced, and by what, as operators |
| `RolePermissions` | `init.sql` statement by statement, and the privileges of `agent_rw` |
| `AccessGuard` | composes `SqlRules`, `QueryScrubber` and `RolePermissions`: requests on their way through both layers |
| `MCFeed`, `MCPageCards`, `MCPage`, `MCGateway`, `MCLive`, `MCJsonlFile`, `MCBootstrap`, `MCValidator`, `MCSlowConsumer`, `MCAccess` | instances for TLC |
| `ObservabilityFeedProofs`, `PageProofs` (`PageCards`, `ObservabilityPage`), `GatewayProofs` (`Gateway`, `LiveGateway`), `JsonlFileProofs`, `BootstrapProofs`, `QueryValidatorProofs` (also `SqlRules`), `SlowConsumerProofs`, `AccessGuardProofs` (also `RolePermissions`) | theorems |

Definitions whose comment starts with "Mutant:" are faults a
programmer could plausibly make; each stands before the definition it would replace
and shows which property would notice. They are no part of the specifications.

### ObservabilityFeed

One member of `Entries` is one `record()` call. `RecordEntry` is the part under the
lock (append to the ring, copy the subscriber set into `targets[e]`); `Deliver` is the
part after it, one copied subscriber at a time in any order, which schedules a callback
at the tail of `ready` or is skipped once the loop is closed. `PutIfPossible` is the
callback at the head. A stream's generator stands at `phase[c]`:

    idle -> requested -> subscribed -> replay -> live <-> await -> closed

`Subscribe` and `Snapshot` are two steps, because a thread may record between them;
there is no `await` between them in the code, so nothing else on the loop runs
(`LoopFree`). In `replay` and `live` the generator yields a frame and is resumed when
`send()` returns, which back-pressure delays (`Resumed`). In `await` it is inside
`wait_for(queue.get(), ...)`: `TakeNext` and `Heartbeat` are its two ends, and a
timeout may win although an entry has arrived. `Disconnect` is the moment the server
learns of a lost client; the generator notices at its next poll
(`ReturnOnDisconnect`), or the framework cancels it (`Cancelled`).

The variables `log`, `live`, `dropped`, `old` and `prior` are history: no action of the
program reads them.

### PageCards

The script in one tab. `AddEntry` is `addEntry`: an id in `seen` is ignored, otherwise a
card is put first and, beyond `MaxCards`, the last card is removed and its id forgotten.
`ToggleFilter` is the click on a chip with `saveFilters`, which may throw, and
`applyFilters` over every card. `ScheduleAlign` replaces a pending animation frame;
`AlignRows` is the frame; what it evens out are the cards on display with their places in the
document (`Visible`). `Reflow` is what else schedules one (a resize, details opened or
closed). `Reload` starts over with what localStorage holds.

### ObservabilityPage

One `PageCards` fed by the streams of one feed. `Connect`, `ConnectionLost` and
`ServerNotices` separate the browser's view of the connection from the server's: an old
stream may still be served while the page already reads a new one. `LoadAgain` drops the
connection with the cards (`Reload`). Which frames the page cannot parse (a NaN in a sample row is not
JSON) is an arbitrary subset of the entries, chosen at the start. Clicks, frames and
reflows do not touch what travels, and are left to `PageCards`.

### Gateway and QueryService

`pc[r]` follows request `r` through the code: `received`, `analyse`, the executor's
steps (`connect`, `configure`, `run`, `fetch`, `commit`, `acknowledge`), `record` (one
step per sink), `respond`. `tx[r]` is the transaction as the database sees it, and it
moves on its own: `ServerCommits` after COMMIT is sent, whether or not anyone listens,
`ServerAborts` at any time. `CallFails` is a `psycopg.Error` from any call; closing the
connection ends an open transaction but not a COMMIT already sent, which is how an
answer 502 can precede a commit. `Block` is a statement that never returns by itself;
`StatementTimeout` frees it when the timeout had been set. `Crash` ends the process.

`CardStatus` and `CardRows` are what the page derives from an entry alone;
`OneEntryPerSink` compares them with the answer.

`QueryService` states the promise: a write takes effect at most once; `done` is
answered only for what is in effect; `refused` only for what never will be; `failed`
promises nothing. The mapping is `answer = AnswerOf(response)`, `effects =` the
committed writes.

### LiveGateway

`RecordInMemory` is the gateway's `RecordNext` for the memory sink and the feed's
`RecordEntry` in one step. `HandOver` is the feed's `Deliver` on the same thread, and
`Proceed`, any other step of the thread, waits until nothing is left to hand over: that is
`record()` returning. Database, streams, clients and callbacks move by themselves.
`answeredBefore` is history.

### JsonlFile

`pc[e]` follows one `record()` call from the path check to the end of the with-blocks. A
line reaches the file in two pieces, `head` and `tail` with its newline; `Fail` is an
`OSError` anywhere under the lock, `Crash` the death of the process, which loses the lock
and keeps the file. A call that raises is one more failed sink to the multi-sink recorder.

### Bootstrap

`stage` follows `build_app()`: settings, adapter, rule modules in the order of one
`Listing`, `create_sync_container`, and then controller by controller what
`container.get` builds (`Due`: parameters first, each once). `ReadSettingsAgain` is the
second reading, whose error is not caught. `Exit` records in `told` which variables the
message is about. `Repair` corrects those and starts again, `Edit` changes the settings
during a start. The container is external: what is modelled of it is that it builds
singletons, parameters first, and refuses a parameter nothing provides. `Validator` is
`QueryValidator` over this start; `LoadsTheRegistry` says that the start implements it.

### SqlRules and QueryValidator

`ImportRule` appends one rule class, in any order; `StartServing` waits for all of them.
`Validate` fills the cache on the first call and answers the code of the first rule that
rejects (`Verdict` of `SqlRules`). A statement is abstracted to what the rules read: the
type of its root, what occurs below the root, and whether there is a WHERE or an INTO.

### SlowConsumer

One subscriber of the in-memory recorder. `Accept` and `Refuse` are the two ends of
`_put_if_possible`; `Refuse` is the whole of it, the raised count and
`_maybe_warn_about_slow_consumer` included. `Take` is the stream that reads its queue,
`Pass` is any amount of time. `time.monotonic()` counts from an arbitrary moment, so
`now` starts anywhere, while `_last_warning_at_monotonic` starts at zero: on a machine
that has just been started, the first interval after zero is quiet. All this runs on the
event loop, which is why no two steps overlap. `refused` and `warnings` are history.

### QueryScrubber

A statement is what the scrubber looks at: how many literals it has, the targets and
values of its SET lists, and the columns, source and values of its INSERTs. `Marked` is
`_collect_sensitive_literal_ids`; `Fate` is what replaces one literal. The branches of the code that
look at nothing (an INSERT without column list, a source that is neither VALUES nor
SELECT, a target of another kind) mark nothing here too; the literals there become
numbered placeholders. `_replace_all_literals` visits the nodes of class `exp.Literal`, which
are strings and numbers. The dialect parses E'..', $$..$$, b'..' and x'..' to nodes of other
classes: those literals are in `tree.unvisited`, and stay.

### RolePermissions and AccessGuard

A privilege is a kind, an object and a column or "*"; that the role is there and that it may
log in are members of the set like the others. A statement of the script is what
it takes, what it gives and what makes it do nothing (`Grant`, `Revoke`), and `Script` lists
them in the order of `init.sql`. Only `CreateRole` has a condition: IF NOT EXISTS leaves a role
that is there as it is, without LOGIN if it has none. `RunStatement` runs the next one, `StopScript` ends a run between two
statements, `StartScript` starts over. The role may have had any of `Earlier` before the
first run, which the history variable `before` keeps. `Permits` is the decision PostgreSQL makes on a statement: the login and each
privilege it needs, on the object or on the column, directly or through PUBLIC.

`AccessGuard` lets requests pass: `Ask` is the use case (scrub, then validate, with the rules
in any of the orders `RuleOrders`, because `main.py:66` registers them as the file system
lists them),
`AskDirectly` is a client that connects as `agent_rw` without the gateway, and `Execute`
reaches the database, whose privileges are those of that moment. `query.documented` is the
outcome that the table of scenarios in src/README.md gives for a query, where it has one.

## Runs

| run | checks | instance |
|---|---|---|
| `feed` | `NoSilentGap`, `LiveOnce`, `LiveOrder`, `SubscribersAreOpen`, `ReaderIsServed`, `RecordReturns`, `GoneClientIsReleased` | 2 entries, 2 streams of which one reads, ring 1, queue 1, wire 1 |
| `page_cards` | `TypeOK`, `FilterMatchesCards`, `HiddenMatchesFilters`, `RowsAreAligned` | 3 entries of 2 outcomes, page of 2 cards, every content of localStorage, 4 cards between reloads |
| `page_reconnect` | `CaughtUpPageIsComplete` | 2 entries, 2 connections, ring 1, queue 1, page of 1 card |
| `page_one_card` | `DedupesAcrossReconnects` is violated | the same |
| `live` | `AnsweredIsOnItsWay`, `AnswerOrderIsLiveOrder` | 2 requests, rejected or writing, 2 workers, 1 stream, ring 1, queue 1 |
| `jsonl_file` | `LinesAreNotMixed`, `DamageIsOneLine`, `HistoryIsKept`, `EveryCallEnds` | 3 calls, 2 crashes |
| `gateway_concurrent` | `TruncationIsTold`, `EntriesAreTrue`, `OneEntryPerSink`, `SessionsAreBounded`, `ImplementsQueryService` | 2 requests of 7 kinds, 1 worker, file sink on, 1 crash |
| `gateway_answers` | `EveryRequestIsAnswered`, `EveryProbeIsAnswered` | 2 requests and a probe on 1 worker |
| `bootstrap` | `ServesWhole`, `ServesValidSettings`, `NoFailureRecurs`, `GatewayStarts`, `LoadsTheRegistry` | all 40 settings, 2 listings, 1 edit |
| `validator_orders` | `VerdictIgnoresOrder`, `ReasonIsStable` | all 720 import orders, 2 calls |
| `slow_consumer` | `WarningsAreApart`, `EveryRefusalIsCounted`, `SilenceIsShort` | queue 2, interval 3, clock 0..8, up to 5 refusals |
| `access_guard` | `CompleteMeansDeclared`, `VisitedLiteralsStayOutOfTheLog`, `SecretsStayUnread`, `SchemaStaysIntact`, `EndsInDocumentedLayer` | 1 request of 19 queries, 6 orders of the rules, the 19 statements of the script in up to 2 runs, 4 earlier states of the role |

The type invariants of the feed, the gateway, the file sink, the validator, the slow
consumer and the access guard are theorems, and no run repeats them.

Why the bounds are enough:

- *Feed.* The order properties are about two entries at a time, and two records can
  overlap or follow each other in every way; that they hold for longer sequences is
  proved. With a ring of one the second entry evicts the first, with a queue of one it is
  refused, and a wire of one blocks the generator. Two streams are enough for one to
  affect the other: one reads, the other may stall for ever with a full queue and a full
  wire. A stream opens once; a reconnect is another stream.
- *Cards.* Two cards leave one in the middle of an eviction, three entries evict either of
  two outcomes, and four arrivals between reloads bring an evicted entry back. Arrivals
  are bounded because the counters are.
- *Page.* The real caps are 500 entries in the ring and 500 cards; both are 1 here, so
  that equality of the caps is kept and eviction and replay meet at once. Two
  connections give one reconnect. Streams and entries are symmetric: no constant tells
  them apart, and the run has no liveness property.
- *Gateway.* One worker serialises the execution of two requests but not their waiting,
  recording and crash, nor the database, which still decides on the first while the
  second runs. `MaxResults = 1` with results of 1 and 2 rows hits the exact fit and the
  truncation. The crash bound of one suffices because no state but the two other sinks
  and the database survives it. Where one worker hides overlap (two requests inside
  `record()`), the proofs cover any number of workers.
- *Live gateway.* What is compared is two requests and one page; both requests may be
  inside `record()` at once, the stream may begin before, between or after them, and a
  ring and a queue of one evict and refuse. Requests are symmetric, and the run has no
  liveness property.
- *File.* Two calls tear one line and damage the next; the third shows that the
  damage ends there. Two crashes are a restart and one more.
- *Start.* Every combination of what the checks tell apart, so that every failure and every
  order of failures occurs; two listings are enough to see that the start is indifferent to
  them, the verdicts under all 720 are `validator_orders`. One edit can fall between the two
  readings; a second is a new start.
- *Validator.* The statements break none, one, two and three rules, so that every pair
  of adjacent rules can be the first to reject. Two calls show that the second agrees
  with the first.
- *Slow consumer.* Nine ticks hold two intervals of three and a rest, so that there can
  be two warnings, and refusals before, at and after each boundary. Five refusals are more than the warnings there can be, so that
  counts above one and unreported rests occur. The proofs cover every value.
- *Access guard.* Two runs of the script are the first and a repeated one, each of which
  may stop at any statement; what more runs do is proved. The earlier states are a new
  database, one with whole-table grants, one where everybody may read files and create
  tables, and one whose role may not log in. Requests share nothing but the role, so that
  one is enough. The queries are those of the README's table and nine more, of which some are
  stopped only by the database, one is a lone literal and one writes a literal the
  scrubber does not visit. Each of the six rules is the first in one of the orders, so that
  a query that breaks several is rejected for each of them; the reason under all 720 orders
  is the subject of `validator_orders`, and the proofs take any set of orders.

`CHECK_DEADLOCK FALSE` stands in every configuration but that of `page_cards` because the
inputs are finite: the models may stop once every entry is recorded, every request
answered, every call made, and the start once it serves.

## Fairness

The safety runs assume none. The liveness runs assume one weak-fairness condition per
thread of control:

- a `record()` call goes on handing its entry over (a thread is scheduled);
- the event loop runs its callbacks (asyncio runs `ready` in order);
- the loop resumes each generator that can run. Inside `wait_for` it always can, because
  the timeout fires; that is the code's own guarantee, not an assumption on clients;
- a worker thread goes on with its request while it can, and so does a probe
  (`connect_timeout` ends its ping);
- the database answers a COMMIT one way or the other. A statement may block for ever
  (`Block` is never forced): only the statement timeout, if it was set, ends it;
- a thread inside the file sink goes on, and takes the lock when it stays free. A call
  that waits while others keep taking the lock is not starved in the model because
  calls are finitely many;
- the browser runs the animation frames of a tab that can be seen;
- the start goes on, and the operator does not give up repairing it.

Nothing is assumed of clients, except that the streams in `Readers` read when there is a
frame; and nothing of the framework's cancellation, so that `GoneClientIsReleased` rests
on the disconnect poll and the heartbeat alone. A connection attempt of `execute()` is
assumed to end: the code sets no timeout for it.

## Proofs

TLAPS checks every theorem; the constants are arbitrary within the assumptions
`FeedAssumption`, `PageAssumption`, `StreamAssumption` (of the page and of the live
gateway), `GatewayAssumption`, `JsonlFileAssumption`, `ValidatorAssumption`,
`SlowConsumerAssumption`, `RoleAssumption`, `GuardAssumption` and `BootstrapAssumption`,
which TLC evaluates on every run of their modules.
The code justifies them: the capacities and the interval are positive constants of the
modules, the limits are settings with lower bounds (`ge=1`, `ge=0`), and the registry
holds each rule (`validator_orders`). `RoleAssumption` says that the role held only
`Privileges` before, and that a role which was not there held none of its own; what that
leaves out is listed under [Abstractions and limits](#abstractions-and-limits).
`GuardAssumption` says that each order of the rules holds all six, and that a payload
which is one literal is a statement whose root is neither a query nor DML, as sqlglot
parses it.

*The feed* (`ObservabilityFeedProofs`).

- `FeedTypeCorrect`: `TypeOK` is inductive as it stands; it holds the replay cursor inside
  the snapshot.
- `FeedSubscribersAreOpen`: inductive given `TypeOK`; proved as `LifecycleInv`, together with
  `ClosedLoopIsQuiet`: the loop closes only when no generator is left.
- `FeedHasNoSilentGap`: `NoSilentGap` is inductive once `LifecycleInv` is added. Without it
  a closed loop could skip the callback of an entry that some stream still counts on. The proof follows each entry of
  a stream from one place to the next (`Covered`): snapshot, target, callback, queue,
  sent or refused.
- `FeedLiveOrder` and `FeedLiveOnce`: neither is inductive, because they speak only of
  what was sent. `PathInv` extends them to the whole way of an entry, through four
  places in this order: in the hand of a `record()` call, on the loop, on the queue, sent.
  No entry is in two places of one stream, and whichever entries may not be swapped
  (`MayFollow`) are in order along the way. It holds for overlapping records
  because `prior` names only the records that had returned, whose entries have left the
  first place.

*The page* (`PageProofs`).

- `PageTypeCorrect`, `PageFiltersWhatItShows` and `PageHidesWhatIsFilteredOut`: `TypeOK`,
  `FilterMatchesCards` and `HiddenMatchesFilters` are inductive together and not one by one. An
  eviction forgets the id of the last card, which leaves the ids right only because no
  other card has it; and that the evicted card is not left among the hidden ones
  needs the same.
- `PageIsComplete`: a caught-up page has a card for all it was owed. The feed's part is
  `NoSilentGap`, taken from `ObservabilityFeedProofs` through an instance: the steps of the
  composition are steps of the feed (`PageFeedStep`). The page's part is `ReachInv`: what the
  page's stream has yielded is on the wire, does not parse, or has had its card. An id that is
  already in `seen` makes no card, so it takes `ShownInv`, that such an id has had one;
  `StreamInv` says that the replay is over when the stream waits.
- `PageImplementsFeed`: `PageSpec` implies `Feed!Spec`, so every theorem about the feed
  holds with the page in front of it.

*The gateway* (`GatewayProofs`).

- `GatewayTypeCorrect`: `TypeOK` is not inductive, because an entry's type asks for a
  decision, and only the place of the request tells that there is one. `CallInv` adds
  what each place implies (no transaction before the connection, no decision before the
  outcome, a decision that tells how the transaction ended).
- `GatewayEntriesAreTrue`: from `CallInv` and `EntryInv`: an entry carries the decision
  of its request, and the decision outlives the process as history.
- `GatewayImplementsService`: with `AnswerInv` (only 502 leaves a transaction in
  doubt), every step maps to `Ask`, `Apply`, `Answer` or a stutter of `QueryService`. The
  late commit of an unacknowledged COMMIT maps to `Apply` after a `failed` answer.
- `GatewayTellsTruncation`: from `ResultInv`, which ties the outcome to the body that was
  asked: what is fetched in one step is what is committed and answered in later ones. For
  the lines in the sinks it takes `LineInv` too (see below), which ties a line to that
  outcome, and `EntryInv`, by which a line that says "allowed" belongs to such a request.
- `GatewayBoundsSessions`: from `SessionInv` (a request holds a session exactly in the
  database's steps) and `WorkerInv`: requests on workers and pings together stay within
  `Workers`, whose finite cardinalities each step changes by at most one.
- `GatewayRecordsOnce`: `OneEntryPerSink` is far from inductive, since it speaks of answered
  requests. `LineInv` says of every line what its request came to, that the recorder
  had reached its sink, and that no other line is of the same request; `SinkAtInv` follows
  the recorder over the sinks: one it has passed holds the request or missed it, but for
  what a crash took from memory; `StatusInv` says that an answer comes after the last.
  These survive a crash because `decision` and `missed` are history.

*The live gateway* (`GatewayProofs`).

- `LiveImplementsGateway`, `LiveImplementsFeed`: the steps of the composition are steps of
  `Gateway` and of `ObservabilityFeed`, or leave them alone. So it has all invariants of
  both, and `LiveImplementsService` follows from `GatewayImplementsService`.
- `LiveAnswersFollowThePage`: between the two stands `HandInv`: a worker's entry is in the
  ring once its recorder has passed the in-memory sink, and in its hands only until then.
  An answered request is behind its last sink, so that nothing is left to hand over and what
  `NoSilentGap` still allows is on the loop, on the queue, sent or refused.
- `LiveKeepsAnswerOrder`: `BeforeInv` turns "answered before it was submitted", which the
  clients see, into `prior`, which the feed's `PathInv` keeps in order.

*The start* (`BootstrapProofs`).

- `StartServesWhole`: `ContainerInv` says that what is built was built once, after
  all it needs and with its first instances; `RoutersInv` that the mounted routers are those of
  built controllers. The three controllers need, step by step, every key of the container.
- `StartServesValidSettings`: `StageInv` says what the first reading has passed at each stage.
  That the adapter is one with ports follows from the container's own check: without them the
  guard has a parameter that nothing provides (`OnlyPostgresProvides`). `SettingsInv` says
  the same of the second reading.
- `StartFailsAnew`: `NoFailureRecurs` is not inductive; `FailuresInv` adds that the cause of
  every past failure is gone from the variables and from what was read of them, or that the
  message on display names it (`Settled`). A way to fail that is settled cannot be taken, and
  `Repair` settles what was named without undoing the rest.
- `StartLoadsTheRegistry`: every step is a step of `QueryValidator`'s start, a new start
  after `Repair`, or none of its business; `Serve` is `StartServing` because the container
  is created after the last import.


*The file sink* (`JsonlFileProofs`).

- `JsonlTypeCorrect`, `JsonlLinesAreNotMixed` and `JsonlDamageIsOneLine` rest on `FileInv`.
  `LinesAreNotMixed` is not inductive: that a tail is written behind its own head needs
  `HalfInv` (in the middle of a write the file ends with that head), which the other calls
  keep because at most the holder of the lock is writing (`LockInv`). That no piece
  is written twice, the part of `TypeOK` that is not a type, needs `UnwrittenInv`.
  `DamageIsOneLine` follows at any moment: what stands before a line that was written
  whole is the end of a line, or the head of a torn one (`HeadInv`), for nobody else is in
  the middle of a write.
- `JsonlHistoryIsKept`: every step leaves the file or appends one piece to it, and a line
  that could be read lies, with the piece before it, in the part that stays.

*The validator* (`QueryValidatorProofs`).

- `ValidatorIgnoresOrder`: a list of rules that holds each rule lets a statement through
  exactly if no rule rejects it (`FirstRejectionExists`: if some rule rejects, the loop
  of `validate()` finds a first one, because positions are well-founded), and the six
  rules together reject what `MayRun` excludes (`RulesAreComplete`).
- `ValidatorTypeCorrect`, `ValidatorReasonIsStable`: every past call was judged by the rules
  as they stand now (`CallsInv`), because registration ends before the first call
  and the cache is a copy of the registry (`RegistryInv`).

*The slow consumer* (`SlowConsumerProofs`).

- `SlowConsumerTypeCorrect`, `SlowConsumerWarningsAreApart`, `SlowConsumerCountsRefusals`
  and `SlowConsumerSilenceIsShort` rest on one invariant. `WarningsAreApart` is not
  inductive by itself: a new warning is apart from all earlier ones because
  `_last_warning_at_monotonic` is the time of the last one, and the earlier ones lie
  before it. The same equation carries `SilenceIsShort`: it is measured at the last refusal,
  so that time passing afterwards cannot break it.

*The access guard* (`AccessGuardProofs`).

- `GuardTypeCorrect`, `GuardCompleteMeansDeclared`, `GuardSecretsStayUnread` and
  `GuardSchemaStaysIntact` rest on `RoleInv`. Its part `ZeroInv` says that from the
  revoking statements on the role holds, of the rights on the schema and on tables, only
  what is declared; the script
  never gives back more, so this survives every stop and restart, which is why
  `cleared` is enough for the two action properties and a complete run is not needed. Its
  part `ProgressInv` speaks of a run under way: what its statements after the first gave is
  still there (`GrantsSurvive`: no later statement takes it), and what is not declared is still
  to be taken by a later statement (`EverythingIsTakenOrDeclared`). The first statement may do
  nothing, so `LoginInv` follows the role and its login: once it has run there is a role, it
  may log in unless it could not before the first run, and nothing else changes that
  (`RoleAndLoginStay`). At the end the three make `held` what `CompleteMeansDeclared` says. What is declared touches no secret and no schema
  privilege (`DeclaredIsHarmless`), and what ran was permitted (`RanWasPermitted`). Nothing
  in the argument uses the validator: the second layer holds without the first.
- `GuardLogsNoVisitedLiterals`: from `RequestInv`, which says that what was not rejected left
  no literal but those the traversal does not visit: the only visited literal that is kept is a
  lone one, its root is foreign, and the rules reject such a root in any order
  (`VerdictIsOrderless` of `QueryValidatorProofs`, cited through an instance).

What is only model-checked:

- every liveness property, because fairness and ENABLED are out of the prover's reach:
  `ReaderIsServed`, `RecordReturns`, `GoneClientIsReleased`, `RowsAreAligned`, `EveryCallEnds`,
  `GatewayStarts`, `EveryRequestIsAnswered` and `EveryProbeIsAnswered`;
- `EndsInDocumentedLayer` of the access guard: it compares the model with a table of examples,
  which are constants of the run, and is false of queries the README does not list.

Every invariant and every other action property of a passing run, and both refinements
(`ImplementsQueryService`, `LoadsTheRegistry`), are theorems.

## Findings

One statement of the repository is refuted by a run:

- `page_one_card`. src/README.md:181 says that the page dedupes by `request_id` across
  reconnects. It forgets the id of an evicted card, while the server may still hold the entry
  and replay it. The counterexample, with a page and a ring of one entry: while the first
  stream is between subscribing and its snapshot, an older request is recorded and then a
  newer one. The snapshot replays the newer; the older, which was scheduled before, is
  delivered after it and evicts its card. The connection is lost, and the second stream
  replays the newer from the ring: a second card, on another connection, and the request
  is counted twice. With caps of 500 it takes as many later requests to bring the two to the
  end of both lists. `DedupesAcrossReconnects` speaks only of cards made on
  different connections; one stream that delivers swapped records to a full page can make
  a second card without a reconnect, which the quoted sentence does not exclude.

Six more disagreements were met while modelling. They take a step or two to see in the
code; the models contain them, and a property that holds says how far each one reaches.

- src/README.md:245 says that an entry is recorded on every path, and line 51 that there is
  one for every request. A body that `QueryRequest` refuses is answered 422 before the use
  case runs (`RefuseInvalid`), and leaves no entry. Every answer 200, 400 or 502 has one in
  each sink that did not fail: `OneEntryPerSink`.
- src/README.md:146 says that `POST /query` returns one of three shapes. A result with a NaN
  or an infinity is committed and recorded as allowed, and then cannot be encoded: the
  caller gets a 500 (`Status`), and the page a frame that does not parse. No other recorded
  request is answered 500: `OneEntryPerSink`.
- src/README.md:192 and a test (test_query_validator_adapter.py:222) give `root_not_allowed`
  as the reason for which `DROP TABLE users` is rejected. It breaks two rules, and
  `main.py:66` registers the rules in the order of an unsorted `rglob`: with a listing that
  has `no_forbidden_constructs_rule.py` before `allowed_root_statement_rule.py` the reason is
  `forbidden_construct`. So the table's reason is not what `AccessGuard` can promise.
  `EndsInDocumentedLayer` says what holds in every order of the run: the query ends at the
  layer the table gives, and both the reason it gets and the reason in the table are rules
  the query breaks. What is let through does not depend on the order at all:
  `VerdictIgnoresOrder`, proved.
- The docstring at query_scrubber_adapter.py:47 says that the scrubber "Replaces every
  literal in a parsed SQL statement", src/README.md:200 that the secret of a write is marked
  `[REDACTED]`, and the comment at init.sql:342 that the scrubber redacts the literals written to
  `password_hash`. `_replace_all_literals` visits `exp.Literal` nodes (line 195), and
  escape strings, dollar-quoted strings, bit and hex strings are nodes of other classes:
  `UPDATE users SET password_hash = E'...' WHERE id = 1` passes both layers and is recorded
  with its value. The query is in the run `access_guard`, and
  `VisitedLiteralsStayOutOfTheLog`, proved, says that nothing but such literals stays.
- By the same docstring, a payload that is nothing but one literal is recorded with its
  text: `_replace_all_literals` puts a node into the place of a literal below its parent,
  and there is none (`Fate`). The validator rejects it, so that no statement which
  reaches the database is affected: `VisitedLiteralsStayOutOfTheLog` again.
- The docstring at jsonl_file_observability_recorder_adapter.py:25 says that the sink
  "Appends one PII-free JSON line per entry". `record()` appends to whatever the file ends
  with: after a write that stopped in the middle of its line, the next entry, whose call
  reports no error, is appended to the torn line and cannot be read either. The damage ends
  there, and what could be read before stays readable: `DamageIsOneLine` and
  `HistoryIsKept`, both proved.

## Abstractions and limits

- A full `asyncio.Queue` with `maxsize` is a bounded sequence; `call_soon_threadsafe` is
  a FIFO of callbacks. The suppressed `RuntimeError` of a loop that closes between the
  check and the call is the same as the check answering "closed".
- `wire` counts every frame handed to the transport and not yet read, including the one
  a blocked `send()` holds.
- Keepalive comments are not frames: the client does not see them.
- A sink that raises leaves no line. The in-memory sink cannot raise. What a
  failed write leaves in the file is the subject of `JsonlFile`.
- A line reaches the file in two pieces, with the newline in the second; a
  line that is complete but for its newline is the same case as one that is torn earlier.
  The bytes the operating system held back when a machine loses power are not modelled.
- `LiveGateway` has no crash, no shutdown and no probe: what they do is in `Gateway` and
  `ObservabilityFeed`.
- One tab: two tabs that share localStorage are not modelled. In `ObservabilityPage`
  localStorage is empty at first. `state.totalEverReceived` is the sum of the counters.
- Of a card, the status and the numbers are modelled; titles, markup, escaping and number
  formatting are not.
- In `Bootstrap` a variable has the values the start tells apart, the three bounded integers
  are one variable, and the parsing of numbers and the configuration of logging are left
  out. The container's error names no variable; an operator reads it as being about
  the adapter. Singletons and their construction are the container's (external).
- `cursor.execute()` reads the whole result before the limit applies: memory is not
  modelled.
- `sinks["memory"]` of `Gateway` is the list of all entries the memory sink accepted since
  the last start; that the ring forgets old ones is the subject of `ObservabilityFeed`.
- The database is nondeterministic at every call, so its being down needs no variable.
- Scrubbing and validating are pure and are one step of the use case; their results are
  part of the query body (`verdict`). `QueryValidator` models the second in detail.
- `rules_for` is one step: the registry does not change while requests are served, and
  two threads that fill the cache at once fill it with the same rules. There are no
  rules for all dialects in the repository, so the registry has one list.
- `FORBIDDEN_TYPES` and the list of blocked functions are one class each (`Ddl`,
  `DangerousCall`): which names they contain is data.
- The text of the slow-consumer warning speaks of "the last ~30 s"; what is counted is
  everything since the last warning, however long ago. The model follows the code, and
  the wording is left out.
- `RecordReturns` says that nothing in `record()` waits: handing over to a loop that is
  closed, or for a stream that does not read, is a step like any other. That the lock of the
  in-memory recorder comes free is taken from its short sections, which call nothing.
- The functions of `public` are one member, `SchemaFunctions`; the functions of
  `pg_catalog` are the three that `init.sql` names. Of PUBLIC's privileges only EXECUTE on
  those three is followed (docker-compose runs PostgreSQL 16; before 15, PUBLIC also had
  CREATE on `public`). Left out are grants to `agent_rw` on functions of `pg_catalog`,
  grants by other grantors, membership in other roles, and the kinds REFERENCES and
  TRIGGER. The role owns nothing.
- Each statement of the script is a transaction of its own, as psql runs it. A run stops at
  a statement that fails: the entry point of the PostgreSQL image, which runs the script,
  sets ON_ERROR_STOP. A psql without it would go on with the next statement, and what it
  leaves is not covered. The password of the role is left out. The tables
  and rows it creates change no privilege and are no step; that a first run creates the
  tables before it grants on them is data.
- The names of sensitive columns are those of the schema that the scrubber's pattern
  finds; the pattern itself is data. NULL and booleans are no literals here. Which
  classes of literals the traversal visits is taken from how the code calls `find_all`
  and from the dialect, which is external; the text of an unvisited one is its class.
- Not modelled: markup, styles, card texts and the health endpoint (no state); tests, the
  demo script and container files.

## Plan

Done: every component named above, the gateway with its abstract service, the live gateway
and the access guard as compositions, and the proofs above. Left, in this order:

1. An abstract specification of the access guard, what the two layers promise together,
   with `AccessGuard` shown to implement it.
2. Proofs of what the compositions add and no run asks yet: that the in-memory recorder's
   list in `Gateway` is the `log` of the feed, and what the page's counters sum up to.
3. `QueryScrubber` against a reference definition over all bounded statements: every
   literal once, the sensitive ones by name, the others numbered from one.
