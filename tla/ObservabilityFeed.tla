------------------------- MODULE ObservabilityFeed -------------------------
(***************************************************************************)
(* The live observability feed of the gateway: the in-memory recorder      *)
(* (a ring buffer and a set of subscribers behind one lock) and the        *)
(* server-sent-event streams that read it.                                 *)
(*                                                                         *)
(* Worker threads call record(entry).  The lock covers appending to the    *)
(* ring and copying the subscriber set; the entry is handed to each        *)
(* copied subscriber after the lock is released, by scheduling a callback  *)
(* on the event loop.  The loop runs the callbacks in order and puts the   *)
(* entry on the subscriber's bounded queue, or drops it.  Each stream is   *)
(* a generator on the loop: subscribe, snapshot the ring, replay the       *)
(* snapshot, then serve the queue with a heartbeat timeout.                *)
(*                                                                         *)
(* One member of Entries is one record() call, made by one thread.         *)
(***************************************************************************)
EXTENDS Integers, Sequences, Functions

CONSTANTS
    Entries,        \* the observability entries, one record() call each
    Streams,        \* the connections to GET /observability/events
    MaxBuffered,    \* _MAX_BUFFERED_ENTRIES
    MaxQueue,       \* _MAX_PER_SUBSCRIBER_QUEUE_SIZE
    WireRoom,       \* frames the transport takes before send() blocks
    Readers         \* the streams whose client keeps reading (fairness only)

ASSUME FeedAssumption ==
    /\ MaxBuffered \in Nat \ {0}
    /\ MaxQueue \in Nat \ {0}
    /\ WireRoom \in Nat \ {0}
    /\ Readers \subseteq Streams

VARIABLES
    entries,        \* the ring buffer, oldest first
    subscribers,    \* the streams in the recorder's subscriber set
    targets,        \* targets[e]: copied subscribers record(e) has yet to deliver to
    loopOpen,       \* FALSE once the event loop is closed
    ready,          \* callbacks scheduled on the loop: <<stream, entry>>, FIFO
    phase,          \* where each stream's generator stands
    snap,           \* the list recorder.snapshot() returned to the stream
    pos,            \* the next index of snap to replay
    queue,          \* the subscriber's asyncio.Queue
    wire,           \* frames sent and not yet read by the client
    connected,      \* the server believes the client is there
    log,            \* history: the entries in the order they were appended
    live,           \* history: entries the stream took from its queue, in order
    dropped,        \* history: entries the stream's full queue refused
    old,            \* history: entries that had left the ring at the snapshot
    prior           \* history: records that had returned when record(e) began

recorderVars == <<entries, subscribers, targets>>
loopVars == <<loopOpen, ready>>
streamVars == <<phase, snap, pos, queue, wire, connected>>
historyVars == <<log, live, dropped, old, prior>>
vars == <<recorderVars, loopVars, streamVars, historyVars>>

Phases == {"idle", "requested", "subscribed", "replay", "live", "await", "closed"}

\* The generator holds its snapshot and is inside the subscribe() context.
Streaming == {"replay", "live", "await"}

Init ==
    /\ entries = <<>>
    /\ subscribers = {}
    /\ targets = [e \in Entries |-> {}]
    /\ loopOpen = TRUE
    /\ ready = <<>>
    /\ phase = [c \in Streams |-> "idle"]
    /\ snap = [c \in Streams |-> <<>>]
    /\ pos = [c \in Streams |-> 1]
    /\ queue = [c \in Streams |-> <<>>]
    /\ wire = [c \in Streams |-> <<>>]
    /\ connected = [c \in Streams |-> FALSE]
    /\ log = <<>>
    /\ live = [c \in Streams |-> <<>>]
    /\ dropped = [c \in Streams |-> {}]
    /\ old = [c \in Streams |-> {}]
    /\ prior = [e \in Entries |-> {}]

-----------------------------------------------------------------------------
(* The recorder, on the worker threads.                                    *)

\* deque(maxlen=MaxBuffered).append: a full ring loses its oldest entry.
Push(ring, e) ==
    IF Len(ring) < MaxBuffered THEN Append(ring, e) ELSE Append(Tail(ring), e)

Recorded == Range(log)

\* The record() calls that have handed their entry to every target.
Returned == {e \in Recorded : targets[e] = {}}

\* Mutant: the replay has been moved out of subscribe(), so that a stream counts
\* as a subscriber only once its snapshot is sent.
RecordEntryAfterReplay(e) ==
    /\ e \notin Recorded
    /\ entries' = Push(entries, e)
    /\ targets' = [targets EXCEPT ![e] = {c \in subscribers : phase[c] \notin {"subscribed", "replay"}}]
    /\ log' = Append(log, e)
    /\ prior' = [prior EXCEPT ![e] = Returned]
    /\ UNCHANGED <<subscribers, loopVars, streamVars, live, dropped, old>>

\* record(), the locked part: append to the ring and copy the subscriber set.
RecordEntry(e) ==
    /\ e \notin Recorded
    /\ entries' = Push(entries, e)
    /\ targets' = [targets EXCEPT ![e] = subscribers]
    /\ log' = Append(log, e)
    /\ prior' = [prior EXCEPT ![e] = Returned]
    /\ UNCHANGED <<subscribers, loopVars, streamVars, live, dropped, old>>

\* Mutant: the callback is scheduled ahead of those already waiting.
DeliverInFront(e, c) ==
    /\ c \in targets[e]
    /\ targets' = [targets EXCEPT ![e] = @ \ {c}]
    /\ ready' = IF loopOpen THEN <<<<c, e>>>> \o ready ELSE ready
    /\ UNCHANGED <<entries, subscribers, loopOpen, streamVars, historyVars>>

\* Mutant: the thread waits for a loop that takes its callback.
DeliverToOpenLoop(e, c) ==
    /\ loopOpen
    /\ c \in targets[e]
    /\ targets' = [targets EXCEPT ![e] = @ \ {c}]
    /\ ready' = Append(ready, <<c, e>>)
    /\ UNCHANGED <<entries, subscribers, loopOpen, streamVars, historyVars>>

\* record(), the unlocked part: _Subscriber.deliver for one copied subscriber,
\* in the arbitrary order of the set.  A closed loop is silently skipped.
Deliver(e, c) ==
    /\ c \in targets[e]
    /\ targets' = [targets EXCEPT ![e] = @ \ {c}]
    /\ ready' = IF loopOpen THEN Append(ready, <<c, e>>) ELSE ready
    /\ UNCHANGED <<entries, subscribers, loopOpen, streamVars, historyVars>>

-----------------------------------------------------------------------------
(* The event loop.  subscribe() and snapshot() run without an await between *)
(* them, so nothing else runs on the loop while a stream is "subscribed";  *)
(* worker threads do.                                                      *)

LoopFree == loopOpen /\ \A c \in Streams : phase[c] # "subscribed"

\* Mutant: the callback waits for room, and everything behind it with it.
PutBlocking ==
    /\ LoopFree
    /\ ready # <<>>
    /\ LET c == Head(ready)[1]
           e == Head(ready)[2]
       IN  /\ Len(queue[c]) < MaxQueue
           /\ queue' = [queue EXCEPT ![c] = Append(@, e)]
    /\ ready' = Tail(ready)
    /\ UNCHANGED <<recorderVars, loopOpen, phase, snap, pos, wire, connected,
                   log, live, dropped, old, prior>>

\* _Subscriber._put_if_possible, the callback at the head of the loop's queue.
PutIfPossible ==
    /\ LoopFree
    /\ ready # <<>>
    /\ LET c == Head(ready)[1]
           e == Head(ready)[2]
       IN  \/ /\ Len(queue[c]) < MaxQueue
              /\ queue' = [queue EXCEPT ![c] = Append(@, e)]
              /\ UNCHANGED dropped
           \/ /\ Len(queue[c]) >= MaxQueue
              /\ dropped' = [dropped EXCEPT ![c] = @ \cup {e}]
              /\ UNCHANGED queue
    /\ ready' = Tail(ready)
    /\ UNCHANGED <<recorderVars, loopOpen, phase, snap, pos, wire, connected,
                   log, live, old, prior>>

\* The server stops once every stream has ended; the loop drops its callbacks.
CloseLoop ==
    /\ LoopFree
    /\ \A c \in Streams : phase[c] \in {"idle", "closed"}
    /\ loopOpen' = FALSE
    /\ ready' = <<>>
    /\ UNCHANGED <<recorderVars, streamVars, historyVars>>

-----------------------------------------------------------------------------
(* A stream's generator, on the event loop.                                *)

\* A client requests GET /observability/events.
Open(c) ==
    /\ loopOpen
    /\ phase[c] = "idle"
    /\ phase' = [phase EXCEPT ![c] = "requested"]
    /\ connected' = [connected EXCEPT ![c] = TRUE]
    /\ UNCHANGED <<recorderVars, loopVars, snap, pos, queue, wire, historyVars>>

\* subscribe().__aenter__: a fresh queue, added to the set under the lock.
Subscribe(c) ==
    /\ LoopFree
    /\ phase[c] = "requested"
    /\ phase' = [phase EXCEPT ![c] = "subscribed"]
    /\ subscribers' = subscribers \cup {c}
    /\ UNCHANGED <<entries, targets, loopVars, snap, pos, queue, wire, connected,
                   historyVars>>

\* recorder.snapshot(): a copy of the ring under the lock.
Snapshot(c) ==
    /\ phase[c] = "subscribed"
    /\ phase' = [phase EXCEPT ![c] = IF entries = <<>> THEN "live" ELSE "replay"]
    /\ snap' = [snap EXCEPT ![c] = entries]
    /\ old' = [old EXCEPT ![c] = Recorded \ Range(entries)]
    /\ UNCHANGED <<recorderVars, loopVars, pos, queue, wire, connected,
                   log, live, dropped, prior>>

\* The previous send() has returned, so the generator may resume.
Resumed(c) == ~connected[c] \/ Len(wire[c]) < WireRoom

\* A frame yielded to a client that has gone is discarded by the transport.
Yield(c, e) ==
    wire' = IF connected[c] THEN [wire EXCEPT ![c] = Append(@, e)] ELSE wire

\* One turn of the replay loop: the client is there, the entry is yielded.
ReplayNext(c) ==
    /\ LoopFree
    /\ phase[c] = "replay"
    /\ Resumed(c)
    /\ connected[c]
    /\ Yield(c, snap[c][pos[c]])
    /\ pos' = [pos EXCEPT ![c] = @ + 1]
    /\ phase' = [phase EXCEPT ![c] = IF pos[c] = Len(snap[c]) THEN "live" ELSE @]
    /\ UNCHANGED <<recorderVars, loopVars, snap, queue, connected, historyVars>>

\* is_disconnected() answered False and the queue is empty: wait_for(get()).
Await(c) ==
    /\ LoopFree
    /\ phase[c] = "live"
    /\ Resumed(c)
    /\ connected[c]
    /\ queue[c] = <<>>
    /\ phase' = [phase EXCEPT ![c] = "await"]
    /\ UNCHANGED <<recorderVars, loopVars, snap, pos, queue, wire, connected,
                   historyVars>>

\* Mutant: an entry that ends a wait is read but stays on the queue.
TakeNextPeek(c) ==
    /\ LoopFree
    /\ \/ phase[c] = "live" /\ Resumed(c) /\ connected[c]
       \/ phase[c] = "await"
    /\ queue[c] # <<>>
    /\ Yield(c, Head(queue[c]))
    /\ queue' = [queue EXCEPT ![c] = IF phase[c] = "await" THEN @ ELSE Tail(@)]
    /\ live' = [live EXCEPT ![c] = Append(@, Head(queue[c]))]
    /\ phase' = [phase EXCEPT ![c] = "live"]
    /\ UNCHANGED <<recorderVars, loopVars, snap, pos, connected,
                   log, dropped, old, prior>>

\* get() returns the head of the queue, at once or after a wait; it is yielded.
TakeNext(c) ==
    /\ LoopFree
    /\ \/ phase[c] = "live" /\ Resumed(c) /\ connected[c]
       \/ phase[c] = "await"
    /\ queue[c] # <<>>
    /\ Yield(c, Head(queue[c]))
    /\ queue' = [queue EXCEPT ![c] = Tail(@)]
    /\ live' = [live EXCEPT ![c] = Append(@, Head(queue[c]))]
    /\ phase' = [phase EXCEPT ![c] = "live"]
    /\ UNCHANGED <<recorderVars, loopVars, snap, pos, connected,
                   log, dropped, old, prior>>

\* Mutant: no timeout, only an entry ends the wait.
HeartbeatNever(c) ==
    /\ LoopFree
    /\ phase[c] = "await"
    /\ queue[c] # <<>>
    /\ phase' = [phase EXCEPT ![c] = "live"]
    /\ UNCHANGED <<recorderVars, loopVars, snap, pos, queue, wire, connected,
                   historyVars>>

\* Mutant: the cancelled get() loses the entry that raced the timeout.
HeartbeatLosesEntry(c) ==
    /\ LoopFree
    /\ phase[c] = "await"
    /\ phase' = [phase EXCEPT ![c] = "live"]
    /\ queue' = [queue EXCEPT ![c] = IF @ = <<>> THEN @ ELSE Tail(@)]
    /\ UNCHANGED <<recorderVars, loopVars, snap, pos, wire, connected, historyVars>>

\* wait_for() times out, even if an entry has just been put: the cancelled
\* get() leaves it on the queue.  The keepalive comment is invisible to the
\* client and is not modelled as a frame.
Heartbeat(c) ==
    /\ LoopFree
    /\ phase[c] = "await"
    /\ phase' = [phase EXCEPT ![c] = "live"]
    /\ UNCHANGED <<recorderVars, loopVars, snap, pos, queue, wire, connected,
                   historyVars>>

\* Mutant: the generator ends without discarding its subscriber.
FinishLeaking(c) ==
    /\ phase' = [phase EXCEPT ![c] = "closed"]
    /\ snap' = [snap EXCEPT ![c] = <<>>]
    /\ pos' = [pos EXCEPT ![c] = 1]
    /\ UNCHANGED <<recorderVars, loopVars, queue, wire, connected, historyVars>>

\* The generator ends and with it its copy of the ring; the finally clause of
\* subscribe() discards the subscriber.
Finish(c) ==
    /\ phase' = [phase EXCEPT ![c] = "closed"]
    /\ snap' = [snap EXCEPT ![c] = <<>>]
    /\ pos' = [pos EXCEPT ![c] = 1]
    /\ subscribers' = subscribers \ {c}
    /\ UNCHANGED <<entries, targets, loopVars, queue, wire, connected, historyVars>>

\* is_disconnected() answered True, in the replay loop or in the live loop.
ReturnOnDisconnect(c) ==
    /\ LoopFree
    /\ phase[c] \in {"replay", "live"}
    /\ ~connected[c]
    /\ Finish(c)

\* The web framework cancels the generator of a client that has gone.
Cancelled(c) ==
    /\ LoopFree
    /\ phase[c] \in Streaming
    /\ ~connected[c]
    /\ Finish(c)

-----------------------------------------------------------------------------
(* The client's end of the connection.                                     *)

ClientRead(c) ==
    /\ wire[c] # <<>>
    /\ wire' = [wire EXCEPT ![c] = Tail(@)]
    /\ UNCHANGED <<recorderVars, loopVars, phase, snap, pos, queue, connected,
                   historyVars>>

\* The connection is lost; the frames on the wire are lost with it.
Disconnect(c) ==
    /\ connected[c]
    /\ connected' = [connected EXCEPT ![c] = FALSE]
    /\ wire' = [wire EXCEPT ![c] = <<>>]
    /\ UNCHANGED <<recorderVars, loopVars, phase, snap, pos, queue, historyVars>>

-----------------------------------------------------------------------------
Record == \E e \in Entries : RecordEntry(e) \/ \E c \in Streams : Deliver(e, c)

Generator(c) ==
    \/ Subscribe(c)
    \/ Snapshot(c)
    \/ ReplayNext(c)
    \/ Await(c)
    \/ TakeNext(c)
    \/ Heartbeat(c)
    \/ ReturnOnDisconnect(c)

Server ==
    \/ Record
    \/ PutIfPossible
    \/ CloseLoop
    \/ \E c \in Streams : Generator(c) \/ Cancelled(c)

Client(c) == Open(c) \/ ClientRead(c) \/ Disconnect(c)

Next == Server \/ \E c \in Streams : Client(c)

Spec == Init /\ [][Next]_vars

\* One fairness condition per thread of control: a record() call goes on handing
\* over, the loop runs its callbacks, and it resumes each generator that can
\* run (a pending wait_for() always can: its timeout fires).  Nothing is assumed
\* of the clients except that Readers read, and nothing of the framework's
\* cancellation.
Fairness ==
    /\ \A e \in Entries : WF_vars(\E c \in Streams : Deliver(e, c))
    /\ WF_vars(PutIfPossible)
    /\ \A c \in Streams : WF_vars(Generator(c))
    /\ \A c \in Readers : WF_vars(ClientRead(c))

FairSpec == Spec /\ Fairness

-----------------------------------------------------------------------------
TypeOK ==
    /\ entries \in Seq(Entries)
    /\ Len(entries) <= MaxBuffered
    /\ subscribers \subseteq Streams
    /\ targets \in [Entries -> SUBSET Streams]
    /\ loopOpen \in BOOLEAN
    /\ ready \in Seq(Streams \X Entries)
    /\ phase \in [Streams -> Phases]
    /\ snap \in [Streams -> Seq(Entries)]
    /\ pos \in [Streams -> Nat \ {0}]
    /\ \A c \in Streams : phase[c] = "replay" => pos[c] <= Len(snap[c])
    /\ \A c \in Streams : phase[c] \in {"idle", "requested", "subscribed"} => pos[c] = 1
    /\ queue \in [Streams -> Seq(Entries)]
    /\ \A c \in Streams : Len(queue[c]) <= MaxQueue
    /\ wire \in [Streams -> Seq(Entries)]
    /\ connected \in [Streams -> BOOLEAN]
    /\ log \in Seq(Entries)
    /\ live \in [Streams -> Seq(Entries)]
    /\ dropped \in [Streams -> SUBSET Entries]
    /\ old \in [Streams -> SUBSET Entries]
    /\ prior \in [Entries -> SUBSET Entries]

\* Entries on their way to stream c: in the hands of a record() call, in a
\* scheduled callback, or on the queue.
Outstanding(c) ==
    {e \in Entries : c \in targets[e]}
        \cup {e \in Entries : <<c, e>> \in Range(ready)}
        \cup Range(queue[c])

\* No silent gap between replay and live feed: whatever was still in the ring
\* when a stream took its snapshot, and whatever was recorded since, is in the
\* snapshot, was sent, is outstanding, or was refused by the full queue.  It is
\* why the generator subscribes before it takes the snapshot.
NoSilentGap ==
    \A c \in Streams :
        phase[c] \in Streaming =>
            Recorded \ old[c] \subseteq
                Range(snap[c]) \cup Range(live[c]) \cup Outstanding(c) \cup dropped[c]

\* Live frames keep the order of records that do not overlap: record() hands
\* over outside its lock, so overlapping records may be swapped, but an entry
\* whose record() returned before another's began never follows it on a stream.
LiveOrder ==
    \A c \in Streams : \A i, j \in DOMAIN live[c] :
        i < j => live[c][j] \notin prior[live[c][i]]

\* The live feed of a stream repeats nothing: an entry taken from the queue is
\* not taken again, and is not on its way a second time.
LiveOnce ==
    \A c \in Streams :
        /\ IsInjective(live[c])
        /\ Range(live[c]) \cap Outstanding(c) = {}

\* The subscriber set holds exactly the streams whose generator is inside
\* subscribe(): none is leaked by an early return or a cancellation, and none
\* that still streams has been lost.
SubscribersAreOpen ==
    subscribers = {c \in Streams : phase[c] \in Streaming \cup {"subscribed"}}

\* A stream whose client has gone ends, by the disconnect poll and the heartbeat
\* alone: again and again, no such stream is left among the subscribers.
GoneClientIsReleased == []<>(\A c \in subscribers : connected[c])

\* Every record() call ends, whatever the streams do: neither a client that has
\* stopped reading nor a loop that closes while an entry is being handed over
\* keeps the request behind it.
RecordReturns == <>[](\A e \in Entries : targets[e] = {})

\* Everything recorded that had not left the ring at the stream's snapshot has
\* been sent, or was refused by the stream's own queue.
UpToDate(c) ==
    /\ phase[c] \in {"live", "await"}
    /\ Recorded \ old[c] \subseteq Range(snap[c]) \cup Range(live[c]) \cup dropped[c]

\* Readers are isolated from slow clients: a stream whose client keeps reading is
\* brought up to date again and again, whatever the other clients do.
ReaderIsServed ==
    \A c \in Readers : []<>(phase[c] \in Streaming /\ connected[c] => UpToDate(c))
=============================================================================
