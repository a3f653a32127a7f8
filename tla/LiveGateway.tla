---------------------------- MODULE LiveGateway ----------------------------
(***************************************************************************)
(* Gateway and ObservabilityFeed together.  A request's worker thread, in  *)
(* the use case's record() call, puts the entry into the ring and hands it *)
(* to every stream before it goes on to the next sink and to the answer.   *)
(* So what a caller was told and what a page shows can be compared.        *)
(***************************************************************************)
EXTENDS Gateway

CONSTANTS Streams, MaxBuffered, MaxQueue, WireRoom, Readers   \* as in ObservabilityFeed

ASSUME StreamAssumption ==
    /\ MaxBuffered \in Nat \ {0}
    /\ MaxQueue \in Nat \ {0}
    /\ WireRoom \in Nat \ {0}
    /\ Readers \subseteq Streams

VARIABLES
    entries, subscribers, targets, loopOpen, ready, phase, snap, pos, queue, wire,
    connected, log, live, dropped, old, prior,                \* as in ObservabilityFeed
    answeredBefore  \* history: the requests that were answered when r was submitted

Feed == INSTANCE ObservabilityFeed WITH Entries <- Requests

feedVars == <<entries, subscribers, targets, loopOpen, ready, phase, snap, pos, queue, wire,
              connected, log, live, dropped, old, prior>>

allVars == <<vars, feedVars, answeredBefore>>

LiveInit ==
    /\ Init
    /\ Feed!Init
    /\ answeredBefore = [r \in Requests |-> {}]

Answered == {r \in Requests : response[r] # 0}

Ask(r, q) ==
    /\ Submit(r, q)
    /\ answeredBefore' = [answeredBefore EXCEPT ![r] = Answered]
    /\ UNCHANGED feedVars

\* The next sink is the in-memory recorder.
AtMemory(r) ==
    /\ pc[r] = "record"
    /\ sinkAt[r] <= Len(SinkOrder)
    /\ SinkOrder[sinkAt[r]] = "memory"

\* record() of the in-memory recorder, its locked part.
RecordInMemory(r) ==
    /\ AtMemory(r)
    /\ RecordNext(r)
    /\ Feed!RecordEntry(r)
    /\ UNCHANGED answeredBefore

\* ... and its unlocked part, on the same thread.
HandOver(r, c) ==
    /\ Feed!Deliver(r, c)
    /\ UNCHANGED <<vars, answeredBefore>>

\* Mutant: the hand-over is left to another thread.
ProceedAtOnce(r) ==
    /\ ~AtMemory(r)
    /\ Execute(r)
    /\ UNCHANGED <<feedVars, answeredBefore>>

\* Any other step of the thread: record() has returned, or has not been called.
Proceed(r) ==
    /\ ~AtMemory(r)
    /\ targets[r] = {}
    /\ Execute(r)
    /\ UNCHANGED <<feedVars, answeredBefore>>

InDatabaseServer(r) ==
    /\ Block(r) \/ Database(r)
    /\ UNCHANGED <<feedVars, answeredBefore>>

Stream(c) ==
    /\ Feed!Generator(c) \/ Feed!Cancelled(c) \/ Feed!Client(c)
    /\ UNCHANGED <<vars, answeredBefore>>

RunCallback ==
    /\ Feed!PutIfPossible
    /\ UNCHANGED <<vars, answeredBefore>>

Thread(r) == RecordInMemory(r) \/ (\E c \in Streams : HandOver(r, c)) \/ Proceed(r)

LiveNext ==
    \/ \E r \in Requests :
        \/ \E q \in Queries : Ask(r, q)
        \/ Thread(r)
        \/ InDatabaseServer(r)
    \/ \E c \in Streams : Stream(c)
    \/ RunCallback

LiveSpec == LiveInit /\ [][LiveNext]_allVars

-----------------------------------------------------------------------------
\* An answer is never ahead of the page: once the caller of a recorded request
\* has its answer, the entry is with every stream there is.  It is in the replay,
\* was sent, waits in the loop or in the queue, or was refused by a full queue,
\* unless it had left the ring when the stream began.
AnsweredIsOnItsWay ==
    \A r \in Requests : \A c \in Streams :
        response[r] \in {200, 400, 502} /\ phase[c] \in Feed!Streaming =>
            \/ r \in Range(snap[c]) \cup Range(live[c]) \cup Range(queue[c])
            \/ <<c, r>> \in Range(ready)
            \/ r \in dropped[c] \cup old[c]

\* A client that waits for each answer before its next request sees its requests
\* in that order on every page: none precedes one that was answered before it
\* was even submitted.
AnswerOrderIsLiveOrder ==
    \A c \in Streams : \A i, j \in DOMAIN live[c] :
        i < j => live[c][j] \notin answeredBefore[live[c][i]]
=============================================================================
