---------------------- MODULE ObservabilityFeedProofs ----------------------
(***************************************************************************)
(* Proofs about ObservabilityFeed, for any number of entries and streams   *)
(* and any capacities.                                                     *)
(***************************************************************************)
EXTENDS ObservabilityFeed, SequenceTheorems, TLAPS

USE FeedAssumption

LEMMA PushType ==
    ASSUME NEW S, NEW ring \in Seq(S), Len(ring) <= MaxBuffered, NEW e \in S
    PROVE  Push(ring, e) \in Seq(S) /\ Len(Push(ring, e)) <= MaxBuffered
  BY DEF Push

LEMMA InitTypeOK == Init => TypeOK
  BY DEF Init, TypeOK, Phases, Streaming

LEMMA RecordEntryTypeOK ==
    ASSUME TypeOK, NEW e \in Entries, RecordEntry(e)
    PROVE  TypeOK'
<1>1. entries' \in Seq(Entries) /\ Len(entries') <= MaxBuffered
  BY PushType DEF TypeOK, RecordEntry
<1>2. Returned \subseteq Entries
  BY DEF TypeOK, Returned, Recorded, Range
<1>. QED
  BY <1>1, <1>2 DEF TypeOK, RecordEntry, loopVars, streamVars

LEMMA DeliverTypeOK ==
    ASSUME TypeOK, NEW e \in Entries, NEW c \in Streams, Deliver(e, c)
    PROVE  TypeOK'
<1>1. /\ targets' = [targets EXCEPT ![e] = @ \ {c}]
      /\ ready' = IF loopOpen THEN Append(ready, <<c, e>>) ELSE ready
      /\ UNCHANGED <<entries, subscribers, loopOpen, streamVars, historyVars>>
  BY DEF Deliver
<1>2. /\ ready \in Seq(Streams \X Entries)
      /\ <<c, e>> \in Streams \X Entries
  BY DEF TypeOK
<1>3. ready' \in Seq(Streams \X Entries)
  BY <1>1, <1>2, AppendProperties
<1>4. targets' \in [Entries -> SUBSET Streams]
  BY <1>1 DEF TypeOK
<1>. QED
  BY <1>1, <1>3, <1>4 DEF TypeOK, streamVars, historyVars

LEMMA PutIfPossibleTypeOK ==
    ASSUME TypeOK, PutIfPossible
    PROVE  TypeOK'
<1>. DEFINE c == Head(ready)[1]
            e == Head(ready)[2]
<1>1. ready \in Seq(Streams \X Entries) /\ ready # <<>>
  BY DEF TypeOK, PutIfPossible
<1>2. /\ Head(ready) \in Streams \X Entries
      /\ Tail(ready) \in Seq(Streams \X Entries)
  BY <1>1, HeadTailProperties
<1>3. c \in Streams /\ e \in Entries
  BY <1>2
<1>4. /\ ready' = Tail(ready)
      /\ UNCHANGED <<entries, subscribers, targets, loopOpen, phase, snap, pos, wire,
                     connected, log, live, old, prior>>
  BY DEF PutIfPossible, recorderVars
<1>5. CASE /\ Len(queue[c]) < MaxQueue
           /\ queue' = [queue EXCEPT ![c] = Append(@, e)]
           /\ UNCHANGED dropped
  <2>1. Append(queue[c], e) \in Seq(Entries) /\ Len(Append(queue[c], e)) <= MaxQueue
    BY <1>3, <1>5 DEF TypeOK
  <2>. QED
    BY <1>2, <1>3, <1>4, <1>5, <2>1 DEF TypeOK
<1>6. CASE /\ dropped' = [dropped EXCEPT ![c] = @ \cup {e}]
           /\ UNCHANGED queue
  <2>1. dropped' \in [Streams -> SUBSET Entries]
    BY <1>3, <1>6 DEF TypeOK
  <2>. QED
    BY <1>2, <1>4, <1>6, <2>1 DEF TypeOK
<1>. QED
  BY <1>5, <1>6 DEF PutIfPossible

LEMMA SnapshotTypeOK ==
    ASSUME TypeOK, NEW c \in Streams, Snapshot(c)
    PROVE  TypeOK'
<1>1. entries # <<>> => Len(entries) > 0
  BY EmptySeq DEF TypeOK
<1>2. Recorded \subseteq Entries
  BY DEF TypeOK, Recorded, Range
<1>3. /\ phase' = [phase EXCEPT ![c] = IF entries = <<>> THEN "live" ELSE "replay"]
      /\ snap' = [snap EXCEPT ![c] = entries]
      /\ old' = [old EXCEPT ![c] = Recorded \ Range(entries)]
      /\ UNCHANGED <<entries, subscribers, targets, loopOpen, ready, pos, queue, wire,
                     connected, log, live, dropped, prior>>
  BY DEF Snapshot, recorderVars, loopVars
<1>4. /\ phase' \in [Streams -> Phases]
      /\ snap' \in [Streams -> Seq(Entries)]
      /\ old' \in [Streams -> SUBSET Entries]
  BY <1>2, <1>3 DEF TypeOK, Phases
<1>5. pos[c] = 1
  BY DEF TypeOK, Snapshot
<1>6. ASSUME NEW d \in Streams
      PROVE  /\ phase'[d] = "replay" => pos'[d] <= Len(snap'[d])
             /\ phase'[d] \in {"idle", "requested", "subscribed"} => pos'[d] = 1
  <2>1. CASE d = c
    <3>1. snap'[d] = entries /\ pos'[d] = 1 /\ phase'[d] \in {"live", "replay"}
      BY <1>3, <1>5, <2>1 DEF TypeOK
    <3>2. phase'[d] = "replay" => entries # <<>>
      BY <1>3, <2>1 DEF TypeOK
    <3>3. Len(entries) \in Nat
      BY LenProperties DEF TypeOK
    <3>. QED
      BY <1>1, <3>1, <3>2, <3>3
  <2>2. CASE d # c
    BY <1>3, <2>2 DEF TypeOK
  <2>. QED
    BY <2>1, <2>2
<1>. QED
  BY <1>3, <1>4, <1>6 DEF TypeOK

LEMMA YieldType ==
    ASSUME TypeOK, NEW c \in Streams, NEW e \in Entries, Yield(c, e)
    PROVE  wire' \in [Streams -> Seq(Entries)]
  BY DEF TypeOK, Yield

LEMMA ReplayNextTypeOK ==
    ASSUME TypeOK, NEW c \in Streams, ReplayNext(c)
    PROVE  TypeOK'
<1>1. snap[c] \in Seq(Entries) /\ pos[c] \in 1..Len(snap[c])
  BY DEF TypeOK, ReplayNext
<1>2. snap[c][pos[c]] \in Entries
  BY <1>1, ElementOfSeq
<1>3. wire' \in [Streams -> Seq(Entries)]
  BY <1>2, YieldType DEF ReplayNext
<1>4. /\ pos' = [pos EXCEPT ![c] = @ + 1]
      /\ phase' = [phase EXCEPT ![c] = IF pos[c] = Len(snap[c]) THEN "live" ELSE @]
      /\ UNCHANGED <<entries, subscribers, targets, loopOpen, ready, snap, queue, connected,
                     log, live, dropped, old, prior>>
  BY DEF ReplayNext, recorderVars, loopVars, historyVars
<1>5. /\ phase' \in [Streams -> Phases]
      /\ pos' \in [Streams -> Nat \ {0}]
  BY <1>4 DEF TypeOK, Phases
<1>6. ASSUME NEW d \in Streams, phase'[d] = "replay"
      PROVE  pos'[d] <= Len(snap'[d])
  <2>1. CASE d = c
    <3>1. pos[c] # Len(snap[c]) /\ pos'[c] = pos[c] + 1
      BY <1>4, <1>6, <2>1 DEF TypeOK
    <3>2. Len(snap[c]) \in Nat
      BY <1>1, LenProperties
    <3>. QED
      BY <1>1, <1>4, <2>1, <3>1, <3>2
  <2>2. CASE d # c
    <3>1. phase'[d] = phase[d] /\ pos'[d] = pos[d]
      BY <1>4, <2>2 DEF TypeOK
    <3>. QED
      BY <1>4, <1>6, <3>1 DEF TypeOK
  <2>. QED
    BY <2>1, <2>2
<1>7. \A d \in Streams : phase'[d] \in {"idle", "requested", "subscribed"} => pos'[d] = 1
  <2>1. phase[c] = "replay"
    BY DEF ReplayNext
  <2>2. phase'[c] \notin {"idle", "requested", "subscribed"}
    BY <1>4, <2>1 DEF TypeOK
  <2>. QED
    BY <1>4, <2>2 DEF TypeOK
<1>. QED
  BY <1>3, <1>4, <1>5, <1>6, <1>7 DEF TypeOK

LEMMA TakeNextTypeOK ==
    ASSUME TypeOK, NEW c \in Streams, TakeNext(c)
    PROVE  TypeOK'
<1>1. queue[c] \in Seq(Entries) /\ queue[c] # <<>>
  BY DEF TypeOK, TakeNext
<1>2. /\ Head(queue[c]) \in Entries
      /\ Tail(queue[c]) \in Seq(Entries)
      /\ Len(Tail(queue[c])) = Len(queue[c]) - 1
  BY <1>1, HeadTailProperties
<1>3. wire' \in [Streams -> Seq(Entries)]
  BY <1>2, YieldType DEF TakeNext
<1>4. Len(Tail(queue[c])) <= MaxQueue
  BY <1>1, <1>2 DEF TypeOK
<1>5. /\ queue' = [queue EXCEPT ![c] = Tail(@)]
      /\ live' = [live EXCEPT ![c] = Append(@, Head(queue[c]))]
      /\ phase' = [phase EXCEPT ![c] = "live"]
      /\ UNCHANGED <<entries, subscribers, targets, loopOpen, ready, snap, pos, connected,
                     log, dropped, old, prior>>
  BY DEF TakeNext, recorderVars, loopVars
<1>6. /\ phase' \in [Streams -> Phases]
      /\ queue' \in [Streams -> Seq(Entries)]
      /\ live' \in [Streams -> Seq(Entries)]
      /\ \A d \in Streams : Len(queue'[d]) <= MaxQueue
  BY <1>2, <1>4, <1>5 DEF TypeOK, Phases
<1>. QED
  BY <1>3, <1>5, <1>6 DEF TypeOK

LEMMA FinishTypeOK ==
    ASSUME TypeOK, NEW c \in Streams, Finish(c)
    PROVE  TypeOK'
<1>1. /\ phase' = [phase EXCEPT ![c] = "closed"]
      /\ snap' = [snap EXCEPT ![c] = <<>>]
      /\ pos' = [pos EXCEPT ![c] = 1]
      /\ subscribers' = subscribers \ {c}
      /\ UNCHANGED <<entries, targets, loopOpen, ready, queue, wire, connected,
                     log, live, dropped, old, prior>>
  BY DEF Finish, loopVars, historyVars
<1>2. <<>> \in Seq(Entries)
  BY EmptySeq
<1>3. /\ phase' \in [Streams -> Phases]
      /\ snap' \in [Streams -> Seq(Entries)]
      /\ pos' \in [Streams -> Nat \ {0}]
  BY <1>1, <1>2 DEF TypeOK, Phases
<1>4. \A d \in Streams : phase'[d] = "replay" => pos'[d] <= Len(snap'[d])
  BY <1>1 DEF TypeOK
<1>5. \A d \in Streams : phase'[d] \in {"idle", "requested", "subscribed"} => pos'[d] = 1
  BY <1>1 DEF TypeOK
<1>. QED
  BY <1>1, <1>3, <1>4, <1>5 DEF TypeOK

LEMMA ClientReadTypeOK ==
    ASSUME TypeOK, NEW c \in Streams, ClientRead(c)
    PROVE  TypeOK'
<1>1. wire[c] \in Seq(Entries) /\ wire[c] # <<>>
  BY DEF TypeOK, ClientRead
<1>2. Tail(wire[c]) \in Seq(Entries)
  BY <1>1, HeadTailProperties
<1>. QED
  BY <1>2 DEF TypeOK, ClientRead, recorderVars, loopVars, historyVars

\* The type invariant is inductive by itself.
LEMMA NextTypeOK ==
    ASSUME TypeOK, [Next]_vars
    PROVE  TypeOK'
<1>1. CASE Record
  BY <1>1, RecordEntryTypeOK, DeliverTypeOK DEF Record
<1>2. CASE CloseLoop
  <2>1. /\ loopOpen' = FALSE
        /\ ready' = <<>>
        /\ UNCHANGED <<recorderVars, streamVars, historyVars>>
    BY <1>2 DEF CloseLoop
  <2>2. ready' \in Seq(Streams \X Entries)
    BY <2>1, EmptySeq
  <2>. QED
    BY <2>1, <2>2 DEF TypeOK, recorderVars, streamVars, historyVars
<1>3. ASSUME NEW c \in Streams, Generator(c) \/ Cancelled(c)
      PROVE  TypeOK'
  <2>1. CASE Subscribe(c)
    <3>1. /\ phase[c] = "requested"
          /\ phase' = [phase EXCEPT ![c] = "subscribed"]
          /\ subscribers' = subscribers \cup {c}
          /\ UNCHANGED <<entries, targets, loopOpen, ready, snap, pos, queue, wire, connected,
                         log, live, dropped, old, prior>>
      BY <2>1 DEF Subscribe, loopVars, historyVars
    <3>2. phase' \in [Streams -> Phases] /\ subscribers' \subseteq Streams
      BY <3>1 DEF TypeOK, Phases
    <3>3. /\ \A d \in Streams : phase'[d] = "replay" => pos'[d] <= Len(snap'[d])
          /\ \A d \in Streams : phase'[d] \in {"idle", "requested", "subscribed"} => pos'[d] = 1
      BY <3>1 DEF TypeOK
    <3>. QED
      BY <3>1, <3>2, <3>3 DEF TypeOK
  <2>2. CASE Await(c) \/ Heartbeat(c)
    <3>1. /\ \E place \in {"await", "live"} : phase' = [phase EXCEPT ![c] = place]
          /\ UNCHANGED <<entries, subscribers, targets, loopOpen, ready, snap, pos, queue, wire,
                         connected, log, live, dropped, old, prior>>
      BY <2>2 DEF Await, Heartbeat, recorderVars, loopVars, historyVars
    <3>2. /\ phase' \in [Streams -> Phases]
          /\ \A d \in Streams : phase'[d] = phase[d] \/ phase'[d] \in {"await", "live"}
      BY <3>1 DEF TypeOK, Phases
    <3>. QED
      BY <3>1, <3>2 DEF TypeOK
  <2>. QED
    BY <1>3, <2>1, <2>2, FinishTypeOK, SnapshotTypeOK, ReplayNextTypeOK, TakeNextTypeOK
    DEF Generator, Cancelled, ReturnOnDisconnect
<1>4. ASSUME NEW c \in Streams, Client(c)
      PROVE  TypeOK'
  <2>1. CASE Open(c)
    BY <2>1 DEF TypeOK, Open, Phases, recorderVars, loopVars, historyVars
  <2>2. CASE Disconnect(c)
    BY <2>2 DEF TypeOK, Disconnect, recorderVars, loopVars, historyVars
  <2>. QED
    BY <1>4, <2>1, <2>2, ClientReadTypeOK DEF Client
<1>5. CASE UNCHANGED vars
  BY <1>5 DEF TypeOK, vars, recorderVars, loopVars, streamVars, historyVars
<1>. QED
  BY <1>1, <1>2, <1>3, <1>4, <1>5, PutIfPossibleTypeOK DEF Next, Server

\* Every variable keeps its type, and the ring, the queues and the replay cursor
\* stay within their bounds, whatever the capacities.
THEOREM FeedTypeCorrect == Spec => []TypeOK
  BY InitTypeOK, NextTypeOK, PTL DEF Spec

-----------------------------------------------------------------------------
(* What appending to a sequence and taking its head do to its elements.    *)

LEMMA RangeOfAppend ==
    ASSUME NEW S, NEW s \in Seq(S), NEW x \in S
    PROVE  Range(Append(s, x)) = Range(s) \cup {x}
<1>1. /\ DOMAIN s = 1..Len(s)
      /\ DOMAIN Append(s, x) = 1..(Len(s) + 1)
      /\ \A i \in 1..Len(s) : Append(s, x)[i] = s[i]
      /\ Append(s, x)[Len(s) + 1] = x
      /\ Len(s) \in Nat
  BY AppendProperties, LenProperties
<1>2. \A i : i \in 1..(Len(s) + 1) <=> i \in 1..Len(s) \/ i = Len(s) + 1
  BY <1>1
<1>. QED
  BY <1>1, <1>2, Zenon DEF Range

LEMMA RangeOfTail ==
    ASSUME NEW S, NEW s \in Seq(S), s # <<>>
    PROVE  Range(s) = {Head(s)} \cup Range(Tail(s))
<1>1. /\ DOMAIN s = 1..Len(s)
      /\ DOMAIN Tail(s) = 1..(Len(s) - 1)
      /\ \A i \in 1..(Len(s) - 1) : Tail(s)[i] = s[i + 1]
      /\ Head(s) = s[1]
      /\ Len(s) \in Nat \ {0}
  BY HeadTailProperties, LenProperties, EmptySeq
<1>2. \A i \in 1..(Len(s) - 1) : i + 1 \in 1..Len(s)
  BY <1>1
<1>3. \A i \in 1..Len(s) : i = 1 \/ (i - 1 \in 1..(Len(s) - 1) /\ i = (i - 1) + 1)
  BY <1>1
<1>4. 1 \in 1..Len(s)
  BY <1>1
<1>5. ASSUME NEW i \in 1..Len(s)
      PROVE  s[i] \in {Head(s)} \cup {Tail(s)[j] : j \in 1..(Len(s) - 1)}
  BY <1>1, <1>3, <1>5
<1>6. Range(s) \subseteq {Head(s)} \cup Range(Tail(s))
  <2>1. Range(s) = {s[i] : i \in 1..Len(s)}
    BY <1>1 DEF Range
  <2>2. Range(Tail(s)) = {Tail(s)[j] : j \in 1..(Len(s) - 1)}
    BY <1>1 DEF Range
  <2>. QED
    BY <1>5, <2>1, <2>2, Zenon
<1>7. Head(s) \in Range(s)
  BY <1>1, <1>4 DEF Range
<1>8. ASSUME NEW j \in 1..(Len(s) - 1)
      PROVE  Tail(s)[j] \in Range(s)
  BY <1>1, <1>2 DEF Range
<1>9. Range(Tail(s)) \subseteq Range(s)
  BY <1>1, <1>8 DEF Range
<1>. QED
  BY <1>6, <1>7, <1>9

LEMMA RangeOfEmpty == Range(<<>>) = {}
  BY DEF Range

-----------------------------------------------------------------------------
(* Subscribers and the loop.                                               *)

\* The loop closes only when no generator is left on it.
ClosedLoopIsQuiet ==
    ~loopOpen => \A c \in Streams : phase[c] \in {"idle", "closed"}

LifecycleInv == SubscribersAreOpen /\ ClosedLoopIsQuiet

LEMMA NextLifecycle ==
    ASSUME TypeOK, LifecycleInv, [Next]_vars
    PROVE  LifecycleInv'
<1>. USE DEF LifecycleInv, SubscribersAreOpen, ClosedLoopIsQuiet, Streaming
<1>1. ASSUME UNCHANGED <<subscribers, loopOpen, phase>>
      PROVE  LifecycleInv'
  BY <1>1
<1>2. CASE Record
  BY <1>1, <1>2 DEF Record, RecordEntry, Deliver, loopVars, streamVars
<1>3. CASE PutIfPossible
  BY <1>1, <1>3 DEF PutIfPossible, recorderVars
<1>4. CASE CloseLoop
  BY <1>4 DEF CloseLoop, LoopFree, recorderVars, streamVars
<1>5. ASSUME NEW c \in Streams, Generator(c) \/ Cancelled(c)
      PROVE  LifecycleInv'
  <2>1. CASE Subscribe(c)
    BY <2>1 DEF TypeOK, Subscribe, LoopFree, loopVars
  <2>2. CASE Snapshot(c)
    BY <2>2 DEF TypeOK, Snapshot, recorderVars, loopVars
  <2>3. CASE ReplayNext(c)
    BY <2>3 DEF TypeOK, ReplayNext, LoopFree, recorderVars, loopVars
  <2>4. CASE Await(c) \/ Heartbeat(c)
    BY <2>4 DEF TypeOK, Await, Heartbeat, LoopFree, recorderVars, loopVars
  <2>5. CASE TakeNext(c)
    BY <2>5 DEF TypeOK, TakeNext, LoopFree, recorderVars, loopVars
  <2>6. CASE ReturnOnDisconnect(c) \/ Cancelled(c)
    BY <2>6 DEF TypeOK, ReturnOnDisconnect, Cancelled, Finish, LoopFree, loopVars
  <2>. QED
    BY <1>5, <2>1, <2>2, <2>3, <2>4, <2>5, <2>6 DEF Generator
<1>6. ASSUME NEW c \in Streams, Client(c)
      PROVE  LifecycleInv'
  <2>1. CASE Open(c)
    BY <2>1 DEF TypeOK, Open, recorderVars, loopVars
  <2>2. CASE ClientRead(c) \/ Disconnect(c)
    BY <1>1, <2>2 DEF ClientRead, Disconnect, recorderVars, loopVars
  <2>. QED
    BY <1>6, <2>1, <2>2 DEF Client
<1>7. CASE UNCHANGED vars
  BY <1>1, <1>7 DEF vars, recorderVars, loopVars, streamVars
<1>. QED
  BY <1>2, <1>3, <1>4, <1>5, <1>6, <1>7 DEF Next, Server

\* No subscriber is leaked, and none that still streams is lost, however the
\* streams' generators end.
THEOREM FeedSubscribersAreOpen == Spec => []SubscribersAreOpen
<1>1. Init => LifecycleInv
  BY DEF Init, LifecycleInv, SubscribersAreOpen, ClosedLoopIsQuiet, Streaming
<1>2. TypeOK /\ LifecycleInv /\ [Next]_vars => LifecycleInv'
  BY NextLifecycle
<1>3. LifecycleInv => SubscribersAreOpen
  BY DEF LifecycleInv
<1>. QED
  BY <1>1, <1>2, <1>3, FeedTypeCorrect, PTL DEF Spec

-----------------------------------------------------------------------------
(* No silent gap.  Everything recorded since a stream's snapshot is followed *)
(* from the hands of the record() call to the scheduled callback, the queue  *)
(* and the client, or to the set of refused entries.                         *)

\* Where an entry that stream c has missed nothing of may be.
Covered(c) == Range(snap[c]) \cup Range(live[c]) \cup Outstanding(c) \cup dropped[c]

LEMMA GapUnchanged ==
    ASSUME NoSilentGap,
           UNCHANGED <<targets, ready, snap, queue, log, live, dropped, old>>,
           \A c \in Streams : phase'[c] \in Streaming => phase[c] \in Streaming
    PROVE  NoSilentGap'
  BY DEF NoSilentGap, Recorded, Outstanding, Streaming

\* The entry is in the hands of record() for every stream that had subscribed.
LEMMA RecordEntryGap ==
    ASSUME TypeOK, LifecycleInv, NoSilentGap, NEW e \in Entries, RecordEntry(e)
    PROVE  NoSilentGap'
<1>1. /\ targets' = [targets EXCEPT ![e] = subscribers]
      /\ log' = Append(log, e)
      /\ UNCHANGED <<ready, phase, snap, queue, live, dropped, old>>
  BY DEF RecordEntry, loopVars, streamVars
<1>2. Recorded' = Recorded \cup {e}
  BY <1>1, RangeOfAppend DEF TypeOK, Recorded
<1>3. SUFFICES ASSUME NEW d \in Streams, phase[d] \in Streaming,
                      NEW f \in Recorded', f \notin old[d]
               PROVE  f \in Covered(d)'
  BY <1>1 DEF NoSilentGap, Covered, Outstanding
<1>4. CASE f = e
  <2>1. d \in targets'[e]
    BY <1>1, <1>3 DEF TypeOK, LifecycleInv, SubscribersAreOpen
  <2>. QED
    BY <1>4, <2>1 DEF Covered, Outstanding
<1>5. CASE f # e
  <2>1. f \in Entries /\ f \in Covered(d)
    BY <1>2, <1>3, <1>5, RangeOfSeq DEF NoSilentGap, Covered, TypeOK, Recorded
  <2>2. targets'[f] = targets[f]
    BY <1>1, <1>5, <2>1 DEF TypeOK
  <2>. QED
    BY <1>1, <2>1, <2>2 DEF Covered, Outstanding
<1>. QED
  BY <1>4, <1>5

\* The entry goes from the hands of record() to the loop, which is open because
\* a stream is still on it.
LEMMA DeliverGap ==
    ASSUME TypeOK, LifecycleInv, NoSilentGap, NEW e \in Entries, NEW c \in Streams,
           Deliver(e, c)
    PROVE  NoSilentGap'
<1>1. /\ targets' = [targets EXCEPT ![e] = @ \ {c}]
      /\ ready' = IF loopOpen THEN Append(ready, <<c, e>>) ELSE ready
      /\ UNCHANGED <<phase, snap, queue, log, live, dropped, old>>
  BY DEF Deliver, streamVars, historyVars
<1>2. SUFFICES ASSUME NEW d \in Streams, phase[d] \in Streaming,
                      NEW f \in Recorded, f \notin old[d]
               PROVE  f \in Covered(d)'
  BY <1>1 DEF NoSilentGap, Covered, Outstanding, Recorded
<1>3. loopOpen
  BY <1>2 DEF LifecycleInv, ClosedLoopIsQuiet, Streaming
<1>4. Range(ready') = Range(ready) \cup {<<c, e>>}
  <2>1. /\ ready \in Seq(Streams \X Entries)
        /\ <<c, e>> \in Streams \X Entries
        /\ ready' = Append(ready, <<c, e>>)
    BY <1>1, <1>3 DEF TypeOK
  <2>. QED
    BY <2>1, RangeOfAppend
<1>5. f \in Entries /\ f \in Covered(d)
  BY <1>2, RangeOfSeq DEF NoSilentGap, Covered, TypeOK, Recorded
<1>6. d \in targets[f] => d \in targets'[f] \/ <<d, f>> \in Range(ready')
  BY <1>1, <1>4, <1>5 DEF TypeOK
<1>. QED
  BY <1>1, <1>4, <1>5, <1>6 DEF Covered, Outstanding

\* The entry goes from the loop to the queue or to the refused entries.
LEMMA PutIfPossibleGap ==
    ASSUME TypeOK, NoSilentGap, PutIfPossible
    PROVE  NoSilentGap'
<1>. DEFINE c == Head(ready)[1]
            e == Head(ready)[2]
<1>1. /\ ready \in Seq(Streams \X Entries)
      /\ ready # <<>>
      /\ ready' = Tail(ready)
      /\ UNCHANGED <<targets, phase, snap, log, live, old>>
  BY DEF TypeOK, PutIfPossible, recorderVars
<1>2. Head(ready) \in Streams \X Entries
  BY <1>1, HeadTailProperties
<1>3. c \in Streams /\ e \in Entries /\ Head(ready) = <<c, e>>
  BY <1>2
<1>4. Range(ready) = {<<c, e>>} \cup Range(ready')
  BY <1>1, <1>3, RangeOfTail
<1>5. /\ e \in Range(queue'[c]) \cup dropped'[c]
      /\ \A d \in Streams : Range(queue[d]) \subseteq Range(queue'[d])
      /\ \A d \in Streams : dropped[d] \subseteq dropped'[d]
  <2>1. CASE queue' = [queue EXCEPT ![c] = Append(@, e)] /\ UNCHANGED dropped
    <3>. queue[c] \in Seq(Entries)
      BY <1>3 DEF TypeOK
    <3>1. Range(Append(queue[c], e)) = Range(queue[c]) \cup {e}
      BY <1>3, RangeOfAppend
    <3>2. queue'[c] = Append(queue[c], e) /\ \A d \in Streams : d # c => queue'[d] = queue[d]
      BY <1>3, <2>1 DEF TypeOK
    <3>. QED
      BY <2>1, <3>1, <3>2
  <2>2. CASE dropped' = [dropped EXCEPT ![c] = @ \cup {e}] /\ UNCHANGED queue
    BY <1>3, <2>2 DEF TypeOK
  <2>. QED
    BY <2>1, <2>2 DEF PutIfPossible
<1>6. SUFFICES ASSUME NEW d \in Streams, phase[d] \in Streaming,
                      NEW f \in Recorded, f \notin old[d]
               PROVE  f \in Covered(d)'
  BY <1>1 DEF NoSilentGap, Covered, Outstanding, Recorded
<1>7. f \in Entries /\ f \in Covered(d)
  BY <1>6, RangeOfSeq DEF NoSilentGap, Covered, TypeOK, Recorded
<1>8. CASE d = c /\ f = e
  BY <1>5, <1>7, <1>8, RangeOfSeq DEF Covered, Outstanding
<1>9. CASE ~(d = c /\ f = e)
  <2>1. <<d, f>> \in Range(ready) => <<d, f>> \in Range(ready')
    BY <1>3, <1>4, <1>7, <1>9
  <2>. QED
    BY <1>1, <1>5, <1>7, <2>1 DEF Covered, Outstanding
<1>. QED
  BY <1>8, <1>9

\* The snapshot holds all that has been recorded but what left the ring.
LEMMA SnapshotGap ==
    ASSUME TypeOK, LifecycleInv, NoSilentGap, NEW c \in Streams, Snapshot(c)
    PROVE  NoSilentGap'
<1>1. /\ phase' = [phase EXCEPT ![c] = IF entries = <<>> THEN "live" ELSE "replay"]
      /\ snap' = [snap EXCEPT ![c] = entries]
      /\ old' = [old EXCEPT ![c] = Recorded \ Range(entries)]
      /\ UNCHANGED <<targets, ready, queue, log, live, dropped>>
  BY DEF Snapshot, recorderVars, loopVars
<1>2. SUFFICES ASSUME NEW d \in Streams, phase'[d] \in Streaming,
                      NEW f \in Recorded, f \notin old'[d]
               PROVE  f \in Covered(d)'
  BY <1>1 DEF NoSilentGap, Covered, Outstanding, Recorded
<1>3. CASE d = c
  <2>1. f \in Range(entries)
    BY <1>1, <1>2, <1>3 DEF TypeOK
  <2>2. snap'[d] = entries
    BY <1>1, <1>3 DEF TypeOK
  <2>. QED
    BY <2>1, <2>2 DEF Covered
<1>4. CASE d # c
  <2>1. phase'[d] = phase[d] /\ snap'[d] = snap[d] /\ old'[d] = old[d]
    BY <1>1, <1>4 DEF TypeOK
  <2>2. f \in Covered(d)
    BY <1>2, <2>1 DEF NoSilentGap, Covered
  <2>. QED
    BY <1>1, <2>1, <2>2 DEF Covered, Outstanding
<1>. QED
  BY <1>3, <1>4

\* The entry goes from the queue to the client.
LEMMA TakeNextGap ==
    ASSUME TypeOK, NoSilentGap, NEW c \in Streams, TakeNext(c)
    PROVE  NoSilentGap'
<1>1. /\ queue[c] # <<>>
      /\ phase[c] \in Streaming
      /\ phase' = [phase EXCEPT ![c] = "live"]
      /\ queue' = [queue EXCEPT ![c] = Tail(@)]
      /\ live' = [live EXCEPT ![c] = Append(@, Head(queue[c]))]
      /\ UNCHANGED <<targets, ready, snap, log, dropped, old>>
  BY DEF TakeNext, recorderVars, loopVars, Streaming
<1>2. queue[c] \in Seq(Entries) /\ live[c] \in Seq(Entries)
  BY DEF TypeOK
<1>3. /\ Head(queue[c]) \in Entries
      /\ Range(queue[c]) = {Head(queue[c])} \cup Range(Tail(queue[c]))
  BY <1>1, <1>2, HeadTailProperties, RangeOfTail
<1>4. Range(Append(live[c], Head(queue[c]))) = Range(live[c]) \cup {Head(queue[c])}
  BY <1>2, <1>3, RangeOfAppend
<1>5. \A d \in Streams :
          Range(live[d]) \cup Range(queue[d]) = Range(live'[d]) \cup Range(queue'[d])
  BY <1>1, <1>3, <1>4 DEF TypeOK
<1>6. \A d \in Streams : phase'[d] \in Streaming => phase[d] \in Streaming
  BY <1>1 DEF TypeOK
<1>7. SUFFICES ASSUME NEW d \in Streams, phase[d] \in Streaming,
                      NEW f \in Recorded, f \notin old[d]
               PROVE  f \in Covered(d)'
  BY <1>1, <1>6 DEF NoSilentGap, Covered, Outstanding, Recorded
<1>8. f \in Covered(d)
  BY <1>7 DEF NoSilentGap, Covered
<1>9. CASE f \in Range(live[d]) \cup Range(queue[d])
  <2>1. f \in Range(live'[d]) \cup Range(queue'[d])
    BY <1>5, <1>9
  <2>. QED
    BY <2>1 DEF Covered, Outstanding
<1>10. CASE f \notin Range(live[d]) \cup Range(queue[d])
  BY <1>1, <1>8, <1>10 DEF Covered, Outstanding
<1>. QED
  BY <1>9, <1>10

LEMMA NextNoSilentGap ==
    ASSUME TypeOK, LifecycleInv, NoSilentGap, [Next]_vars
    PROVE  NoSilentGap'
<1>1. CASE Record
  BY <1>1, RecordEntryGap, DeliverGap DEF Record
<1>2. CASE PutIfPossible
  BY <1>2, PutIfPossibleGap
<1>3. CASE CloseLoop
  BY <1>3 DEF CloseLoop, streamVars, NoSilentGap, Streaming
<1>4. ASSUME NEW c \in Streams, Generator(c) \/ Cancelled(c)
      PROVE  NoSilentGap'
  <2>1. CASE Subscribe(c)
    BY <2>1, GapUnchanged DEF TypeOK, Subscribe, Streaming, loopVars, historyVars
  <2>2. CASE ReplayNext(c)
    BY <2>2, GapUnchanged
    DEF TypeOK, ReplayNext, Streaming, recorderVars, loopVars, historyVars
  <2>3. CASE Await(c) \/ Heartbeat(c)
    BY <2>3, GapUnchanged
    DEF TypeOK, Await, Heartbeat, Streaming, recorderVars, loopVars, historyVars
  <2>4. CASE Finish(c)
    <3>1. /\ phase' = [phase EXCEPT ![c] = "closed"]
          /\ snap' = [snap EXCEPT ![c] = <<>>]
          /\ UNCHANGED <<targets, ready, queue, log, live, dropped, old>>
      BY <2>4 DEF Finish, loopVars, historyVars
    <3>2. \A d \in Streams :
              phase'[d] \in Streaming => phase[d] \in Streaming /\ snap'[d] = snap[d]
      BY <3>1 DEF TypeOK, Streaming
    <3>. QED
      BY <3>1, <3>2 DEF NoSilentGap, Outstanding, Recorded
  <2>. QED
    BY <1>4, <2>1, <2>2, <2>3, <2>4, SnapshotGap, TakeNextGap
    DEF Generator, Cancelled, ReturnOnDisconnect
<1>5. ASSUME NEW c \in Streams, Client(c)
      PROVE  NoSilentGap'
  <2>1. CASE Open(c)
    BY <2>1, GapUnchanged DEF TypeOK, Open, Streaming, recorderVars, loopVars, historyVars
  <2>2. CASE ClientRead(c) \/ Disconnect(c)
    BY <2>2, GapUnchanged DEF ClientRead, Disconnect, recorderVars, loopVars, historyVars
  <2>. QED
    BY <1>5, <2>1, <2>2 DEF Client
<1>6. CASE UNCHANGED vars
  BY <1>6, GapUnchanged DEF vars, recorderVars, loopVars, streamVars, historyVars
<1>. QED
  BY <1>1, <1>2, <1>3, <1>4, <1>5, <1>6 DEF Next, Server

\* A stream that subscribes before it takes its snapshot misses nothing that was
\* in the ring or is recorded later, but what its full queue refuses.
THEOREM FeedHasNoSilentGap == Spec => []NoSilentGap
<1>1. Init => NoSilentGap
  BY DEF Init, NoSilentGap, Streaming
<1>2. Init => LifecycleInv
  BY DEF Init, LifecycleInv, SubscribersAreOpen, ClosedLoopIsQuiet, Streaming
<1>3. TypeOK /\ LifecycleInv /\ NoSilentGap /\ [Next]_vars => LifecycleInv' /\ NoSilentGap'
  BY NextLifecycle, NextNoSilentGap
<1>. QED
  BY <1>1, <1>2, <1>3, FeedTypeCorrect, PTL DEF Spec

-----------------------------------------------------------------------------
(* A stream's live feed repeats nothing and keeps the order of records     *)
(* that do not overlap.  An entry travels to a stream through four places: *)
(* the hands of its record() call, the callbacks on the loop, the queue,   *)
(* and the frames already sent.  The inductive invariant says that along   *)
(* the whole path no entry is met twice, and none that had been handed     *)
(* over before another's record() began comes after it.                    *)

\* Entry g may come after f on a stream.
MayFollow(f, g) == g # f /\ g \notin prior[f]

InOrder(s) == \A i, j \in DOMAIN s : i < j => MayFollow(s[i], s[j])

Before(F, G) == \A f \in F, g \in G : MayFollow(f, g)

InHand(c) == {e \in Entries : c \in targets[e]}
OnLoop(c) == {e \in Entries : <<c, e>> \in Range(ready)}
Queued(c) == Range(queue[c])
Sent(c) == Range(live[c])

\* A sequence of callbacks is in order for each stream.
CallsInOrder(r) ==
    \A i, j \in DOMAIN r :
        (i < j /\ r[i][1] = r[j][1]) => MayFollow(r[i][2], r[j][2])

\* Each place is in order, and each is behind those nearer the client.
PathInOrder ==
    /\ \A c \in Streams : InOrder(live[c]) /\ InOrder(queue[c])
    /\ CallsInOrder(ready)
    /\ \A c \in Streams :
           /\ Before(Sent(c), Queued(c) \cup OnLoop(c) \cup InHand(c))
           /\ Before(Queued(c), OnLoop(c) \cup InHand(c))
           /\ Before(OnLoop(c), InHand(c))

\* Only recorded entries travel, and what had returned stays returned.
OnlyRecordedTravel ==
    /\ \A c \in Streams : Sent(c) \cup Queued(c) \cup OnLoop(c) \cup InHand(c) \subseteq Recorded
    /\ \A e \in Entries : prior[e] \subseteq Returned

PathInv == OnlyRecordedTravel /\ PathInOrder

-----------------------------------------------------------------------------
(* Appending to a place, and taking its head.                              *)

LEMMA AppendInOrder ==
    ASSUME NEW S, NEW s \in Seq(S), NEW x \in S,
           InOrder(s), \A f \in Range(s) : MayFollow(f, x)
    PROVE  InOrder(Append(s, x))
<1>1. /\ DOMAIN s = 1..Len(s)
      /\ DOMAIN Append(s, x) = 1..(Len(s) + 1)
      /\ \A i \in 1..Len(s) : Append(s, x)[i] = s[i]
      /\ Append(s, x)[Len(s) + 1] = x
      /\ Len(s) \in Nat
  BY AppendProperties, LenProperties
<1>2. SUFFICES ASSUME NEW i \in 1..(Len(s) + 1), NEW j \in 1..(Len(s) + 1), i < j
               PROVE  MayFollow(Append(s, x)[i], Append(s, x)[j])
  BY <1>1 DEF InOrder
<1>3. i \in 1..Len(s) /\ (j \in 1..Len(s) \/ j = Len(s) + 1)
  BY <1>1, <1>2
<1>4. s[i] \in Range(s)
  BY <1>1, <1>3 DEF Range
<1>. QED
  BY <1>1, <1>2, <1>3, <1>4 DEF InOrder

LEMMA TailInOrder ==
    ASSUME NEW S, NEW s \in Seq(S), s # <<>>, InOrder(s)
    PROVE  InOrder(Tail(s)) /\ \A g \in Range(Tail(s)) : MayFollow(Head(s), g)
<1>1. /\ DOMAIN s = 1..Len(s)
      /\ DOMAIN Tail(s) = 1..(Len(s) - 1)
      /\ \A i \in 1..(Len(s) - 1) : Tail(s)[i] = s[i + 1]
      /\ Head(s) = s[1]
      /\ Len(s) \in Nat \ {0}
  BY HeadTailProperties, LenProperties, EmptySeq
<1>2. ASSUME NEW i \in 1..(Len(s) - 1), NEW j \in 1..(Len(s) - 1), i < j
      PROVE  MayFollow(Tail(s)[i], Tail(s)[j])
  <2>1. i + 1 \in 1..Len(s) /\ j + 1 \in 1..Len(s) /\ i + 1 < j + 1
    BY <1>1, <1>2
  <2>. QED
    BY <1>1, <2>1 DEF InOrder
<1>3. ASSUME NEW j \in 1..(Len(s) - 1)
      PROVE  MayFollow(Head(s), Tail(s)[j])
  <2>1. 1 \in 1..Len(s) /\ j + 1 \in 1..Len(s) /\ 1 < j + 1
    BY <1>1
  <2>. QED
    BY <1>1, <2>1 DEF InOrder
<1>. QED
  BY <1>1, <1>2, <1>3 DEF InOrder, Range

LEMMA AppendCall ==
    ASSUME NEW r \in Seq(Streams \X Entries), NEW c \in Streams, NEW e \in Entries,
           CallsInOrder(r),
           \A f \in Entries : <<c, f>> \in Range(r) => MayFollow(f, e)
    PROVE  CallsInOrder(Append(r, <<c, e>>))
<1>. DEFINE s == Append(r, <<c, e>>)
<1>1. <<c, e>> \in Streams \X Entries
  OBVIOUS
<1>2. /\ DOMAIN r = 1..Len(r)
      /\ DOMAIN s = 1..(Len(r) + 1)
      /\ \A i \in 1..Len(r) : s[i] = r[i]
      /\ s[Len(r) + 1] = <<c, e>>
      /\ Len(r) \in Nat
  BY <1>1, AppendProperties, LenProperties
<1>. HIDE DEF s
<1>3. SUFFICES ASSUME NEW i \in 1..(Len(r) + 1), NEW j \in 1..(Len(r) + 1), i < j,
                      s[i][1] = s[j][1]
               PROVE  MayFollow(s[i][2], s[j][2])
  BY <1>2 DEF CallsInOrder, s
<1>4. i \in 1..Len(r) /\ (j \in 1..Len(r) \/ j = Len(r) + 1)
  BY <1>2, <1>3
<1>5. CASE j \in 1..Len(r)
  BY <1>2, <1>3, <1>4, <1>5 DEF CallsInOrder
<1>6. CASE j = Len(r) + 1
  <2>1. r[i] \in Streams \X Entries /\ r[i] \in Range(r)
    BY <1>2, <1>4, ElementOfSeq DEF Range
  <2>2. s[j] = <<c, e>> /\ s[i] = r[i]
    BY <1>2, <1>4, <1>6
  <2>3. r[i] = <<c, r[i][2]>> /\ r[i][2] \in Entries
    BY <1>3, <2>1, <2>2
  <2>. QED
    BY <2>1, <2>2, <2>3
<1>. QED
  BY <1>4, <1>5, <1>6

LEMMA TailOfCalls ==
    ASSUME NEW r \in Seq(Streams \X Entries), r # <<>>, CallsInOrder(r)
    PROVE  /\ CallsInOrder(Tail(r))
           /\ \A f \in Entries :
                 <<Head(r)[1], f>> \in Range(Tail(r)) => MayFollow(Head(r)[2], f)
<1>1. /\ DOMAIN r = 1..Len(r)
      /\ DOMAIN Tail(r) = 1..(Len(r) - 1)
      /\ \A i \in 1..(Len(r) - 1) : Tail(r)[i] = r[i + 1]
      /\ Head(r) = r[1]
      /\ Len(r) \in Nat \ {0}
  BY HeadTailProperties, LenProperties, EmptySeq
<1>2. ASSUME NEW i \in 1..(Len(r) - 1), NEW j \in 1..(Len(r) - 1), i < j,
             Tail(r)[i][1] = Tail(r)[j][1]
      PROVE  MayFollow(Tail(r)[i][2], Tail(r)[j][2])
  <2>1. i + 1 \in 1..Len(r) /\ j + 1 \in 1..Len(r) /\ i + 1 < j + 1
    BY <1>1, <1>2
  <2>. QED
    BY <1>1, <1>2, <2>1 DEF CallsInOrder
<1>3. ASSUME NEW f \in Entries, <<Head(r)[1], f>> \in Range(Tail(r))
      PROVE  MayFollow(Head(r)[2], f)
  <2>1. PICK j \in 1..(Len(r) - 1) : Tail(r)[j] = <<Head(r)[1], f>>
    BY <1>1, <1>3 DEF Range
  <2>2. 1 \in 1..Len(r) /\ j + 1 \in 1..Len(r) /\ 1 < j + 1
    BY <1>1
  <2>3. r[j + 1][1] = r[1][1] /\ r[j + 1][2] = f
    BY <1>1, <2>1
  <2>. QED
    BY <1>1, <2>2, <2>3 DEF CallsInOrder
<1>. QED
  BY <1>1, <1>2, <1>3 DEF CallsInOrder

-----------------------------------------------------------------------------
(* Every step keeps the path in order.                                     *)

LEMMA PathUnchanged ==
    ASSUME PathInv, UNCHANGED <<targets, ready, queue, live, log, prior>>
    PROVE  PathInv'
  BY DEF PathInv, OnlyRecordedTravel, PathInOrder, InOrder, CallsInOrder, Before,
         MayFollow, InHand, OnLoop, Queued, Sent, Recorded, Returned

\* A new entry is in the hands of record() only, and what is prior to it has
\* been handed over.
LEMMA RecordEntryPath ==
    ASSUME TypeOK, PathInv, NEW e \in Entries, RecordEntry(e)
    PROVE  PathInv'
<1>1. /\ e \notin Recorded
      /\ targets' = [targets EXCEPT ![e] = subscribers]
      /\ log' = Append(log, e)
      /\ prior' = [prior EXCEPT ![e] = Returned]
      /\ UNCHANGED <<ready, queue, live>>
  BY DEF RecordEntry, loopVars, streamVars
<1>2. Recorded' = Recorded \cup {e}
  BY <1>1, RangeOfAppend DEF TypeOK, Recorded
<1>3. Recorded \subseteq Entries
  BY RangeOfSeq DEF TypeOK, Recorded
<1>4. \A c \in Streams : /\ Sent(c)' = Sent(c)
                         /\ Queued(c)' = Queued(c)
                         /\ OnLoop(c)' = OnLoop(c)
                         /\ InHand(c)' \subseteq InHand(c) \cup {e}
  BY <1>1 DEF TypeOK, Sent, Queued, OnLoop, InHand
<1>5. \A f \in Recorded : \A g : MayFollow(f, g) => MayFollow(f, g)'
  BY <1>1, <1>3 DEF TypeOK, MayFollow
<1>6. \A f \in Recorded : MayFollow(f, e)'
  BY <1>1, <1>3 DEF TypeOK, MayFollow, PathInv, OnlyRecordedTravel, Returned
<1>7. OnlyRecordedTravel'
  <2>1. Returned \subseteq Returned'
    BY <1>1, <1>2, <1>3 DEF TypeOK, Returned
  <2>2. \A f \in Entries : prior'[f] \subseteq Returned \cup prior[f]
    BY <1>1 DEF TypeOK
  <2>3. \A f \in Entries : prior'[f] \subseteq Returned'
    BY <2>1, <2>2 DEF PathInv, OnlyRecordedTravel
  <2>. QED
    BY <1>2, <1>4, <2>3 DEF PathInv, OnlyRecordedTravel
<1>8. ASSUME NEW c \in Streams
      PROVE  InOrder(live[c])' /\ InOrder(queue[c])'
  <2>1. /\ \A i \in DOMAIN live[c] : live[c][i] \in Recorded
        /\ \A i \in DOMAIN queue[c] : queue[c][i] \in Recorded
    BY DEF PathInv, OnlyRecordedTravel, Sent, Queued, Range
  <2>. QED
    BY <1>1, <1>5, <2>1 DEF PathInv, PathInOrder, InOrder
<1>9. CallsInOrder(ready)'
  <2>1. ASSUME NEW i \in DOMAIN ready
        PROVE  ready[i][2] \in Recorded
    <3>1. ready[i] \in Range(ready) /\ ready[i] \in Streams \X Entries
      BY ElementOfSeq DEF TypeOK, Range
    <3>2. ready[i][2] \in OnLoop(ready[i][1]) /\ ready[i][1] \in Streams
      BY <3>1 DEF OnLoop
    <3>. QED
      BY <3>2 DEF PathInv, OnlyRecordedTravel
  <2>. QED
    BY <1>1, <1>5, <2>1 DEF PathInv, PathInOrder, CallsInOrder
<1>10. ASSUME NEW c \in Streams
       PROVE  /\ Before(Sent(c), Queued(c) \cup OnLoop(c) \cup InHand(c))'
              /\ Before(Queued(c), OnLoop(c) \cup InHand(c))'
              /\ Before(OnLoop(c), InHand(c))'
  BY <1>4, <1>5, <1>6 DEF PathInv, PathInOrder, OnlyRecordedTravel, Before
<1>. QED
  BY <1>7, <1>8, <1>9, <1>10 DEF PathInv, PathInOrder

\* An entry that leaves the hands of record() is behind all callbacks scheduled
\* before it: its record() has not returned, so it is prior to none of them.
LEMMA DeliverPath ==
    ASSUME TypeOK, PathInv, NEW e \in Entries, NEW c \in Streams, Deliver(e, c)
    PROVE  PathInv'
<1>1. /\ c \in targets[e]
      /\ targets' = [targets EXCEPT ![e] = @ \ {c}]
      /\ ready' = IF loopOpen THEN Append(ready, <<c, e>>) ELSE ready
      /\ UNCHANGED <<queue, live, log, prior>>
  BY DEF Deliver, streamVars, historyVars
<1>2. /\ ready \in Seq(Streams \X Entries)
      /\ <<c, e>> \in Streams \X Entries
  BY DEF TypeOK
<1>3. Range(ready') \subseteq Range(ready) \cup {<<c, e>>}
  BY <1>1, <1>2, RangeOfAppend
<1>4. e \in InHand(c) /\ \A f \in Entries : e \notin prior[f]
  BY <1>1 DEF InHand, PathInv, OnlyRecordedTravel, Returned
<1>5. \A d \in Streams :
          /\ Sent(d)' = Sent(d)
          /\ Queued(d)' = Queued(d)
          /\ OnLoop(d)' \subseteq OnLoop(d) \cup (IF d = c THEN {e} ELSE {})
          /\ InHand(d)' = InHand(d) \ (IF d = c THEN {e} ELSE {})
  BY <1>1, <1>3 DEF TypeOK, Sent, Queued, OnLoop, InHand
<1>6. OnlyRecordedTravel'
  <2>1. Returned \subseteq Returned' /\ Recorded' = Recorded
    BY <1>1, RangeOfSeq DEF TypeOK, Returned, Recorded
  <2>. QED
    BY <1>1, <1>4, <1>5, <2>1 DEF PathInv, OnlyRecordedTravel
<1>7. CallsInOrder(ready')
  <2>1. \A f \in Entries : <<c, f>> \in Range(ready) => MayFollow(f, e)
    BY <1>4 DEF PathInv, PathInOrder, Before, OnLoop
  <2>. QED
    BY <1>1, <1>2, <2>1, AppendCall DEF PathInv, PathInOrder
<1>8. \A f, g : MayFollow(f, g)' <=> MayFollow(f, g)
  BY <1>1 DEF MayFollow
<1>9. CallsInOrder(ready)' /\ \A d \in Streams : InOrder(live[d])' /\ InOrder(queue[d])'
  BY <1>1, <1>7 DEF PathInv, PathInOrder, InOrder, CallsInOrder, MayFollow
<1>10. ASSUME NEW d \in Streams
       PROVE  /\ Before(Sent(d), Queued(d) \cup OnLoop(d) \cup InHand(d))'
              /\ Before(Queued(d), OnLoop(d) \cup InHand(d))'
              /\ Before(OnLoop(d), InHand(d))'
  <2>1. ASSUME NEW g \in InHand(c), g # e
        PROVE  MayFollow(e, g)
    BY <2>1 DEF InHand, MayFollow, PathInv, OnlyRecordedTravel, Returned
  <2>. QED
    BY <1>4, <1>5, <1>8, <2>1 DEF PathInv, PathInOrder, Before
<1>. QED
  BY <1>6, <1>9, <1>10 DEF PathInv, PathInOrder

\* The head of the loop's callbacks is ahead of the others.
LEMMA PutIfPossiblePath ==
    ASSUME TypeOK, PathInv, PutIfPossible
    PROVE  PathInv'
<1>1. /\ ready \in Seq(Streams \X Entries)
      /\ ready # <<>>
      /\ ready' = Tail(ready)
      /\ UNCHANGED <<targets, log, live, prior>>
  BY DEF TypeOK, PutIfPossible, recorderVars
<1>2. Head(ready) \in Streams \X Entries
  BY <1>1, HeadTailProperties
<1>3. PICK c \in Streams, e \in Entries : Head(ready) = <<c, e>>
  BY <1>2
<1>4. Range(ready) = {<<c, e>>} \cup Range(ready')
  BY <1>1, <1>3, RangeOfTail
<1>5. CallsInOrder(ready') /\ \A f \in Entries : <<c, f>> \in Range(ready') => MayFollow(e, f)
  BY <1>1, <1>3, TailOfCalls DEF PathInv, PathInOrder
<1>6. /\ \A d \in Streams : InOrder(queue'[d])
      /\ \A d \in Streams : Queued(d)' \subseteq Queued(d) \cup (IF d = c THEN {e} ELSE {})
  <2>1. CASE queue' = [queue EXCEPT ![c] = Append(@, e)]
    <3>1. queue[c] \in Seq(Entries)
      BY <1>3 DEF TypeOK
    <3>2. Range(Append(queue[c], e)) = Range(queue[c]) \cup {e}
      BY <1>3, <3>1, RangeOfAppend
    <3>3. \A f \in Range(queue[c]) : MayFollow(f, e)
      BY <1>3, <1>4 DEF PathInv, PathInOrder, Before, Queued, OnLoop
    <3>4. InOrder(Append(queue[c], e))
      BY <1>3, <3>1, <3>3, AppendInOrder DEF PathInv, PathInOrder
    <3>. QED
      BY <1>3, <2>1, <3>2, <3>4 DEF TypeOK, PathInv, PathInOrder, Queued
  <2>2. CASE UNCHANGED queue
    BY <2>2 DEF PathInv, PathInOrder, Queued
  <2>. QED
    BY <1>3, <2>1, <2>2 DEF PutIfPossible
<1>7. /\ e \in OnLoop(c)
      /\ \A d \in Streams : /\ Sent(d)' = Sent(d)
                            /\ OnLoop(d)' \subseteq OnLoop(d)
                            /\ InHand(d)' = InHand(d)
  BY <1>1, <1>3, <1>4 DEF Sent, OnLoop, InHand
<1>8. OnlyRecordedTravel'
  <2>1. Returned' = Returned /\ Recorded' = Recorded
    BY <1>1 DEF Returned, Recorded
  <2>. QED
    BY <1>1, <1>3, <1>6, <1>7, <2>1 DEF PathInv, OnlyRecordedTravel
<1>9. \A f, g : MayFollow(f, g)' <=> MayFollow(f, g)
  BY <1>1 DEF MayFollow
<1>10. CallsInOrder(ready)' /\ \A d \in Streams : InOrder(live[d])' /\ InOrder(queue[d])'
  BY <1>1, <1>5, <1>6 DEF PathInv, PathInOrder, InOrder, CallsInOrder, MayFollow
<1>11. ASSUME NEW d \in Streams
       PROVE  /\ Before(Sent(d), Queued(d) \cup OnLoop(d) \cup InHand(d))'
              /\ Before(Queued(d), OnLoop(d) \cup InHand(d))'
              /\ Before(OnLoop(d), InHand(d))'
  <2>1. Before({e}, OnLoop(c)' \cup InHand(c))
    BY <1>5, <1>7 DEF PathInv, PathInOrder, Before, OnLoop
  <2>. QED
    BY <1>3, <1>6, <1>7, <1>9, <2>1 DEF PathInv, PathInOrder, Before
<1>. QED
  BY <1>8, <1>10, <1>11 DEF PathInv, PathInOrder

\* The head of the queue is ahead of the rest of it and behind what was sent.
LEMMA TakeNextPath ==
    ASSUME TypeOK, PathInv, NEW c \in Streams, TakeNext(c)
    PROVE  PathInv'
<1>. DEFINE e == Head(queue[c])
<1>1. /\ queue[c] # <<>>
      /\ queue' = [queue EXCEPT ![c] = Tail(@)]
      /\ live' = [live EXCEPT ![c] = Append(@, e)]
      /\ UNCHANGED <<targets, ready, log, prior>>
  BY DEF TakeNext, recorderVars, loopVars
<1>2. queue[c] \in Seq(Entries) /\ live[c] \in Seq(Entries)
  BY DEF TypeOK
<1>3. /\ e \in Entries
      /\ Range(queue[c]) = {e} \cup Range(Tail(queue[c]))
  BY <1>1, <1>2, HeadTailProperties, RangeOfTail
<1>4. Range(Append(live[c], e)) = Range(live[c]) \cup {e}
  BY <1>2, <1>3, RangeOfAppend
<1>5. InOrder(Tail(queue[c])) /\ \A g \in Range(Tail(queue[c])) : MayFollow(e, g)
  BY <1>1, <1>2, TailInOrder DEF PathInv, PathInOrder
<1>6. InOrder(Append(live[c], e))
  <2>1. \A f \in Range(live[c]) : MayFollow(f, e)
    BY <1>3 DEF PathInv, PathInOrder, Before, Sent, Queued
  <2>. QED
    BY <1>2, <1>3, <2>1, AppendInOrder DEF PathInv, PathInOrder
<1>7. \A d \in Streams : InOrder(live'[d]) /\ InOrder(queue'[d])
  BY <1>1, <1>5, <1>6 DEF TypeOK, PathInv, PathInOrder
<1>8. /\ e \in Queued(c)
      /\ \A d \in Streams : /\ Sent(d)' = Sent(d) \cup (IF d = c THEN {e} ELSE {})
                            /\ Queued(d)' \subseteq Queued(d)
                            /\ OnLoop(d)' = OnLoop(d)
                            /\ InHand(d)' = InHand(d)
  BY <1>1, <1>3, <1>4 DEF TypeOK, Sent, Queued, OnLoop, InHand
<1>9. Queued(c)' = Range(Tail(queue[c]))
  BY <1>1 DEF TypeOK, Queued
<1>10. OnlyRecordedTravel'
  <2>1. Returned' = Returned /\ Recorded' = Recorded
    BY <1>1 DEF Returned, Recorded
  <2>. QED
    BY <1>1, <1>8, <2>1 DEF PathInv, OnlyRecordedTravel
<1>11. \A f, g : MayFollow(f, g)' <=> MayFollow(f, g)
  BY <1>1 DEF MayFollow
<1>12. CallsInOrder(ready)' /\ \A d \in Streams : InOrder(live[d])' /\ InOrder(queue[d])'
  BY <1>1, <1>7 DEF PathInv, PathInOrder, InOrder, CallsInOrder, MayFollow
<1>13. ASSUME NEW d \in Streams
       PROVE  /\ Before(Sent(d), Queued(d) \cup OnLoop(d) \cup InHand(d))'
              /\ Before(Queued(d), OnLoop(d) \cup InHand(d))'
              /\ Before(OnLoop(d), InHand(d))'
  <2>1. Before({e}, Queued(c)' \cup OnLoop(c) \cup InHand(c))
    BY <1>5, <1>8, <1>9 DEF PathInv, PathInOrder, Before
  <2>. QED
    BY <1>8, <1>11, <2>1 DEF PathInv, PathInOrder, Before
<1>. QED
  BY <1>10, <1>12, <1>13 DEF PathInv, PathInOrder

LEMMA NextPath ==
    ASSUME TypeOK, PathInv, [Next]_vars
    PROVE  PathInv'
<1>1. CASE Record
  BY <1>1, RecordEntryPath, DeliverPath DEF Record
<1>2. CASE CloseLoop
  <2>1. /\ ready' = <<>>
        /\ UNCHANGED <<targets, queue, live, log, prior>>
    BY <1>2 DEF CloseLoop, recorderVars, streamVars, historyVars
  <2>2. Range(ready') = {} /\ DOMAIN ready' = {}
    BY <2>1, RangeOfEmpty
  <2>. QED
    BY <2>1, <2>2 DEF PathInv, OnlyRecordedTravel, PathInOrder, InOrder, CallsInOrder, Before,
                      MayFollow, InHand, OnLoop, Queued, Sent, Recorded, Returned
<1>3. ASSUME NEW c \in Streams, Generator(c) \/ Cancelled(c)
      PROVE  PathInv'
  BY <1>3, PathUnchanged, TakeNextPath
  DEF Generator, Cancelled, ReturnOnDisconnect, Finish, Subscribe, Snapshot, ReplayNext,
      Await, Heartbeat, recorderVars, loopVars, historyVars
<1>4. ASSUME NEW c \in Streams, Client(c)
      PROVE  PathInv'
  BY <1>4, PathUnchanged DEF Client, Open, ClientRead, Disconnect, recorderVars, loopVars,
                             historyVars
<1>5. CASE UNCHANGED vars
  BY <1>5, PathUnchanged DEF vars, recorderVars, loopVars, streamVars, historyVars
<1>. QED
  BY <1>1, <1>2, <1>3, <1>4, <1>5, PutIfPossiblePath DEF Next, Server

LEMMA InitPath == Init => PathInv
  BY DEF Init, PathInv, OnlyRecordedTravel, PathInOrder, InOrder, CallsInOrder, Before,
         MayFollow, InHand, OnLoop, Queued, Sent, Recorded, Returned, Range

LEMMA FeedPath == Spec => []PathInv
<1>1. TypeOK /\ PathInv /\ [Next]_vars => PathInv'
  BY NextPath
<1>. QED
  BY <1>1, InitPath, FeedTypeCorrect, PTL DEF Spec

-----------------------------------------------------------------------------
\* The live frames of a stream keep the order of records that do not overlap,
\* although record() hands over outside its lock.
THEOREM FeedLiveOrder == Spec => []LiveOrder
<1>1. PathInv => LiveOrder
  BY DEF PathInv, PathInOrder, LiveOrder, InOrder, MayFollow
<1>. QED
  BY <1>1, FeedPath, PTL

\* The live feed of a stream repeats nothing, and nothing it sent is still on its
\* way.
THEOREM FeedLiveOnce == Spec => []LiveOnce
<1>1. ASSUME TypeOK, PathInv
      PROVE  LiveOnce
  <2>1. SUFFICES ASSUME NEW c \in Streams
                 PROVE  IsInjective(live[c]) /\ Range(live[c]) \cap Outstanding(c) = {}
    BY DEF LiveOnce
  <2>2. IsInjective(live[c])
    <3>1. live[c] \in Seq(Entries) /\ DOMAIN live[c] = 1..Len(live[c])
      BY <1>1, LenProperties DEF TypeOK
    <3>2. \A i, j \in DOMAIN live[c] : i = j \/ i < j \/ j < i
      BY <3>1
    <3>. QED
      BY <1>1, <3>2 DEF IsInjective, PathInv, PathInOrder, InOrder, MayFollow
  <2>3. Range(live[c]) \cap Outstanding(c) = {}
    BY <1>1
    DEF Outstanding, PathInv, PathInOrder, Before, MayFollow, Sent, Queued, OnLoop, InHand
  <2>. QED
    BY <2>2, <2>3
<1>. QED
  BY <1>1, FeedTypeCorrect, FeedPath, PTL

=============================================================================
