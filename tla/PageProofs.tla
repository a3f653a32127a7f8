----------------------------- MODULE PageProofs -----------------------------
(***************************************************************************)
(* Proofs about PageCards, for any entries, outcomes, cap on cards and     *)
(* memory, and about ObservabilityPage, for any number of streams and any  *)
(* capacities of the feed behind it.                                       *)
(***************************************************************************)
EXTENDS ObservabilityPage, FiniteSetTheorems, SequenceTheorems, TLAPS

USE PageAssumption

-----------------------------------------------------------------------------
(* The tab: its cards, its ids and what the filters hide.                  *)

CardsInv == TypeOK /\ FilterMatchesCards /\ HiddenMatchesFilters

\* A memory holds filters the page knows.
LEMMA RestoredType ==
    ASSUME NEW memory, memory \subseteq SUBSET Outcomes
    PROVE  Restored(memory) \subseteq Outcomes
  BY DEF Restored

LEMMA InitCards == Init => CardsInv
<1>. SUFFICES ASSUME Init
              PROVE  CardsInv
  OBVIOUS
<1>1. stored \subseteq SUBSET Outcomes
  BY DEF Init
<1>2. activeFilters \subseteq Outcomes
  BY <1>1, RestoredType DEF Init
<1>3. cards \in Seq(Entries) /\ Len(cards) = 0 /\ DOMAIN cards = {} /\ Range(cards) = {}
  BY DEF Init, Range
<1>4. aligned \subseteq UNION {[places -> Entries] : places \in SUBSET (1..MaxCards)}
  <2>1. Visible \in [{} -> Entries]
    BY <1>3 DEF Visible
  <2>2. [{} -> Entries] \in {[places -> Entries] : places \in SUBSET (1..MaxCards)}
    OBVIOUS
  <2>. QED
    BY <2>1, <2>2 DEF Init
<1>5. TypeOK
  <2>1. /\ seen = {} /\ hidden = {} /\ counts = [d \in Outcomes |-> 0] /\ alignTimer = FALSE
    BY DEF Init, NoCounts
  <2>. QED
    BY <1>1, <1>2, <1>3, <1>4, <2>1, 0 <= MaxCards DEF TypeOK
<1>6. FilterMatchesCards
  BY <1>3 DEF Init, FilterMatchesCards, IsInjective
<1>7. HiddenMatchesFilters
  BY <1>3 DEF Init, HiddenMatchesFilters, HiddenBy
<1>. QED
  BY <1>5, <1>6, <1>7 DEF CardsInv

\* A card put in front of others, and the elements of what is left of a stack
\* without its last card.
LEMMA PutInFront ==
    ASSUME NEW e \in Entries, NEW s \in Seq(Entries), IsInjective(s), e \notin Range(s)
    PROVE  /\ <<e>> \o s \in Seq(Entries)
           /\ Len(<<e>> \o s) = Len(s) + 1
           /\ IsInjective(<<e>> \o s)
           /\ Range(<<e>> \o s) = Range(s) \cup {e}
<1>. DEFINE t == <<e>> \o s
<1>1. /\ t \in Seq(Entries) /\ Len(t) = Len(s) + 1
      /\ DOMAIN t = 1..Len(s) + 1 /\ DOMAIN s = 1..Len(s) /\ Len(s) \in Nat
      /\ t[1] = e
      /\ \A i \in 1..Len(s) : t[i + 1] = s[i]
  OBVIOUS
<1>2. \A i \in 2..Len(s) + 1 : i - 1 \in 1..Len(s) /\ t[i] = s[i - 1]
  BY <1>1
<1>. HIDE DEF t
<1>3. Range(t) = Range(s) \cup {e}
  <2>1. ASSUME NEW x \in Range(t)
        PROVE  x \in Range(s) \cup {e}
    <3>1. PICK i \in 1..Len(s) + 1 : t[i] = x
      BY <1>1, <2>1 DEF Range
    <3>2. i = 1 \/ i \in 2..Len(s) + 1
      BY <1>1, <3>1
    <3>. QED
      BY <1>1, <1>2, <3>1, <3>2 DEF Range
  <2>2. ASSUME NEW i \in 1..Len(s)
        PROVE  s[i] \in Range(t)
    <3>1. i + 1 \in DOMAIN t
      BY <1>1, <2>2
    <3>. QED
      BY <1>1, <3>1 DEF Range
  <2>3. e \in Range(t)
    <3>1. 1 \in DOMAIN t
      BY <1>1
    <3>. QED
      BY <1>1, <3>1 DEF Range
  <2>4. Range(s) \subseteq Range(t)
    BY <1>1, <2>2 DEF Range
  <2>. QED
    BY <2>1, <2>3, <2>4
<1>4. IsInjective(t)
  <2>1. SUFFICES ASSUME NEW i \in 1..Len(s) + 1, NEW j \in 1..Len(s) + 1, t[i] = t[j]
                 PROVE  i = j
    BY <1>1 DEF IsInjective
  <2>2. \A k \in 2..Len(s) + 1 : t[k] # e
    <3>1. \A k \in 1..Len(s) : s[k] # e
      BY <1>1 DEF Range
    <3>. QED
      BY <1>2, <3>1
  <2>3. CASE i = 1 \/ j = 1
    BY <1>1, <2>1, <2>2, <2>3
  <2>4. CASE i # 1 /\ j # 1
    <3>1. i - 1 \in DOMAIN s /\ j - 1 \in DOMAIN s /\ s[i - 1] = s[j - 1]
      BY <1>1, <1>2, <2>1, <2>4
    <3>. QED
      BY <3>1 DEF IsInjective
  <2>. QED
    BY <2>3, <2>4
<1>. QED
  BY <1>1, <1>3, <1>4 DEF t

LEMMA TakeOffLast ==
    ASSUME NEW t \in Seq(Entries), IsInjective(t), Len(t) > 0
    PROVE  /\ SubSeq(t, 1, Len(t) - 1) \in Seq(Entries)
           /\ Len(SubSeq(t, 1, Len(t) - 1)) = Len(t) - 1
           /\ IsInjective(SubSeq(t, 1, Len(t) - 1))
           /\ Range(SubSeq(t, 1, Len(t) - 1)) = Range(t) \ {t[Len(t)]}
<1>. DEFINE n == Len(t)
            u == SubSeq(t, 1, n - 1)
<1>1. /\ n \in Nat \ {0} /\ DOMAIN t = 1..n
      /\ u \in Seq(Entries) /\ Len(u) = n - 1 /\ DOMAIN u = 1..n - 1
      /\ \A i \in 1..n - 1 : u[i] = t[i]
  <2>1. n \in Nat \ {0} /\ DOMAIN t = 1..n /\ \A i \in 1..n - 1 : t[i] \in Entries
    OBVIOUS
  <2>. HIDE DEF n
  <2>2. /\ u \in Seq(Entries)
        /\ Len(u) = IF 1 <= n - 1 THEN n - 1 - 1 + 1 ELSE 0
        /\ \A i \in 1..n - 1 - 1 + 1 : u[i] = t[1 + i - 1]
    <3>. HIDE DEF u
    <3>. QED
      BY <2>1, SubSeqProperties DEF u
  <2>3. Len(u) = n - 1 /\ n - 1 - 1 + 1 = n - 1 /\ \A i \in 1..n - 1 : 1 + i - 1 = i
    BY <2>1, <2>2
  <2>4. DOMAIN u = 1..n - 1
    BY <2>2, <2>3
  <2>. QED
    BY <2>1, <2>2, <2>3, <2>4
<1>. HIDE DEF u, n
<1>2. IsInjective(u)
  BY <1>1 DEF IsInjective
<1>3. Range(u) \subseteq Range(t) \ {t[n]}
  BY <1>1 DEF Range, IsInjective
<1>4. ASSUME NEW x \in Range(t) \ {t[n]}
      PROVE  x \in Range(u)
  <2>1. PICK i \in 1..n : t[i] = x
    BY <1>1 DEF Range
  <2>2. i \in 1..n - 1
    BY <1>1, <1>4, <2>1
  <2>. QED
    BY <1>1, <2>1, <2>2 DEF Range
<1>. QED
  BY <1>1, <1>2, <1>3, <1>4 DEF u, n

\* How the cap works: the cards stay distinct and within it, and what leaves the
\* document is exactly what is evicted.
LEMMA StackIsCapped ==
    ASSUME NEW e \in Entries, NEW s \in Seq(Entries), IsInjective(s), e \notin Range(s),
           Len(s) <= MaxCards
    PROVE  LET stack == <<e>> \o s
               kept == SubSeq(stack, 1, Len(stack) - Cardinality(Evicted(stack)))
           IN  /\ kept \in Seq(Entries)
               /\ Len(kept) <= MaxCards
               /\ IsInjective(kept)
               /\ Range(kept) = (Range(s) \cup {e}) \ Evicted(stack)
<1>. DEFINE stack == <<e>> \o s
            kept == SubSeq(stack, 1, Len(stack) - Cardinality(Evicted(stack)))
<1>1. /\ stack \in Seq(Entries) /\ Len(stack) = Len(s) + 1 /\ Len(s) \in Nat
      /\ IsInjective(stack)
      /\ Range(stack) = Range(s) \cup {e}
  BY PutInFront
<1>. HIDE DEF stack
<1>2. CASE Len(stack) > MaxCards
  <2>1. Evicted(stack) = {stack[Len(stack)]}
    BY <1>2 DEF Evicted
  <2>2. Cardinality(Evicted(stack)) = 1
    BY <2>1, FS_Singleton
  <2>3. kept = SubSeq(stack, 1, Len(stack) - 1)
    BY <2>2
  <2>4. Len(stack) - 1 <= MaxCards
    BY <1>1
  <2>. QED
    <3>1. /\ SubSeq(stack, 1, Len(stack) - 1) \in Seq(Entries)
          /\ Len(SubSeq(stack, 1, Len(stack) - 1)) = Len(stack) - 1
          /\ IsInjective(SubSeq(stack, 1, Len(stack) - 1))
          /\ Range(SubSeq(stack, 1, Len(stack) - 1)) = Range(stack) \ {stack[Len(stack)]}
      <4>1. Len(stack) > 0
        BY <1>1
      <4>. QED
        BY <1>1, <4>1, TakeOffLast
    <3>2. /\ kept \in Seq(Entries) /\ Len(kept) <= MaxCards /\ IsInjective(kept)
          /\ Range(kept) = (Range(s) \cup {e}) \ Evicted(stack)
      BY <1>1, <2>1, <2>3, <2>4, <3>1
    <3>. QED
      BY <3>2 DEF stack
<1>3. CASE ~(Len(stack) > MaxCards)
  <2>1. Evicted(stack) = {}
    BY <1>3 DEF Evicted
  <2>2. Cardinality(Evicted(stack)) = 0
    BY <2>1, FS_EmptySet
  <2>3. kept = SubSeq(stack, 1, Len(stack))
    BY <1>1, <2>2
  <2>4. kept = stack
    BY <1>1, <2>3, SubSeqFull
  <2>5. Len(stack) <= MaxCards
    BY <1>1, <1>3
  <2>. QED
    BY <1>1, <2>1, <2>4, <2>5 DEF stack
<1>. QED
  BY <1>2, <1>3 DEF stack

\* addEntry keeps the cards, the ids and the filters together.
LEMMA AddEntryCards ==
    ASSUME CardsInv, NEW e \in Entries, AddEntry(e)
    PROVE  CardsInv'
<1>1. CASE e \in seen
  BY <1>1 DEF AddEntry, AddCard, CardsInv, TypeOK, FilterMatchesCards, HiddenMatchesFilters,
              HiddenBy, vars
<1>2. CASE e \notin seen
  <2>. DEFINE stack == <<e>> \o cards
  <2>1. /\ cards' = SubSeq(stack, 1, Len(stack) - Cardinality(Evicted(stack)))
        /\ seen' = (seen \cup {e}) \ Evicted(stack)
        /\ hidden' = (hidden \cup Concealed(e)) \ Evicted(stack)
        /\ counts' = [counts EXCEPT ![Decision[e]] = @ + 1]
        /\ alignTimer' = TRUE
        /\ UNCHANGED <<activeFilters, stored, aligned>>
    BY <1>2 DEF AddEntry, AddCard, Forgotten, ScheduleAlign
  <2>2. /\ cards \in Seq(Entries) /\ Len(cards) <= MaxCards
        /\ IsInjective(cards) /\ seen = Range(cards)
    BY DEF CardsInv, TypeOK, FilterMatchesCards
  <2>3. /\ cards' \in Seq(Entries) /\ Len(cards') <= MaxCards /\ IsInjective(cards')
        /\ Range(cards') = (Range(cards) \cup {e}) \ Evicted(stack)
    BY <1>2, <2>1, <2>2, StackIsCapped
  <2>. HIDE DEF stack
  <2>4. counts' \in [Outcomes -> Nat]
    <3>1. counts \in [Outcomes -> Nat] /\ Decision[e] \in Outcomes
      BY DEF CardsInv, TypeOK
    <3>. QED
      BY <2>1, <3>1
  <2>5. Concealed(e) = HiddenBy(activeFilters, {e}) /\ Concealed(e) \subseteq {e}
    BY DEF Concealed, HiddenBy
  <2>6. TypeOK'
    <3>1. seen' \subseteq Entries /\ hidden' \subseteq Entries
      BY <2>1, <2>5 DEF CardsInv, TypeOK
    <3>. QED
      BY <2>1, <2>3, <2>4, <3>1 DEF CardsInv, TypeOK
  <2>7. FilterMatchesCards'
    BY <2>1, <2>2, <2>3 DEF FilterMatchesCards
  <2>8. HiddenMatchesFilters'
    <3>1. hidden = HiddenBy(activeFilters, Range(cards))
      BY DEF CardsInv, HiddenMatchesFilters
    <3>. QED
      BY <2>1, <2>3, <2>5, <3>1 DEF HiddenMatchesFilters, HiddenBy
  <2>. QED
    BY <2>6, <2>7, <2>8 DEF CardsInv
<1>. QED
  BY <1>1, <1>2

\* A click goes over every card; no memory holds an unknown filter.
LEMMA ToggleFilterCards ==
    ASSUME CardsInv, NEW d \in Clicked, ToggleFilter(d)
    PROVE  CardsInv'
<1>. DEFINE now == IF d \in activeFilters THEN activeFilters \ {d} ELSE activeFilters \cup {d}
<1>1. /\ activeFilters' = now
      /\ stored' \in {{now}, stored}
      /\ hidden' = HiddenBy(now, Range(cards))
      /\ alignTimer' = TRUE
      /\ UNCHANGED <<cards, seen, counts, aligned>>
  BY DEF ToggleFilter, Save, ScheduleAlign
<1>2. now \subseteq Outcomes
  BY DEF CardsInv, TypeOK
<1>. HIDE DEF now
<1>3. stored' \subseteq SUBSET Outcomes
  BY <1>1, <1>2 DEF CardsInv, TypeOK
<1>4. hidden' \subseteq Entries
  BY <1>1 DEF CardsInv, TypeOK, HiddenBy, FilterMatchesCards
<1>5. TypeOK'
  BY <1>1, <1>2, <1>3, <1>4 DEF CardsInv, TypeOK
<1>. QED
  BY <1>1, <1>5 DEF CardsInv, FilterMatchesCards, HiddenMatchesFilters

\* What is aligned is some of the cards of a document within the cap.
LEMMA VisibleType ==
    ASSUME cards \in Seq(Entries), Len(cards) <= MaxCards
    PROVE  {Visible} \subseteq UNION {[places -> Entries] : places \in SUBSET (1..MaxCards)}
<1>. DEFINE P == {k \in DOMAIN cards : cards[k] \notin hidden}
<1>1. P \subseteq DOMAIN cards /\ DOMAIN cards = 1..Len(cards) /\ Len(cards) \in Nat
  OBVIOUS
<1>2. 1..Len(cards) \subseteq 1..MaxCards
  BY <1>1
<1>3. \A i \in P : cards[i] \in Entries
  BY <1>1
<1>4. Visible = [i \in P |-> cards[i]]
  BY DEF Visible
<1>. HIDE DEF P
<1>5. Visible \in [P -> Entries]
  BY <1>3, <1>4
<1>6. P \in SUBSET (1..MaxCards)
  BY <1>1, <1>2
<1>. QED
  BY <1>5, <1>6

LEMMA AlignRowsCards ==
    ASSUME CardsInv, AlignRows
    PROVE  CardsInv'
<1>1. /\ alignTimer' = FALSE
      /\ aligned' = {Visible}
      /\ UNCHANGED <<cards, seen, counts, activeFilters, stored, hidden>>
  BY DEF AlignRows
<1>2. aligned' \subseteq UNION {[places -> Entries] : places \in SUBSET (1..MaxCards)}
  BY <1>1, VisibleType DEF CardsInv, TypeOK
<1>. QED
  BY <1>1, <1>2 DEF CardsInv, TypeOK, FilterMatchesCards, HiddenMatchesFilters

LEMMA ReflowCards ==
    ASSUME CardsInv, Reflow
    PROVE  CardsInv'
  BY DEF Reflow, ScheduleAlign, CardsInv, TypeOK, FilterMatchesCards, HiddenMatchesFilters

\* A page that is loaded again starts as it did, with what it has stored.
LEMMA ReloadCards ==
    ASSUME CardsInv, Reload
    PROVE  CardsInv'
<1>1. /\ cards' = <<>> /\ seen' = {} /\ hidden' = {}
      /\ counts' = [d \in Outcomes |-> 0]
      /\ activeFilters' = Restored(stored)
      /\ alignTimer' = FALSE /\ aligned' = {Visible'}
      /\ stored' = stored
  BY DEF Reload, NoCounts
<1>2. activeFilters' \subseteq Outcomes
  BY <1>1, RestoredType DEF CardsInv, TypeOK
<1>3. /\ cards' \in Seq(Entries) /\ Len(cards') = 0
      /\ DOMAIN cards' = {} /\ Range(cards') = {}
  BY <1>1 DEF Range
<1>4. aligned' \subseteq UNION {[places -> Entries] : places \in SUBSET (1..MaxCards)}
  <2>1. Visible' \in [{} -> Entries]
    BY <1>3 DEF Visible
  <2>2. [{} -> Entries] \in {[places -> Entries] : places \in SUBSET (1..MaxCards)}
    OBVIOUS
  <2>. QED
    BY <1>1, <2>1, <2>2
<1>5. TypeOK'
  BY <1>1, <1>2, <1>3, <1>4, 0 <= MaxCards DEF CardsInv, TypeOK
<1>6. FilterMatchesCards'
  BY <1>1, <1>3 DEF FilterMatchesCards, IsInjective
<1>7. HiddenMatchesFilters'
  BY <1>1, <1>3 DEF HiddenMatchesFilters, HiddenBy
<1>. QED
  BY <1>5, <1>6, <1>7 DEF CardsInv

LEMMA CardsInductive == Spec => []CardsInv
<1>1. CardsInv /\ [Next]_vars => CardsInv'
  <2>1. ASSUME CardsInv, UNCHANGED vars
        PROVE  CardsInv'
    BY <2>1 DEF CardsInv, TypeOK, FilterMatchesCards, HiddenMatchesFilters, HiddenBy, vars
  <2>. QED
    BY <2>1, AddEntryCards, ToggleFilterCards, ReflowCards, AlignRowsCards, ReloadCards DEF Next
<1>. QED
  BY <1>1, InitCards, PTL DEF Spec

\* Every variable of the page keeps its type, and the document never holds more
\* than MaxCards cards, however many entries arrive.
THEOREM PageTypeCorrect == Spec => []TypeOK
<1>1. CardsInv => TypeOK
  BY DEF CardsInv
<1>. QED
  BY <1>1, CardsInductive, PTL

\* Replay after replay and eviction after eviction, the ids addEntry filters by
\* are those of the cards on the page, and no two cards are of one request.
THEOREM PageFiltersWhatItShows == Spec => []FilterMatchesCards
<1>1. CardsInv => FilterMatchesCards
  BY DEF CardsInv
<1>. QED
  BY <1>1, CardsInductive, PTL

\* The cards with display "none" are those whose outcome is filtered out, on
\* whichever side of the click they came and whatever localStorage held.
THEOREM PageHidesWhatIsFilteredOut == Spec => []HiddenMatchesFilters
<1>1. CardsInv => HiddenMatchesFilters
  BY DEF CardsInv
<1>. QED
  BY <1>1, CardsInductive, PTL

-----------------------------------------------------------------------------
(* The page behind the feed.  The feed keeps its own invariants, whatever  *)
(* reads it; the page adds where each delivered entry has gone.            *)

FeedProofs == INSTANCE ObservabilityFeedProofs

USE StreamAssumption

LEMMA SameFeed ==
    /\ Feed!Init => FeedProofs!Init
    /\ Feed!Server => FeedProofs!Server
    /\ \A c : Feed!Client(c) => FeedProofs!Client(c)
  BY DEF Feed!Init, Feed!Server, FeedProofs!Init, FeedProofs!Server,
         Feed!Record, Feed!RecordEntry, Feed!Deliver, Feed!PutIfPossible, 
         Feed!CloseLoop, Feed!Generator, Feed!Cancelled, Feed!Subscribe, Feed!Snapshot, 
         Feed!ReplayNext, Feed!Await, Feed!TakeNext, Feed!Heartbeat, 
         Feed!ReturnOnDisconnect, Feed!Finish, Feed!LoopFree, Feed!Resumed, Feed!Yield, 
         Feed!Streaming, Feed!Recorded, Feed!Returned, Feed!Push, Feed!Range, 
         Feed!Client, Feed!Open, Feed!ClientRead, Feed!Disconnect, Feed!recorderVars, 
         Feed!loopVars, Feed!streamVars, Feed!historyVars, 
         FeedProofs!Record, FeedProofs!RecordEntry, FeedProofs!Deliver, 
         FeedProofs!PutIfPossible, FeedProofs!CloseLoop, FeedProofs!Generator, 
         FeedProofs!Cancelled, FeedProofs!Subscribe, FeedProofs!Snapshot, 
         FeedProofs!ReplayNext, FeedProofs!Await, FeedProofs!TakeNext, 
         FeedProofs!Heartbeat, FeedProofs!ReturnOnDisconnect, FeedProofs!Finish, 
         FeedProofs!LoopFree, FeedProofs!Resumed, FeedProofs!Yield, 
         FeedProofs!Streaming, FeedProofs!Recorded, FeedProofs!Returned, 
         FeedProofs!Push, FeedProofs!Range, FeedProofs!Client, FeedProofs!Open, 
         FeedProofs!ClientRead, FeedProofs!Disconnect, FeedProofs!recorderVars, 
         FeedProofs!loopVars, FeedProofs!streamVars, FeedProofs!historyVars

FeedInv == FeedProofs!TypeOK /\ FeedProofs!LifecycleInv /\ FeedProofs!NoSilentGap

LEMMA PageFeedStep ==
    ASSUME [PageNext]_allVars
    PROVE  [FeedProofs!Next]_(FeedProofs!vars)
<1>. USE DEF FeedProofs!Next, FeedProofs!vars, FeedProofs!recorderVars, FeedProofs!loopVars,
             FeedProofs!streamVars, FeedProofs!historyVars
<1>1. CASE Feed!Server
  BY <1>1, SameFeed
<1>2. ASSUME NEW c \in Streams, Connect(c) \/ OnMessage(c) \/ ServerNotices(c)
      PROVE  FeedProofs!Next
  <2>1. Feed!Client(c)
    BY <1>2 DEF Connect, OnMessage, ServerNotices, Feed!Client
  <2>. QED
    BY <2>1, SameFeed
<1>3. CASE UNCHANGED feedVars
  BY <1>3 DEF feedVars
<1>. QED
  BY <1>1, <1>2, <1>3 DEF PageNext, ConnectionLost, LoadAgain, allVars

LEMMA PageFeed == PageSpec => []FeedInv
<1>1. PageInit => FeedInv
  <2>1. FeedProofs!Init => FeedProofs!LifecycleInv /\ FeedProofs!NoSilentGap
    BY DEF FeedProofs!Init, FeedProofs!LifecycleInv, FeedProofs!SubscribersAreOpen,
           FeedProofs!ClosedLoopIsQuiet, FeedProofs!NoSilentGap, FeedProofs!Streaming
  <2>2. FeedProofs!Init => FeedProofs!TypeOK
    BY FeedProofs!InitTypeOK
  <2>. QED
    BY <2>1, <2>2, SameFeed DEF PageInit, FeedInv
<1>2. FeedInv /\ [PageNext]_allVars => FeedInv'
  BY PageFeedStep, FeedProofs!NextTypeOK, FeedProofs!NextLifecycle, FeedProofs!NextNoSilentGap
  DEF FeedInv
<1>. QED
  BY <1>1, <1>2, PTL DEF PageSpec

\* What stream c has yielded: the replay so far, and what it took from its queue.
Delivered(c) == {snap[c][i] : i \in 1..pos[c] - 1} \cup Range(live[c])

\* A stream has nothing live before its snapshot, and replays all of that first.
StreamInv ==
    \A c \in Streams :
        /\ phase[c] \in {"idle", "requested", "subscribed"} => live[c] = <<>>
        /\ phase[c] \in {"live", "await"} => pos[c] > Len(snap[c])

\* An id the page filters by has had its card.
ShownInv ==
    /\ shown \in [Entries -> SUBSET Streams]
    /\ \A e \in Entries : e \in seen => shown[e] # {}

\* What the page's own stream has yielded is on the wire, was refused by
\* JSON.parse, or has had its card.
ReachInv ==
    \A c \in Streams : source = c =>
        /\ connected[c]
        /\ phase[c] # "idle"
        /\ \A e \in Entries \cap Delivered(c) :
               e \in Range(wire[c]) \cup unparseable \/ shown[e] # {}

PageInv == StreamInv /\ ShownInv /\ ReachInv

LEMMA RangeAppends ==
    ASSUME NEW s \in Seq(Entries), NEW x \in Entries
    PROVE  Range(Append(s, x)) = Range(s) \cup {x}
<1>1. FeedProofs!Range(Append(s, x)) = FeedProofs!Range(s) \cup {x}
  BY FeedProofs!RangeOfAppend
<1>. QED
  BY <1>1 DEF Range, FeedProofs!Range

LEMMA RangeTails ==
    ASSUME NEW s \in Seq(Entries), s # <<>>
    PROVE  Range(s) = {Head(s)} \cup Range(Tail(s))
<1>1. FeedProofs!Range(s) = {Head(s)} \cup FeedProofs!Range(Tail(s))
  BY FeedProofs!RangeOfTail
<1>. QED
  BY <1>1 DEF Range, FeedProofs!Range

\* What a step leaves alone stays where it was on its way to the page.
LEMMA ReachUnchanged ==
    ASSUME ReachInv, NEW c \in Streams, source' = c, source' = source,
           snap'[c] = snap[c], pos'[c] = pos[c], live'[c] = live[c], wire'[c] = wire[c],
           connected'[c] = connected[c], phase[c] # "idle" => phase'[c] # "idle",
           unparseable' = unparseable, shown' = shown
    PROVE  /\ connected'[c]
           /\ phase'[c] # "idle"
           /\ \A e \in Entries \cap Delivered(c)' :
                  e \in Range(wire'[c]) \cup unparseable' \/ shown'[e] # {}
  BY DEF ReachInv, Delivered

LEMMA SnapshotPage ==
    ASSUME FeedProofs!TypeOK, PageInv, NEW c \in Streams, Feed!Snapshot(c), UNCHANGED pageVars
    PROVE  PageInv'
<1>. USE DEF FeedProofs!TypeOK, FeedProofs!Phases
<1>1. /\ phase[c] = "subscribed"
      /\ phase' = [phase EXCEPT ![c] = IF entries = <<>> THEN "live" ELSE "replay"]
      /\ snap' = [snap EXCEPT ![c] = entries]
      /\ UNCHANGED <<pos, wire, connected, live, unparseable, source, shown, seen>>
  BY DEF Feed!Snapshot, Feed!recorderVars, Feed!loopVars, pageVars, vars
<1>2. pos[c] = 1 /\ live[c] = <<>>
  BY <1>1 DEF PageInv, StreamInv
<1>3. StreamInv'
  <2>1. SUFFICES ASSUME NEW d \in Streams
                 PROVE  /\ phase'[d] \in {"idle", "requested", "subscribed"} => live'[d] = <<>>
                        /\ phase'[d] \in {"live", "await"} => pos'[d] > Len(snap'[d])
    BY DEF StreamInv
  <2>2. CASE d = c
    <3>1. phase'[c] = (IF entries = <<>> THEN "live" ELSE "replay") /\ snap'[c] = entries
      BY <1>1
    <3>2. entries = <<>> => Len(entries) = 0
      OBVIOUS
    <3>. QED
      BY <1>1, <1>2, <2>2, <3>1, <3>2
  <2>3. CASE d # c
    BY <1>1, <2>3 DEF PageInv, StreamInv
  <2>. QED
    BY <2>2, <2>3
<1>4. ReachInv'
  <2>1. SUFFICES ASSUME NEW d \in Streams, source' = d
                 PROVE  /\ connected'[d]
                        /\ phase'[d] # "idle"
                        /\ \A e \in Entries \cap Delivered(d)' :
                               e \in Range(wire'[d]) \cup unparseable' \/ shown'[e] # {}
    BY DEF ReachInv
  <2>2. CASE d = c
    <3>1. phase'[c] # "idle"
      BY <1>1
    <3>2. Delivered(c)' = {}
      BY <1>1, <1>2 DEF Delivered, Range
    <3>. QED
      BY <1>1, <2>1, <2>2, <3>1, <3>2 DEF PageInv, ReachInv
  <2>3. CASE d # c
    <3>1. snap'[d] = snap[d] /\ phase'[d] = phase[d]
      BY <1>1, <2>3
    <3>. QED
      BY <1>1, <2>1, <3>1, ReachUnchanged DEF PageInv
  <2>. QED
    BY <2>2, <2>3
<1>. QED
  BY <1>1, <1>3, <1>4 DEF PageInv, ShownInv

LEMMA ReplayNextPage ==
    ASSUME FeedProofs!TypeOK, PageInv, NEW c \in Streams, Feed!ReplayNext(c), UNCHANGED pageVars
    PROVE  PageInv'
<1>. USE DEF FeedProofs!TypeOK, FeedProofs!Phases
<1>. DEFINE e == snap[c][pos[c]]
<1>1. /\ phase[c] = "replay" /\ connected[c]
      /\ wire' = [wire EXCEPT ![c] = Append(@, e)]
      /\ pos' = [pos EXCEPT ![c] = @ + 1]
      /\ phase' = [phase EXCEPT ![c] = IF pos[c] = Len(snap[c]) THEN "live" ELSE @]
      /\ UNCHANGED <<snap, connected, live, unparseable, source, shown, seen>>
  BY DEF Feed!ReplayNext, Feed!Yield, Feed!recorderVars, Feed!loopVars, Feed!historyVars,
         pageVars, vars
<1>2. /\ snap[c] \in Seq(Entries) /\ pos[c] \in 1..Len(snap[c])
      /\ e \in Entries
  <2>1. snap[c] \in Seq(Entries) /\ pos[c] \in 1..Len(snap[c])
    BY <1>1
  <2>. QED
    BY <2>1, ElementOfSeq
<1>. HIDE DEF e
<1>3. /\ phase'[c] \in {"live", "replay"}
      /\ phase'[c] = "live" => pos'[c] > Len(snap'[c])
  BY <1>1, <1>2
<1>4. StreamInv'
  <2>1. SUFFICES ASSUME NEW d \in Streams
                 PROVE  /\ phase'[d] \in {"idle", "requested", "subscribed"} => live'[d] = <<>>
                        /\ phase'[d] \in {"live", "await"} => pos'[d] > Len(snap'[d])
    BY DEF StreamInv
  <2>2. CASE d = c
    BY <1>3, <2>2
  <2>3. CASE d # c
    BY <1>1, <2>3 DEF PageInv, StreamInv
  <2>. QED
    BY <2>2, <2>3
<1>5. ReachInv'
  <2>1. SUFFICES ASSUME NEW d \in Streams, source' = d
                 PROVE  /\ connected'[d]
                        /\ phase'[d] # "idle"
                        /\ \A f \in Entries \cap Delivered(d)' :
                               f \in Range(wire'[d]) \cup unparseable' \/ shown'[f] # {}
    BY DEF ReachInv
  <2>2. CASE d = c
    <3>1. Range(wire'[c]) = Range(wire[c]) \cup {e}
      BY <1>1, <1>2, RangeAppends
    <3>2. Delivered(c)' = Delivered(c) \cup {e}
      <4>1. pos'[c] - 1 = pos[c]
        BY <1>1, <1>2
      <4>2. 1..pos[c] = (1..pos[c] - 1) \cup {pos[c]}
        BY <1>2
      <4>3. Delivered(c)' = {snap[c][i] : i \in 1..pos[c]} \cup Range(live[c])
        BY <1>1, <4>1 DEF Delivered
      <4>4. {snap[c][i] : i \in 1..pos[c]} = {snap[c][i] : i \in 1..pos[c] - 1} \cup {e}
        <5>1. \A S, n : {snap[c][i] : i \in S \cup {n}} = {snap[c][i] : i \in S} \cup {snap[c][n]}
          OBVIOUS
        <5>. QED
          BY <4>2, <5>1 DEF e
      <4>5. Delivered(c) = {snap[c][i] : i \in 1..pos[c] - 1} \cup Range(live[c])
        BY DEF Delivered
      <4>. QED
        BY <4>3, <4>4, <4>5
    <3>. QED
      BY <1>1, <1>3, <2>1, <2>2, <3>1, <3>2 DEF PageInv, ReachInv
  <2>3. CASE d # c
    <3>1. wire'[d] = wire[d] /\ pos'[d] = pos[d] /\ phase'[d] = phase[d]
      BY <1>1, <2>3
    <3>. QED
      BY <1>1, <2>1, <3>1, ReachUnchanged DEF PageInv
  <2>. QED
    BY <2>2, <2>3
<1>. QED
  BY <1>1, <1>4, <1>5 DEF PageInv, ShownInv

LEMMA TakeNextPage ==
    ASSUME FeedProofs!TypeOK, PageInv, NEW c \in Streams, Feed!TakeNext(c), UNCHANGED pageVars
    PROVE  PageInv'
<1>. USE DEF FeedProofs!TypeOK, FeedProofs!Phases
<1>. DEFINE e == Head(queue[c])
<1>1. /\ phase[c] \in {"live", "await"} /\ queue[c] # <<>>
      /\ wire' = IF connected[c] THEN [wire EXCEPT ![c] = Append(@, e)] ELSE wire
      /\ live' = [live EXCEPT ![c] = Append(@, e)]
      /\ phase' = [phase EXCEPT ![c] = "live"]
      /\ UNCHANGED <<snap, pos, connected, unparseable, source, shown, seen>>
  BY DEF Feed!TakeNext, Feed!Yield, Feed!recorderVars, Feed!loopVars, pageVars, vars
<1>2. e \in Entries /\ live[c] \in Seq(Entries) /\ wire[c] \in Seq(Entries)
  BY <1>1, HeadTailProperties
<1>. HIDE DEF e
<1>3. StreamInv'
  <2>1. SUFFICES ASSUME NEW d \in Streams
                 PROVE  /\ phase'[d] \in {"idle", "requested", "subscribed"} => live'[d] = <<>>
                        /\ phase'[d] \in {"live", "await"} => pos'[d] > Len(snap'[d])
    BY DEF StreamInv
  <2>2. CASE d = c
    BY <1>1, <2>2 DEF PageInv, StreamInv
  <2>3. CASE d # c
    BY <1>1, <2>3 DEF PageInv, StreamInv
  <2>. QED
    BY <2>2, <2>3
<1>4. ReachInv'
  <2>1. SUFFICES ASSUME NEW d \in Streams, source' = d
                 PROVE  /\ connected'[d]
                        /\ phase'[d] # "idle"
                        /\ \A f \in Entries \cap Delivered(d)' :
                               f \in Range(wire'[d]) \cup unparseable' \/ shown'[f] # {}
    BY DEF ReachInv
  <2>2. CASE d = c
    <3>1. connected[c] /\ phase'[c] = "live"
      BY <1>1, <2>1, <2>2 DEF PageInv, ReachInv
    <3>2. wire'[c] = Append(wire[c], e) /\ live'[c] = Append(live[c], e)
      BY <1>1, <3>1
    <3>3. /\ Range(wire'[c]) = Range(wire[c]) \cup {e}
          /\ Range(live'[c]) = Range(live[c]) \cup {e}
      BY <1>2, <3>2, RangeAppends
    <3>4. Delivered(c)' = Delivered(c) \cup {e}
      BY <1>1, <3>3 DEF Delivered
    <3>. QED
      BY <1>1, <2>1, <2>2, <3>1, <3>3, <3>4 DEF PageInv, ReachInv
  <2>3. CASE d # c
    <3>1. wire'[d] = wire[d] /\ live'[d] = live[d] /\ phase'[d] = phase[d]
      BY <1>1, <2>3
    <3>. QED
      BY <1>1, <2>1, <3>1, ReachUnchanged DEF PageInv
  <2>. QED
    BY <2>2, <2>3
<1>. QED
  BY <1>1, <1>3, <1>4 DEF PageInv, ShownInv

\* A generator ends only for a client that has gone: not the page's own stream.
LEMMA FinishPage ==
    ASSUME FeedProofs!TypeOK, PageInv, NEW c \in Streams, ~connected[c], Feed!Finish(c),
           UNCHANGED pageVars
    PROVE  PageInv'
<1>. USE DEF FeedProofs!TypeOK, FeedProofs!Phases
<1>1. /\ phase' = [phase EXCEPT ![c] = "closed"]
      /\ snap' = [snap EXCEPT ![c] = <<>>]
      /\ pos' = [pos EXCEPT ![c] = 1]
      /\ UNCHANGED <<wire, connected, live, unparseable, source, shown, seen>>
  BY DEF Feed!Finish, Feed!loopVars, Feed!historyVars, pageVars, vars
<1>2. StreamInv'
  BY <1>1 DEF PageInv, StreamInv
<1>3. ReachInv'
  <2>1. SUFFICES ASSUME NEW d \in Streams, source' = d
                 PROVE  /\ connected'[d]
                        /\ phase'[d] # "idle"
                        /\ \A f \in Entries \cap Delivered(d)' :
                               f \in Range(wire'[d]) \cup unparseable' \/ shown'[f] # {}
    BY DEF ReachInv
  <2>2. d # c
    BY <1>1, <2>1 DEF PageInv, ReachInv
  <2>3. snap'[d] = snap[d] /\ pos'[d] = pos[d] /\ phase'[d] = phase[d]
    BY <1>1, <2>2
  <2>. QED
    BY <1>1, <2>1, <2>3, ReachUnchanged DEF PageInv
<1>. QED
  BY <1>1, <1>2, <1>3 DEF PageInv, ShownInv

\* Any other step of the server moves phases at the most.
LEMMA QuietPage ==
    ASSUME FeedProofs!TypeOK, PageInv,
           UNCHANGED <<snap, pos, live, wire, connected, unparseable, source, shown, seen>>,
           \A c \in Streams :
               /\ phase[c] # "idle" => phase'[c] # "idle"
               /\ phase'[c] \in {"idle", "requested", "subscribed"} =>
                      phase[c] \in {"idle", "requested", "subscribed"}
               /\ phase'[c] \in {"live", "await"} => phase[c] \in {"live", "await"}
    PROVE  PageInv'
<1>1. StreamInv' /\ ShownInv'
  BY DEF PageInv, StreamInv, ShownInv
<1>2. ReachInv'
  BY DEF PageInv, ReachInv, Delivered
<1>. QED
  BY <1>1, <1>2 DEF PageInv

LEMMA ServerPage ==
    ASSUME FeedProofs!TypeOK, PageInv, Feed!Server, UNCHANGED pageVars
    PROVE  PageInv'
<1>. USE DEF Feed!recorderVars, Feed!loopVars, Feed!streamVars, Feed!historyVars, pageVars, vars
<1>1. CASE Feed!Record \/ Feed!PutIfPossible \/ Feed!CloseLoop
  BY <1>1, QuietPage
  DEF Feed!Record, Feed!RecordEntry, Feed!Deliver, Feed!PutIfPossible, Feed!CloseLoop
<1>2. ASSUME NEW c \in Streams, Feed!Subscribe(c) \/ Feed!Await(c) \/ Feed!Heartbeat(c)
      PROVE  PageInv'
  <2>1. phase \in [Streams -> FeedProofs!Phases]
    BY DEF FeedProofs!TypeOK
  <2>2. UNCHANGED <<snap, pos, live, wire, connected, unparseable, source, shown, seen>>
    BY <1>2 DEF Feed!Subscribe, Feed!Await, Feed!Heartbeat
  <2>3. \/ phase[c] = "requested" /\ phase' = [phase EXCEPT ![c] = "subscribed"]
        \/ phase[c] = "live" /\ phase' = [phase EXCEPT ![c] = "await"]
        \/ phase[c] = "await" /\ phase' = [phase EXCEPT ![c] = "live"]
    BY <1>2 DEF Feed!Subscribe, Feed!Await, Feed!Heartbeat
  <2>. QED
    BY <2>1, <2>2, <2>3, QuietPage
<1>3. ASSUME NEW c \in Streams, Feed!ReturnOnDisconnect(c) \/ Feed!Cancelled(c)
      PROVE  PageInv'
  BY <1>3, FinishPage DEF Feed!ReturnOnDisconnect, Feed!Cancelled
<1>. QED
  BY <1>1, <1>2, <1>3, SnapshotPage, ReplayNextPage, TakeNextPage
  DEF Feed!Server, Feed!Generator

\* The page's own steps.
LEMMA ConnectPage ==
    ASSUME FeedProofs!TypeOK, PageInv, NEW c \in Streams, Connect(c)
    PROVE  PageInv'
<1>. USE DEF FeedProofs!TypeOK, FeedProofs!Phases
<1>1. /\ source = NoStream /\ source' = c
      /\ phase[c] = "idle"
      /\ phase' = [phase EXCEPT ![c] = "requested"]
      /\ connected' = [connected EXCEPT ![c] = TRUE]
      /\ UNCHANGED <<snap, pos, live, wire, unparseable, shown, seen>>
  BY DEF Connect, Feed!Open, Feed!recorderVars, Feed!loopVars, Feed!historyVars, vars
<1>2. live[c] = <<>> /\ pos[c] = 1
  BY <1>1 DEF PageInv, StreamInv
<1>3. StreamInv'
  BY <1>1, <1>2 DEF PageInv, StreamInv
<1>4. Delivered(c)' = {}
  BY <1>1, <1>2 DEF Delivered, Range
<1>5. ReachInv'
  BY <1>1, <1>4 DEF ReachInv
<1>. QED
  BY <1>1, <1>3, <1>5 DEF PageInv, ShownInv

\* A frame that is read leaves the wire: it does not parse, or it finds its card
\* or makes it.
LEMMA OnMessagePage ==
    ASSUME FeedProofs!TypeOK, PageInv, NEW c \in Streams, OnMessage(c)
    PROVE  PageInv'
<1>. DEFINE e == Head(wire[c])
<1>1. /\ source = c
      /\ wire[c] # <<>>
      /\ wire' = [wire EXCEPT ![c] = Tail(@)]
      /\ UNCHANGED <<phase, snap, pos, connected, live, unparseable, source>>
  BY DEF OnMessage, Feed!ClientRead, Feed!historyVars
<1>2. /\ wire \in [Streams -> Seq(Entries)] /\ wire[c] \in Seq(Entries) /\ e \in Entries
      /\ Range(wire[c]) = {e} \cup Range(Tail(wire[c]))
  <2>1. wire \in [Streams -> Seq(Entries)]
    BY DEF FeedProofs!TypeOK
  <2>. QED
    BY <1>1, <2>1, HeadTailProperties, RangeTails
<1>3. \/ /\ e \notin unparseable
         /\ AddEntry(e)
         /\ shown' = IF e \in seen THEN shown ELSE [shown EXCEPT ![e] = @ \cup {c}]
      \/ e \in unparseable /\ UNCHANGED <<vars, shown>>
  BY DEF OnMessage
<1>. HIDE DEF e
<1>4. /\ seen' \subseteq seen \cup {e}
      /\ e \in unparseable => seen' = seen
  BY <1>3 DEF AddEntry, AddCard, vars
<1>5. /\ shown' \in [Entries -> SUBSET Streams]
      /\ \A f \in Entries : shown[f] # {} => shown'[f] # {}
      /\ e \in unparseable \/ shown'[e] # {}
  <2>1. shown \in [Entries -> SUBSET Streams]
    BY DEF PageInv, ShownInv
  <2>2. CASE shown' = shown /\ e \in seen \cup unparseable
    BY <1>2, <2>1, <2>2 DEF PageInv, ShownInv
  <2>3. CASE shown' = [shown EXCEPT ![e] = @ \cup {c}]
    BY <1>2, <2>1, <2>3
  <2>. QED
    BY <1>3, <2>2, <2>3
<1>6. ShownInv'
  BY <1>4, <1>5 DEF PageInv, ShownInv
<1>7. ReachInv'
  <2>1. wire'[c] = Tail(wire[c]) /\ Delivered(c)' = Delivered(c)
    BY <1>1, <1>2 DEF Delivered
  <2>2. ASSUME NEW f \in Entries \cap Delivered(c)
        PROVE  f \in Range(wire'[c]) \cup unparseable' \/ shown'[f] # {}
    <3>1. f \in Range(wire[c]) \cup unparseable \/ shown[f] # {}
      BY <1>1 DEF PageInv, ReachInv
    <3>2. f \in Range(wire[c]) => f = e \/ f \in Range(wire'[c])
      BY <1>2, <2>1
    <3>. QED
      BY <1>1, <1>5, <3>1, <3>2
  <2>3. connected'[c] /\ phase'[c] # "idle"
    BY <1>1 DEF PageInv, ReachInv
  <2>. QED
    BY <1>1, <2>1, <2>2, <2>3 DEF ReachInv
<1>8. StreamInv'
  BY <1>1 DEF PageInv, StreamInv
<1>. QED
  BY <1>6, <1>7, <1>8 DEF PageInv

LEMMA NextPage ==
    ASSUME FeedProofs!TypeOK, PageInv, [PageNext]_allVars
    PROVE  PageInv'
<1>1. ASSUME NEW c \in Streams, ServerNotices(c)
      PROVE  PageInv'
  <2>1. /\ source' = (IF source = c THEN NoStream ELSE source)
        /\ connected' = [connected EXCEPT ![c] = FALSE]
        /\ wire' = [wire EXCEPT ![c] = <<>>]
        /\ UNCHANGED <<phase, snap, pos, live, unparseable, shown, seen>>
    BY <1>1 DEF ServerNotices, Feed!Disconnect, Feed!historyVars, vars
  <2>2. StreamInv' /\ ShownInv'
    BY <2>1 DEF PageInv, StreamInv, ShownInv
  <2>3. ASSUME NEW d \in Streams, source' = d
        PROVE  d # c /\ source = d
    BY <2>1, <2>3
  <2>4. ASSUME NEW d \in Streams, d # c
        PROVE  connected'[d] = connected[d] /\ wire'[d] = wire[d]
    BY <2>1, <2>4 DEF FeedProofs!TypeOK
  <2>5. ReachInv'
    BY <2>1, <2>3, <2>4 DEF PageInv, ReachInv, Delivered
  <2>. QED
    BY <2>2, <2>5 DEF PageInv
<1>2. CASE ConnectionLost \/ LoadAgain
  <2>1. /\ source' = NoStream
        /\ UNCHANGED <<phase, snap, pos, live>>
    BY <1>2 DEF ConnectionLost, LoadAgain, feedVars
  <2>2. \/ UNCHANGED <<shown, seen>>
        \/ shown' = [e \in Entries |-> {}] /\ seen' = {}
    BY <1>2 DEF ConnectionLost, LoadAgain, Reload, vars
  <2>3. StreamInv'
    BY <2>1 DEF PageInv, StreamInv
  <2>4. ShownInv'
    BY <2>2 DEF PageInv, ShownInv
  <2>5. ReachInv'
    BY <2>1 DEF ReachInv
  <2>. QED
    BY <2>3, <2>4, <2>5 DEF PageInv
<1>3. CASE UNCHANGED allVars
  BY <1>3, QuietPage DEF allVars, feedVars, pageVars, vars
<1>. QED
  BY <1>1, <1>2, <1>3, ServerPage, ConnectPage, OnMessagePage DEF PageNext

LEMMA InitPage == PageInit => PageInv
  BY DEF PageInit, Init, Feed!Init, PageInv, StreamInv, ShownInv, ReachInv

\* End to end, for any number of entries, connections and reloads and whatever
\* the ring and the queues hold: a page that has caught up has made a card for
\* every entry that was in the ring when it connected or was recorded since,
\* except those its stream's full queue refused and those it could not parse.
THEOREM PageIsComplete == PageSpec => []CaughtUpPageIsComplete
<1>1. ASSUME FeedInv, PageInv
      PROVE  CaughtUpPageIsComplete
  <2>1. SUFFICES ASSUME NEW c \in Streams, CaughtUp(c),
                        NEW e \in Feed!Recorded \ (old[c] \cup dropped[c] \cup unparseable)
                 PROVE  shown[e] # {}
    BY DEF CaughtUpPageIsComplete
  <2>2. source = c /\ phase[c] = "await" /\ wire[c] = <<>>
    BY <2>1 DEF CaughtUp
  <2>3. e \in FeedProofs!Recorded /\ e \in Entries
    BY <1>1 DEF Feed!Recorded, Feed!Range, FeedProofs!Recorded, FeedProofs!Range, FeedInv,
           FeedProofs!TypeOK
  <2>4. FeedProofs!Outstanding(c) = {}
    BY <2>1 DEF CaughtUp, Feed!Outstanding, Feed!Range, FeedProofs!Outstanding, FeedProofs!Range
  <2>5. e \in FeedProofs!Range(snap[c]) \cup FeedProofs!Range(live[c])
    BY <1>1, <2>1, <2>2, <2>3, <2>4 DEF FeedInv, FeedProofs!NoSilentGap, FeedProofs!Streaming
  <2>6. e \in Delivered(c)
    <3>1. snap[c] \in Seq(Entries) /\ pos[c] \in Nat /\ pos[c] > Len(snap[c])
      BY <1>1, <2>2 DEF FeedInv, FeedProofs!TypeOK, PageInv, StreamInv
    <3>2. DOMAIN snap[c] \subseteq 1..pos[c] - 1
      BY <3>1
    <3>. QED
      BY <2>5, <3>2 DEF FeedProofs!Range, Delivered, Range
  <2>7. Range(wire[c]) = {}
    BY <2>2 DEF Range
  <2>. QED
    BY <1>1, <2>1, <2>2, <2>3, <2>6, <2>7 DEF PageInv, ReachInv
<1>2. FeedInv /\ PageInv /\ [PageNext]_allVars => PageInv'
  BY NextPage DEF FeedInv
<1>. QED
  BY <1>1, <1>2, InitPage, PageFeed, PTL DEF PageSpec

\* The page is one client of the feed among those its module allows: reading,
\* losing the connection and loading again, it makes the server do nothing new.
THEOREM PageImplementsFeed == PageSpec => Feed!Spec
<1>1. PageInit => Feed!Init
  BY DEF PageInit
<1>2. ASSUME [PageNext]_allVars
      PROVE  [Feed!Next]_(Feed!vars)
  <2>. USE DEF Feed!vars, Feed!recorderVars, Feed!loopVars, Feed!streamVars, Feed!historyVars
  <2>1. ASSUME NEW c \in Streams, Connect(c) \/ OnMessage(c) \/ ServerNotices(c)
        PROVE  Feed!Next
    BY <2>1 DEF Connect, OnMessage, ServerNotices, Feed!Next, Feed!Client
  <2>2. CASE UNCHANGED feedVars
    BY <2>2 DEF feedVars
  <2>. QED
    BY <1>2, <2>1, <2>2 DEF PageNext, ConnectionLost, LoadAgain, Feed!Next, allVars
<1>. QED
  BY <1>1, <1>2, PTL DEF PageSpec, Feed!Spec
=============================================================================
