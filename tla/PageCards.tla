----------------------------- MODULE PageCards -----------------------------
(***************************************************************************)
(* The script of the /observability page, in one tab: the cards it keeps,  *)
(* the request ids it filters by, the filter chips with their memory in    *)
(* localStorage, and the animation frame that evens out the rows.  Entries *)
(* arrive in any order and any number of times: a reconnect replays them.  *)
(***************************************************************************)
EXTENDS Integers, Sequences, Functions, FiniteSets

CONSTANTS
    Entries,        \* the entries the server may send; each stands for its request_id
    MaxCards,       \* MAX_CARDS_ON_PAGE
    Decision,       \* Decision[e]: the entry's decision, also its card's outcome
    Outcomes,       \* the decisions that have a filter chip
    Clicked,        \* the chips somebody clicks
    Memories,       \* what localStorage may hold at first, as in stored
    MaxReceived     \* bound: how many cards are made between two reloads

ASSUME PageAssumption ==
    /\ MaxCards \in Nat \ {0}
    /\ Decision \in [Entries -> Outcomes]
    /\ Clicked \subseteq Outcomes
    /\ Memories \subseteq {{}} \cup {{filters} : filters \in SUBSET Outcomes}
    /\ IsFiniteSet(Outcomes)
    /\ MaxReceived \in Nat

VARIABLES
    cards,          \* the cards in the document, newest first
    seen,           \* state.seenRequestIds
    counts,         \* state.counts; their sum is state.totalEverReceived
    activeFilters,  \* state.activeFilters
    stored,         \* localStorage: the set holding the saved filters, or empty
    hidden,         \* the cards whose display is "none"
    alignTimer,     \* an animation frame is scheduled
    aligned         \* the set holding the cards alignRows last went over, or empty

vars == <<cards, seen, counts, activeFilters, stored, hidden, alignTimer, aligned>>

\* Filters that are not stored, or not readable, are all on.
Restored(memory) == IF memory = {} THEN Outcomes ELSE UNION memory

NoCounts == [d \in Outcomes |-> 0]

\* The cards that can be seen, each at its place in the document.
Visible == [i \in {k \in DOMAIN cards : cards[k] \notin hidden} |-> cards[i]]

\* The script starts on an empty document, whose rows are even.
Init ==
    /\ stored \in Memories
    /\ cards = <<>> /\ seen = {} /\ hidden = {}
    /\ counts = NoCounts
    /\ activeFilters = Restored(stored)
    /\ alignTimer = FALSE /\ aligned = {Visible}

-----------------------------------------------------------------------------
\* applyFilters over a set of cards: those it gives display "none".
HiddenBy(filters, shownCards) == {e \in shownCards : Decision[e] \notin filters}

\* Mutant: a new card ignores the filters.
ConcealedNever(e) == {}

Concealed(e) == HiddenBy(activeFilters, {e})

\* Mutant: the page keeps one card too many.
EvictedLate(stack) == IF Len(stack) > MaxCards + 1 THEN {stack[Len(stack)]} ELSE {}

\* Beyond MaxCards the last card of the document is removed ...
Evicted(stack) == IF Len(stack) > MaxCards THEN {stack[Len(stack)]} ELSE {}

\* Mutant: ... and its request id stays.
ForgottenNever(stack) == {}

\* ... and its request id is forgotten.
Forgotten(stack) == Evicted(stack)

\* Mutant: a frame that is already scheduled is cancelled and not replaced.
ScheduleAlignCancelling == alignTimer' = ~alignTimer

\* scheduleAlign: a frame that is already scheduled is replaced.
ScheduleAlign == alignTimer' = TRUE

\* addEntry, for an id that is not on the page: the card is put first.
AddCard(e) ==
    LET stack == <<e>> \o cards
    IN  /\ cards' = SubSeq(stack, 1, Len(stack) - Cardinality(Evicted(stack)))
        /\ seen' = (seen \cup {e}) \ Forgotten(stack)
        /\ hidden' = (hidden \cup Concealed(e)) \ Evicted(stack)
        /\ counts' = [counts EXCEPT ![Decision[e]] = @ + 1]
        /\ ScheduleAlign
        /\ UNCHANGED <<activeFilters, stored, aligned>>

\* addEntry: a request id already on the page is ignored.
AddEntry(e) ==
    \/ e \in seen /\ UNCHANGED vars
    \/ e \notin seen /\ AddCard(e)

\* localStorage.setItem, which may throw: that is swallowed.
Save(filters) ==
    stored' \in {{filters}, stored}

\* A filter chip is clicked: applyFilters goes over every card.
ToggleFilter(d) ==
    LET now == IF d \in activeFilters THEN activeFilters \ {d} ELSE activeFilters \cup {d}
    IN  /\ activeFilters' = now
        /\ Save(now)
        /\ hidden' = HiddenBy(now, Range(cards))
        /\ ScheduleAlign
        /\ UNCHANGED <<cards, seen, counts, aligned>>

\* The window is resized, or a card's details are opened or closed.
Reflow ==
    /\ aligned' = {}
    /\ ScheduleAlign
    /\ UNCHANGED <<cards, seen, counts, activeFilters, stored, hidden>>

\* The frame runs alignRows over the cards as they are then.
AlignRows ==
    /\ alignTimer
    /\ alignTimer' = FALSE
    /\ aligned' = {Visible}
    /\ UNCHANGED <<cards, seen, counts, activeFilters, stored, hidden>>

\* The page is loaded again in its tab.
Reload ==
    /\ cards' = <<>> /\ seen' = {} /\ hidden' = {}
    /\ counts' = NoCounts
    /\ activeFilters' = Restored(stored)
    /\ alignTimer' = FALSE /\ aligned' = {Visible'}
    /\ UNCHANGED stored

Received == FoldFunctionOnSet(LAMBDA m, n : m + n, 0, counts, Outcomes)

Next ==
    \/ \E e \in Entries : Received < MaxReceived /\ AddEntry(e)
    \/ \E d \in Clicked : ToggleFilter(d)
    \/ Reflow
    \/ AlignRows
    \/ Reload

Spec == Init /\ [][Next]_vars

\* The browser runs the frames of a tab that can be seen.
FairSpec == Spec /\ WF_vars(AlignRows)

-----------------------------------------------------------------------------
TypeOK ==
    /\ cards \in Seq(Entries)
    /\ Len(cards) <= MaxCards
    /\ seen \subseteq Entries
    /\ counts \in [Outcomes -> Nat]
    /\ activeFilters \subseteq Outcomes
    /\ stored \subseteq SUBSET Outcomes
    /\ hidden \subseteq Entries
    /\ alignTimer \in BOOLEAN
    /\ aligned \subseteq UNION {[places -> Entries] : places \in SUBSET (1..MaxCards)}

\* The page never shows a request twice at once, and the ids it filters by are
\* exactly those of its cards: replay after replay, the filter neither forgets
\* a card on the page nor grows beyond the cap on cards.
FilterMatchesCards ==
    /\ IsInjective(cards)
    /\ seen = Range(cards)

\* A card is hidden exactly when its outcome is filtered out, whether it came
\* before or after the chip was clicked, and after its eviction nothing is.
HiddenMatchesFilters == hidden = HiddenBy(activeFilters, Range(cards))

\* However fast cards arrive, chips are clicked and frames are replaced, the
\* rows are evened out again and again over exactly the cards that can be seen.
RowsAreAligned == []<>(aligned = {Visible})
=============================================================================
