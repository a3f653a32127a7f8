---------------------------- MODULE SlowConsumer ----------------------------
(***************************************************************************)
(* The warning about one slow subscriber of the in-memory recorder.  A     *)
(* full queue refuses an entry and counts it; the count is logged, and     *)
(* reset, by the first refusal at least one interval after the last        *)
(* warning.  Everything here runs on the event loop, one callback at a     *)
(* time, so that only the clock and the consumer move in between.          *)
(***************************************************************************)
EXTENDS Integers, Sequences

CONSTANTS
    MaxQueue,       \* _MAX_PER_SUBSCRIBER_QUEUE_SIZE
    Interval,       \* _SLOW_CONSUMER_WARNING_INTERVAL_SECONDS, in clock ticks
    MaxTime,        \* bound: the last tick of the clock
    MaxRefused      \* bound: how many refusals are followed

ASSUME SlowConsumerAssumption ==
    /\ MaxQueue \in Nat \ {0}
    /\ Interval \in Nat \ {0}
    /\ MaxTime \in Nat
    /\ MaxRefused \in Nat

VARIABLES
    now,            \* time.monotonic()
    queued,         \* how many entries the subscriber's queue holds
    drops,          \* _drops_since_last_warning
    lastWarning,    \* _last_warning_at_monotonic
    refused,        \* history: when each refused entry was refused
    warnings        \* history: the warnings logged, and how many refusals there were

vars == <<now, queued, drops, lastWarning, refused, warnings>>

Times == 0..MaxTime

\* time.monotonic() counts from an arbitrary moment, usually the machine's start.
Init ==
    /\ now \in Times
    /\ queued = 0
    /\ drops = 0
    /\ lastWarning = 0
    /\ refused = <<>>
    /\ warnings = <<>>

Warning(count) == [at |-> now, count |-> count, total |-> Len(refused')]

\* Mutant: the count is logged and not reset.
MaybeWarnKeepingCount(count) ==
    IF now - lastWarning < Interval
    THEN drops' = count /\ UNCHANGED <<lastWarning, warnings>>
    ELSE /\ lastWarning' = now
         /\ drops' = count
         /\ warnings' = Append(warnings, Warning(count))

\* Mutant: the time of the warning is not remembered.
MaybeWarnAlways(count) ==
    IF now - lastWarning < Interval
    THEN drops' = count /\ UNCHANGED <<lastWarning, warnings>>
    ELSE /\ drops' = 0
         /\ warnings' = Append(warnings, Warning(count))
         /\ UNCHANGED lastWarning

\* Mutant: the time of every refusal is remembered, so that a steady overflow
\* postpones its warning for ever.
MaybeWarnPostponed(count) ==
    /\ lastWarning' = now
    /\ IF now - lastWarning < Interval
       THEN drops' = count /\ UNCHANGED warnings
       ELSE drops' = 0 /\ warnings' = Append(warnings, Warning(count))

\* _maybe_warn_about_slow_consumer, after the count has been raised.
MaybeWarn(count) ==
    IF now - lastWarning < Interval
    THEN drops' = count /\ UNCHANGED <<lastWarning, warnings>>
    ELSE /\ lastWarning' = now
         /\ drops' = 0
         /\ warnings' = Append(warnings, Warning(count))

\* _put_if_possible: the queue has room.
Accept ==
    /\ queued < MaxQueue
    /\ queued' = queued + 1
    /\ UNCHANGED <<now, drops, lastWarning, refused, warnings>>

\* _put_if_possible: asyncio.QueueFull.
Refuse ==
    /\ queued = MaxQueue
    /\ Len(refused) < MaxRefused
    /\ refused' = Append(refused, now)
    /\ MaybeWarn(drops + 1)
    /\ UNCHANGED <<now, queued>>

\* The stream takes an entry from its queue.
Take ==
    /\ queued > 0
    /\ queued' = queued - 1
    /\ UNCHANGED <<now, drops, lastWarning, refused, warnings>>

\* Any amount of time passes.
Pass ==
    /\ \E t \in now + 1..MaxTime : now' = t
    /\ UNCHANGED <<queued, drops, lastWarning, refused, warnings>>

Next == Accept \/ Refuse \/ Take \/ Pass

Spec == Init /\ [][Next]_vars

-----------------------------------------------------------------------------
TypeOK ==
    /\ now \in Times
    /\ queued \in 0..MaxQueue
    /\ drops \in 0..MaxRefused
    /\ lastWarning \in 0..now
    /\ refused \in Seq(Times)
    /\ warnings \in Seq([at: Times, count: 1..MaxRefused, total: 1..MaxRefused])

\* The log is not flooded: two warnings about one subscriber are at least an
\* interval apart.
WarningsAreApart ==
    \A i, j \in DOMAIN warnings : i < j => warnings[j].at - warnings[i].at >= Interval

\* Every refused entry is in exactly one count: each warning counts the refusals
\* since the warning before it, and the rest is still to be reported.
EveryRefusalIsCounted ==
    LET totalAt(i) == IF i = 0 THEN 0 ELSE warnings[i].total
    IN  /\ \A i \in DOMAIN warnings : warnings[i].count = warnings[i].total - totalAt(i - 1)
        /\ drops = Len(refused) - totalAt(Len(warnings))

\* An overflow is not kept quiet: whatever is not yet reported was refused less
\* than an interval after the last warning that was logged.
SilenceIsShort ==
    LET lastAt == IF warnings = <<>> THEN 0 ELSE warnings[Len(warnings)].at
    IN  drops > 0 => refused[Len(refused)] - lastAt < Interval
=============================================================================
