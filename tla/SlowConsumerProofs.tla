------------------------- MODULE SlowConsumerProofs -------------------------
(* Theorems about SlowConsumer, for every capacity, interval and clock.    *)
EXTENDS SlowConsumer, SequenceTheorems, TLAPS

WarningType == [at: Times, count: 1..MaxRefused, total: 1..MaxRefused]

\* The warnings logged agree with the throttle's own variables.
ThrottleInv ==
    /\ Len(refused) <= MaxRefused
    /\ warnings = <<>> => lastWarning = 0
    /\ warnings # <<>> => warnings[Len(warnings)].at = lastWarning
    /\ \A i \in DOMAIN warnings : warnings[i].at <= lastWarning
    /\ \A i \in DOMAIN warnings : warnings[i].total <= Len(refused)

WarnInv ==
    TypeOK /\ ThrottleInv /\ WarningsAreApart /\ EveryRefusalIsCounted /\ SilenceIsShort

\* The entries of the warning log are warnings.
LEMMA WarningsAreTyped ==
    ASSUME warnings \in Seq(WarningType)
    PROVE  \A i \in DOMAIN warnings : warnings[i] \in WarningType
BY ElementOfSeq, LenProperties

\* What is not reported yet is a part of what was refused.
LEMMA DropsAreRefusals ==
    ASSUME WarnInv
    PROVE  drops <= Len(refused)
<1>1. TypeOK /\ EveryRefusalIsCounted /\ MaxRefused \in Nat
    BY SlowConsumerAssumption DEF WarnInv
<1>2. refused \in Seq(Times) /\ Len(refused) \in Nat
    BY <1>1, LenProperties DEF TypeOK
<1>3. CASE warnings = <<>>
    BY <1>1, <1>2, <1>3 DEF EveryRefusalIsCounted
<1>4. CASE warnings # <<>>
    <2>1. Len(warnings) \in DOMAIN warnings /\ Len(warnings) # 0
        BY <1>1, <1>4 DEF TypeOK
    <2>2. warnings[Len(warnings)].total \in 1..MaxRefused
        BY <1>1, <2>1, WarningsAreTyped DEF TypeOK, WarningType
    <2>3. drops = Len(refused) - warnings[Len(warnings)].total
        BY <1>1, <2>1 DEF EveryRefusalIsCounted
    <2> QED
        BY <1>1, <1>2, <2>2, <2>3
<1> QED
    BY <1>3, <1>4

\* A refusal within the interval is only counted.
LEMMA RefuseQuietly ==
    ASSUME WarnInv, Refuse, now - lastWarning < Interval
    PROVE  WarnInv'
<1> USE SlowConsumerAssumption DEF Times
<1>1. TypeOK /\ ThrottleInv /\ drops <= Len(refused)
    BY DropsAreRefusals DEF WarnInv
<1>2. /\ refused' = Append(refused, now)
      /\ drops' = drops + 1
      /\ Len(refused) < MaxRefused
      /\ UNCHANGED <<now, queued, lastWarning, warnings>>
    BY DEF Refuse, MaybeWarn
<1>3. /\ refused' \in Seq(Times)
      /\ Len(refused') = Len(refused) + 1
      /\ refused'[Len(refused')] = now
      /\ Len(refused) \in Nat
    BY <1>1, <1>2, AppendProperties DEF TypeOK
<1>4. TypeOK'
    BY <1>1, <1>2, <1>3 DEF TypeOK
<1>5. ThrottleInv'
    <2>1. \A i \in DOMAIN warnings : warnings[i].total \in 1..MaxRefused
        BY <1>1, WarningsAreTyped DEF TypeOK, WarningType
    <2> QED
        BY <1>1, <1>2, <1>3, <2>1 DEF ThrottleInv
<1>6. WarningsAreApart'
    BY <1>2 DEF WarnInv, WarningsAreApart
<1>7. EveryRefusalIsCounted'
    <2>1. CASE warnings = <<>>
        BY <1>2, <1>3, <2>1 DEF WarnInv, EveryRefusalIsCounted
    <2>2. CASE warnings # <<>>
        <3>1. Len(warnings) # 0 /\ Len(warnings) \in DOMAIN warnings
            BY <1>1, <2>2 DEF TypeOK
        <3>2. warnings[Len(warnings)].total \in 1..MaxRefused
            BY <1>1, <3>1, WarningsAreTyped DEF TypeOK, WarningType
        <3>3. drops = Len(refused) - warnings[Len(warnings)].total
            BY <3>1 DEF WarnInv, EveryRefusalIsCounted
        <3>4. drops' = Len(refused') - warnings[Len(warnings)].total
            <4> DEFINE t == warnings[Len(warnings)].total
            <4>1. t \in Int /\ drops = Len(refused) - t
                BY <3>2, <3>3
            <4> HIDE DEF t
            <4>2. drops' = Len(refused') - t
                BY <1>2, <1>3, <4>1
            <4> QED
                BY <4>2 DEF t
        <3> QED
            BY <1>2, <3>1, <3>4 DEF WarnInv, EveryRefusalIsCounted
    <2> QED
        BY <2>1, <2>2
<1>8. SilenceIsShort'
    <2>1. lastWarning = IF warnings = <<>> THEN 0 ELSE warnings[Len(warnings)].at
        BY <1>1 DEF ThrottleInv
    <2> QED
        BY <1>2, <1>3, <2>1 DEF SilenceIsShort
<1> QED
    BY <1>4, <1>5, <1>6, <1>7, <1>8 DEF WarnInv

\* A refusal after the interval reports what is counted and starts again.
LEMMA RefuseWarning ==
    ASSUME WarnInv, Refuse, ~(now - lastWarning < Interval)
    PROVE  WarnInv'
<1> DEFINE w == [at |-> now, count |-> drops + 1, total |-> Len(refused) + 1]
           n == Len(warnings)
<1> USE SlowConsumerAssumption DEF Times
<1>1. TypeOK /\ ThrottleInv /\ drops <= Len(refused)
    BY DropsAreRefusals DEF WarnInv
<1>2. /\ refused' = Append(refused, now)
      /\ drops' = 0
      /\ lastWarning' = now
      /\ Len(refused) < MaxRefused
      /\ warnings' = Append(warnings, [at |-> now, count |-> drops + 1, total |-> Len(refused')])
      /\ UNCHANGED <<now, queued>>
    BY DEF Refuse, MaybeWarn, Warning
<1>3. /\ refused' \in Seq(Times)
      /\ Len(refused') = Len(refused) + 1
      /\ Len(refused) \in Nat
    BY <1>1, <1>2, AppendProperties DEF TypeOK
<1>4. warnings \in Seq(WarningType) /\ w \in WarningType /\ warnings' = Append(warnings, w)
    BY <1>1, <1>2, <1>3 DEF TypeOK, WarningType
<1> HIDE DEF w, n
<1>5. /\ warnings' \in Seq(WarningType)
      /\ n \in Nat
      /\ Len(warnings') = n + 1
      /\ warnings'[n + 1] = w
      /\ \A i \in 1..n : warnings'[i] = warnings[i]
      /\ DOMAIN warnings = 1..n
      /\ DOMAIN warnings' = 1..n + 1
    BY <1>4, AppendProperties, LenProperties DEF n
<1>6. w.at = now /\ w.count = drops + 1 /\ w.total = Len(refused) + 1
    BY DEF w
<1>7. \A i \in 1..n : warnings[i] \in WarningType
    BY <1>4, <1>5, ElementOfSeq DEF n
<1>8. \A i \in 1..n : /\ warnings[i].at \in Times
                      /\ warnings[i].total \in 1..MaxRefused
                      /\ warnings[i].at <= lastWarning
                      /\ warnings[i].total <= Len(refused)
    BY <1>1, <1>5, <1>7 DEF WarningType, ThrottleInv
<1>9. now \in Nat /\ lastWarning \in 0..now /\ now - lastWarning >= Interval
    BY <1>1 DEF TypeOK
<1>10. TypeOK'
    BY <1>1, <1>2, <1>3, <1>5 DEF TypeOK, WarningType
<1>11. ThrottleInv'
    <2>1. \A i \in 1..n + 1 : warnings'[i].at <= now
        <3> TAKE i \in 1..n + 1
        <3>1. CASE i \in 1..n
            BY <1>5, <1>8, <1>9, <3>1
        <3>2. CASE i = n + 1
            BY <1>5, <1>6, <1>9, <3>2
        <3> QED
            BY <1>5, <3>1, <3>2
    <2>2. \A i \in 1..n + 1 : warnings'[i].total <= Len(refused')
        <3> TAKE i \in 1..n + 1
        <3>1. CASE i \in 1..n
            BY <1>3, <1>5, <1>8, <3>1
        <3>2. CASE i = n + 1
            BY <1>3, <1>5, <1>6, <3>2
        <3> QED
            BY <1>5, <3>1, <3>2
    <2>3. warnings' # <<>> /\ warnings'[Len(warnings')].at = lastWarning'
        BY <1>2, <1>5, <1>6
    <2> QED
        BY <1>2, <1>3, <1>5, <2>1, <2>2, <2>3 DEF ThrottleInv
<1>12. WarningsAreApart'
    <2> SUFFICES ASSUME NEW i \in 1..n + 1, NEW j \in 1..n + 1, i < j
                 PROVE  warnings'[j].at - warnings'[i].at >= Interval
        BY <1>5 DEF WarningsAreApart
    <2>1. i \in 1..n
        BY <1>5
    <2>2. CASE j \in 1..n
        BY <1>5, <2>1, <2>2 DEF WarnInv, WarningsAreApart
    <2>3. CASE j = n + 1
        BY <1>5, <1>6, <1>8, <1>9, <2>1, <2>3
    <2> QED
        BY <1>5, <2>2, <2>3
<1>13. EveryRefusalIsCounted'
    <2> DEFINE totalAt(i) == IF i = 0 THEN 0 ELSE warnings[i].total
               totalNext(i) == IF i = 0 THEN 0 ELSE warnings'[i].total
    <2>1. /\ \A i \in 1..n : warnings[i].count = warnings[i].total - totalAt(i - 1)
          /\ drops = Len(refused) - totalAt(n)
        BY <1>5 DEF WarnInv, EveryRefusalIsCounted, n
    <2>2. \A i \in 0..n : totalNext(i) = totalAt(i)
        BY <1>5
    <2>3. \A i \in 0..n : totalAt(i) \in Nat
        BY <1>5, <1>8
    <2>4. \A i \in 1..n + 1 : warnings'[i].count = warnings'[i].total - totalNext(i - 1)
        <3> TAKE i \in 1..n + 1
        <3>1. CASE i \in 1..n
            <4>1. i - 1 \in 0..n
                BY <1>5, <3>1
            <4>2. totalNext(i - 1) = totalAt(i - 1)
                BY <4>1, <2>2
            <4> HIDE DEF totalAt, totalNext
            <4> QED
                BY <1>5, <2>1, <3>1, <4>2
        <3>2. CASE i = n + 1
            <4>1. n \in 0..n /\ i - 1 = n
                BY <1>5, <3>2
            <4>2. totalNext(i - 1) = totalAt(n) /\ totalAt(n) \in Nat
                BY <4>1, <2>2, <2>3
            <4> HIDE DEF totalAt, totalNext
            <4> QED
                BY <1>3, <1>5, <1>6, <2>1, <3>2, <4>2
        <3> QED
            BY <1>5, <3>1, <3>2
    <2>5. drops' = Len(refused') - totalNext(Len(warnings'))
        BY <1>2, <1>3, <1>5, <1>6
    <2> QED
        BY <1>5, <2>4, <2>5 DEF EveryRefusalIsCounted
<1>14. SilenceIsShort'
    BY <1>2 DEF SilenceIsShort
<1> QED
    BY <1>10, <1>11, <1>12, <1>13, <1>14 DEF WarnInv

\* Every step of the loop, the consumer and the clock preserves the invariant.
LEMMA WarnInvStep ==
    ASSUME WarnInv, [Next]_vars
    PROVE  WarnInv'
<1> USE SlowConsumerAssumption DEF WarnInv, TypeOK, ThrottleInv, WarningsAreApart,
        EveryRefusalIsCounted, SilenceIsShort, Times
<1>1. CASE Accept
    BY <1>1 DEF Accept
<1>2. CASE Refuse
    BY <1>2, RefuseQuietly, RefuseWarning
<1>3. CASE Take
    BY <1>3 DEF Take
<1>4. CASE Pass
    BY <1>4 DEF Pass
<1>5. CASE UNCHANGED vars
    BY <1>5 DEF vars
<1> QED
    BY <1>1, <1>2, <1>3, <1>4, <1>5 DEF Next

\* The invariant holds initially and for ever.
LEMMA WarnInvHolds ==
    Spec => []WarnInv
<1>1. Init => WarnInv
    BY SlowConsumerAssumption DEF Init, WarnInv, TypeOK, ThrottleInv, WarningsAreApart,
        EveryRefusalIsCounted, SilenceIsShort, Times
<1>2. WarnInv /\ [Next]_vars => WarnInv'
    BY SlowConsumerAssumption, WarnInvStep
<1> QED
    BY <1>1, <1>2, PTL DEF Spec

\* Two warnings about one subscriber are at least an interval apart, however the
\* clock runs and whenever the queue overflows.
THEOREM SlowConsumerWarningsAreApart ==
    Spec => []WarningsAreApart
<1>1. WarnInv => WarningsAreApart
    BY DEF WarnInv
<1> QED
    BY <1>1, SlowConsumerAssumption, WarnInvHolds, PTL

\* Every refused entry is in exactly one warning or still to be reported.
THEOREM SlowConsumerCountsRefusals ==
    Spec => []EveryRefusalIsCounted
<1>1. WarnInv => EveryRefusalIsCounted
    BY DEF WarnInv
<1> QED
    BY <1>1, SlowConsumerAssumption, WarnInvHolds, PTL

\* Whatever is not yet reported was refused less than an interval after the last
\* warning.
THEOREM SlowConsumerSilenceIsShort ==
    Spec => []SilenceIsShort
<1>1. WarnInv => SilenceIsShort
    BY DEF WarnInv
<1> QED
    BY <1>1, SlowConsumerAssumption, WarnInvHolds, PTL

\* The types, with the count of drops bounded by the refusals.
THEOREM SlowConsumerTypeCorrect ==
    Spec => []TypeOK
<1>1. WarnInv => TypeOK
    BY DEF WarnInv
<1> QED
    BY <1>1, SlowConsumerAssumption, WarnInvHolds, PTL
=============================================================================
