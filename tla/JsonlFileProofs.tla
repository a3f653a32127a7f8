-------------------------- MODULE JsonlFileProofs --------------------------
(***************************************************************************)
(* Theorems about JsonlFile, for any number of calls, failures and crashes.*)
(***************************************************************************)
EXTENDS JsonlFile, TLAPS

-----------------------------------------------------------------------------
(* The inductive invariant.                                                *)

\* The lock is held by the one call that is writing.
LockInv == \A e \in Entries : pc[e] \in Writing <=> lock = e

\* A call that has not come to its write has left nothing in the file.
UnwrittenInv ==
    \A e \in Entries :
        pc[e] \in {"idle", "waiting", "skipped", "locked", "opened"} =>
            \A i \in DOMAIN file : file[i][1] # e

\* In the middle of a write the file ends with the head of the line.
HalfInv ==
    \A e \in Entries :
        pc[e] = "half" => Len(file) > 0 /\ file[Len(file)] = <<e, "head">>

\* A line that was written whole is in one place.
WholeInv ==
    \A e \in Entries : Recorded(e) =>
        \E i \in DOMAIN file :
            /\ i + 1 \in DOMAIN file
            /\ file[i] = <<e, "head">> /\ file[i + 1] = <<e, "tail">>

\* A head is followed by its tail, is being continued, or is torn.
HeadInv ==
    \A e \in Entries : \A i \in DOMAIN file :
        file[i] = <<e, "head">> =>
            \/ i + 1 \in DOMAIN file /\ file[i + 1] = <<e, "tail">>
            \/ pc[e] = "half"
            \/ Torn(e)

FileInv ==
    /\ TypeOK
    /\ LockInv
    /\ LinesAreNotMixed
    /\ UnwrittenInv
    /\ HalfInv
    /\ WholeInv
    /\ HeadInv

-----------------------------------------------------------------------------
\* Pieces are pairs.
LEMMA PieceType ==
    ASSUME TypeOK, NEW i \in DOMAIN file
    PROVE  /\ file[i] \in Entries \X Parts
           /\ file[i] = <<file[i][1], file[i][2]>>
           /\ file[i][1] \in Entries /\ file[i][2] \in Parts
           /\ DOMAIN file = 1..Len(file) /\ Len(file) \in Nat
<1>1. file \in Seq(Entries \X Parts)
  BY DEF TypeOK
<1>2. DOMAIN file = 1..Len(file) /\ Len(file) \in Nat
  BY <1>1
<1>3. file[i] \in Entries \X Parts
  BY <1>1, <1>2
<1>. QED  BY <1>2, <1>3

\* The tail of a line whose head is the last piece has not been written.
LEMMA HalfHasNoTail ==
    ASSUME TypeOK, LinesAreNotMixed, HalfInv, NEW e \in Entries, pc[e] = "half",
           NEW i \in DOMAIN file
    PROVE  file[i] # <<e, "tail">>
<1>. SUFFICES ASSUME file[i] = <<e, "tail">> PROVE FALSE
  OBVIOUS
<1>1. Len(file) \in DOMAIN file /\ file[Len(file)] = <<e, "head">>
  BY PieceType DEF HalfInv
<1>2. i > 1 /\ file[i - 1] = <<e, "head">> /\ i - 1 \in DOMAIN file /\ i \in 1..Len(file)
  BY PieceType DEF LinesAreNotMixed
<1>3. i - 1 = Len(file)
  BY <1>1, <1>2 DEF TypeOK
<1>. QED  BY <1>2, <1>3, PieceType

\* What Append does to a file.
LEMMA Appended ==
    ASSUME TypeOK, NEW piece \in Entries \X Parts, file' = Append(file, piece)
    PROVE  /\ file' \in Seq(Entries \X Parts)
           /\ Len(file') = Len(file) + 1 /\ Len(file) \in Nat
           /\ DOMAIN file = 1..Len(file) /\ DOMAIN file' = 1..(Len(file) + 1)
           /\ \A i \in DOMAIN file : i \in DOMAIN file' /\ file'[i] = file[i]
           /\ file'[Len(file) + 1] = piece
BY DEF TypeOK

\* The first states.
LEMMA FileInvInit == ASSUME Init PROVE FileInv
BY JsonlFileAssumption
   DEF Init, FileInv, TypeOK, LockInv, LinesAreNotMixed, UnwrittenInv, HalfInv, WholeInv,
       HeadInv, Recorded, Torn, Writing, Places

-----------------------------------------------------------------------------
(* Steps that leave the file alone.  What they need to keep is said of the *)
(* places of the calls only.                                               *)

\* A call moves to another place in the same part of its life.
LEMMA QuietStep ==
    ASSUME FileInv, UNCHANGED file, active' \in BOOLEAN,
           lock' \in Entries \cup {NoEntry}, pc' \in [Entries -> Places],
           crashes' \in 0..MaxCrashes, LockInv',
           \A e \in Entries :
               pc'[e] \in {"idle", "waiting", "skipped", "locked", "opened"} =>
                   pc[e] \in {"idle", "waiting", "skipped", "locked", "opened"},
           \A e \in Entries : pc'[e] = "half" => pc[e] = "half",
           \A e \in Entries : Recorded(e)' => Recorded(e),
           \A e \in Entries : pc[e] = "half" => pc'[e] \in {"half", "raised", "lost"},
           \A e \in Entries : pc[e] \in {"raised", "lost"} => pc'[e] = pc[e]
    PROVE  FileInv'
<1>1. TypeOK'
  BY DEF FileInv, TypeOK
<1>2. LinesAreNotMixed' /\ UnwrittenInv' /\ HalfInv' /\ WholeInv'
  BY DEF FileInv, LinesAreNotMixed, UnwrittenInv, HalfInv, WholeInv
<1>3. HeadInv'
  <2>. SUFFICES ASSUME NEW e \in Entries, NEW i \in DOMAIN file, file[i] = <<e, "head">>
                PROVE  \/ i + 1 \in DOMAIN file /\ file[i + 1] = <<e, "tail">>
                       \/ pc'[e] = "half"
                       \/ Torn(e)'
    BY DEF HeadInv
  <2>1. CASE i + 1 \in DOMAIN file /\ file[i + 1] = <<e, "tail">>
    BY <2>1
  <2>2. CASE Torn(e)
    BY <2>2 DEF Torn
  <2>3. CASE pc[e] = "half" /\ pc'[e] # "half"
    <3>1. \A j \in DOMAIN file : file[j] # <<e, "tail">>
      BY <2>3, HalfHasNoTail DEF FileInv
    <3>2. pc'[e] \in {"raised", "lost"}
      BY <2>3
    <3>. QED  BY <3>1, <3>2 DEF Torn
  <2>. QED  BY <2>1, <2>2, <2>3 DEF FileInv, HeadInv
<1>. QED  BY <1>1, <1>2, <1>3 DEF FileInv

LEMMA RecordStep ==
    ASSUME FileInv, NEW e \in Entries, Record(e)
    PROVE  FileInv'
<1>. USE DEF FileInv, TypeOK, Record, Goto, Writing, Places, Recorded
<1>1. LockInv'
  BY DEF LockInv
<1>. QED  BY <1>1, QuietStep

LEMMA AcquireStep ==
    ASSUME FileInv, NEW e \in Entries, Acquire(e)
    PROVE  FileInv'
<1>. USE DEF FileInv, TypeOK, Acquire, Goto, Writing, Places, Recorded
<1>1. LockInv'
  BY JsonlFileAssumption DEF LockInv
<1>. QED  BY <1>1, QuietStep

LEMMA OpenStep ==
    ASSUME FileInv, NEW e \in Entries, Open(e)
    PROVE  FileInv'
<1>. USE DEF FileInv, TypeOK, Open, Goto, Writing, Places, Recorded
<1>1. LockInv'
  BY DEF LockInv
<1>. QED  BY <1>1, QuietStep

LEMMA CloseStep ==
    ASSUME FileInv, NEW e \in Entries, Close(e)
    PROVE  FileInv'
<1>. USE DEF FileInv, TypeOK, Close, Goto, Writing, Places, Recorded
<1>1. LockInv'
  BY JsonlFileAssumption DEF LockInv
<1>. QED  BY <1>1, QuietStep

LEMMA FailStep ==
    ASSUME FileInv, NEW e \in Entries, Fail(e)
    PROVE  FileInv'
<1>. USE DEF FileInv, TypeOK, Fail, Goto, Writing, Places, Recorded
<1>1. LockInv'
  BY JsonlFileAssumption DEF LockInv
<1>. QED  BY <1>1, QuietStep

LEMMA CrashStep ==
    ASSUME FileInv, Crash
    PROVE  FileInv'
<1>. USE DEF FileInv, TypeOK, Crash, Writing, Places, Recorded
<1>1. LockInv'
  BY JsonlFileAssumption DEF LockInv
<1>2. crashes' \in 0..MaxCrashes
  BY JsonlFileAssumption
<1>. QED  BY <1>1, <1>2, QuietStep

-----------------------------------------------------------------------------
(* Steps that write.                                                       *)

LEMMA WriteHeadStep ==
    ASSUME FileInv, NEW e \in Entries, WriteHead(e)
    PROVE  FileInv'
<1>. USE DEF FileInv, WriteHead, Goto
<1>. DEFINE n == Len(file) + 1
<1>1. /\ file' \in Seq(Entries \X Parts)
      /\ Len(file') = n /\ n \in Nat /\ n > 0 /\ DOMAIN file = 1..(n - 1) /\ DOMAIN file' = 1..n
      /\ \A i \in DOMAIN file : i \in DOMAIN file' /\ file'[i] = file[i]
      /\ file'[n] = <<e, "head">>
  BY Appended DEF Parts
<1>2. \A i \in DOMAIN file : file[i][1] # e
  BY DEF UnwrittenInv
<1>3. \A d \in Entries : pc[d] = "half" => d = e
  BY DEF LockInv, Writing
<1>4. pc' = [pc EXCEPT ![e] = "half"] /\ pc \in [Entries -> Places] /\ pc[e] = "opened"
  BY DEF TypeOK
<1>5. TypeOK'
  <2>1. \A i, j \in DOMAIN file' : file'[i] = file'[j] => i = j
    BY <1>1, <1>2 DEF TypeOK
  <2>. QED  BY <1>1, <1>4, <2>1 DEF TypeOK, Places
<1>6. LockInv'
  BY <1>4 DEF LockInv, Writing
<1>7. LinesAreNotMixed'
  BY <1>1 DEF LinesAreNotMixed
<1>8. UnwrittenInv' /\ HalfInv'
  BY <1>1, <1>3, <1>4 DEF UnwrittenInv, HalfInv
<1>9. WholeInv'
  BY <1>1, <1>4 DEF WholeInv, Recorded
<1>10. HeadInv'
  <2>. SUFFICES ASSUME NEW d \in Entries, NEW i \in DOMAIN file', file'[i] = <<d, "head">>
                PROVE  \/ i + 1 \in DOMAIN file' /\ file'[i + 1] = <<d, "tail">>
                       \/ pc'[d] = "half"
                       \/ Torn(d)'
    BY DEF HeadInv
  <2>1. CASE d = e
    BY <1>4, <2>1
  <2>2. CASE d # e
    <3>1. i \in DOMAIN file /\ file[i] = <<d, "head">>
      BY <1>1, <2>2
    <3>2. pc[d] # "half" /\ pc'[d] = pc[d]
      BY <1>3, <1>4, <2>2
    <3>3. CASE i + 1 \in DOMAIN file /\ file[i + 1] = <<d, "tail">>
      BY <1>1, <3>3
    <3>4. CASE Torn(d)
      <4>1. pc[d] \in {"raised", "lost"} /\ \A j \in DOMAIN file : file[j] # <<d, "tail">>
        BY <3>4 DEF Torn
      <4>2. \A j \in DOMAIN file' : file'[j] # <<d, "tail">>
        BY <1>1, <4>1
      <4>. QED  BY <3>2, <4>1, <4>2 DEF Torn
    <3>. QED  BY <3>1, <3>2, <3>3, <3>4 DEF HeadInv
  <2>. QED  BY <2>1, <2>2
<1>. QED  BY <1>5, <1>6, <1>7, <1>8, <1>9, <1>10

LEMMA WriteTailStep ==
    ASSUME FileInv, NEW e \in Entries, WriteTail(e)
    PROVE  FileInv'
<1>. USE DEF FileInv, WriteTail, Goto
<1>. DEFINE n == Len(file) + 1
<1>1. /\ file' \in Seq(Entries \X Parts)
      /\ Len(file') = n /\ n \in Nat /\ n > 0 /\ DOMAIN file = 1..(n - 1) /\ DOMAIN file' = 1..n
      /\ \A i \in DOMAIN file : i \in DOMAIN file' /\ file'[i] = file[i]
      /\ file'[n] = <<e, "tail">>
  BY Appended DEF Parts
<1>2. \A i \in DOMAIN file : file[i] # <<e, "tail">>
  BY HalfHasNoTail
<1>3. \A d \in Entries : pc[d] = "half" => d = e
  BY DEF LockInv, Writing
<1>4. pc' = [pc EXCEPT ![e] = "whole"] /\ pc \in [Entries -> Places] /\ pc[e] = "half"
  BY DEF TypeOK
<1>5. n > 1 /\ n - 1 \in DOMAIN file /\ file[n - 1] = <<e, "head">>
  BY <1>1, <1>4 DEF HalfInv
<1>6. TypeOK'
  <2>1. \A i, j \in DOMAIN file' : file'[i] = file'[j] => i = j
    BY <1>1, <1>2 DEF TypeOK
  <2>. QED  BY <1>1, <1>4, <2>1 DEF TypeOK, Places
<1>7. LockInv'
  BY <1>4 DEF LockInv, Writing
<1>8. LinesAreNotMixed'
  <2>. SUFFICES ASSUME NEW i \in DOMAIN file', file'[i][2] = "tail"
                PROVE  i > 1 /\ file'[i - 1] = <<file'[i][1], "head">>
    BY DEF LinesAreNotMixed
  <2>1. CASE i = n
    BY <1>1, <1>5, <2>1
  <2>2. CASE i \in DOMAIN file
    BY <1>1, <2>2 DEF LinesAreNotMixed
  <2>. QED  BY <1>1, <2>1, <2>2
<1>9. UnwrittenInv' /\ HalfInv'
  <2>1. UnwrittenInv'
    <3>. SUFFICES ASSUME NEW d \in Entries,
                         pc'[d] \in {"idle", "waiting", "skipped", "locked", "opened"},
                         NEW i \in DOMAIN file'
                  PROVE  file'[i][1] # d
      BY DEF UnwrittenInv
    <3>1. d # e /\ pc[d] = pc'[d]
      BY <1>4
    <3>. QED  BY <1>1, <3>1 DEF UnwrittenInv
  <2>2. HalfInv'
    BY <1>3, <1>4 DEF HalfInv
  <2>. QED  BY <2>1, <2>2
<1>10. WholeInv'
  <2>. SUFFICES ASSUME NEW d \in Entries, Recorded(d)'
                PROVE  \E i \in DOMAIN file' :
                           /\ i + 1 \in DOMAIN file'
                           /\ file'[i] = <<d, "head">> /\ file'[i + 1] = <<d, "tail">>
    BY DEF WholeInv
  <2>1. CASE d = e
    <3>1. n - 1 \in DOMAIN file' /\ (n - 1) + 1 = n /\ n \in DOMAIN file'
      BY <1>1, <1>5
    <3>. QED  BY <1>1, <1>5, <2>1, <3>1
  <2>2. CASE d # e
    <3>1. Recorded(d)
      BY <1>4, <2>2 DEF Recorded
    <3>. QED  BY <1>1, <3>1 DEF WholeInv
  <2>. QED  BY <2>1, <2>2
<1>11. HeadInv'
  <2>. SUFFICES ASSUME NEW d \in Entries, NEW i \in DOMAIN file', file'[i] = <<d, "head">>
                PROVE  \/ i + 1 \in DOMAIN file' /\ file'[i + 1] = <<d, "tail">>
                       \/ pc'[d] = "half"
                       \/ Torn(d)'
    BY DEF HeadInv
  <2>0. i \in DOMAIN file /\ file[i] = <<d, "head">>
    BY <1>1
  <2>1. CASE d = e
    <3>1. i = n - 1
      BY <1>5, <2>0, <2>1 DEF TypeOK
    <3>. QED  BY <1>1, <2>1, <3>1
  <2>2. CASE d # e
    <3>1. pc[d] # "half" /\ pc'[d] = pc[d]
      BY <1>3, <1>4, <2>2
    <3>2. CASE i + 1 \in DOMAIN file /\ file[i + 1] = <<d, "tail">>
      BY <1>1, <3>2
    <3>3. CASE Torn(d)
      <4>1. pc[d] \in {"raised", "lost"} /\ \A j \in DOMAIN file : file[j] # <<d, "tail">>
        BY <3>3 DEF Torn
      <4>2. \A j \in DOMAIN file' : file'[j] # <<d, "tail">>
        BY <1>1, <2>2, <4>1
      <4>. QED  BY <3>1, <4>1, <4>2 DEF Torn
    <3>. QED  BY <2>0, <3>1, <3>2, <3>3 DEF HeadInv
  <2>. QED  BY <2>1, <2>2
<1>. QED  BY <1>6, <1>7, <1>8, <1>9, <1>10, <1>11

LEMMA FileInvStep ==
    ASSUME FileInv, [Next]_vars
    PROVE  FileInv'
<1>1. CASE UNCHANGED vars
  <2>1. LockInv'
    BY <1>1 DEF vars, FileInv, LockInv
  <2>. QED  BY <1>1, <2>1, QuietStep DEF vars, FileInv, TypeOK, Recorded
<1>2. CASE Crash
  BY <1>2, CrashStep
<1>3. ASSUME NEW e \in Entries, Record(e) \/ Call(e) PROVE FileInv'
  BY <1>3, RecordStep, AcquireStep, OpenStep, WriteHeadStep, WriteTailStep, CloseStep, FailStep
     DEF Call
<1>. QED  BY <1>1, <1>2, <1>3 DEF Next

LEMMA FileInvHolds == Spec => []FileInv
BY FileInvInit, FileInvStep, PTL DEF Spec

-----------------------------------------------------------------------------
\* No piece is ever written twice, and every part of the state stays in its type,
\* whichever calls fail and wherever the process dies.
THEOREM JsonlTypeCorrect == Spec => []TypeOK
<1>1. FileInv => TypeOK
  BY DEF FileInv
<1>. QED  BY <1>1, FileInvHolds, PTL

\* Concurrent calls never mix their lines.
THEOREM JsonlLinesAreNotMixed == Spec => []LinesAreNotMixed
<1>1. FileInv => LinesAreNotMixed
  BY DEF FileInv
<1>. QED  BY <1>1, FileInvHolds, PTL

\* A torn line costs one other entry at the most: what was recorded and cannot be
\* read stands right behind the head of a call that ended in the middle.
THEOREM JsonlDamageIsOneLine == Spec => []DamageIsOneLine
<1>1. ASSUME FileInv PROVE DamageIsOneLine
  <2>. SUFFICES ASSUME NEW e \in Entries, Recorded(e), ~Readable(e)
                PROVE  \E i \in DOMAIN file :
                           /\ i > 1
                           /\ file[i] = <<e, "head">>
                           /\ file[i - 1][2] = "head"
                           /\ Torn(file[i - 1][1])
    BY DEF DamageIsOneLine
  <2>1. PICK i \in DOMAIN file :
            /\ i + 1 \in DOMAIN file
            /\ file[i] = <<e, "head">> /\ file[i + 1] = <<e, "tail">>
    BY <1>1 DEF FileInv, WholeInv
  <2>2. ~StartsLine(i)
    BY <2>1 DEF Readable, LineAt, EndsLine
  <2>3. i > 1 /\ i - 1 \in DOMAIN file /\ (i - 1) + 1 = i /\ i - 1 # Len(file)
    BY <1>1, <2>1, <2>2, PieceType DEF StartsLine, FileInv
  <2>4. file[i - 1][2] = "head" /\ file[i - 1][1] \in Entries
    BY <1>1, <2>2, <2>3, PieceType DEF StartsLine, EndsLine, FileInv, Parts
  <2>5. file[i - 1] = <<file[i - 1][1], "head">>
    BY <1>1, <2>3, <2>4, PieceType DEF FileInv
  <2>6. pc[file[i - 1][1]] # "half"
    <3>. SUFFICES ASSUME pc[file[i - 1][1]] = "half" PROVE FALSE
      OBVIOUS
    <3>1. Len(file) \in DOMAIN file /\ file[Len(file)] = file[i - 1]
      BY <1>1, <2>4, <2>5, PieceType DEF FileInv, HalfInv
    <3>. QED  BY <1>1, <2>3, <3>1 DEF FileInv, TypeOK
  <2>7. Torn(file[i - 1][1])
    BY <1>1, <2>1, <2>3, <2>4, <2>5, <2>6 DEF FileInv, HeadInv
  <2>. QED  BY <2>1, <2>3, <2>4, <2>7
<1>. QED  BY <1>1, FileInvHolds, PTL

\* What can be read stays readable, through later calls, failures, crashes and
\* restarts: the file is only ever appended to.
THEOREM JsonlHistoryIsKept == Spec => HistoryIsKept
<1>1. ASSUME FileInv, [Next]_vars, NEW e \in Entries, Readable(e)
      PROVE  Readable(e)'
  <2>1. CASE UNCHANGED file
    BY <1>1, <2>1 DEF Readable, LineAt, StartsLine, EndsLine
  <2>2. ASSUME NEW piece \in Entries \X Parts, file' = Append(file, piece) PROVE Readable(e)'
    <3>1. PICK i \in DOMAIN file : LineAt(e, i)
      BY <1>1 DEF Readable
    <3>2. i + 1 \in DOMAIN file /\ (i = 1 \/ i - 1 \in DOMAIN file)
      BY <1>1, <2>2, <3>1, Appended DEF LineAt, FileInv
    <3>3. i \in DOMAIN file' /\ i + 1 \in DOMAIN file'
          /\ file'[i] = file[i] /\ file'[i + 1] = file[i + 1]
          /\ (i = 1 \/ file'[i - 1] = file[i - 1])
      BY <1>1, <2>2, <3>2, Appended DEF FileInv
    <3>4. LineAt(e, i)'
      BY <3>1, <3>3 DEF LineAt, StartsLine, EndsLine
    <3>. QED  BY <3>3, <3>4 DEF Readable
  <2>3. \A d \in Entries : <<d, "head">> \in Entries \X Parts /\ <<d, "tail">> \in Entries \X Parts
    BY DEF Parts
  <2>. QED  BY <1>1, <2>1, <2>2, <2>3
            DEF Next, Call, Crash, Record, Acquire, Open, WriteHead, WriteTail, Close, Fail, vars
<1>2. FileInv /\ [Next]_vars => [\A e \in Entries : Readable(e) => Readable(e)']_vars
  BY <1>1
<1>. QED  BY <1>2, FileInvHolds, PTL DEF Spec, HistoryIsKept
=============================================================================
