----------------------------- MODULE JsonlFile -----------------------------
(***************************************************************************)
(* The file sink in detail.  record() serialises the entry to one line,    *)
(* and under the write lock opens the file for appending, writes the line  *)
(* and closes the file.  A write may fail or the process may die when only *)
(* a part of the line has reached the file; the file outlives the process, *)
(* the lock does not.                                                      *)
(***************************************************************************)
EXTENDS Integers, Sequences

CONSTANTS
    Entries,        \* one record() call each
    NoEntry,        \* nobody holds the lock
    MaxCrashes      \* bound: how often the process dies

ASSUME JsonlFileAssumption ==
    /\ NoEntry \notin Entries
    /\ MaxCrashes \in Nat

VARIABLES
    active,         \* OBSERVABILITY_JSONL_PATH is set
    file,           \* what has reached the file: pieces of lines, <<entry, part>>
    lock,           \* the entry whose record() holds _write_lock, or NoEntry
    pc,             \* where the record() call of each entry stands
    crashes         \* how often the process has died

vars == <<active, file, lock, pc, crashes>>

\* A line reaches the file in pieces; its "tail" carries the newline.
Parts == {"head", "tail"}

Places == {"idle", "waiting", "locked", "opened", "half", "whole",
           "recorded", "skipped", "raised", "lost"}

Init ==
    /\ active \in BOOLEAN
    /\ file = <<>>
    /\ lock = NoEntry
    /\ pc = [e \in Entries |-> "idle"]
    /\ crashes = 0

\* The places at which a call holds the lock.
Writing == {"locked", "opened", "half", "whole"}

Goto(e, place) == pc' = [pc EXCEPT ![e] = place]

-----------------------------------------------------------------------------
\* The multi-sink recorder calls record(): a no-op without a path.
Record(e) ==
    /\ pc[e] = "idle"
    /\ Goto(e, IF active THEN "waiting" ELSE "skipped")
    /\ UNCHANGED <<active, file, lock, crashes>>

\* Mutant: there is no lock to wait for.
AcquireFreely(e) ==
    /\ pc[e] = "waiting"
    /\ lock' = e
    /\ Goto(e, "locked")
    /\ UNCHANGED <<active, file, crashes>>

Acquire(e) ==
    /\ pc[e] = "waiting"
    /\ lock = NoEntry
    /\ lock' = e
    /\ Goto(e, "locked")
    /\ UNCHANGED <<active, file, crashes>>

\* Mutant: the file is opened with "w".
OpenTruncating(e) ==
    /\ pc[e] = "locked"
    /\ file' = <<>>
    /\ Goto(e, "opened")
    /\ UNCHANGED <<active, lock, crashes>>

\* open("a")
Open(e) ==
    /\ pc[e] = "locked"
    /\ Goto(e, "opened")
    /\ UNCHANGED <<active, file, lock, crashes>>

WriteHead(e) ==
    /\ pc[e] = "opened"
    /\ file' = Append(file, <<e, "head">>)
    /\ Goto(e, "half")
    /\ UNCHANGED <<active, lock, crashes>>

WriteTail(e) ==
    /\ pc[e] = "half"
    /\ file' = Append(file, <<e, "tail">>)
    /\ Goto(e, "whole")
    /\ UNCHANGED <<active, lock, crashes>>

\* The file is closed and the lock released.
Close(e) ==
    /\ pc[e] = "whole"
    /\ lock' = NoEntry
    /\ Goto(e, "recorded")
    /\ UNCHANGED <<active, file, crashes>>

\* Mutant: the lock is released on the way out of a successful write only.
FailHolding(e) ==
    /\ pc[e] \in Writing
    /\ Goto(e, "raised")
    /\ UNCHANGED <<active, file, lock, crashes>>

\* The file cannot be opened, the disk is full before the line or in the middle
\* of it, or closing fails: the with-block is left by an OSError.
Fail(e) ==
    /\ pc[e] \in Writing
    /\ lock' = NoEntry
    /\ Goto(e, "raised")
    /\ UNCHANGED <<active, file, crashes>>

\* The process dies, and is restarted on the same file or with other settings.
Crash ==
    /\ crashes < MaxCrashes
    /\ crashes' = crashes + 1
    /\ lock' = NoEntry
    /\ pc' = [e \in Entries |->
                IF pc[e] \in Writing \cup {"waiting"} THEN "lost" ELSE pc[e]]
    /\ active' \in BOOLEAN
    /\ UNCHANGED file

Call(e) ==
    Acquire(e) \/ Open(e) \/ WriteHead(e) \/ WriteTail(e) \/ Close(e) \/ Fail(e)

Next == Crash \/ \E e \in Entries : Record(e) \/ Call(e)

Spec == Init /\ [][Next]_vars

\* A thread takes the lock when it stays free, and the one that has it goes on.
Fairness == \A e \in Entries : WF_vars(Call(e))

FairSpec == Spec /\ Fairness

-----------------------------------------------------------------------------
TypeOK ==
    /\ active \in BOOLEAN
    /\ file \in Seq(Entries \X Parts)
    /\ \A i, j \in DOMAIN file : file[i] = file[j] => i = j
    /\ lock \in Entries \cup {NoEntry}
    /\ pc \in [Entries -> Places]
    /\ crashes \in 0..MaxCrashes

\* Mutant: the newline is forgotten.
EndsLineNever(piece) == FALSE

EndsLine(piece) == piece[2] = "tail"

\* A line starts at piece i.
StartsLine(i) == i = 1 \/ EndsLine(file[i - 1])

\* The line of e, whole and on its own, is at pieces i and i + 1.
LineAt(e, i) ==
    /\ i \in DOMAIN file /\ i + 1 \in DOMAIN file
    /\ file[i] = <<e, "head">>
    /\ file[i + 1] = <<e, "tail">>
    /\ StartsLine(i)
    /\ EndsLine(file[i + 1])

Readable(e) == \E i \in DOMAIN file : LineAt(e, i)

\* record() wrote e and returned without an error.
Recorded(e) == pc[e] \in {"whole", "recorded"}

\* The record() call of e ended in the middle of its line.
Torn(e) ==
    /\ pc[e] \in {"raised", "lost"}
    /\ <<e, "head">> \in {file[i] : i \in DOMAIN file}
    /\ <<e, "tail">> \notin {file[i] : i \in DOMAIN file}

\* Concurrent record() calls never mix their lines: the rest of a line follows
\* its beginning, whichever threads were writing.
LinesAreNotMixed ==
    \A i \in DOMAIN file :
        file[i][2] = "tail" => i > 1 /\ file[i - 1] = <<file[i][1], "head">>

\* A write that fails half-way damages one more entry at the most, the next one:
\* whatever was recorded and cannot be read stands right behind a torn line.
DamageIsOneLine ==
    \A e \in Entries :
        Recorded(e) /\ ~Readable(e) =>
            \E i \in DOMAIN file :
                /\ i > 1
                /\ file[i] = <<e, "head">>
                /\ file[i - 1][2] = "head"
                /\ Torn(file[i - 1][1])

\* "Observability history survives gateway restarts": what can be read in the
\* file stays readable, through later calls, failures, crashes and restarts.
HistoryIsKept == [][\A e \in Entries : Readable(e) => Readable(e)']_vars

\* Every record() call returns, raises or dies with the process: a failed write
\* leaves the lock to the others.
EveryCallEnds ==
    \A e \in Entries :
        pc[e] = "waiting" ~> pc[e] \in {"recorded", "raised", "lost"}
=============================================================================
