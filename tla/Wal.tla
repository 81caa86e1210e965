--------------------------------- MODULE Wal ---------------------------------
(***************************************************************************)
(* The write-ahead log of one outbox (internal/ipc/wal.go) on a file       *)
(* system, under write errors and crashes of the process.  The log's mutex *)
(* makes its operations take turns, so only a crash falls between the      *)
(* steps of one.  A record is two cells, its header and its payload; a     *)
(* write that is cut short leaves a header without its payload.            *)
(*                                                                         *)
(* Every Open belongs to a new Conn, whose numbers start again at one      *)
(* while the file keeps what earlier ones left: a record is its number and *)
(* the Open it was written under.                                          *)
(***************************************************************************)
EXTENDS Naturals, Sequences, FiniteSets

CONSTANTS
  SizeCap,   \* WAL.sizeCap, in cells
  MaxSeq,    \* bound: numbers a Conn hands out
  MaxOpens,  \* bound: times the log is opened
  MaxFaults  \* bound: system calls that fail

ASSUME WalAssumption ==
  SizeCap \in Nat /\ MaxSeq \in Nat /\ MaxOpens \in Nat /\ MaxFaults \in Nat

VARIABLES
  file,     \* the cells of the file at WAL.path
  tmp,      \* those of the file beside it that Retire writes
  fd,       \* what WAL.f refers to
  sticky,   \* WAL.bw holds a write error
  curBytes, \* WAL.curBytes
  pc,       \* where the running operation is
  arg,      \* its record, or the number Retire was given
  lastSeq   \* the last number handed out

\* What happened so far; no step of the program reads these.
VARIABLES
  opens,    \* times the log was opened
  faults,   \* system calls that failed
  uncounted,\* records whose fsync failed since the log was opened
  stored,   \* records whose Append returned nil and that no Retire covered
  cut       \* some record was written only in part

walVars == <<file, tmp, fd, sticky, curBytes, pc, arg, lastSeq, opens, faults, uncounted, stored, cut>>

NoRecord == [open |-> 0, seq |-> 0]

WalInit ==
  /\ file = <<>> /\ tmp = <<>> /\ fd = "none" /\ sticky = FALSE /\ curBytes = 0
  /\ pc = "idle" /\ arg = NoRecord /\ lastSeq = 0
  /\ opens = 0 /\ faults = 0 /\ uncounted = 0 /\ stored = {} /\ cut = FALSE

Header(r) == [rec |-> r, part |-> "header"]
Payload(r) == [rec |-> r, part |-> "payload"]

-----------------------------------------------------------------------------
(* What readAllLocked makes of a file *)

\* Records follow each other, each a header and the cell after it.
Readable(cells) ==
  /\ Len(cells) % 2 = 0
  /\ \A i \in DOMAIN cells : i % 2 = 1 => cells[i].part = "header"

Pairs(cells) == [i \in 1..(Len(cells) \div 2) |-> <<cells[2 * i - 1], cells[2 * i]>>]

Flat(pairs) ==
  [j \in 1..(2 * Len(pairs)) |-> pairs[(j + 1) \div 2][IF j % 2 = 1 THEN 1 ELSE 2]]

\* The n-th member of a set of numbers, in order.
Nth(S, n) == CHOOSE i \in S : Cardinality({j \in S : j <= i}) = n

\* The cells Retire keeps: those of the records above the acked one.
Kept(cells, acked) ==
  LET above == {i \in DOMAIN Pairs(cells) : Pairs(cells)[i][1].rec.seq > acked}
  IN  Flat([n \in 1..Cardinality(above) |-> Pairs(cells)[Nth(above, n)]])

\* The records a reader finds, their payloads being their own.
Found(cells) ==
  {Pairs(cells)[i][1].rec :
     i \in {k \in DOMAIN Pairs(cells) : Pairs(cells)[k][2] = Payload(Pairs(cells)[k][1].rec)}}

-----------------------------------------------------------------------------
OpenWAL ==
  /\ fd = "none" /\ opens < MaxOpens
  /\ fd' = "path"
  /\ sticky' = FALSE
  /\ curBytes' = Len(file)
  /\ lastSeq' = 0
  /\ opens' = opens + 1
  /\ uncounted' = 0
  /\ UNCHANGED <<file, tmp, pc, arg, faults, stored, cut>>

Fits == curBytes + 2 <= SizeCap

\* A new number.  The frame is refused when the cap would be exceeded, and when
\* the buffered writer still holds an error.
AppendBegin ==
  /\ fd \in {"path", "bad"} /\ pc = "idle" /\ lastSeq < MaxSeq
  /\ lastSeq' = lastSeq + 1
  /\ IF Fits /\ ~sticky
     THEN pc' = "header" /\ arg' = [open |-> opens, seq |-> lastSeq + 1]
     ELSE UNCHANGED <<pc, arg>>
  /\ UNCHANGED <<file, tmp, fd, sticky, curBytes, opens, faults, uncounted, stored, cut>>

\* Flush, in two parts; the file is opened for appending.
AppendHeader ==
  /\ pc = "header" /\ fd = "path"
  /\ pc' = "payload"
  /\ file' = Append(file, Header(arg))
  /\ UNCHANGED <<tmp, fd, sticky, curBytes, arg, lastSeq, opens, faults, uncounted, stored, cut>>

AppendPayload ==
  /\ pc = "payload"
  /\ pc' = "sync"
  /\ file' = Append(file, Payload(arg))
  /\ UNCHANGED <<tmp, fd, sticky, curBytes, arg, lastSeq, opens, faults, uncounted, stored, cut>>

\* Mutant: the size is not brought up to date.
BugNoCount ==
  /\ pc = "sync"
  /\ pc' = "idle" /\ arg' = NoRecord
  /\ stored' = stored \cup {arg}
  /\ UNCHANGED <<file, tmp, fd, sticky, curBytes, lastSeq, opens, faults, uncounted, cut>>

AppendSync ==
  /\ pc = "sync"
  /\ pc' = "idle" /\ arg' = NoRecord
  /\ curBytes' = curBytes + 2
  /\ stored' = stored \cup {arg}
  /\ UNCHANGED <<file, tmp, fd, sticky, lastSeq, opens, faults, uncounted, cut>>

\* A failed Flush leaves its error in the writer; on a file that is no longer
\* open it always fails.
FlushFails ==
  /\ pc \in {"header", "payload"}
  /\ fd = "bad" \/ faults < MaxFaults
  /\ faults' = IF fd = "bad" THEN faults ELSE faults + 1
  /\ sticky' = TRUE
  /\ cut' = (cut \/ pc = "payload")
  /\ pc' = "idle" /\ arg' = NoRecord
  /\ UNCHANGED <<file, tmp, fd, curBytes, lastSeq, opens, uncounted, stored>>

\* A failed Sync leaves the record in the file, reported as not stored.
SyncFails ==
  /\ pc = "sync" /\ faults < MaxFaults
  /\ faults' = faults + 1
  /\ uncounted' = uncounted + 1
  /\ pc' = "idle" /\ arg' = NoRecord
  /\ UNCHANGED <<file, tmp, fd, sticky, curBytes, lastSeq, opens, stored, cut>>

\* Reading replaces the buffered writer, error and all, when it succeeds.
Replay ==
  /\ fd = "path" /\ pc = "idle" /\ Readable(file)
  /\ sticky' = FALSE
  /\ UNCHANGED <<file, tmp, fd, curBytes, pc, arg, lastSeq, opens, faults, uncounted, stored, cut>>

\* Retire reads the log, which must be readable, and writes what it keeps beside it.
RetireBegin ==
  /\ fd = "path" /\ pc = "idle" /\ Readable(file)
  /\ sticky' = FALSE
  /\ \E acked \in 1..lastSeq : arg' = [open |-> opens, seq |-> acked]
  /\ stored' = {r \in stored : r.seq > arg'.seq}
  /\ pc' = "write"
  /\ UNCHANGED <<file, tmp, fd, curBytes, lastSeq, opens, faults, uncounted, cut>>

RetireWrite ==
  /\ pc = "write"
  /\ tmp' = Kept(file, arg.seq)
  /\ pc' = "rename"
  /\ UNCHANGED <<file, fd, sticky, curBytes, arg, lastSeq, opens, faults, uncounted, stored, cut>>

\* An error up to the rename leaves the log as it is.
RetireFails ==
  /\ pc \in {"write", "rename"} /\ faults < MaxFaults
  /\ faults' = faults + 1
  /\ pc' = "idle" /\ arg' = NoRecord
  /\ UNCHANGED <<file, tmp, fd, sticky, curBytes, lastSeq, opens, uncounted, stored, cut>>

\* Mutant: the old file is emptied before the new one takes its place.
BugTruncateFirst ==
  /\ pc = "rename"
  /\ file' = <<>>
  /\ pc' = "reopen"
  /\ UNCHANGED <<tmp, fd, sticky, curBytes, arg, lastSeq, opens, faults, uncounted, stored, cut>>

\* os.Rename; the open descriptor is left with the unlinked file.
RetireRename ==
  /\ pc = "rename"
  /\ file' = tmp
  /\ tmp' = <<>>
  /\ fd' = "unlinked"
  /\ pc' = "reopen"
  /\ UNCHANGED <<sticky, curBytes, arg, lastSeq, opens, faults, uncounted, stored, cut>>

RetireReopen ==
  /\ pc = "reopen"
  /\ fd' = "path"
  /\ curBytes' = Len(file)
  /\ uncounted' = 0
  /\ pc' = "idle" /\ arg' = NoRecord
  /\ UNCHANGED <<file, tmp, sticky, lastSeq, opens, faults, stored, cut>>

\* The file cannot be opened again: the log keeps a closed descriptor.
ReopenFails ==
  /\ pc = "reopen" /\ faults < MaxFaults
  /\ faults' = faults + 1
  /\ fd' = "bad"
  /\ pc' = "idle" /\ arg' = NoRecord
  /\ UNCHANGED <<file, tmp, sticky, curBytes, lastSeq, opens, uncounted, stored, cut>>

\* Close gives up on a writer that holds an error.
Close ==
  /\ fd \in {"path", "bad"} /\ pc = "idle" /\ ~sticky
  /\ fd' = "none"
  /\ UNCHANGED <<file, tmp, sticky, curBytes, pc, arg, lastSeq, opens, faults, uncounted, stored, cut>>

\* The process dies, between two steps of an operation or in one.
Crash ==
  /\ fd # "none"
  /\ fd' = "none"
  /\ cut' = (cut \/ pc = "payload")
  /\ pc' = "idle" /\ arg' = NoRecord
  /\ UNCHANGED <<file, tmp, sticky, curBytes, lastSeq, opens, faults, uncounted, stored>>

WalNext ==
  \/ OpenWAL \/ AppendBegin \/ AppendHeader \/ AppendPayload \/ AppendSync \/ FlushFails
  \/ SyncFails \/ Replay \/ RetireBegin \/ RetireWrite \/ RetireFails \/ RetireRename
  \/ RetireReopen \/ ReopenFails \/ Close \/ Crash

WalSpec == WalInit /\ [][WalNext]_walVars

-----------------------------------------------------------------------------
(* Properties *)

WholeIn(r, cells) ==
  \E i \in 1..(Len(cells) - 1) : cells[i] = Header(r) /\ cells[i + 1] = Payload(r)

\* A record whose Append returned nil is whole in the file at path until a
\* Retire covers it: through write errors, crashes and every step of Retire
\* ("the file at w.path is always valid even if the process crashes mid-Retire").
StoredIsOnDisk == \A r \in stored : WholeIn(r, file)

\* As long as no record was written in part, a reader finds every stored record.
UncutIsReadable == ~cut /\ pc # "payload" => Readable(file) /\ stored \subseteq Found(file)

\* What Append acknowledged survives: whole in the file through every failure
\* and crash, and found by Replay unless a torn record lies in the file.
StoredSurvives == StoredIsOnDisk /\ UncutIsReadable

\* The size the cap is compared with is the file's, but for the records whose
\* fsync failed, as long as no record was written in part.
SizeIsHonest ==
  fd = "path" /\ pc = "idle" /\ ~cut => Len(file) = curBytes + 2 * uncounted

\* The file outgrows its cap by at most a record for each failed system call.
WithinCap == Len(file) <= SizeCap + 2 * faults

\* The cap of Append holds, though the size it is compared with is kept by hand
\* through failed writes, Retire and the reopening of a predecessor's log.
CapHolds == SizeIsHonest /\ WithinCap
=============================================================================
