------------------------------ MODULE Rotator ------------------------------
(***************************************************************************)
(* The log files of one stream (internal/logcollect/rotator.go, opened by  *)
(* file_sink.go) on a file system: rotation takes one system call at a     *)
(* time, each of them may fail, a write may be cut short, and the process  *)
(* may die between any two.  File 0 is the active one, file n is           *)
(* "<base>.<n>.log".  The rotator's mutex makes its writes take turns.     *)
(***************************************************************************)
EXTENDS Naturals, Sequences, FiniteSets

CONSTANTS
  FileCounts,   \* values of RotatorOptions.MaxFiles
  MaxFileSize,  \* RotatorOptions.MaxSize
  MaxEntries,   \* bound on the entries written
  MaxFileFaults \* bound on failed calls and deaths of the process

ASSUME RotatorAssumption ==
  /\ FileCounts \subseteq Nat \ {0} /\ MaxFileSize \in Nat \ {0}
  /\ MaxEntries \in Nat /\ MaxFileFaults \in Nat

VARIABLES
  maxFiles,   \* opts.MaxFiles, 0 before there is a sink
  files,      \* the files that exist: their entries, the size Stat gives, and
              \* how much of that failed writes left
  rot,        \* where Write is
  rotF,       \* FileRotator.f
  rotSize,    \* FileRotator.size
  entry,      \* the entry being written
  shift,      \* the loop variable of rotateLocked
  fileFaults, \* history: failed calls and deaths
  kept,       \* history: entries whose Write returned nil, in order
  unseen      \* history: entries of files that a failing Stat hid from the loop

rotVars == <<maxFiles, files, rot, rotF, rotSize, entry, shift, fileFaults, kept, unseen>>

NoEntry == [n |-> 0, len |-> 0]

EmptyFile == [entries |-> <<>>, size |-> 0, torn |-> 0]

RotatorInit ==
  /\ maxFiles = 0 /\ files = [i \in {} |-> EmptyFile]
  /\ rot = "idle" /\ rotF = "none" /\ rotSize = 0 /\ entry = NoEntry /\ shift = 0
  /\ fileFaults = 0 /\ kept = <<>> /\ unseen = {}

NewFileSink(m) ==
  /\ maxFiles = 0
  /\ maxFiles' = m
  /\ UNCHANGED <<files, rot, rotF, rotSize, entry, shift, fileFaults, kept, unseen>>

\* The entries of file i by their numbers.
EntriesOf(i) == {files[i].entries[k].n : k \in DOMAIN files[i].entries}

\* os.Rename replaces what is there; os.OpenFile creates what is not.
Renamed(from, to) ==
  [i \in (DOMAIN files \ {from}) \cup {to} |-> IF i = to THEN files[from] ELSE files[i]]

Opened == [i \in DOMAIN files \cup {0} |-> IF i \in DOMAIN files THEN files[i] ELSE EmptyFile]

\* NewFileRotator, on the first entry of the stream.
NewFileRotator ==
  /\ maxFiles > 0 /\ rotF = "none" /\ rot = "idle"
  /\ files' = Opened
  /\ rotF' = "open"
  /\ rotSize' = Opened[0].size
  /\ UNCHANGED <<maxFiles, rot, entry, shift, fileFaults, kept, unseen>>

\* FileRotator.Write up to the rotation.  A rotator that failed to rotate
\* keeps its closed file and fails every later write.
WriteEntry(len) ==
  /\ rot = "idle" /\ rotF = "open" /\ Len(kept) < MaxEntries
  /\ entry' = [n |-> Len(kept) + 1, len |-> len]
  /\ IF rotSize + len > MaxFileSize
       THEN rot' = "shift" /\ rotF' = "closed"
       ELSE rot' = "write" /\ UNCHANGED rotF
  /\ shift' = maxFiles - 1
  /\ UNCHANGED <<maxFiles, files, rotSize, fileFaults, kept, unseen>>

\* Mutant: the files are shifted from the newest on.
BugShiftUp ==
  LET i == maxFiles - shift IN
  /\ rot = "shift" /\ shift >= 1
  /\ files' = IF i \notin DOMAIN files THEN files
              ELSE IF i + 1 >= maxFiles THEN [j \in DOMAIN files \ {i} |-> files[j]]
              ELSE Renamed(i, i + 1)
  /\ shift' = shift - 1
  /\ UNCHANGED <<maxFiles, rot, rotF, rotSize, entry, fileFaults, kept, unseen>>

\* One turn of rotateLocked's loop, from the oldest file on.
ShiftFile ==
  /\ rot = "shift" /\ shift >= 1
  /\ files' = IF shift \notin DOMAIN files THEN files
              ELSE IF shift + 1 >= maxFiles THEN [j \in DOMAIN files \ {shift} |-> files[j]]
              ELSE Renamed(shift, shift + 1)
  /\ shift' = shift - 1
  /\ UNCHANGED <<maxFiles, rot, rotF, rotSize, entry, fileFaults, kept, unseen>>

\* os.Remove fails, which is ignored, or os.Stat does, which counts as no file:
\* the file stays where it is, and the next rename replaces it.
ShiftSkips ==
  /\ rot = "shift" /\ shift >= 1 /\ shift \in DOMAIN files
  /\ fileFaults < MaxFileFaults
  /\ shift' = shift - 1
  /\ fileFaults' = fileFaults + 1
  /\ unseen' = IF shift + 1 >= maxFiles THEN unseen ELSE unseen \cup EntriesOf(shift)
  /\ UNCHANGED <<maxFiles, files, rot, rotF, rotSize, entry, kept>>

RenameActive ==
  /\ rot = "shift" /\ shift = 0
  /\ files' = Renamed(0, 1)
  /\ rot' = "reopen"
  /\ UNCHANGED <<maxFiles, rotF, rotSize, entry, shift, fileFaults, kept, unseen>>

OpenActive ==
  /\ rot = "reopen"
  /\ files' = Opened
  /\ rotF' = "open"
  /\ rotSize' = 0
  /\ rot' = "write"
  /\ UNCHANGED <<maxFiles, entry, shift, fileFaults, kept, unseen>>

\* A rename or the open fails: Write returns the error.
RotationFails ==
  /\ rot \in {"shift", "reopen"} /\ fileFaults < MaxFileFaults
  /\ rot' = "idle"
  /\ fileFaults' = fileFaults + 1
  /\ UNCHANGED <<maxFiles, files, rotF, rotSize, entry, shift, kept, unseen>>

AppendEntry ==
  /\ rot = "write"
  /\ files' = [files EXCEPT ![0] = [entries |-> Append(files[0].entries, entry),
                                   size |-> files[0].size + entry.len,
                                   torn |-> files[0].torn]]
  /\ rotSize' = rotSize + entry.len
  /\ kept' = Append(kept, entry)
  /\ rot' = "idle"
  /\ UNCHANGED <<maxFiles, rotF, entry, shift, fileFaults, unseen>>

\* The write fails after n bytes, which stay in the file and are not counted.
AppendFails(n) ==
  /\ rot = "write" /\ n < entry.len /\ fileFaults < MaxFileFaults
  /\ files' = [files EXCEPT ![0] = [entries |-> files[0].entries,
                                   size |-> files[0].size + n,
                                   torn |-> files[0].torn + n]]
  /\ rot' = "idle"
  /\ fileFaults' = fileFaults + 1
  /\ UNCHANGED <<maxFiles, rotF, rotSize, entry, shift, kept, unseen>>

\* The process ends, by Close or by dying; the next one opens the files again.
ProcessEnds ==
  /\ rotF # "none" /\ fileFaults < MaxFileFaults
  /\ rotF' = "none"
  /\ rot' = "idle"
  /\ fileFaults' = fileFaults + 1
  /\ UNCHANGED <<maxFiles, files, rotSize, entry, shift, kept, unseen>>

RotatorNext ==
  \/ \E m \in FileCounts : NewFileSink(m)
  \/ \E len \in 1 .. MaxFileSize + 1 : WriteEntry(len)
  \/ NewFileRotator \/ ShiftFile \/ ShiftSkips \/ RenameActive \/ OpenActive \/ RotationFails
  \/ AppendEntry \/ (\E n \in 0 .. MaxFileSize : AppendFails(n)) \/ ProcessEnds

RotatorSpec == RotatorInit /\ [][RotatorNext]_rotVars

-----------------------------------------------------------------------------
OnDisk == UNION {EntriesOf(i) : i \in DOMAIN files}

\* Read from the oldest file to the newest, the entries are in the order in
\* which they were written, as they were written.
FilesInOrder ==
  /\ \A i \in DOMAIN files : \A k, m \in DOMAIN files[i].entries :
       k < m => files[i].entries[k].n < files[i].entries[m].n
  /\ \A i, j \in DOMAIN files : i < j => \A a \in EntriesOf(j), b \in EntriesOf(i) : a < b
  /\ \A i \in DOMAIN files : \A k \in DOMAIN files[i].entries :
       LET e == files[i].entries[k] IN e.n \in DOMAIN kept /\ e = kept[e.n]

\* The files hold the most recent entries without a hole but for those a failing
\* Stat hid, at every step of a rotation and whenever it failed or the process
\* died inside it; as long as nothing fails, entries are given up only when
\* every file is there.
FilesKeepLatest ==
  /\ \A n \in OnDisk : n .. Len(kept) \subseteq OnDisk \cup unseen
  /\ (fileFaults = 0 /\ rot = "idle" /\ OnDisk # DOMAIN kept) => Cardinality(DOMAIN files) >= maxFiles

\* "keep at most this many files (including current)" (rotator.go:17), wherever
\* a rotation ended.
AtMostMaxFiles == Cardinality(DOMAIN files) <= maxFiles

\* That holds for every MaxFiles but one.
FilesBounded == maxFiles # 1 => AtMostMaxFiles

\* A file is within MaxSize, what failed writes left in it apart, unless it is a
\* single entry that is larger than that.
FilesSized ==
  \A i \in DOMAIN files :
    files[i].size <= MaxFileSize + files[i].torn \/ Len(files[i].entries) = 1

\* Log files through rotations, their failures and restarts: the most recent
\* entries, in order, in files of bounded number and size.
FilesAreSound == FilesInOrder /\ FilesKeepLatest /\ FilesBounded /\ FilesSized
=============================================================================
