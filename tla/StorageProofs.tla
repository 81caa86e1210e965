---------------------------- MODULE StorageProofs ----------------------------
(***************************************************************************)
(* What outlives a write: the write-ahead log of a Conn, the log files and *)
(* the rings that hold recent output, for all values of their constants.   *)
(***************************************************************************)
EXTENDS Wal, Rotator, Rings, FiniteSetTheorems, TLAPS

-----------------------------------------------------------------------------
(* The write-ahead log *)

\* Nth counts through a set of numbers: each of its members has one place.
LEMMA NthCounts ==
  ASSUME NEW top \in Nat, NEW S \in SUBSET (1 .. top)
  PROVE  /\ Cardinality(S) \in Nat /\ Cardinality(S) <= top
         /\ \A n \in 1 .. Cardinality(S) : Nth(S, n) \in S
         /\ \A i \in S : \E n \in 1 .. Cardinality(S) : Nth(S, n) = i
<1> DEFINE upTo(i) == {j \in S : j <= i}
           rank == [i \in S |-> Cardinality(upTo(i))]
           total == Cardinality(S)
           places == 1 .. total
<1>1. IsFiniteSet(S) /\ total \in Nat /\ total <= top
  <2>1. IsFiniteSet(1 .. top) /\ Cardinality(1 .. top) = top
    BY FS_Interval
  <2> QED
    BY Zenon, <2>1, FS_Subset, FS_CardinalityType
<1>2. IsFiniteSet(places) /\ Cardinality(places) = total
  BY <1>1, FS_Interval
<1>3. ASSUME NEW i \in S PROVE /\ IsFiniteSet(upTo(i)) /\ Cardinality(upTo(i)) \in places
                               /\ i \in upTo(i)
  <2>1. upTo(i) \in SUBSET S /\ i \in upTo(i)
    OBVIOUS
  <2>2. IsFiniteSet(upTo(i)) /\ Cardinality(upTo(i)) <= total /\ Cardinality(upTo(i)) \in Nat
    BY Zenon, <1>1, <2>1, FS_Subset, FS_CardinalityType
  <2>3. Cardinality(upTo(i)) # 0
    BY Zenon, <2>1, <2>2, FS_EmptySet
  <2> QED
    BY <1>1, <2>1, <2>2, <2>3
<1>4. ASSUME NEW i \in S, NEW k \in S, i < k PROVE Cardinality(upTo(i)) # Cardinality(upTo(k))
  <2>0. (\A j \in S : j <= i => j <= k) /\ ~(k <= i)
    BY <1>4
  <2>1. upTo(i) \in SUBSET upTo(k) /\ k \notin upTo(i)
    BY Zenon, <2>0
  <2>2. upTo(i) # upTo(k)
    BY Zenon, <1>3, <2>1
  <2> QED
    BY Zenon, <1>3, <2>1, <2>2, FS_Subset
<1>5. ASSUME NEW i \in S, NEW k \in S, Cardinality(upTo(i)) = Cardinality(upTo(k)) PROVE i = k
  <2>1. i < k \/ k < i \/ i = k
    OBVIOUS
  <2> QED
    BY Zenon, <1>4, <1>5, <2>1
<1>6. rank \in Injection(S, places)
  BY Zenon, <1>3, <1>5 DEF Injection, IsInjective
<1>7. rank \in Surjection(S, places)
  BY Zenon, <1>2, <1>6, FS_Injection
<1>8. ASSUME NEW n \in places PROVE Nth(S, n) \in S /\ Cardinality(upTo(Nth(S, n))) = n
  <2>1. \E i \in S : Cardinality(upTo(i)) = n
    BY Zenon, <1>7 DEF Surjection
  <2> QED
    BY Zenon, <2>1 DEF Nth
<1>9. ASSUME NEW i \in S PROVE \E n \in places : Nth(S, n) = i
  BY Zenon, <1>3, <1>5, <1>8
<1> QED
  BY Zenon, <1>1, <1>8, <1>9

Records == [open : Nat, seq : Nat]
Cells == [rec : Records, part : {"header", "payload"}]

\* In a readable file a whole record is one of the pairs a reader makes.
LEMMA WholeIsPair ==
  ASSUME NEW cells \in Seq(Cells), Readable(cells), NEW r \in Records, WholeIn(r, cells)
  PROVE  \E k \in DOMAIN Pairs(cells) : Pairs(cells)[k] = <<Header(r), Payload(r)>>
<1>1. PICK i \in 1 .. Len(cells) - 1 : cells[i] = Header(r) /\ cells[i + 1] = Payload(r)
  BY Zenon DEF WholeIn
<1>2. Len(cells) \in Nat /\ i \in Nat /\ i + 1 \in DOMAIN cells /\ DOMAIN cells = 1 .. Len(cells)
  OBVIOUS
<1>3. Payload(r).part # "header"
  BY DEF Payload
<1>4. ~((i + 1) % 2 = 1) /\ Len(cells) % 2 = 0
  BY Zenon, <1>1, <1>2, <1>3 DEF Readable
<1> DEFINE k == (i + 1) \div 2
<1>5. k \in 1 .. (Len(cells) \div 2) /\ 2 * k - 1 = i /\ 2 * k = i + 1
  BY <1>2, <1>4
<1> HIDE DEF k
<1>6. DOMAIN Pairs(cells) = 1 .. (Len(cells) \div 2) /\ Pairs(cells)[k] = <<cells[2 * k - 1], cells[2 * k]>>
  BY Zenon, <1>5 DEF Pairs
<1> QED
  BY Zenon, <1>1, <1>5, <1>6

\* The pairs of a readable file start with a header.
LEMMA PairsOfReadable ==
  ASSUME NEW cells \in Seq(Cells), Readable(cells)
  PROVE  /\ Len(cells) \div 2 \in Nat /\ Len(cells) = 2 * (Len(cells) \div 2)
         /\ DOMAIN Pairs(cells) = 1 .. (Len(cells) \div 2)
         /\ \A k \in DOMAIN Pairs(cells) :
              /\ Pairs(cells)[k] = <<cells[2 * k - 1], cells[2 * k]>>
              /\ cells[2 * k - 1] \in Cells /\ cells[2 * k] \in Cells
              /\ cells[2 * k - 1].part = "header"
<1>1. Len(cells) \in Nat /\ DOMAIN cells = 1 .. Len(cells) /\ \A i \in DOMAIN cells : cells[i] \in Cells
  OBVIOUS
<1>2. Len(cells) % 2 = 0 /\ \A i \in DOMAIN cells : i % 2 = 1 => cells[i].part = "header"
  BY Zenon DEF Readable
<1>3. Len(cells) \div 2 \in Nat /\ Len(cells) = 2 * (Len(cells) \div 2)
  <2>1. \A n \in Nat : n % 2 = 0 => (n \div 2) \in Nat /\ n = 2 * (n \div 2)
    OBVIOUS
  <2> QED
    BY Zenon, <1>1, <1>2, <2>1
<1>4. /\ DOMAIN Pairs(cells) = 1 .. (Len(cells) \div 2)
      /\ \A k \in 1 .. (Len(cells) \div 2) : Pairs(cells)[k] = <<cells[2 * k - 1], cells[2 * k]>>
  BY Zenon DEF Pairs
<1>5. ASSUME NEW k \in 1 .. (Len(cells) \div 2)
      PROVE  2 * k - 1 \in DOMAIN cells /\ 2 * k \in DOMAIN cells /\ (2 * k - 1) % 2 = 1
  BY <1>1, <1>3
<1> QED
  BY Zenon, <1>1, <1>2, <1>3, <1>4, <1>5

\* Pairs written one after the other: a file whose pairs they are.
LEMMA FlatPairs ==
  ASSUME NEW n \in Nat, NEW pairs \in [1 .. n -> Cells \X Cells],
         \A k \in 1 .. n : pairs[k][1].part = "header"
  PROVE  /\ Flat(pairs) \in Seq(Cells) /\ Len(Flat(pairs)) = 2 * n /\ Readable(Flat(pairs))
         /\ \A k \in 1 .. n : Flat(pairs)[2 * k - 1] = pairs[k][1] /\ Flat(pairs)[2 * k] = pairs[k][2]
<1> DEFINE flat == Flat(pairs)
<1>1. Len(pairs) = n
  <2>1. pairs \in Seq(Cells \X Cells) /\ DOMAIN pairs = 1 .. n
    OBVIOUS
  <2> QED
    BY <2>1
<1>2. flat = [j \in 1 .. 2 * n |-> pairs[(j + 1) \div 2][IF j % 2 = 1 THEN 1 ELSE 2]]
  BY Zenon, <1>1 DEF Flat
<1>3. ASSUME NEW j \in 1 .. 2 * n
      PROVE  flat[j] = IF j % 2 = 1 THEN pairs[(j + 1) \div 2][1] ELSE pairs[(j + 1) \div 2][2]
  BY Zenon, <1>2
<1>4. ASSUME NEW j \in 1 .. 2 * n
      PROVE  flat[j] \in Cells /\ (j % 2 = 1 => flat[j].part = "header")
  <2>1. (j + 1) \div 2 \in 1 .. n
    OBVIOUS
  <2>2. pairs[(j + 1) \div 2][1] \in Cells /\ pairs[(j + 1) \div 2][2] \in Cells
    <3>1. pairs[(j + 1) \div 2] \in Cells \X Cells
      BY Zenon, <2>1
    <3> QED
      BY <3>1
  <2> QED
    BY Zenon, <1>3, <2>1, <2>2
<1>5. flat \in Seq(Cells) /\ Len(flat) = 2 * n /\ DOMAIN flat = 1 .. 2 * n
  <2>1. flat \in [1 .. 2 * n -> Cells]
    BY Zenon, <1>2, <1>4
  <2> HIDE DEF flat
  <2> QED
    BY <2>1
<1>6. Readable(flat)
  <2>1. Len(flat) % 2 = 0
    <3> HIDE DEF flat
    <3> QED
      BY <1>5
  <2> QED
    BY Zenon, <1>4, <1>5, <2>1 DEF Readable
<1>7. ASSUME NEW k \in 1 .. n PROVE flat[2 * k - 1] = pairs[k][1] /\ flat[2 * k] = pairs[k][2]
  <2>1. /\ 2 * k - 1 \in 1 .. 2 * n /\ (2 * k - 1) % 2 = 1 /\ ((2 * k - 1) + 1) \div 2 = k
        /\ 2 * k \in 1 .. 2 * n /\ ~((2 * k) % 2 = 1) /\ (2 * k + 1) \div 2 = k
    OBVIOUS
  <2> HIDE DEF flat
  <2> QED
    BY Zenon, <1>3, <2>1
<1> QED
  BY Zenon, <1>5, <1>6, <1>7

\* What Retire writes of a readable file is readable, no longer, and has every
\* whole record above the acked one.
LEMMA KeptKeeps ==
  ASSUME NEW cells \in Seq(Cells), Readable(cells), NEW acked \in Nat
  PROVE  /\ Kept(cells, acked) \in Seq(Cells) /\ Len(Kept(cells, acked)) <= Len(cells)
         /\ Readable(Kept(cells, acked))
         /\ \A r \in Records : WholeIn(r, cells) /\ r.seq > acked => WholeIn(r, Kept(cells, acked))
<1> DEFINE top == Len(cells) \div 2
           above == {i \in DOMAIN Pairs(cells) : Pairs(cells)[i][1].rec.seq > acked}
           total == Cardinality(above)
           pairs == [n \in 1 .. total |-> Pairs(cells)[Nth(above, n)]]
           rest == Flat(pairs)
<1>1. /\ top \in Nat /\ Len(cells) = 2 * top /\ DOMAIN Pairs(cells) = 1 .. top
      /\ \A k \in 1 .. top : /\ Pairs(cells)[k] = <<cells[2 * k - 1], cells[2 * k]>>
                             /\ cells[2 * k - 1] \in Cells /\ cells[2 * k] \in Cells
                             /\ cells[2 * k - 1].part = "header"
  BY Zenon, PairsOfReadable
<1>2. above \in SUBSET (1 .. top)
  BY Zenon, <1>1
<1>3. Kept(cells, acked) = rest
  BY Zenon DEF Kept
<1>4. \A r \in Records : WholeIn(r, cells) /\ r.seq > acked =>
        \E k \in above : Pairs(cells)[k] = <<Header(r), Payload(r)>>
  <2> SUFFICES ASSUME NEW r \in Records, WholeIn(r, cells), r.seq > acked
               PROVE  \E k \in above : Pairs(cells)[k] = <<Header(r), Payload(r)>>
    BY Zenon
  <2>1. PICK k \in DOMAIN Pairs(cells) : Pairs(cells)[k] = <<Header(r), Payload(r)>>
    BY Zenon, WholeIsPair
  <2>2. <<Header(r), Payload(r)>>[1].rec.seq > acked
    BY DEF Header
  <2> QED
    BY Zenon, <2>1, <2>2
<1> HIDE DEF above, top
<1>5. /\ total \in Nat /\ total <= top /\ \A n \in 1 .. total : Nth(above, n) \in above
      /\ \A i \in above : \E n \in 1 .. total : Nth(above, n) = i
  BY Zenon, <1>1, <1>2, NthCounts
<1> HIDE DEF total
<1>6. /\ pairs \in [1 .. total -> Cells \X Cells]
      /\ \A n \in 1 .. total : pairs[n] = Pairs(cells)[Nth(above, n)] /\ pairs[n][1].part = "header"
  <2>1. ASSUME NEW k \in 1 .. top
        PROVE  Pairs(cells)[k] \in Cells \X Cells /\ Pairs(cells)[k][1].part = "header"
    <3> DEFINE a == cells[2 * k - 1]
               b == cells[2 * k]
    <3>1. Pairs(cells)[k] = <<a, b>> /\ a \in Cells /\ b \in Cells /\ a.part = "header"
      BY Zenon, <1>1
    <3> HIDE DEF a, b
    <3>2. <<a, b>>[1] = a /\ <<a, b>> \in Cells \X Cells
      BY <3>1
    <3> QED
      BY Zenon, <3>1, <3>2
  <2> QED
    BY Zenon, <1>2, <1>5, <2>1
<1> HIDE DEF pairs
<1>7. /\ rest \in Seq(Cells) /\ Len(rest) = 2 * total /\ Readable(rest)
      /\ \A n \in 1 .. total : rest[2 * n - 1] = pairs[n][1] /\ rest[2 * n] = pairs[n][2]
  BY Zenon, <1>5, <1>6, FlatPairs
<1> HIDE DEF rest
<1>8. Len(rest) <= Len(cells)
  BY <1>1, <1>5, <1>7
<1>9. ASSUME NEW r \in Records, WholeIn(r, cells), r.seq > acked
      PROVE  WholeIn(r, rest)
  <2>1. PICK k \in above : Pairs(cells)[k] = <<Header(r), Payload(r)>>
    BY Zenon, <1>4, <1>9
  <2>2. PICK n \in 1 .. total : Nth(above, n) = k
    BY Zenon, <1>5
  <2>3. pairs[n] = <<Header(r), Payload(r)>>
    BY Zenon, <1>6, <2>1, <2>2
  <2>4. pairs[n][1] = Header(r) /\ pairs[n][2] = Payload(r)
    BY <2>3
  <2>5. 2 * n - 1 \in 1 .. Len(rest) - 1 /\ (2 * n - 1) + 1 = 2 * n
    BY <1>5, <1>7
  <2> QED
    BY Zenon, <1>7, <2>4, <2>5 DEF WholeIn
<1> QED
  BY Zenon, <1>3, <1>7, <1>8, <1>9

\* A cell at the end of a file leaves what was whole, and a payload after its
\* header makes a whole record.
LEMMA CellAppended ==
  ASSUME NEW cells \in Seq(Cells), NEW c \in Cells
  PROVE  /\ Append(cells, c) \in Seq(Cells) /\ Len(Append(cells, c)) = Len(cells) + 1 /\ Len(cells) \in Nat
         /\ Append(cells, c)[Len(cells) + 1] = c
         /\ \A r : WholeIn(r, cells) => WholeIn(r, Append(cells, c))
         /\ \A r : Len(cells) > 0 /\ cells[Len(cells)] = Header(r) /\ c = Payload(r) => WholeIn(r, Append(cells, c))
<1>1. /\ Append(cells, c) \in Seq(Cells) /\ Len(Append(cells, c)) = Len(cells) + 1 /\ Len(cells) \in Nat
      /\ \A i \in 1 .. Len(cells) : Append(cells, c)[i] = cells[i]
      /\ Append(cells, c)[Len(cells) + 1] = c
      /\ DOMAIN cells = 1 .. Len(cells) /\ DOMAIN Append(cells, c) = 1 .. Len(cells) + 1
  OBVIOUS
<1>2. ASSUME NEW r, WholeIn(r, cells) PROVE WholeIn(r, Append(cells, c))
  <2>1. PICK i \in 1 .. Len(cells) - 1 : cells[i] = Header(r) /\ cells[i + 1] = Payload(r)
    BY Zenon, <1>2 DEF WholeIn
  <2>2. i \in 1 .. Len(cells) /\ i + 1 \in 1 .. Len(cells) /\ i \in 1 .. (Len(cells) + 1) - 1
    BY <1>1
  <2> QED
    BY Zenon, <1>1, <2>1, <2>2 DEF WholeIn
<1>3. ASSUME NEW r, Len(cells) > 0, cells[Len(cells)] = Header(r), c = Payload(r)
      PROVE  WholeIn(r, Append(cells, c))
  <2>1. Len(cells) \in 1 .. Len(cells) /\ Len(cells) \in 1 .. (Len(cells) + 1) - 1
    BY <1>1, <1>3
  <2> QED
    BY Zenon, <1>1, <1>3, <2>1 DEF WholeIn
<1> QED
  BY Zenon, <1>1, <1>2, <1>3

WalTypes ==
  /\ file \in Seq(Cells) /\ tmp \in Seq(Cells) /\ arg \in Records /\ stored \subseteq Records
  /\ fd \in {"none", "path", "bad", "unlinked"}
  /\ pc \in {"idle", "header", "payload", "sync", "write", "rename", "reopen"}
  /\ curBytes \in Nat /\ lastSeq \in Nat /\ opens \in Nat /\ faults \in Nat /\ uncounted \in Nat
  /\ cut \in BOOLEAN

\* An operation runs on an open log, and past its first step on the file at path.
PhaseInv ==
  /\ pc # "idle" => fd # "none"
  /\ pc \in {"payload", "sync", "write", "rename"} => fd = "path"
  /\ pc = "header" => fd \in {"path", "bad"}
  /\ pc = "reopen" <=> fd = "unlinked"

Aligned(cells) == \A i \in DOMAIN cells : i % 2 = 1 => cells[i].part = "header"

\* What is in the file at path, and beside it, at every step of Append and
\* Retire.
DiskInv ==
  /\ StoredIsOnDisk
  /\ pc = "payload" => Len(file) > 0 /\ file[Len(file)] = Header(arg)
  /\ pc = "sync" => WholeIn(arg, file)
  /\ pc \in {"write", "rename"} => Readable(file) /\ \A r \in stored : r.seq > arg.seq
  /\ pc = "rename" => Readable(tmp) /\ Len(tmp) <= Len(file) /\ \A r \in stored : WholeIn(r, tmp)
  /\ ~cut => Aligned(file) /\ Len(file) % 2 = IF pc = "payload" THEN 1 ELSE 0

\* The cells the running Append has written.
Written == IF pc = "payload" THEN 1 ELSE IF pc = "sync" THEN 2 ELSE 0

\* The size kept by hand against the size of the file.
SizeInv ==
  /\ ~cut /\ fd = "path" => Len(file) = curBytes + 2 * uncounted + Written
  /\ fd # "none" => Len(file) <= curBytes + 2 * faults + Written
  /\ pc \in {"header", "payload", "sync"} => curBytes + 2 <= SizeCap
  /\ WithinCap

WalInv == WalTypes /\ PhaseInv /\ DiskInv /\ SizeInv

\* Where the log and its running operation can be.
LEMMA WalPhase ==
  ASSUME WalTypes, PhaseInv, [WalNext]_walVars
  PROVE  PhaseInv'
<1> USE DEF WalTypes, PhaseInv
<1>1. CASE UNCHANGED walVars
  BY <1>1 DEF walVars
<1>2. CASE OpenWAL \/ AppendBegin \/ AppendHeader \/ AppendPayload
  BY <1>2 DEF OpenWAL, AppendBegin, AppendHeader, AppendPayload
<1>3. CASE AppendSync \/ FlushFails \/ SyncFails \/ Replay
  BY <1>3 DEF AppendSync, FlushFails, SyncFails, Replay
<1>4. CASE RetireBegin \/ RetireWrite \/ RetireFails \/ RetireRename
  BY <1>4 DEF RetireBegin, RetireWrite, RetireFails, RetireRename
<1>5. CASE RetireReopen \/ ReopenFails \/ Close \/ Crash
  BY <1>5 DEF RetireReopen, ReopenFails, Close, Crash
<1> QED
  BY Zenon, <1>1, <1>2, <1>3, <1>4, <1>5 DEF WalNext

\* The types of the log.
LEMMA WalTyped ==
  ASSUME WalTypes, PhaseInv, DiskInv, [WalNext]_walVars
  PROVE  WalTypes'
<1>0. NoRecord \in Records
  BY DEF NoRecord, Records
<1>1. Header(arg) \in Cells /\ Payload(arg) \in Cells
  BY DEF WalTypes, Header, Payload, Cells
<1>2. cut' \in BOOLEAN
  BY Zenon
  DEF WalTypes, WalNext, walVars, OpenWAL, AppendBegin, AppendHeader, AppendPayload, AppendSync, FlushFails,
      SyncFails, Replay, RetireBegin, RetireWrite, RetireFails, RetireRename, RetireReopen, ReopenFails,
      Close, Crash
<1>3. file' \in Seq(Cells) /\ tmp' \in Seq(Cells)
  <2>1. CASE AppendHeader
    BY Zenon, <1>1, <2>1, CellAppended DEF AppendHeader, WalTypes
  <2>2. CASE AppendPayload
    BY Zenon, <1>1, <2>2, CellAppended DEF AppendPayload, WalTypes
  <2>3. CASE RetireWrite
    <3>1. Readable(file) /\ arg.seq \in Nat
      BY <2>3 DEF RetireWrite, DiskInv, WalTypes, Records
    <3> QED
      BY Zenon, <2>3, <3>1, KeptKeeps DEF RetireWrite, WalTypes
  <2>4. CASE RetireRename
    <3>1. <<>> \in Seq(Cells)
      OBVIOUS
    <3> QED
      BY Zenon, <2>4, <3>1 DEF RetireRename, WalTypes
  <2>5. CASE UNCHANGED <<file, tmp>>
    BY Zenon, <2>5 DEF WalTypes
  <2> QED
    BY Zenon, <2>1, <2>2, <2>3, <2>4, <2>5
    DEF WalNext, walVars, OpenWAL, AppendBegin, AppendSync, FlushFails, SyncFails, Replay, RetireBegin,
        RetireFails, RetireReopen, ReopenFails, Close, Crash
<1>4. arg' \in Records /\ stored' \subseteq Records
  <2>1. CASE AppendBegin
    BY <1>0, <2>1 DEF AppendBegin, WalTypes, Records
  <2>2. CASE RetireBegin
    BY <2>2 DEF RetireBegin, WalTypes, Records
  <2>3. CASE \/ UNCHANGED <<arg, stored>>
             \/ arg' = NoRecord /\ stored' \in {stored, stored \cup {arg}}
    BY Zenon, <1>0, <2>3 DEF WalTypes
  <2> QED
    BY Zenon, <2>1, <2>2, <2>3
    DEF WalNext, walVars, OpenWAL, AppendHeader, AppendPayload, AppendSync, FlushFails, SyncFails, Replay,
        RetireWrite, RetireFails, RetireRename, RetireReopen, ReopenFails, Close, Crash
<1>5. /\ curBytes' \in Nat /\ lastSeq' \in Nat /\ opens' \in Nat /\ faults' \in Nat /\ uncounted' \in Nat
      /\ fd' \in {"none", "path", "bad", "unlinked"}
      /\ pc' \in {"idle", "header", "payload", "sync", "write", "rename", "reopen"}
  <2> USE DEF WalTypes
  <2>1. CASE UNCHANGED walVars
    BY <2>1 DEF walVars
  <2>2. CASE OpenWAL \/ AppendBegin \/ AppendHeader \/ AppendPayload
    BY <2>2 DEF OpenWAL, AppendBegin, AppendHeader, AppendPayload
  <2>3. CASE AppendSync \/ FlushFails \/ SyncFails \/ Replay
    BY SMTT(30), <2>3 DEF AppendSync, FlushFails, SyncFails, Replay
  <2>4. CASE RetireBegin \/ RetireWrite \/ RetireFails \/ RetireRename
    BY <2>4 DEF RetireBegin, RetireWrite, RetireFails, RetireRename
  <2>5. CASE RetireReopen \/ ReopenFails \/ Close \/ Crash
    BY <2>5 DEF RetireReopen, ReopenFails, Close, Crash
  <2> QED
    BY Zenon, <2>1, <2>2, <2>3, <2>4, <2>5 DEF WalNext
<1> QED
  BY Zenon, <1>2, <1>3, <1>4, <1>5 DEF WalTypes

\* The size kept by hand follows the file, and what failed system calls left
\* uncounted is bounded by their number.
LEMMA WalSize ==
  ASSUME WalInv, [WalNext]_walVars
  PROVE  SizeInv'
<1> DEFINE n == Len(file)
           m == Len(file')
<1>1. n \in Nat /\ m \in Nat /\ WalTypes /\ PhaseInv /\ DiskInv /\ SizeInv
  <2>1. file \in Seq(Cells) /\ file' \in Seq(Cells)
    BY Zenon, WalTyped DEF WalInv, WalTypes
  <2> QED
    BY <2>1 DEF WalInv
<1>2. /\ cut \in BOOLEAN /\ curBytes \in Nat /\ faults \in Nat /\ uncounted \in Nat
      /\ fd \in {"none", "path", "bad", "unlinked"}
      /\ ~cut /\ fd = "path" => n = curBytes + 2 * uncounted + Written
      /\ fd # "none" => n <= curBytes + 2 * faults + Written
      /\ pc \in {"header", "payload", "sync"} => curBytes + 2 <= SizeCap
      /\ n <= SizeCap + 2 * faults /\ SizeCap \in Nat
  BY Zenon, <1>1, WalAssumption DEF WalTypes, SizeInv, WithinCap
<1>3. ASSUME /\ ~cut' /\ fd' = "path" => m = curBytes' + 2 * uncounted' + Written'
             /\ fd' # "none" => m <= curBytes' + 2 * faults' + Written'
             /\ pc' \in {"header", "payload", "sync"} => curBytes' + 2 <= SizeCap
             /\ m <= SizeCap + 2 * faults'
      PROVE  SizeInv'
  BY Zenon, <1>3 DEF SizeInv, WithinCap
<1>4. CASE AppendHeader
  <2>1. m = n + 1
    <3>1. Header(arg) \in Cells /\ file \in Seq(Cells) /\ file' = Append(file, Header(arg))
      BY <1>1, <1>4 DEF WalTypes, Header, Cells, AppendHeader
    <3> QED
      BY Zenon, <3>1, CellAppended
  <2> HIDE DEF n, m
  <2> QED
    BY <1>1, <1>2, <1>3, <1>4, <2>1 DEF AppendHeader, Written
<1>5. CASE AppendPayload
  <2>1. m = n + 1
    <3>1. Payload(arg) \in Cells /\ file \in Seq(Cells) /\ file' = Append(file, Payload(arg))
      BY <1>1, <1>5 DEF WalTypes, Payload, Cells, AppendPayload
    <3> QED
      BY Zenon, <3>1, CellAppended
  <2>2. Written = 1 /\ Written' = 2 /\ pc = "payload"
    BY <1>5 DEF AppendPayload, Written
  <2>3. UNCHANGED <<fd, curBytes, uncounted, faults, cut>>
    BY Zenon, <1>5 DEF AppendPayload
  <2> HIDE DEF n, m
  <2>4. ~cut' /\ fd' = "path" => m = curBytes' + 2 * uncounted' + Written'
    <3>1. ~cut' /\ fd' = "path" => n = curBytes + 2 * uncounted + 1
      BY Zenon, <1>2, <2>2, <2>3
    <3> QED
      BY <1>1, <1>2, <2>1, <2>2, <2>3, <3>1
  <2>5. /\ fd' # "none" => m <= curBytes' + 2 * faults' + Written'
        /\ curBytes' + 2 <= SizeCap /\ m <= SizeCap + 2 * faults'
    <3>1. fd # "none" /\ n <= curBytes + 2 * faults + 1 /\ curBytes + 2 <= SizeCap
      BY <1>1, <1>2, <2>2 DEF PhaseInv
    <3> QED
      BY <1>1, <1>2, <2>1, <2>2, <2>3, <3>1
  <2> QED
    BY Zenon, <1>3, <2>4, <2>5
<1>6. CASE RetireRename
  <2>1. m <= n
    BY Zenon, <1>1, <1>6 DEF RetireRename, DiskInv
  <2>2. Written = 0 /\ Written' = 0 /\ fd = "path" /\ fd' = "unlinked" /\ pc' = "reopen"
    BY <1>1, <1>6 DEF RetireRename, Written, PhaseInv
  <2>3. UNCHANGED <<curBytes, faults>>
    BY Zenon, <1>6 DEF RetireRename
  <2> HIDE DEF n, m
  <2> QED
    BY <1>1, <1>2, <1>3, <2>1, <2>2, <2>3
<1>7. CASE file' = file
  <2>1. m = n
    BY Zenon, <1>7
  <2>2. CASE RetireReopen
    <3>1. curBytes' = n
      BY Zenon, <2>2 DEF RetireReopen
    <3> HIDE DEF n, m
    <3> QED
      BY <1>1, <1>2, <1>3, <2>1, <2>2, <3>1 DEF RetireReopen, Written
  <2>3. CASE OpenWAL
    <3>1. curBytes' = n /\ pc = "idle"
      BY Zenon, <1>1, <2>3 DEF OpenWAL, PhaseInv
    <3> HIDE DEF n, m
    <3> QED
      BY <1>1, <1>2, <1>3, <2>1, <2>3, <3>1 DEF OpenWAL, Written
  <2>4. cut' \in BOOLEAN
    BY Zenon, <1>1, WalTyped DEF WalTypes
  <2> HIDE DEF n, m
  <2>5. CASE AppendBegin \/ AppendSync \/ FlushFails \/ SyncFails
    <3>1. CASE AppendBegin
      BY <1>1, <1>2, <1>3, <2>1, <2>4, <3>1 DEF AppendBegin, Written, Fits, PhaseInv
    <3>2. CASE AppendSync
      BY <1>1, <1>2, <1>3, <2>1, <2>4, <3>2 DEF AppendSync, Written, PhaseInv
    <3>3. CASE FlushFails
      <4>1. /\ UNCHANGED <<fd, curBytes, uncounted>> /\ (faults' = faults + 1 \/ (fd = "bad" /\ faults' = faults))
            /\ pc' = "idle" /\ Written' = 0 /\ (pc = "payload" \/ Written = 0) /\ Written \in {0, 1}
        BY <3>3 DEF FlushFails, Written
      <4>2. (cut' \/ Written = 0) /\ (cut => cut')
        BY Zenon, <3>3, <4>1 DEF FlushFails
      <4>3. fd = "bad" => Written = 0
        BY <1>1, <3>3 DEF FlushFails, Written, PhaseInv
      <4> HIDE DEF Written
      <4> QED
        BY <1>1, <1>2, <1>3, <2>1, <2>4, <4>1, <4>2, <4>3
    <3>4. CASE SyncFails
      BY <1>1, <1>2, <1>3, <2>1, <2>4, <3>4 DEF SyncFails, Written, PhaseInv
    <3> QED
      BY Zenon, <2>5, <3>1, <3>2, <3>3, <3>4
  <2>6. CASE Replay \/ RetireBegin \/ RetireWrite \/ RetireFails
    <3>1. /\ UNCHANGED <<fd, curBytes, uncounted, cut>> /\ (faults' = faults \/ faults' = faults + 1)
          /\ pc' = pc \/ (Written = 0 /\ Written' = 0 /\ pc' \notin {"header", "payload", "sync"})
      BY <2>6 DEF Replay, RetireBegin, RetireWrite, RetireFails, Written
    <3>2. Written' = Written /\ Written \in Nat
      BY <3>1 DEF Written
    <3>3. pc' \in {"header", "payload", "sync"} => curBytes' + 2 <= SizeCap
      BY Zenon, <1>2, <3>1
    <3> HIDE DEF Written
    <3> QED
      BY <1>1, <1>2, <1>3, <2>1, <3>1, <3>2, <3>3
  <2>7. CASE ReopenFails \/ Close \/ Crash
    BY <1>1, <1>2, <1>3, <2>1, <2>4, <2>7 DEF ReopenFails, Close, Crash, Written, PhaseInv
  <2>8. CASE UNCHANGED walVars
    BY <1>1, <1>2, <1>3, <2>1, <2>8 DEF walVars, Written
  <2>9. AppendHeader \/ AppendPayload \/ RetireRename => SizeInv'
    BY Zenon, <1>4, <1>5, <1>6
  <2> QED
    BY Zenon, <2>2, <2>3, <2>5, <2>6, <2>7, <2>8, <2>9 DEF WalNext
<1> QED
  BY Zenon, <1>4, <1>5, <1>6, <1>7
  DEF WalNext, walVars, OpenWAL, AppendBegin, AppendSync, FlushFails, SyncFails, Replay, RetireBegin,
      RetireWrite, RetireFails, RetireReopen, ReopenFails, Close, Crash

\* A file with one cell more.
LEMMA AppendedCells ==
  ASSUME NEW S, NEW cells \in Seq(S), NEW c \in S
  PROVE  /\ Len(cells) \in Nat /\ DOMAIN cells = 1 .. Len(cells)
         /\ \A i \in DOMAIN Append(cells, c) : \/ i \in DOMAIN cells /\ Append(cells, c)[i] = cells[i]
                                               \/ i = Len(cells) + 1 /\ Append(cells, c)[i] = c
  OBVIOUS

\* A header at an odd place and anything at an even one keep a file aligned.
LEMMA AlignedGrows ==
  ASSUME NEW cells \in Seq(Cells), NEW c \in Cells, Aligned(cells),
         Len(cells) % 2 = 0 => c.part = "header"
  PROVE  Aligned(Append(cells, c))
<1>1. /\ Len(cells) \in Nat /\ DOMAIN cells = 1 .. Len(cells)
      /\ \A i \in DOMAIN Append(cells, c) : \/ i \in DOMAIN cells /\ Append(cells, c)[i] = cells[i]
                                            \/ i = Len(cells) + 1 /\ Append(cells, c)[i] = c
  BY Zenon, AppendedCells
<1>2. (Len(cells) + 1) % 2 = 1 => Len(cells) % 2 = 0
  <2>1. \A n \in Nat : (n + 1) % 2 = 1 => n % 2 = 0
    OBVIOUS
  <2> QED
    BY Zenon, <1>1, <2>1
<1> QED
  BY Zenon, <1>1, <1>2 DEF Aligned

\* Append and Retire keep what was stored whole in the file at path, through
\* every failure and crash.
LEMMA WalDisk ==
  ASSUME WalInv, [WalNext]_walVars
  PROVE  DiskInv'
<1>0. WalTypes /\ PhaseInv /\ DiskInv
  BY Zenon DEF WalInv
<1>1. /\ file \in Seq(Cells) /\ Len(file) \in Nat /\ arg \in Records /\ stored \subseteq Records
      /\ Header(arg) \in Cells /\ Payload(arg) \in Cells /\ Header(arg).part = "header" /\ arg.seq \in Nat
  <2>1. file \in Seq(Cells) /\ arg \in Records /\ stored \subseteq Records
    BY Zenon, <1>0 DEF WalTypes
  <2>2. Len(file) \in Nat /\ arg.seq \in Nat
    BY <2>1 DEF Records
  <2>3. Header(arg) \in Cells /\ Payload(arg) \in Cells /\ Header(arg).part = "header"
    BY <2>1 DEF Header, Payload, Cells
  <2> QED
    BY Zenon, <2>1, <2>2, <2>3
<1>2. ASSUME file' = file, stored' \subseteq stored \/ (stored' = stored \cup {arg} /\ pc = "sync"),
             pc' \in {"idle", "header", "reopen"}, ~cut' => ~cut /\ pc # "payload"
      PROVE  DiskInv'
  <2>1. StoredIsOnDisk'
    BY Zenon, <1>0, <1>2 DEF DiskInv, StoredIsOnDisk
  <2>2. /\ pc' # "payload" /\ pc' # "sync" /\ pc' \notin {"write", "rename"} /\ pc' # "rename"
    BY <1>2
  <2>3. ~cut' => Aligned(file') /\ Len(file') % 2 = 0
    BY Zenon, <1>0, <1>2 DEF DiskInv
  <2> QED
    BY Zenon, <2>1, <2>2, <2>3 DEF DiskInv
<1>3. CASE UNCHANGED walVars
  BY Zenon, <1>0, <1>3 DEF walVars, DiskInv, StoredIsOnDisk
<1>4. CASE OpenWAL \/ AppendBegin \/ AppendSync \/ SyncFails \/ Replay \/ RetireFails \/ RetireReopen
           \/ ReopenFails \/ Close
  <2>1. file' = file /\ cut' = cut
    BY Zenon, <1>4
    DEF OpenWAL, AppendBegin, AppendSync, SyncFails, Replay, RetireFails, RetireReopen, ReopenFails, Close
  <2>2. stored' \subseteq stored \/ (stored' = stored \cup {arg} /\ pc = "sync")
    BY Zenon, <1>4
    DEF OpenWAL, AppendBegin, AppendSync, SyncFails, Replay, RetireFails, RetireReopen, ReopenFails, Close
  <2>3. pc # "payload" /\ pc' \in {"idle", "header", "reopen"}
    BY <1>0, <1>4
    DEF OpenWAL, AppendBegin, AppendSync, SyncFails, Replay, RetireFails, RetireReopen, ReopenFails, Close,
        PhaseInv
  <2> QED
    BY Zenon, <1>2, <2>1, <2>2, <2>3
<1>5. CASE FlushFails \/ Crash
  <2>1. file' = file /\ stored' = stored /\ pc' = "idle" /\ cut' = (cut \/ pc = "payload")
    BY Zenon, <1>5 DEF FlushFails, Crash
  <2>2. stored' \subseteq stored /\ pc' \in {"idle", "header", "reopen"} /\ (~cut' => ~cut /\ pc # "payload")
    BY Zenon, <2>1
  <2> QED
    BY Zenon, <1>2, <2>1, <2>2
<1>6. CASE AppendHeader
  <2>1. /\ pc = "header" /\ pc' = "payload" /\ file' = Append(file, Header(arg)) /\ arg' = arg
        /\ stored' = stored /\ cut' = cut
    BY Zenon, <1>6 DEF AppendHeader
  <2>2. StoredIsOnDisk'
    BY Zenon, <1>0, <1>1, <2>1, CellAppended DEF DiskInv, StoredIsOnDisk
  <2>3. Len(file') = Len(file) + 1 /\ file'[Len(file) + 1] = Header(arg) /\ Len(file') > 0
    <3>1. Len(file') = Len(file) + 1 /\ file'[Len(file) + 1] = Header(arg)
      BY Zenon, <1>1, <2>1, CellAppended
    <3> QED
      BY <1>1, <3>1
  <2>4. ~cut' => Aligned(file') /\ Len(file') % 2 = 1
    <3>1. ~cut' => Aligned(file) /\ Len(file) % 2 = 0
      BY <1>0, <2>1 DEF DiskInv
    <3>2. Len(file) % 2 = 0 => Len(file') % 2 = 1
      <4>1. \A n \in Nat : n % 2 = 0 => (n + 1) % 2 = 1
        BY ONLY TRUE
      <4> QED
        BY Zenon, <1>1, <2>3, <4>1
    <3> QED
      BY Zenon, <1>1, <2>1, <3>1, <3>2, AlignedGrows
  <2>5. pc' # "sync" /\ pc' \notin {"write", "rename"} /\ pc' # "rename"
    BY <2>1
  <2> QED
    BY Zenon, <2>1, <2>2, <2>3, <2>4, <2>5 DEF DiskInv, Header
<1>7. CASE AppendPayload
  <2>1. /\ pc = "payload" /\ pc' = "sync" /\ file' = Append(file, Payload(arg)) /\ arg' = arg
        /\ stored' = stored /\ cut' = cut
    BY Zenon, <1>7 DEF AppendPayload
  <2>2. StoredIsOnDisk'
    BY Zenon, <1>0, <1>1, <2>1, CellAppended DEF DiskInv, StoredIsOnDisk
  <2>3. WholeIn(arg, file') /\ Len(file') = Len(file) + 1
    BY Zenon, <1>0, <1>1, <2>1, CellAppended DEF DiskInv
  <2>4. ~cut' => Aligned(file') /\ Len(file') % 2 = 0
    <3>1. ~cut' => Aligned(file) /\ Len(file) % 2 = 1
      BY <1>0, <2>1 DEF DiskInv
    <3>2. Len(file) % 2 = 1 => Len(file') % 2 = 0 /\ ~(Len(file) % 2 = 0)
      BY <1>1, <2>3
    <3> QED
      BY Zenon, <1>1, <2>1, <3>1, <3>2, AlignedGrows
  <2>5. pc' # "payload" /\ pc' \notin {"write", "rename"} /\ pc' # "rename"
    BY <2>1
  <2> QED
    BY Zenon, <2>1, <2>2, <2>3, <2>4, <2>5 DEF DiskInv
<1>8. CASE RetireBegin
  <2>1. /\ pc = "idle" /\ pc' = "write" /\ file' = file /\ Readable(file) /\ cut' = cut
        /\ stored' = {r \in stored : r.seq > arg'.seq}
    BY Zenon, <1>8 DEF RetireBegin
  <2>2. StoredIsOnDisk' /\ \A r \in stored' : r.seq > arg'.seq
    BY Zenon, <1>0, <2>1 DEF DiskInv, StoredIsOnDisk
  <2>3. ~cut' => Aligned(file') /\ Len(file') % 2 = 0
    BY <1>0, <2>1 DEF DiskInv
  <2>4. pc' # "payload" /\ pc' # "sync" /\ pc' # "rename"
    BY <2>1
  <2> QED
    BY Zenon, <2>1, <2>2, <2>3, <2>4 DEF DiskInv
<1>9. CASE RetireWrite
  <2>1. /\ pc = "write" /\ pc' = "rename" /\ file' = file /\ tmp' = Kept(file, arg.seq) /\ cut' = cut
        /\ stored' = stored /\ arg' = arg
    BY Zenon, <1>9 DEF RetireWrite
  <2>2. Readable(file) /\ \A r \in stored : r.seq > arg.seq /\ WholeIn(r, file) /\ r \in Records
    BY <1>0, <1>1, <2>1 DEF DiskInv, StoredIsOnDisk
  <2>3. Readable(tmp') /\ Len(tmp') <= Len(file) /\ \A r \in stored : WholeIn(r, tmp')
    BY Zenon, <1>1, <2>1, <2>2, KeptKeeps
  <2>4. ~cut' => Aligned(file') /\ Len(file') % 2 = 0
    BY <1>0, <2>1 DEF DiskInv
  <2>5. pc' # "payload" /\ pc' # "sync"
    BY <2>1
  <2> QED
    BY Zenon, <2>1, <2>2, <2>3, <2>4, <2>5 DEF DiskInv, StoredIsOnDisk
<1>10. CASE RetireRename
  <2>1. pc = "rename" /\ pc' = "reopen" /\ file' = tmp /\ stored' = stored
    BY Zenon, <1>10 DEF RetireRename
  <2>2. Readable(tmp) /\ \A r \in stored : WholeIn(r, tmp)
    BY Zenon, <1>0, <2>1 DEF DiskInv
  <2>3. Aligned(file') /\ Len(file') % 2 = 0 /\ StoredIsOnDisk'
    BY Zenon, <2>1, <2>2 DEF Readable, Aligned, StoredIsOnDisk
  <2>4. pc' # "payload" /\ pc' # "sync" /\ pc' \notin {"write", "rename"} /\ pc' # "rename"
    BY <2>1
  <2> QED
    BY Zenon, <2>3, <2>4 DEF DiskInv
<1> QED
  BY Zenon, <1>3, <1>4, <1>5, <1>6, <1>7, <1>8, <1>9, <1>10 DEF WalNext

\* The log keeps its invariant.
LEMMA WalInvariant == WalSpec => []WalInv
<1>1. WalInit => WalInv
  <2> SUFFICES ASSUME WalInit PROVE WalInv
    OBVIOUS
  <2>1. cut \in BOOLEAN
    BY Zenon DEF WalInit
  <2>2. WalTypes
    BY <2>1 DEF WalInit, WalTypes, NoRecord, Records
  <2>3. PhaseInv
    BY DEF WalInit, PhaseInv
  <2>4. DiskInv
    <3>1. Aligned(<<>>) /\ Len(<<>>) = 0
      BY DEF Aligned
    <3> QED
      BY <3>1 DEF WalInit, DiskInv, StoredIsOnDisk
  <2>5. SizeInv
    BY WalAssumption DEF WalInit, SizeInv, WithinCap
  <2> QED
    BY Zenon, <2>2, <2>3, <2>4, <2>5 DEF WalInv
<1>2. WalInv /\ [WalNext]_walVars => WalInv'
  BY Zenon, WalTyped, WalPhase, WalDisk, WalSize DEF WalInv
<1> QED
  BY <1>1, <1>2, PTL DEF WalSpec

\* A record whose Append returned nil stays whole in the file at path until a
\* Retire covers it, whatever fails and whenever the process dies, and a reader
\* finds it unless a record was torn: for any cap and any number of opens.
THEOREM StoredRecordsSurvive == WalSpec => []StoredSurvives
<1>1. WalInv => StoredSurvives
  <2> SUFFICES ASSUME WalInv PROVE StoredSurvives
    OBVIOUS
  <2>1. file \in Seq(Cells) /\ stored \subseteq Records /\ StoredIsOnDisk
    BY Zenon DEF WalInv, WalTypes, DiskInv
  <2>2. ASSUME ~cut, pc # "payload" PROVE Readable(file) /\ stored \subseteq Found(file)
    <3>1. Readable(file)
      BY <2>2 DEF WalInv, DiskInv, Aligned, Readable
    <3>2. ASSUME NEW r \in stored PROVE r \in Found(file)
      <4>1. PICK k \in DOMAIN Pairs(file) : Pairs(file)[k] = <<Header(r), Payload(r)>>
        BY Zenon, <2>1, <3>1, WholeIsPair DEF StoredIsOnDisk
      <4>2. <<Header(r), Payload(r)>>[1].rec = r /\ <<Header(r), Payload(r)>>[2] = Payload(r)
        BY DEF Header
      <4> QED
        BY Zenon, <4>1, <4>2 DEF Found
    <3> QED
      BY Zenon, <3>1, <3>2
  <2> QED
    BY Zenon, <2>1, <2>2 DEF StoredSurvives, UncutIsReadable
<1> QED
  BY <1>1, WalInvariant, PTL

\* The size compared with the cap is the file's but for records whose fsync
\* failed, and the file outgrows the cap by at most a record per failed call.
THEOREM WalStaysWithinCap == WalSpec => []CapHolds
<1>1. WalInv => CapHolds
  <2> SUFFICES ASSUME WalInv PROVE CapHolds
    OBVIOUS
  <2>1. SizeIsHonest
    <3>1. curBytes \in Nat /\ uncounted \in Nat
      BY DEF WalInv, WalTypes
    <3>2. pc = "idle" => Written = 0
      BY DEF Written
    <3>3. ~cut /\ fd = "path" => Len(file) = curBytes + 2 * uncounted + Written
      BY Zenon DEF WalInv, SizeInv
    <3> QED
      BY <3>1, <3>2, <3>3 DEF SizeIsHonest
  <2> QED
    BY Zenon, <2>1 DEF WalInv, SizeInv, CapHolds
<1> QED
  BY <1>1, WalInvariant, PTL

-----------------------------------------------------------------------------
(* The log files: through rotations that fail or are cut short anywhere    *)
(* they hold the most recent entries, for any number and size of files.    *)

LogEntries == [n : Nat, len : Nat]

\* The number of files there can be, and that of the oldest: MaxFiles, except
\* that one rotated file is kept even when MaxFiles is one.
FilesKept == IF maxFiles < 2 THEN 2 ELSE maxFiles

LastFile == FilesKept - 1

RotatorTypes ==
  /\ maxFiles \in Nat /\ rotSize \in Nat /\ shift \in Nat /\ fileFaults \in Nat
  /\ files \in [DOMAIN files -> [entries : Seq(LogEntries), size : Nat, torn : Nat]]
  /\ DOMAIN files \subseteq 0 .. LastFile
  /\ rot \in {"idle", "write", "shift", "reopen"} /\ rotF \in {"none", "open", "closed"}
  /\ entry \in LogEntries /\ kept \in Seq(LogEntries)

\* What the steps of a Write know of each other: in the loop of rotateLocked
\* the place of the next file is free, or it is that of the oldest, or of one
\* that a failing Stat hid.
Vacant(i) == i \notin DOMAIN files \/ i >= LastFile \/ EntriesOf(i) \subseteq unseen

RotationInv ==
  /\ maxFiles = 0 => rotF = "none" /\ DOMAIN files = {}
  /\ rot \in {"shift", "reopen"} => rotF = "closed"
  /\ rot = "write" => rotF = "open"
  /\ rot # "idle" => entry.n = Len(kept) + 1 /\ maxFiles > 0
  /\ rotF = "open" => 0 \in DOMAIN files /\ files[0].size <= rotSize + files[0].torn
  /\ rot = "shift" => /\ 0 \in DOMAIN files /\ shift <= maxFiles - 1
                      /\ Vacant(shift + 1)
  /\ rot = "reopen" => 0 \notin DOMAIN files
  /\ rot = "write" => rotSize + entry.len <= MaxFileSize \/ files[0].entries = <<>>

NoHole == \A n \in OnDisk : n .. Len(kept) \subseteq OnDisk \cup unseen

\* Where the gap in the numbers of the files is while they are shifted.
ShiftGap == IF maxFiles < 2 THEN 1 ELSE shift

\* The files there are after k rotations and before the next one ends.
Present(k, j) ==
  IF rot = "shift" THEN (j <= ShiftGap /\ j <= k) \/ (j >= ShiftGap + 2 /\ j <= k + 1)
  ELSE IF rot = "reopen" THEN j >= 1 /\ j <= k + 1
  ELSE j <= k

\* As long as nothing failed, entries are given up only from the oldest file.
FullInv ==
  fileFaults = 0 =>
    /\ rotF = "none" => kept = <<>> /\ DOMAIN files = {}
    /\ rotF = "closed" => rot # "idle"
    /\ rotF # "none" => \E k \in 0 .. LastFile :
         /\ \A j \in 0 .. LastFile : j \in DOMAIN files <=> Present(k, j)
         /\ OnDisk # DOMAIN kept => k = LastFile

RotatorInv == RotatorTypes /\ RotationInv /\ FilesInOrder /\ NoHole /\ FilesSized /\ FullInv

\* What files a step leaves and where, as a map to where they were.
Moved(m) ==
  /\ m \in [DOMAIN m -> DOMAIN files]
  /\ \A i, j \in DOMAIN m : i < j => m[i] < m[j]
  /\ files' = [i \in DOMAIN m |-> files[m[i]]]

\* A file keeps its entries when it gets another number.
LEMMA MovedEntries ==
  ASSUME NEW m, Moved(m), NEW i \in DOMAIN m
  PROVE  i \in DOMAIN files' /\ files'[i] = files[m[i]] /\ m[i] \in DOMAIN files /\ EntriesOf(i)' = EntriesOf(m[i])
  BY Zenon DEF Moved, EntriesOf

\* Renaming or removing files keeps the order and the sizes, and leaves no hole
\* when the files that go are older than those that stay, or were hidden.
LEMMA MovesKeepOrder ==
  ASSUME NEW m, Moved(m), RotatorTypes, FilesInOrder, NoHole, FilesSized, kept' = kept, unseen' = unseen,
         \A d \in DOMAIN files : \/ \E i \in DOMAIN m : m[i] = d
                                \/ \A i \in DOMAIN m : m[i] < d
                                \/ EntriesOf(d) \subseteq unseen
  PROVE  FilesInOrder' /\ NoHole' /\ FilesSized'
<1>1. DOMAIN files' = DOMAIN m
  BY Zenon DEF Moved
<1>2. FilesSized'
  <2>1. ASSUME NEW i \in DOMAIN m PROVE files'[i].size <= MaxFileSize + files'[i].torn \/ Len(files'[i].entries) = 1
    <3>1. files'[i] = files[m[i]] /\ m[i] \in DOMAIN files
      BY Zenon, MovedEntries
    <3> QED
      BY Zenon, <3>1 DEF FilesSized
  <2> QED
    BY Zenon, <1>1, <2>1 DEF FilesSized
<1>3. FilesInOrder'
  <2>1. ASSUME NEW i \in DOMAIN m PROVE files'[i] = files[m[i]] /\ m[i] \in DOMAIN files
    BY Zenon, MovedEntries
  <2>2. \A i \in DOMAIN m : \A k, p \in DOMAIN files'[i].entries :
          k < p => files'[i].entries[k].n < files'[i].entries[p].n
    BY Zenon, <2>1 DEF FilesInOrder
  <2>3. ASSUME NEW i \in DOMAIN m, NEW j \in DOMAIN m, i < j,
               NEW a \in EntriesOf(j)', NEW b \in EntriesOf(i)'
        PROVE  a < b
    <3>1. a \in EntriesOf(m[j]) /\ b \in EntriesOf(m[i]) /\ m[i] < m[j]
      BY Zenon, <2>3, MovedEntries DEF Moved
    <3> QED
      BY Zenon, <3>1, <2>1 DEF FilesInOrder
  <2>4. ASSUME NEW i \in DOMAIN m, NEW k \in DOMAIN files'[i].entries
        PROVE  files'[i].entries[k].n \in DOMAIN kept /\ files'[i].entries[k] = kept[files'[i].entries[k].n]
    <3>1. files'[i] = files[m[i]] /\ m[i] \in DOMAIN files
      BY Zenon, <2>1
    <3>2. k \in DOMAIN files[m[i]].entries
      BY Zenon, <3>1
    <3>3. files[m[i]].entries[k].n \in DOMAIN kept /\ files[m[i]].entries[k] = kept[files[m[i]].entries[k].n]
      BY Zenon, <3>1, <3>2 DEF FilesInOrder
    <3> QED
      BY Zenon, <3>1, <3>3
  <2> QED
    BY Zenon, <1>1, <2>2, <2>3, <2>4 DEF FilesInOrder
<1>4. NoHole'
  <2> SUFFICES ASSUME NEW n \in OnDisk', NEW q \in n .. Len(kept), q \notin unseen PROVE q \in OnDisk'
    BY Zenon DEF NoHole
  <2>0. PICK i \in DOMAIN files' : n \in EntriesOf(i)'
    BY Zenon DEF OnDisk
  <2>1. i \in DOMAIN m /\ n \in EntriesOf(m[i])
    <3>1. i \in DOMAIN m
      BY Zenon, <1>1
    <3>2. EntriesOf(i)' = EntriesOf(m[i])
      BY Zenon, <3>1, MovedEntries
    <3> QED
      BY Zenon, <2>0, <3>1, <3>2
  <2>2. m[i] \in DOMAIN files
    BY Zenon, <2>1, MovedEntries
  <2>3. PICK d \in DOMAIN files : q \in EntriesOf(d)
    BY Zenon, <2>1, <2>2 DEF OnDisk, NoHole
  <2>4. n \in Nat /\ Len(kept) \in Nat
    <3>1. n \in DOMAIN kept
      BY Zenon, <2>1, <2>2 DEF FilesInOrder, EntriesOf
    <3> QED
      BY <3>1 DEF RotatorTypes
  <2>5. CASE \E j \in DOMAIN m : m[j] = d
    <3>1. PICK j \in DOMAIN m : m[j] = d
      BY <2>5
    <3>2. j \in DOMAIN files' /\ EntriesOf(j)' = EntriesOf(m[j])
      BY Zenon, MovedEntries
    <3>3. q \in EntriesOf(j)'
      BY Zenon, <3>1, <3>2, <2>3
    <3> QED
      BY Zenon, <3>2, <3>3 DEF OnDisk
  <2>6. CASE \A j \in DOMAIN m : m[j] < d
    <3>1. q < n
      BY Zenon, <2>1, <2>2, <2>3, <2>6 DEF FilesInOrder
    <3> QED
      BY <3>1, <2>4
  <2> QED
    BY Zenon, <2>3, <2>5, <2>6
<1> QED
  BY <1>2, <1>3, <1>4

\* A file that is neither removed nor renamed over keeps its entries on disk.
LEMMA MovesKeepEntries ==
  ASSUME NEW m, Moved(m), \A d \in DOMAIN files : \E i \in DOMAIN m : m[i] = d
  PROVE  OnDisk' = OnDisk
<1>1. DOMAIN files' = DOMAIN m
  BY Zenon DEF Moved
<1>2. ASSUME NEW n \in OnDisk PROVE n \in OnDisk'
  <2>1. PICK d \in DOMAIN files : n \in EntriesOf(d)
    BY Zenon DEF OnDisk
  <2>2. PICK i \in DOMAIN m : m[i] = d
    BY Zenon
  <2>3. i \in DOMAIN files' /\ EntriesOf(i)' = EntriesOf(m[i])
    BY Zenon, MovedEntries
  <2>4. n \in EntriesOf(i)'
    BY Zenon, <2>1, <2>2, <2>3
  <2> QED
    BY Zenon, <2>3, <2>4 DEF OnDisk
<1>3. ASSUME NEW n \in OnDisk' PROVE n \in OnDisk
  <2>1. PICK i \in DOMAIN files' : n \in EntriesOf(i)'
    BY Zenon DEF OnDisk
  <2>2. i \in DOMAIN m
    BY Zenon, <1>1
  <2>3. m[i] \in DOMAIN files /\ EntriesOf(i)' = EntriesOf(m[i])
    BY Zenon, <2>2, MovedEntries
  <2>4. n \in EntriesOf(m[i])
    BY Zenon, <2>1, <2>3
  <2> QED
    BY Zenon, <2>3, <2>4 DEF OnDisk
<1> QED
  BY Zenon, <1>2, <1>3

\* os.Remove of the oldest file.
LEMMA RemovalKeepsOrder ==
  ASSUME RotatorTypes, FilesInOrder, NoHole, FilesSized, kept' = kept, unseen' = unseen,
         LastFile \in DOMAIN files,
         files' = [j \in DOMAIN files \ {LastFile} |-> files[j]]
  PROVE  FilesInOrder' /\ NoHole' /\ FilesSized'
<1> DEFINE m == [j \in DOMAIN files \ {LastFile} |-> j]
<1>1. DOMAIN files \subseteq 0 .. LastFile /\ LastFile \in Nat
  BY DEF RotatorTypes, LastFile, FilesKept
<1>2. Moved(m)
  <2>1. DOMAIN m = DOMAIN files \ {LastFile} /\ \A j \in DOMAIN m : m[j] = j
    BY Zenon
  <2>2. m \in [DOMAIN m -> DOMAIN files]
    BY Zenon
  <2>3. files' = [i \in DOMAIN m |-> files[m[i]]]
    BY Zenon, <2>1
  <2> QED
    BY Zenon, <2>1, <2>2, <2>3 DEF Moved
<1>3. \A d \in DOMAIN files : (\E i \in DOMAIN m : m[i] = d) \/ (\A i \in DOMAIN m : m[i] < d)
  <2>1. \A i \in DOMAIN m : m[i] < LastFile
    BY <1>1
  <2> QED
    BY Zenon, <2>1
<1> HIDE DEF m
<1> QED
  BY Zenon, <1>2, <1>3, MovesKeepOrder

\* os.Rename of a file to the next number, which is vacant.
LEMMA RenameKeepsOrder ==
  ASSUME RotatorTypes, FilesInOrder, NoHole, FilesSized, kept' = kept, unseen' = unseen,
         NEW f \in DOMAIN files, f + 1 <= LastFile, Vacant(f + 1),
         files' = Renamed(f, f + 1)
  PROVE  /\ FilesInOrder' /\ NoHole' /\ FilesSized'
         /\ f + 1 \notin DOMAIN files => OnDisk' = OnDisk
<1> DEFINE m == [i \in (DOMAIN files \ {f}) \cup {f + 1} |-> IF i = f + 1 THEN f ELSE i]
<1>1. DOMAIN files \subseteq 0 .. LastFile /\ LastFile \in Nat /\ f \in Nat
  BY DEF RotatorTypes, LastFile, FilesKept
<1>2. DOMAIN m = (DOMAIN files \ {f}) \cup {f + 1} /\ m[f + 1] = f
  BY Zenon
<1>3. \A i \in DOMAIN m : i # f + 1 => m[i] = i /\ i \in DOMAIN files /\ i # f
  BY Zenon, <1>2
<1>4. \A d \in DOMAIN files : d # f /\ d # f + 1 => d \in DOMAIN m /\ m[d] = d
  BY Zenon, <1>2
<1>5. Moved(m)
  <2>1. m \in [DOMAIN m -> DOMAIN files]
    BY Zenon
  <2>2. files' = [i \in DOMAIN m |-> files[m[i]]]
    <3>1. \A i \in DOMAIN m : (IF i = f + 1 THEN files[f] ELSE files[i]) = files[m[i]]
      BY Zenon, <1>2, <1>3
    <3> QED
      BY Zenon, <1>2, <3>1 DEF Renamed
  <2> HIDE DEF m
  <2>3. ASSUME NEW i \in DOMAIN m, NEW j \in DOMAIN m, i < j PROVE m[i] < m[j]
    <3>1. i \in 0 .. LastFile /\ j \in 0 .. LastFile
      BY <1>1, <1>2
    <3>2. CASE i = f + 1
      <4>1. j # f + 1 /\ m[j] = j /\ m[i] = f
        BY <1>2, <1>3, <2>3, <3>1, <3>2
      <4> QED
        BY <1>1, <2>3, <3>1, <3>2, <4>1
    <3>3. CASE j = f + 1
      <4>1. i # f + 1 /\ m[i] = i /\ m[j] = f /\ i # f
        BY <1>2, <1>3, <2>3, <3>1, <3>3
      <4> QED
        BY <1>1, <2>3, <3>1, <3>3, <4>1
    <3>4. CASE i # f + 1 /\ j # f + 1
      BY Zenon, <1>3, <2>3, <3>4
    <3> QED
      BY Zenon, <3>2, <3>3, <3>4
  <2> QED
    BY Zenon, <2>1, <2>2, <2>3 DEF Moved
<1> HIDE DEF m
<1>6. \A d \in DOMAIN files : d # f + 1 => \E i \in DOMAIN m : m[i] = d
  BY Zenon, <1>2, <1>4
<1>7. ASSUME f + 1 >= LastFile, NEW i \in DOMAIN m PROVE m[i] < f + 1
  <2>1. f + 1 = LastFile
    BY <1>1, <1>7
  <2>2. CASE i = f + 1
    BY <1>1, <1>2, <2>2
  <2>3. CASE i # f + 1
    BY <1>1, <1>3, <2>1, <2>3
  <2> QED
    BY <2>2, <2>3
<1>8. FilesInOrder' /\ NoHole' /\ FilesSized'
  <2>1. \A d \in DOMAIN files : \/ \E i \in DOMAIN m : m[i] = d
                                \/ \A i \in DOMAIN m : m[i] < d
                                \/ EntriesOf(d) \subseteq unseen
    BY Zenon, <1>6, <1>7 DEF Vacant
  <2> QED
    BY Zenon, <1>5, <2>1, MovesKeepOrder
<1>9. f + 1 \notin DOMAIN files => OnDisk' = OnDisk
  BY Zenon, <1>5, <1>6, MovesKeepEntries
<1> QED
  BY <1>8, <1>9

\* os.OpenFile adds at most an empty file.
LEMMA OpenKeepsOrder ==
  ASSUME RotatorTypes, FilesInOrder, NoHole, FilesSized, kept' = kept, unseen' = unseen, files' = Opened
  PROVE  FilesInOrder' /\ NoHole' /\ FilesSized' /\ OnDisk' = OnDisk
<1>1. DOMAIN files' = DOMAIN files \cup {0}
  BY Zenon DEF Opened
<1>2. \A i \in DOMAIN files : files'[i] = files[i] /\ EntriesOf(i)' = EntriesOf(i)
  BY Zenon DEF Opened, EntriesOf
<1>3. CASE 0 \in DOMAIN files
  <2>1. DOMAIN files' = DOMAIN files
    BY Zenon, <1>1, <1>3
  <2>2. files' = files
    BY <1>3, <2>1 DEF Opened, RotatorTypes
  <2>3. \A i \in DOMAIN files : EntriesOf(i)' = EntriesOf(i)
    BY Zenon, <2>2 DEF EntriesOf
  <2>4. OnDisk' = OnDisk
    BY Zenon, <2>2, <2>3 DEF OnDisk
  <2>5. NoHole' /\ FilesSized'
    BY Zenon, <2>2, <2>4 DEF NoHole, FilesSized
  <2>6. FilesInOrder'
    BY Zenon, <2>2, <2>3 DEF FilesInOrder
  <2> QED
    BY Zenon, <2>4, <2>5, <2>6
<1>4. CASE 0 \notin DOMAIN files
  <2>1. files'[0] = EmptyFile
    BY Zenon, <1>4 DEF Opened
  <2>2. /\ files'[0].entries = <<>> /\ files'[0].size = 0 /\ files'[0].torn = 0
        /\ DOMAIN files'[0].entries = {}
    BY <2>1 DEF EmptyFile
  <2>3. EntriesOf(0)' = {}
    BY Zenon, <2>2 DEF EntriesOf
  <2>4. OnDisk' = OnDisk
    <3>1. ASSUME NEW n \in OnDisk' PROVE n \in OnDisk
      <4>1. PICK i \in DOMAIN files' : n \in EntriesOf(i)'
        BY Zenon DEF OnDisk
      <4>2. i # 0
        BY Zenon, <4>1, <2>3
      <4>3. i \in DOMAIN files /\ n \in EntriesOf(i)
        BY Zenon, <4>1, <4>2, <1>1, <1>2
      <4> QED
        BY Zenon, <4>3 DEF OnDisk
    <3>2. ASSUME NEW n \in OnDisk PROVE n \in OnDisk'
      <4>1. PICK i \in DOMAIN files : n \in EntriesOf(i)
        BY Zenon DEF OnDisk
      <4>2. i \in DOMAIN files' /\ n \in EntriesOf(i)'
        BY Zenon, <4>1, <1>1, <1>2
      <4> QED
        BY Zenon, <4>2 DEF OnDisk
    <3> QED
      BY Zenon, <3>1, <3>2
  <2>5. NoHole'
    BY Zenon, <2>4 DEF NoHole
  <2>6. FilesSized'
    <3>1. files'[0].size <= MaxFileSize + files'[0].torn
      BY <2>2, RotatorAssumption
    <3> QED
      BY Zenon, <1>1, <1>2, <3>1 DEF FilesSized
  <2>7. FilesInOrder'
    <3>1. ASSUME NEW i \in DOMAIN files', NEW k \in DOMAIN files'[i].entries
          PROVE  i \in DOMAIN files /\ files'[i] = files[i]
      BY Zenon, <1>1, <1>2, <2>2, <3>1
    <3>2. \A i \in DOMAIN files' : \A k, p \in DOMAIN files'[i].entries :
            k < p => files'[i].entries[k].n < files'[i].entries[p].n
      BY Zenon, <3>1 DEF FilesInOrder
    <3>3. ASSUME NEW i \in DOMAIN files', NEW j \in DOMAIN files', i < j,
                 NEW a \in EntriesOf(j)', NEW b \in EntriesOf(i)'
          PROVE  a < b
      <4>1. i # 0 /\ j # 0
        BY Zenon, <2>3, <3>3
      <4>2. i \in DOMAIN files /\ j \in DOMAIN files
        BY Zenon, <4>1, <1>1
      <4>3. a \in EntriesOf(j) /\ b \in EntriesOf(i)
        BY Zenon, <4>2, <1>2
      <4> QED
        BY Zenon, <3>3, <4>2, <4>3 DEF FilesInOrder
    <3>4. ASSUME NEW i \in DOMAIN files', NEW k \in DOMAIN files'[i].entries
          PROVE  files'[i].entries[k].n \in DOMAIN kept /\ files'[i].entries[k] = kept[files'[i].entries[k].n]
      <4>1. i \in DOMAIN files /\ files'[i] = files[i]
        BY Zenon, <3>1
      <4>2. k \in DOMAIN files[i].entries
        BY Zenon, <4>1
      <4>3. files[i].entries[k].n \in DOMAIN kept /\ files[i].entries[k] = kept[files[i].entries[k].n]
        BY Zenon, <4>1, <4>2 DEF FilesInOrder
      <4> QED
        BY Zenon, <4>1, <4>3
    <3> QED
      BY ZenonT(30), <3>2, <3>3, <3>4 DEF FilesInOrder
  <2> QED
    BY <2>4, <2>5, <2>6, <2>7
<1> QED
  BY <1>3, <1>4

\* The numbers of the entries on disk are those of entries that were kept.
LEMMA OnDiskIsKept ==
  ASSUME FilesInOrder
  PROVE  OnDisk \subseteq DOMAIN kept
<1> SUFFICES ASSUME NEW n \in OnDisk PROVE n \in DOMAIN kept
  OBVIOUS
<1>1. PICK i \in DOMAIN files : n \in EntriesOf(i)
  BY Zenon DEF OnDisk
<1>2. PICK k \in DOMAIN files[i].entries : n = files[i].entries[k].n
  BY Zenon, <1>1 DEF EntriesOf
<1> QED
  BY Zenon, <1>2 DEF FilesInOrder

\* Write appends the next entry to the active file.
LEMMA AppendKeepsOrder ==
  ASSUME RotatorTypes, RotationInv, FilesInOrder, NoHole, FilesSized, AppendEntry
  PROVE  /\ FilesInOrder' /\ NoHole' /\ FilesSized'
         /\ OnDisk' = OnDisk \cup {Len(kept) + 1} /\ DOMAIN kept' = DOMAIN kept \cup {Len(kept) + 1}
<1> DEFINE es == files[0].entries
<1>0. rot = "write" /\ 0 \in DOMAIN files /\ entry \in LogEntries /\ entry.n = Len(kept) + 1
  BY DEF AppendEntry, RotationInv, RotatorTypes
<1>1. kept \in Seq(LogEntries) /\ es \in Seq(LogEntries) /\ files[0].size \in Nat /\ files[0].torn \in Nat
  BY <1>0 DEF RotatorTypes
<1>2. /\ DOMAIN files' = DOMAIN files
      /\ \A i \in DOMAIN files : i # 0 => files'[i] = files[i] /\ EntriesOf(i)' = EntriesOf(i)
      /\ files'[0] = [entries |-> Append(es, entry), size |-> files[0].size + entry.len, torn |-> files[0].torn]
  BY Zenon, <1>0 DEF AppendEntry, EntriesOf
<1>3. /\ files'[0].entries = Append(es, entry) /\ files'[0].size = files[0].size + entry.len
      /\ files'[0].torn = files[0].torn
  BY <1>2
<1> HIDE DEF es
<1>4. /\ DOMAIN Append(es, entry) = DOMAIN es \cup {Len(es) + 1} /\ Append(es, entry)[Len(es) + 1] = entry
      /\ \A k \in DOMAIN es : Append(es, entry)[k] = es[k] /\ k \in Nat /\ k < Len(es) + 1
      /\ Len(es) + 1 \notin DOMAIN es /\ Len(es) \in Nat /\ Len(Append(es, entry)) = Len(es) + 1
  BY <1>0, <1>1
<1>5. /\ DOMAIN kept' = DOMAIN kept \cup {Len(kept) + 1} /\ kept'[Len(kept) + 1] = entry
      /\ \A k \in DOMAIN kept : kept'[k] = kept[k] /\ k \in Nat /\ k < Len(kept) + 1
      /\ Len(kept) \in Nat /\ Len(kept') = Len(kept) + 1
  <2>1. kept' = Append(kept, entry)
    BY DEF AppendEntry
  <2> QED
    BY <2>1, <1>0, <1>1
<1>6. EntriesOf(0) = {es[k].n : k \in DOMAIN es} /\ EntriesOf(0)' = EntriesOf(0) \cup {Len(kept) + 1}
  <2>1. EntriesOf(0) = {es[k].n : k \in DOMAIN es}
    BY Zenon DEF EntriesOf, es
  <2>2. EntriesOf(0)' = {Append(es, entry)[k].n : k \in DOMAIN es \cup {Len(es) + 1}}
    BY Zenon, <1>3, <1>4 DEF EntriesOf
  <2>3. ASSUME NEW n \in EntriesOf(0)' PROVE n \in EntriesOf(0) \cup {Len(kept) + 1}
    <3>1. PICK k \in DOMAIN es \cup {Len(es) + 1} : n = Append(es, entry)[k].n
      BY Zenon, <2>2
    <3> QED
      BY Zenon, <2>1, <3>1, <1>0, <1>4
  <2>4. ASSUME NEW n \in EntriesOf(0) PROVE n \in EntriesOf(0)'
    <3>1. PICK k \in DOMAIN es : n = es[k].n
      BY Zenon, <2>1
    <3>2. n = Append(es, entry)[k].n
      BY Zenon, <3>1, <1>4
    <3> QED
      BY Zenon, <2>2, <3>2
  <2>5. Len(kept) + 1 \in EntriesOf(0)'
    <3>1. Len(kept) + 1 = Append(es, entry)[Len(es) + 1].n
      BY Zenon, <1>0, <1>4
    <3> QED
      BY Zenon, <2>2, <3>1
  <2> QED
    BY Zenon, <2>1, <2>3, <2>4, <2>5
<1>7. OnDisk' = OnDisk \cup {Len(kept) + 1}
  <2>1. ASSUME NEW n \in OnDisk' PROVE n \in OnDisk \cup {Len(kept) + 1}
    <3>1. PICK i \in DOMAIN files' : n \in EntriesOf(i)'
      BY Zenon DEF OnDisk
    <3>2. i \in DOMAIN files /\ n \in EntriesOf(i) \cup {Len(kept) + 1}
      BY Zenon, <3>1, <1>2, <1>6
    <3> QED
      BY Zenon, <3>2 DEF OnDisk
  <2>2. ASSUME NEW n \in OnDisk \cup {Len(kept) + 1} PROVE n \in OnDisk'
    <3>1. ASSUME n \in OnDisk PROVE n \in OnDisk'
      <4>1. PICK i \in DOMAIN files : n \in EntriesOf(i)
        BY Zenon, <3>1 DEF OnDisk
      <4>2. i \in DOMAIN files' /\ n \in EntriesOf(i)'
        BY Zenon, <4>1, <1>2, <1>6
      <4> QED
        BY Zenon, <4>2 DEF OnDisk
    <3>2. Len(kept) + 1 \in OnDisk'
      <4>1. 0 \in DOMAIN files' /\ Len(kept) + 1 \in EntriesOf(0)'
        BY Zenon, <1>0, <1>2, <1>6
      <4> QED
        BY Zenon, <4>1 DEF OnDisk
    <3> QED
      BY Zenon, <3>1, <3>2
  <2> QED
    BY Zenon, <2>1, <2>2
<1>8. NoHole'
  <2> SUFFICES ASSUME NEW n \in OnDisk', NEW q \in n .. Len(kept'), q \notin unseen PROVE q \in OnDisk'
    BY Zenon DEF NoHole, AppendEntry
  <2>1. CASE n = Len(kept) + 1 \/ q = Len(kept) + 1
    BY <2>1, <1>5, <1>7
  <2>2. CASE n \in OnDisk /\ q # Len(kept) + 1
    <3>1. n \in DOMAIN kept
      BY Zenon, <2>2, OnDiskIsKept
    <3>2. q \in n .. Len(kept)
      BY <2>2, <3>1, <1>5
    <3> QED
      BY Zenon, <2>2, <3>2, <1>7 DEF NoHole
  <2> QED
    BY Zenon, <2>1, <2>2, <1>7
<1>9. FilesSized'
  <2>1. files'[0].size <= MaxFileSize + files'[0].torn \/ Len(files'[0].entries) = 1
    <3>1. rotSize + entry.len <= MaxFileSize \/ es = <<>>
      BY <1>0 DEF RotationInv, es
    <3>2. files[0].size <= rotSize + files[0].torn /\ rotSize \in Nat /\ entry.len \in Nat
      BY <1>0 DEF RotationInv, RotatorTypes, LogEntries
    <3>3. CASE rotSize + entry.len <= MaxFileSize
      <4>1. files[0].size + entry.len <= MaxFileSize + files[0].torn
        BY <1>1, <3>2, <3>3, RotatorAssumption
      <4> QED
        BY Zenon, <1>3, <4>1
    <3>4. CASE es = <<>>
      BY <1>3, <1>4, <3>4
    <3> QED
      BY Zenon, <3>1, <3>3, <3>4
  <2> QED
    BY Zenon, <2>1, <1>2 DEF FilesSized
<1>10. FilesInOrder'
  <2>1. ASSUME NEW i \in DOMAIN files', NEW k \in DOMAIN files'[i].entries
        PROVE  files'[i].entries[k].n \in DOMAIN kept' /\ files'[i].entries[k] = kept'[files'[i].entries[k].n]
    <3>1. CASE i = 0 /\ k = Len(es) + 1
      BY Zenon, <3>1, <1>0, <1>3, <1>4, <1>5
    <3>2. CASE ~(i = 0 /\ k = Len(es) + 1)
      <4>1. k \in DOMAIN files[i].entries /\ files'[i].entries[k] = files[i].entries[k] /\ i \in DOMAIN files
        BY Zenon, <3>2, <1>2, <1>3, <1>4 DEF es
      <4>2. files[i].entries[k].n \in DOMAIN kept /\ files[i].entries[k] = kept[files[i].entries[k].n]
        BY Zenon, <4>1 DEF FilesInOrder
      <4> QED
        BY Zenon, <4>1, <4>2, <1>5
    <3> QED
      BY <3>1, <3>2
  <2>2. ASSUME NEW i \in DOMAIN files', NEW k \in DOMAIN files'[i].entries, NEW p \in DOMAIN files'[i].entries, k < p
        PROVE  files'[i].entries[k].n < files'[i].entries[p].n
    <3>1. CASE i # 0
      BY Zenon, <2>2, <3>1, <1>2 DEF FilesInOrder
    <3>2. CASE i = 0
      <4>1. k \in DOMAIN es
        <5>1. k \in DOMAIN es \cup {Len(es) + 1} /\ p \in DOMAIN es \cup {Len(es) + 1}
          BY Zenon, <3>2, <1>3, <1>4
        <5>2. \A x \in DOMAIN es : x \in Nat /\ x < Len(es) + 1
          BY Zenon, <1>4
        <5> QED
          BY <5>1, <5>2, <2>2, <1>4
      <4>2. es[k].n \in DOMAIN kept
        BY Zenon, <4>1, <1>0 DEF FilesInOrder, es
      <4>3. files'[i].entries[k] = es[k]
        BY Zenon, <3>2, <4>1, <1>3, <1>4
      <4>4. CASE p = Len(es) + 1
        <5>1. files'[i].entries[p].n = Len(kept) + 1
          BY Zenon, <3>2, <4>4, <1>0, <1>3, <1>4
        <5> QED
          BY Zenon, <4>2, <4>3, <5>1, <1>5
      <4>5. CASE p \in DOMAIN es
        <5>1. files'[i].entries[p] = es[p]
          BY Zenon, <3>2, <4>5, <1>3, <1>4
        <5>2. es[k].n < es[p].n
          BY Zenon, <2>2, <4>1, <4>5, <1>0 DEF FilesInOrder, es
        <5> QED
          BY Zenon, <4>3, <5>1, <5>2
      <4> QED
        BY Zenon, <3>2, <4>4, <4>5, <1>3, <1>4
    <3> QED
      BY <3>1, <3>2
  <2>3. ASSUME NEW i \in DOMAIN files', NEW j \in DOMAIN files', i < j, NEW a \in EntriesOf(j)', NEW b \in EntriesOf(i)'
        PROVE  a < b
    <3>1. j # 0 /\ i \in DOMAIN files /\ j \in DOMAIN files
      BY <2>3, <1>2 DEF RotatorTypes
    <3>2. a \in EntriesOf(j)
      BY Zenon, <3>1, <1>2
    <3>3. a \in DOMAIN kept
      BY Zenon, <3>1, <3>2, OnDiskIsKept DEF OnDisk
    <3>4. CASE b \in EntriesOf(i)
      BY Zenon, <2>3, <3>1, <3>2, <3>4 DEF FilesInOrder
    <3>5. CASE b = Len(kept) + 1
      BY Zenon, <3>3, <3>5, <1>5
    <3> QED
      BY Zenon, <3>1, <3>4, <3>5, <1>2, <1>6
  <2> QED
    BY Zenon, <2>1, <2>2, <2>3 DEF FilesInOrder
<1> QED
  BY <1>5, <1>7, <1>8, <1>9, <1>10

\* A write that fails adds no entry and nothing that rotSize has to cover.
LEMMA FailedAppendKeepsOrder ==
  ASSUME RotatorTypes, RotationInv, FilesInOrder, NoHole, FilesSized, NEW b \in Nat, AppendFails(b)
  PROVE  FilesInOrder' /\ NoHole' /\ FilesSized'
<1>1. /\ 0 \in DOMAIN files /\ files[0].size <= rotSize + files[0].torn /\ kept' = kept /\ unseen' = unseen
      /\ files[0] \in [entries : Seq(LogEntries), size : Nat, torn : Nat] /\ rotSize \in Nat
  BY DEF AppendFails, RotationInv, RotatorTypes
<1>2. /\ DOMAIN files' = DOMAIN files
      /\ \A i \in DOMAIN files : i # 0 => files'[i] = files[i]
      /\ files'[0] = [entries |-> files[0].entries, size |-> files[0].size + b, torn |-> files[0].torn + b]
  BY Zenon, <1>1 DEF AppendFails
<1>3. /\ files'[0].entries = files[0].entries /\ files'[0].size = files[0].size + b
      /\ files'[0].torn = files[0].torn + b
      /\ files'[0] \in [entries : Seq(LogEntries), size : Nat, torn : Nat]
  BY <1>1, <1>2
<1>4. \A i \in DOMAIN files : files'[i].entries = files[i].entries /\ EntriesOf(i)' = EntriesOf(i)
  <2>1. \A i \in DOMAIN files : files'[i].entries = files[i].entries
    BY Zenon, <1>2, <1>3
  <2> QED
    BY Zenon, <2>1 DEF EntriesOf
<1>5. OnDisk' = OnDisk
  BY Zenon, <1>2, <1>4 DEF OnDisk
<1>6. NoHole'
  BY Zenon, <1>1, <1>5 DEF NoHole
<1>7. FilesInOrder'
  <2>1. \A i \in DOMAIN files' : i \in DOMAIN files /\ files'[i].entries = files[i].entries /\ EntriesOf(i)' = EntriesOf(i)
    BY Zenon, <1>2, <1>4
  <2>2. \A i \in DOMAIN files' : \A k, p \in DOMAIN files'[i].entries :
          k < p => files'[i].entries[k].n < files'[i].entries[p].n
    BY Zenon, <2>1 DEF FilesInOrder
  <2>3. ASSUME NEW i \in DOMAIN files', NEW j \in DOMAIN files', i < j,
               NEW x \in EntriesOf(j)', NEW y \in EntriesOf(i)'
        PROVE  x < y
    <3>1. x \in EntriesOf(j) /\ y \in EntriesOf(i) /\ i \in DOMAIN files /\ j \in DOMAIN files
      BY Zenon, <2>1
    <3> QED
      BY Zenon, <2>3, <3>1 DEF FilesInOrder
  <2>4. ASSUME NEW i \in DOMAIN files', NEW k \in DOMAIN files'[i].entries
        PROVE  files'[i].entries[k].n \in DOMAIN kept /\ files'[i].entries[k] = kept[files'[i].entries[k].n]
    BY Zenon, <2>1 DEF FilesInOrder
  <2> QED
    BY Zenon, <1>1, <2>2, <2>3, <2>4 DEF FilesInOrder
<1>8. FilesSized'
  <2>1. files'[0].size <= MaxFileSize + files'[0].torn \/ Len(files'[0].entries) = 1
    <3>1. files[0].size <= MaxFileSize + files[0].torn \/ Len(files[0].entries) = 1
      BY Zenon, <1>1 DEF FilesSized
    <3> QED
      BY <1>1, <1>3, <3>1, RotatorAssumption
  <2> QED
    BY Zenon, <2>1, <1>2 DEF FilesSized
<1> QED
  BY Zenon, <1>6, <1>7, <1>8

\* How a step of the rotation changes the set of files.
LEMMA RotatorDomains ==
  ASSUME RotatorTypes
  PROVE  /\ LastFile \in Nat /\ LastFile >= 1 /\ FilesKept = LastFile + 1
         /\ maxFiles >= 2 => LastFile = maxFiles - 1
         /\ maxFiles < 2 => LastFile = 1
<1>1. maxFiles \in Nat
  BY Zenon DEF RotatorTypes
<1> QED
  BY <1>1 DEF LastFile, FilesKept

\* What a turn of the loop of rotateLocked does, with the arithmetic of the
\* file numbers done: the file removed is the oldest one.
LEMMA ShiftCases ==
  ASSUME RotatorTypes, RotationInv, ShiftFile
  PROVE  /\ maxFiles >= 2 /\ shift \in 1 .. LastFile
         /\ \/ shift \notin DOMAIN files /\ files' = files
            \/ /\ shift \in DOMAIN files /\ shift = LastFile
               /\ files' = [j \in DOMAIN files \ {LastFile} |-> files[j]]
            \/ /\ shift \in DOMAIN files /\ shift + 1 <= LastFile
               /\ Vacant(shift + 1)
               /\ files' = Renamed(shift, shift + 1)
<1>1. /\ rot = "shift" /\ shift >= 1 /\ shift <= maxFiles - 1 /\ maxFiles \in Nat /\ shift \in Nat
      /\ Vacant(shift + 1)
  BY DEF ShiftFile, RotationInv, RotatorTypes
<1>2. maxFiles >= 2 /\ LastFile = maxFiles - 1
  BY <1>1, RotatorDomains
<1>3. files' = IF shift \notin DOMAIN files THEN files
               ELSE IF shift + 1 >= maxFiles THEN [j \in DOMAIN files \ {shift} |-> files[j]]
               ELSE Renamed(shift, shift + 1)
  BY Zenon DEF ShiftFile
<1>4. (shift + 1 >= maxFiles => shift = LastFile) /\ (~(shift + 1 >= maxFiles) => shift + 1 <= LastFile)
  BY <1>1, <1>2
<1>5. shift \in 1 .. LastFile
  BY <1>1, <1>2
<1> QED
  BY Zenon, <1>1, <1>2, <1>3, <1>4, <1>5

\* Every step preserves the types, and there are no files beyond the oldest.
LEMMA RotatorTyped ==
  ASSUME RotatorTypes, RotationInv, [RotatorNext]_rotVars
  PROVE  RotatorTypes'
<1> DEFINE F == [entries : Seq(LogEntries), size : Nat, torn : Nat]
<1>0. /\ files \in [DOMAIN files -> F] /\ DOMAIN files \subseteq 0 .. LastFile
      /\ LastFile \in Nat /\ LastFile >= 1 /\ EmptyFile \in F
  BY RotatorDomains DEF RotatorTypes, EmptyFile
<1>1. Opened \in [DOMAIN files \cup {0} -> F] /\ DOMAIN files \cup {0} \subseteq 0 .. LastFile
  BY <1>0 DEF Opened
<1>2. ASSUME NEW f \in DOMAIN files, f + 1 <= LastFile
      PROVE  /\ Renamed(f, f + 1) \in [(DOMAIN files \ {f}) \cup {f + 1} -> F]
             /\ (DOMAIN files \ {f}) \cup {f + 1} \subseteq 0 .. LastFile
  <2>1. \A i \in (DOMAIN files \ {f}) \cup {f + 1} : (IF i = f + 1 THEN files[f] ELSE files[i]) \in F
    BY Zenon, <1>0
  <2>2. (DOMAIN files \ {f}) \cup {f + 1} \subseteq 0 .. LastFile
    BY <1>0, <1>2
  <2> QED
    BY Zenon, <2>1, <2>2 DEF Renamed
<1>3. ASSUME NEW D, D \subseteq 0 .. LastFile, files' \in [D -> F], maxFiles' = maxFiles
      PROVE  files' \in [DOMAIN files' -> F] /\ DOMAIN files' \subseteq 0 .. LastFile'
  <2>1. DOMAIN files' = D /\ LastFile' = LastFile
    BY Zenon, <1>3 DEF LastFile, FilesKept
  <2> QED
    BY Zenon, <2>1, <1>3
<1>4. ASSUME files' = files, maxFiles' = maxFiles
      PROVE  files' \in [DOMAIN files' -> F] /\ DOMAIN files' \subseteq 0 .. LastFile'
  BY Zenon, <1>0, <1>3, <1>4
<1>5. CASE \E m \in FileCounts : NewFileSink(m)
  <2>1. PICK m \in FileCounts : NewFileSink(m)
    BY <1>5
  <2>2. maxFiles' = m /\ m \in Nat /\ maxFiles = 0 /\ files' = files
    BY <2>1, RotatorAssumption DEF NewFileSink
  <2>3. DOMAIN files = {}
    BY <2>2 DEF RotationInv
  <2>4. files' \in [DOMAIN files' -> F] /\ DOMAIN files' \subseteq 0 .. LastFile'
    BY Zenon, <2>2, <2>3, <1>0
  <2> QED
    BY <2>1, <2>2, <2>4 DEF NewFileSink, RotatorTypes
<1>6. CASE \E len \in 1 .. MaxFileSize + 1 : WriteEntry(len)
  <2>1. PICK len \in 1 .. MaxFileSize + 1 : WriteEntry(len)
    BY <1>6
  <2>2. len \in Nat /\ maxFiles' = maxFiles /\ files' = files /\ maxFiles > 0 /\ maxFiles \in Nat
    BY <2>1, RotatorAssumption DEF WriteEntry, RotationInv, RotatorTypes
  <2>3. rot' \in {"shift", "write"} /\ rotF' \in {"none", "open", "closed"}
    BY <2>1 DEF WriteEntry, RotatorTypes
  <2>4. entry' \in LogEntries
    BY <2>1, <2>2 DEF WriteEntry, RotatorTypes, LogEntries
  <2> QED
    BY <2>1, <2>2, <2>3, <2>4, <1>4 DEF WriteEntry, RotatorTypes
<1>7. CASE NewFileRotator
  <2>1. files' \in [DOMAIN files' -> F] /\ DOMAIN files' \subseteq 0 .. LastFile'
    BY Zenon, <1>1, <1>3, <1>7 DEF NewFileRotator
  <2>2. rotSize' \in Nat
    <3>1. Opened[0] \in F
      BY Zenon, <1>1
    <3> QED
      BY <3>1, <1>7 DEF NewFileRotator
  <2> QED
    BY <2>1, <2>2, <1>7 DEF NewFileRotator, RotatorTypes
<1>8. CASE ShiftFile
  <2>0. maxFiles' = maxFiles
    BY <1>8 DEF ShiftFile
  <2>1. files' \in [DOMAIN files' -> F] /\ DOMAIN files' \subseteq 0 .. LastFile'
    <3>1. CASE shift \notin DOMAIN files /\ files' = files
      BY Zenon, <2>0, <1>4, <3>1
    <3>2. CASE files' = [j \in DOMAIN files \ {LastFile} |-> files[j]]
      <4>1. files' \in [DOMAIN files \ {LastFile} -> F] /\ DOMAIN files \ {LastFile} \subseteq 0 .. LastFile
        BY Zenon, <1>0, <3>2
      <4> QED
        BY Zenon, <2>0, <4>1, <1>3
    <3>3. CASE shift \in DOMAIN files /\ shift + 1 <= LastFile /\ files' = Renamed(shift, shift + 1)
      BY Zenon, <2>0, <3>3, <1>2, <1>3
    <3> QED
      BY Zenon, <3>1, <3>2, <3>3, <1>8, ShiftCases
  <2> QED
    <3>1. UNCHANGED <<maxFiles, rot, rotF, rotSize, entry, fileFaults, kept>> /\ shift' = shift - 1 /\ shift >= 1
      BY Zenon, <1>8 DEF ShiftFile
    <3>2. shift' \in Nat
      BY <3>1 DEF RotatorTypes
    <3> QED
      BY Zenon, <2>1, <3>1, <3>2 DEF RotatorTypes
<1>9. CASE RenameActive
  <2>1. 0 \in DOMAIN files /\ 0 + 1 <= LastFile /\ files' = Renamed(0, 0 + 1) /\ maxFiles' = maxFiles
    BY <1>9, <1>0 DEF RenameActive, RotationInv
  <2>2. files' \in [DOMAIN files' -> F] /\ DOMAIN files' \subseteq 0 .. LastFile'
    BY Zenon, <2>1, <1>2, <1>3
  <2> QED
    BY <2>2, <1>9 DEF RenameActive, RotatorTypes
<1>10. CASE OpenActive
  <2>1. files' \in [DOMAIN files' -> F] /\ DOMAIN files' \subseteq 0 .. LastFile'
    BY Zenon, <1>1, <1>3, <1>10 DEF OpenActive
  <2> QED
    BY <2>1, <1>10 DEF OpenActive, RotatorTypes
<1>11. CASE AppendEntry
  <2>1. 0 \in DOMAIN files /\ entry \in LogEntries /\ files[0] \in F /\ kept \in Seq(LogEntries) /\ rotSize \in Nat
    BY <1>11 DEF AppendEntry, RotationInv, RotatorTypes
  <2>2. [entries |-> Append(files[0].entries, entry), size |-> files[0].size + entry.len, torn |-> files[0].torn] \in F
    BY <2>1 DEF LogEntries
  <2>3. files' \in [DOMAIN files -> F] /\ maxFiles' = maxFiles
    BY Zenon, <1>0, <2>2, <1>11 DEF AppendEntry
  <2>4. files' \in [DOMAIN files' -> F] /\ DOMAIN files' \subseteq 0 .. LastFile'
    BY Zenon, <1>0, <2>3, <1>3
  <2>5. kept' \in Seq(LogEntries) /\ rotSize' \in Nat
    BY <2>1, <1>11 DEF AppendEntry, LogEntries
  <2> QED
    BY <2>4, <2>5, <1>11 DEF AppendEntry, RotatorTypes
<1>12. CASE ShiftSkips \/ RotationFails \/ ProcessEnds \/ UNCHANGED rotVars
  <2>1. files' = files /\ maxFiles' = maxFiles
    BY <1>12 DEF ShiftSkips, RotationFails, ProcessEnds, rotVars
  <2> QED
    BY <2>1, <1>4, <1>12 DEF ShiftSkips, RotationFails, ProcessEnds, rotVars, RotatorTypes
<1>13. CASE \E b \in 0 .. MaxFileSize : AppendFails(b)
  <2>1. PICK b \in Nat : AppendFails(b)
    BY <1>13, RotatorAssumption
  <2>2. files' \in [DOMAIN files -> F] /\ maxFiles' = maxFiles
    <3>1. files[0] \in F /\ 0 \in DOMAIN files
      BY <2>1 DEF AppendFails, RotationInv, RotatorTypes
    <3>2. [entries |-> files[0].entries, size |-> files[0].size + b, torn |-> files[0].torn + b] \in F
      BY <3>1
    <3> QED
      BY Zenon, <1>0, <2>1, <3>2 DEF AppendFails
  <2>3. files' \in [DOMAIN files' -> F] /\ DOMAIN files' \subseteq 0 .. LastFile'
    BY Zenon, <1>0, <2>2, <1>3
  <2> QED
    BY <2>1, <2>3 DEF AppendFails, RotatorTypes
<1> QED
  BY Zenon, <1>5, <1>6, <1>7, <1>8, <1>9, <1>10, <1>11, <1>12, <1>13 DEF RotatorNext

\* Every step of a Write finds the files as the step before it left them.
LEMMA RotationStays ==
  ASSUME RotatorTypes, RotationInv, [RotatorNext]_rotVars
  PROVE  RotationInv'
<1>0. /\ DOMAIN files \subseteq 0 .. LastFile /\ LastFile \in Nat /\ LastFile >= 1
      /\ maxFiles \in Nat /\ shift \in Nat /\ rotSize \in Nat
  BY RotatorDomains DEF RotatorTypes
<1>1. maxFiles' = maxFiles => LastFile' = LastFile
  BY DEF LastFile, FilesKept
<1>2. DOMAIN Opened = DOMAIN files \cup {0} /\ (0 \in DOMAIN files => Opened[0] = files[0])
      /\ (0 \notin DOMAIN files => Opened[0] = EmptyFile)
  BY Zenon DEF Opened
<1>3. EmptyFile.size = 0 /\ EmptyFile.torn = 0 /\ EmptyFile.entries = <<>>
  BY DEF EmptyFile
<1>4. EmptyFile \in [entries : Seq(LogEntries), size : Nat, torn : Nat]
  BY DEF EmptyFile
<1>5. CASE \E m \in FileCounts : NewFileSink(m)
  BY <1>5, RotatorAssumption DEF NewFileSink, RotationInv
<1>6. CASE \E len \in 1 .. MaxFileSize + 1 : WriteEntry(len)
  <2>1. PICK len \in 1 .. MaxFileSize + 1 : WriteEntry(len)
    BY <1>6
  <2>2. /\ rot = "idle" /\ rotF = "open" /\ shift' = maxFiles - 1 /\ maxFiles > 0 /\ 0 \in DOMAIN files
        /\ entry'.n = Len(kept) + 1 /\ entry'.len = len /\ files[0].size <= rotSize + files[0].torn
        /\ UNCHANGED <<maxFiles, files, rotSize, fileFaults, kept>>
    BY <2>1, <1>0 DEF WriteEntry, RotationInv
  <2>3. Vacant(shift + 1)'
    <3>0. LastFile' = LastFile
      BY <1>1, <2>2
    <3>1. CASE maxFiles >= 2
      BY <3>0, <3>1, <2>2, <1>0, RotatorDomains DEF Vacant
    <3>2. CASE maxFiles = 1
      BY <3>0, <3>2, <2>2, <1>0, RotatorDomains DEF Vacant
    <3> QED
      BY <3>1, <3>2, <2>2, <1>0
  <2>4. CASE rotSize + len > MaxFileSize
    <3>1. rot' = "shift" /\ rotF' = "closed"
      BY <2>1, <2>4 DEF WriteEntry
    <3> QED
      BY <3>1, <2>2, <2>3, <1>0, <1>1 DEF RotationInv
  <2>5. CASE ~(rotSize + len > MaxFileSize)
    <3>1. rot' = "write" /\ rotF' = "open"
      BY <2>1, <2>2, <2>5 DEF WriteEntry
    <3>2. rotSize + len <= MaxFileSize
      BY <2>5, <1>0, RotatorAssumption
    <3> QED
      BY <3>1, <3>2, <2>2, <1>0, <1>1 DEF RotationInv
  <2> QED
    BY <2>4, <2>5
<1>7. CASE NewFileRotator
  <2>1. Opened[0] \in [entries : Seq(LogEntries), size : Nat, torn : Nat]
    BY Zenon, <1>2, <1>4 DEF RotatorTypes
  <2>2. Opened[0].size <= Opened[0].size + Opened[0].torn
    BY <2>1
  <2> QED
    BY <1>7, <1>0, <1>2, <2>2 DEF NewFileRotator, RotationInv
<1>8. CASE ShiftFile
  <2>1. /\ rot = "shift" /\ rot' = "shift" /\ rotF' = rotF /\ rotF = "closed" /\ shift' = shift - 1 /\ maxFiles' = maxFiles
        /\ entry' = entry /\ kept' = kept /\ 0 \in DOMAIN files /\ maxFiles >= 2
        /\ shift >= 1 /\ shift <= maxFiles - 1 /\ entry.n = Len(kept) + 1
    BY <1>8, ShiftCases DEF ShiftFile, RotationInv
  <2>2. shift \notin DOMAIN files' /\ 0 \in DOMAIN files'
    <3>1. CASE shift \notin DOMAIN files /\ files' = files
      BY Zenon, <2>1, <3>1
    <3>2. CASE shift = LastFile /\ files' = [j \in DOMAIN files \ {LastFile} |-> files[j]]
      <4>1. DOMAIN files' = DOMAIN files \ {LastFile} /\ LastFile # 0
        BY <3>2, <1>0
      <4> QED
        BY Zenon, <2>1, <3>2, <4>1
    <3>3. CASE files' = Renamed(shift, shift + 1)
      <4>1. DOMAIN files' = (DOMAIN files \ {shift}) \cup {shift + 1} /\ shift # 0 /\ shift + 1 # shift
        BY <3>3, <2>1, <1>0 DEF Renamed
      <4> QED
        BY Zenon, <2>1, <4>1
    <3> QED
      BY Zenon, <3>1, <3>2, <3>3, <1>8, ShiftCases
  <2>3. shift' + 1 = shift /\ shift' <= maxFiles - 1
    BY <2>1, <1>0
  <2> QED
    BY <2>1, <2>2, <2>3 DEF RotationInv, Vacant
<1>9. CASE ShiftSkips
  <2>1. /\ rot = "shift" /\ rot' = "shift" /\ rotF' = rotF /\ rotF = "closed" /\ shift' = shift - 1 /\ maxFiles' = maxFiles
        /\ entry' = entry /\ kept' = kept /\ files' = files /\ 0 \in DOMAIN files
        /\ shift >= 1 /\ shift <= maxFiles - 1 /\ entry.n = Len(kept) + 1
        /\ shift + 1 >= maxFiles \/ unseen' = unseen \cup EntriesOf(shift)
    BY <1>9 DEF ShiftSkips, RotationInv
  <2>2. shift' + 1 = shift /\ shift' <= maxFiles - 1 /\ maxFiles > 0 /\ LastFile' = maxFiles - 1
    BY <2>1, <1>0, <1>1, RotatorDomains
  <2>3. Vacant(shift + 1)'
    <3>1. CASE shift + 1 >= maxFiles
      <4>1. shift' + 1 >= LastFile'
        BY <2>1, <2>2, <3>1, <1>0
      <4> QED
        BY Zenon, <4>1 DEF Vacant
    <3>2. CASE unseen' = unseen \cup EntriesOf(shift)
      BY Zenon, <2>1, <2>2, <3>2 DEF Vacant, EntriesOf
    <3> QED
      BY Zenon, <2>1, <3>1, <3>2
  <2> QED
    BY <2>1, <2>2, <2>3 DEF RotationInv
<1>10. CASE RenameActive
  <2>1. DOMAIN files' = (DOMAIN files \ {0}) \cup {1}
    BY Zenon, <1>10 DEF RenameActive, Renamed
  <2>2. 0 \notin DOMAIN files'
    BY <2>1
  <2> QED
    BY <1>10, <2>2 DEF RenameActive, RotationInv
<1>11. CASE OpenActive
  <2>1. 0 \notin DOMAIN files /\ files' = Opened
    BY <1>11 DEF OpenActive, RotationInv
  <2>2. 0 \in DOMAIN files' /\ files'[0].size = 0 /\ files'[0].torn = 0 /\ files'[0].entries = <<>>
    BY Zenon, <2>1, <1>2, <1>3
  <2> QED
    BY <1>11, <2>2 DEF OpenActive, RotationInv
<1>12. CASE AppendEntry
  <2>1. /\ rot = "write" /\ rotF = "open" /\ 0 \in DOMAIN files /\ maxFiles > 0
        /\ files[0].size <= rotSize + files[0].torn /\ rotSize \in Nat /\ entry.len \in Nat
        /\ files[0] \in [entries : Seq(LogEntries), size : Nat, torn : Nat]
    BY <1>12 DEF AppendEntry, RotationInv, RotatorTypes, LogEntries
  <2>2. /\ DOMAIN files' = DOMAIN files
        /\ files'[0] = [entries |-> Append(files[0].entries, entry), size |-> files[0].size + entry.len, torn |-> files[0].torn]
    BY Zenon, <2>1, <1>12 DEF AppendEntry
  <2>3. files'[0].size <= rotSize' + files'[0].torn
    BY <2>1, <2>2, <1>12 DEF AppendEntry
  <2> QED
    BY <1>12, <2>1, <2>2, <2>3 DEF AppendEntry, RotationInv
<1>13. CASE RotationFails \/ ProcessEnds \/ UNCHANGED rotVars
  <2>1. UNCHANGED <<maxFiles, files, shift, unseen>>
    BY <1>13 DEF RotationFails, ProcessEnds, rotVars
  <2>2. Vacant(shift + 1) => Vacant(shift + 1)'
    BY Zenon, <2>1, <1>1 DEF Vacant, EntriesOf
  <2> QED
    BY <1>13, <2>2 DEF RotationFails, ProcessEnds, rotVars, RotationInv
<1>14. CASE \E b \in 0 .. MaxFileSize : AppendFails(b)
  <2>1. PICK b \in Nat : AppendFails(b)
    BY <1>14, RotatorAssumption
  <2>2. /\ rot = "write" /\ rotF = "open" /\ 0 \in DOMAIN files /\ maxFiles > 0
        /\ files[0].size <= rotSize + files[0].torn /\ rotSize \in Nat
        /\ files[0] \in [entries : Seq(LogEntries), size : Nat, torn : Nat]
    BY <2>1 DEF AppendFails, RotationInv, RotatorTypes
  <2>3. DOMAIN files' = DOMAIN files /\ files'[0] = [entries |-> files[0].entries, size |-> files[0].size + b, torn |-> files[0].torn + b]
    BY Zenon, <2>1, <2>2 DEF AppendFails
  <2>4. files'[0].size <= rotSize + files'[0].torn
    BY <2>2, <2>3
  <2> QED
    BY <2>1, <2>2, <2>3, <2>4 DEF AppendFails, RotationInv
<1> QED
  BY Zenon, <1>5, <1>6, <1>7, <1>8, <1>9, <1>10, <1>11, <1>12, <1>13, <1>14 DEF RotatorNext

\* Every step keeps the entries in order, without a hole, in sized files.
LEMMA FilesStay ==
  ASSUME RotatorTypes, RotationInv, FilesInOrder, NoHole, FilesSized, [RotatorNext]_rotVars
  PROVE  FilesInOrder' /\ NoHole' /\ FilesSized'
<1>1. ASSUME files' = files, kept' = kept, unseen \subseteq unseen' PROVE FilesInOrder' /\ NoHole' /\ FilesSized'
  <2>0. \A i : EntriesOf(i)' = EntriesOf(i)
    BY Zenon, <1>1 DEF EntriesOf
  <2>1. FilesInOrder' /\ FilesSized' /\ OnDisk' = OnDisk
    <3>1. OnDisk' = OnDisk
      BY Zenon, <1>1, <2>0 DEF OnDisk
    <3>2. FilesSized'
      BY Zenon, <1>1 DEF FilesSized
    <3>3. FilesInOrder'
      BY SMT, <1>1, <2>0 DEF FilesInOrder
    <3> QED
      BY Zenon, <3>1, <3>2, <3>3
  <2>2. NoHole'
    BY Zenon, <1>1, <2>1 DEF NoHole
  <2> QED
    BY Zenon, <2>1, <2>2
<1>2. CASE \/ \E m \in FileCounts : NewFileSink(m)
           \/ \E len \in 1 .. MaxFileSize + 1 : WriteEntry(len)
           \/ ShiftSkips \/ RotationFails \/ ProcessEnds \/ UNCHANGED rotVars
  <2>1. files' = files /\ kept' = kept /\ unseen \subseteq unseen'
    BY <1>2 DEF NewFileSink, WriteEntry, ShiftSkips, RotationFails, ProcessEnds, rotVars
  <2> QED
    BY <2>1, <1>1
<1>3. CASE NewFileRotator \/ OpenActive
  <2>1. files' = Opened /\ kept' = kept /\ unseen' = unseen
    BY <1>3 DEF NewFileRotator, OpenActive
  <2> QED
    BY Zenon, <2>1, OpenKeepsOrder
<1>4. CASE ShiftFile
  <2>1. kept' = kept /\ unseen' = unseen
    BY <1>4 DEF ShiftFile
  <2> QED
    BY Zenon, <1>1, <1>4, <2>1, ShiftCases, RemovalKeepsOrder, RenameKeepsOrder
<1>5. CASE RenameActive
  <2>1. 0 \in DOMAIN files /\ files' = Renamed(0, 0 + 1) /\ kept' = kept /\ 0 + 1 <= LastFile
        /\ Vacant(0 + 1) /\ unseen' = unseen
    BY SMTT(30), <1>5, RotatorDomains DEF RenameActive, RotationInv
  <2> QED
    BY Zenon, <2>1, RenameKeepsOrder
<1>6. CASE AppendEntry
  BY Zenon, <1>6, AppendKeepsOrder
<1>7. CASE \E b \in 0 .. MaxFileSize : AppendFails(b)
  <2>1. PICK b \in Nat : AppendFails(b)
    BY <1>7, RotatorAssumption
  <2> QED
    BY Zenon, <2>1, FailedAppendKeepsOrder
<1> QED
  BY Zenon, <1>2, <1>3, <1>4, <1>5, <1>6, <1>7 DEF RotatorNext

\* As long as nothing fails, entries are lost only when every file is there.
LEMMA FullStays ==
  ASSUME RotatorTypes, RotationInv, FilesInOrder, NoHole, FilesSized, FullInv, [RotatorNext]_rotVars
  PROVE  FullInv'
<1> SUFFICES ASSUME fileFaults' = 0 PROVE FullInv'
  BY DEF FullInv
<1> DEFINE Files(k) == \A j \in 0 .. LastFile : j \in DOMAIN files <=> Present(k, j)
<1>0. /\ DOMAIN files \subseteq 0 .. LastFile /\ LastFile \in Nat /\ LastFile >= 1
      /\ maxFiles \in Nat /\ shift \in Nat /\ fileFaults \in Nat
  BY RotatorDomains DEF RotatorTypes
<1>1. maxFiles' = maxFiles => LastFile' = LastFile
  BY DEF LastFile, FilesKept
<1>2. fileFaults = 0 => /\ rotF = "none" => kept = <<>> /\ DOMAIN files = {}
                        /\ rotF = "closed" => rot # "idle"
                        /\ rotF # "none" => \E k \in 0 .. LastFile : Files(k) /\ (OnDisk # DOMAIN kept => k = LastFile)
  BY Zenon DEF FullInv
<1>3. ASSUME files' = files, kept' = kept PROVE OnDisk' = OnDisk
  BY <1>3 DEF OnDisk, EntriesOf
<1>4. CASE \E m \in FileCounts : NewFileSink(m)
  <2>1. rotF = "none" /\ rotF' = "none" /\ files' = files /\ kept' = kept /\ fileFaults' = fileFaults
    BY <1>4 DEF NewFileSink, RotationInv
  <2> QED
    BY <2>1, <1>2 DEF FullInv
<1>5. CASE \E len \in 1 .. MaxFileSize + 1 : WriteEntry(len)
  <2>1. /\ rot = "idle" /\ rotF = "open" /\ files' = files /\ kept' = kept /\ maxFiles' = maxFiles /\ fileFaults = 0
        /\ shift' = maxFiles - 1 /\ rotF' # "none" /\ rot' \in {"shift", "write"} /\ maxFiles > 0
    BY SMTT(30), <1>5, <1>0 DEF WriteEntry, RotationInv
  <2>2. PICK k \in 0 .. LastFile : Files(k) /\ (OnDisk # DOMAIN kept => k = LastFile)
    BY Zenon, <2>1, <1>2
  <2>3. ASSUME NEW j \in 0 .. LastFile PROVE Present(k, j) <=> Present(k, j)'
    <3>1. CASE rot' = "write"
      BY <2>1, <3>1 DEF Present
    <3>2. CASE rot' = "shift"
      <4>1. PICK g \in Nat : g = ShiftGap' /\ g >= LastFile
        BY <2>1, <1>0, RotatorDomains DEF ShiftGap
      <4>2. Present(k, j)' <=> (j <= g /\ j <= k) \/ (j >= g + 2 /\ j <= k + 1)
        BY <3>2, <4>1 DEF Present
      <4>3. Present(k, j) <=> j <= k
        BY <2>1 DEF Present
      <4>4. j <= g /\ ~(j >= g + 2)
        <5>1. LastFile \in Nat /\ j \in Nat /\ j <= LastFile /\ g \in Nat /\ g >= LastFile
          BY <4>1, <1>0
        <5> QED
          BY ONLY <5>1
      <4> QED
        BY Zenon, <4>2, <4>3, <4>4
    <3> QED
      BY <2>1, <3>1, <3>2
  <2>4. \A j \in 0 .. LastFile' : j \in DOMAIN files' <=> Present(k, j)'
    BY Zenon, <2>1, <2>2, <2>3, <1>1
  <2>5. k \in 0 .. LastFile' /\ (OnDisk' # DOMAIN kept' => k = LastFile')
    BY Zenon, <2>1, <2>2, <1>1, <1>3
  <2>6. rot' # "idle" /\ rotF' # "none"
    BY <2>1
  <2> QED
    BY Zenon, <2>4, <2>5, <2>6 DEF FullInv
<1>6. CASE NewFileRotator
  <2>1. /\ rot' = "idle" /\ rotF' = "open" /\ files' = Opened /\ kept' = kept /\ maxFiles' = maxFiles
        /\ kept = <<>> /\ DOMAIN files = {} /\ unseen' = unseen
    BY <1>6, <1>2 DEF NewFileRotator
  <2>2. DOMAIN files' = {0}
    BY Zenon, <2>1 DEF Opened
  <2>3. OnDisk' = {} /\ DOMAIN kept' = {}
    <3>1. OnDisk' = OnDisk
      BY Zenon, <2>1, OpenKeepsOrder
    <3>2. OnDisk = {}
      BY Zenon, <2>1 DEF OnDisk
    <3> QED
      BY <2>1, <3>1, <3>2
  <2>4. \A j \in 0 .. LastFile' : j \in DOMAIN files' <=> Present(0, j)'
    BY <2>1, <2>2, <1>0, <1>1 DEF Present
  <2>5. 0 \in 0 .. LastFile'
    BY <2>1, <1>0, <1>1
  <2> QED
    BY <2>1, <2>3, <2>4, <2>5 DEF FullInv
<1>7. CASE ShiftFile
  <2>1. /\ rot = "shift" /\ rotF = "closed" /\ kept' = kept /\ maxFiles' = maxFiles /\ fileFaults = 0
        /\ shift' = shift - 1 /\ rotF' = "closed" /\ rot' = "shift" /\ unseen' = unseen
    BY <1>7 DEF ShiftFile, RotationInv
  <2>2. PICK k \in 0 .. LastFile : Files(k) /\ (OnDisk # DOMAIN kept => k = LastFile)
    BY Zenon, <2>1, <1>2
  <2>3. maxFiles >= 2 /\ shift \in 1 .. LastFile /\ ShiftGap = shift /\ ShiftGap' = shift - 1
    BY <1>7, <2>1, <1>0, ShiftCases DEF ShiftGap
  <2>4. ASSUME NEW j \in 0 .. LastFile
        PROVE  /\ Present(k, j) <=> (j <= shift /\ j <= k) \/ (j >= shift + 2 /\ j <= k + 1)
               /\ Present(k, j)' <=> (j <= shift - 1 /\ j <= k) \/ (j >= shift + 1 /\ j <= k + 1)
    <3>1. j >= shift - 1 + 2 <=> j >= shift + 1
      BY <2>3
    <3> QED
      BY <2>1, <2>3, <3>1 DEF Present
  <2>5. ASSUME NEW j \in 0 .. LastFile PROVE j \in DOMAIN files <=> (j <= shift /\ j <= k) \/ (j >= shift + 2 /\ j <= k + 1)
    BY Zenon, <2>2, <2>4
  <2> HIDE DEF Files
  <2>6. /\ \A j \in 0 .. LastFile : j \in DOMAIN files' <=> (j <= shift - 1 /\ j <= k) \/ (j >= shift + 1 /\ j <= k + 1)
        /\ OnDisk' = OnDisk \/ k = LastFile
    <3>1. CASE shift \notin DOMAIN files /\ files' = files
      <4>1. k < shift
        BY <2>3, <2>5, <3>1
      <4>2. OnDisk' = OnDisk
        BY Zenon, <3>1, <2>1, <1>3
      <4> QED
        BY <2>3, <2>5, <3>1, <4>1, <4>2
    <3>2. CASE /\ shift \in DOMAIN files /\ shift = LastFile
               /\ files' = [j \in DOMAIN files \ {LastFile} |-> files[j]]
      <4>1. DOMAIN files' = DOMAIN files \ {LastFile}
        BY Zenon, <3>2
      <4>2. k = LastFile
        BY <2>3, <2>5, <3>2, <1>0
      <4> QED
        BY <2>3, <2>5, <3>2, <4>1, <4>2
    <3>3. CASE /\ shift \in DOMAIN files /\ shift + 1 <= LastFile
               /\ Vacant(shift + 1)
               /\ files' = Renamed(shift, shift + 1)
      <4>1. DOMAIN files' = (DOMAIN files \ {shift}) \cup {shift + 1}
        BY Zenon, <3>3 DEF Renamed
      <4>2. k >= shift
        BY <2>3, <2>5, <3>3, <1>0
      <4>3. shift + 1 \notin DOMAIN files
        <5>1. shift + 1 \in 0 .. LastFile
          BY <2>3, <3>3, <1>0
        <5> QED
          BY <5>1, <2>3, <2>5
      <4>4. OnDisk' = OnDisk
        BY Zenon, <2>1, <3>3, <4>3, RenameKeepsOrder
      <4> QED
        BY <2>3, <2>5, <3>3, <4>1, <4>2, <4>4
    <3> QED
      BY Zenon, <3>1, <3>2, <3>3, <1>7, ShiftCases
  <2>7. \A j \in 0 .. LastFile' : j \in DOMAIN files' <=> Present(k, j)'
    BY Zenon, <2>1, <2>4, <2>6, <1>1
  <2>8. k \in 0 .. LastFile' /\ (OnDisk' # DOMAIN kept' => k = LastFile')
    BY Zenon, <2>1, <2>2, <2>6, <1>1
  <2>9. rot' # "idle" /\ rotF' # "none"
    BY <2>1
  <2> QED
    BY Zenon, <2>7, <2>8, <2>9 DEF FullInv
<1>8. CASE RenameActive
  <2>1. /\ rot = "shift" /\ rotF = "closed" /\ kept' = kept /\ maxFiles' = maxFiles /\ fileFaults = 0
        /\ shift = 0 /\ rotF' = "closed" /\ rot' = "reopen" /\ files' = Renamed(0, 0 + 1) /\ 0 \in DOMAIN files
        /\ 0 + 1 <= LastFile /\ Vacant(0 + 1) /\ unseen' = unseen
    BY <1>8, <1>0 DEF RenameActive, RotationInv
  <2>2. PICK k \in 0 .. LastFile : Files(k) /\ (OnDisk # DOMAIN kept => k = LastFile)
    BY Zenon, <2>1, <1>2
  <2>3. DOMAIN files' = (DOMAIN files \ {0}) \cup {1}
    BY <2>1 DEF Renamed
  <2>4. (maxFiles < 2 => ShiftGap = 1 /\ LastFile = 1) /\ (maxFiles >= 2 => ShiftGap = 0)
    BY <1>0, <2>1, RotatorDomains DEF ShiftGap
  <2>5. ASSUME NEW j \in 0 .. LastFile
        PROVE  /\ Present(k, j) <=> (j <= ShiftGap /\ j <= k) \/ (j >= ShiftGap + 2 /\ j <= k + 1)
               /\ Present(k, j)' <=> j >= 1 /\ j <= k + 1
    BY <2>1 DEF Present
  <2>6. ASSUME NEW j \in 0 .. LastFile
        PROVE  j \in DOMAIN files <=> (j <= ShiftGap /\ j <= k) \/ (j >= ShiftGap + 2 /\ j <= k + 1)
    BY Zenon, <2>2, <2>5
  <2> HIDE DEF Files
  <2>7. ASSUME NEW j \in 0 .. LastFile PROVE j \in DOMAIN files' <=> j >= 1 /\ j <= k + 1
    <3>1. CASE maxFiles < 2
      BY <3>1, <2>3, <2>4, <2>6, <1>0
    <3>2. CASE maxFiles >= 2
      BY <3>2, <2>3, <2>4, <2>6, <1>0
    <3> QED
      BY <3>1, <3>2, <1>0
  <2>8. OnDisk' = OnDisk \/ k = LastFile
    <3>1. CASE 1 \notin DOMAIN files
      <4>1. 0 + 1 \notin DOMAIN files
        BY <3>1
      <4> QED
        BY Zenon, <2>1, <4>1, RenameKeepsOrder
    <3>2. CASE 1 \in DOMAIN files
      <4>1. 1 \in 0 .. LastFile /\ ((1 <= ShiftGap /\ 1 <= k) \/ (1 >= ShiftGap + 2 /\ 1 <= k + 1))
        BY <3>2, <2>6, <1>0
      <4>2. ShiftGap = 1 /\ LastFile = 1
        BY <4>1, <2>4, <1>0
      <4> QED
        BY <4>1, <4>2
    <3> QED
      BY <3>1, <3>2
  <2>9. \A j \in 0 .. LastFile' : j \in DOMAIN files' <=> Present(k, j)'
    BY Zenon, <2>1, <2>5, <2>7, <1>1
  <2>10. k \in 0 .. LastFile' /\ (OnDisk' # DOMAIN kept' => k = LastFile')
    BY Zenon, <2>1, <2>2, <2>8, <1>1
  <2>11. rot' # "idle" /\ rotF' # "none"
    BY <2>1
  <2> QED
    BY Zenon, <2>9, <2>10, <2>11 DEF FullInv
<1>9. CASE OpenActive
  <2>1. /\ rot = "reopen" /\ rotF = "closed" /\ kept' = kept /\ maxFiles' = maxFiles /\ fileFaults = 0
        /\ rotF' = "open" /\ rot' = "write" /\ files' = Opened /\ unseen' = unseen
    BY <1>9 DEF OpenActive, RotationInv
  <2>2. PICK k \in 0 .. LastFile : Files(k) /\ (OnDisk # DOMAIN kept => k = LastFile)
    BY Zenon, <2>1, <1>2
  <2>3. PICK q \in 0 .. LastFile : (k < LastFile => q = k + 1) /\ (k = LastFile => q = LastFile)
    <3>1. k < LastFile => k + 1 \in 0 .. LastFile
      BY <1>0
    <3> QED
      BY <3>1, <1>0
  <2>4. DOMAIN files' = DOMAIN files \cup {0} /\ OnDisk' = OnDisk
    BY Zenon, <2>1, OpenKeepsOrder DEF Opened
  <2>5. ASSUME NEW j \in 0 .. LastFile
        PROVE  (Present(k, j) <=> j >= 1 /\ j <= k + 1) /\ (Present(q, j)' <=> j <= q)
    BY <2>1 DEF Present
  <2>6. ASSUME NEW j \in 0 .. LastFile PROVE j \in DOMAIN files <=> j >= 1 /\ j <= k + 1
    BY Zenon, <2>2, <2>5
  <2> HIDE DEF Files
  <2>7. ASSUME NEW j \in 0 .. LastFile PROVE j \in DOMAIN files' <=> j <= q
    BY <2>3, <2>4, <2>6, <1>0
  <2>8. \A j \in 0 .. LastFile' : j \in DOMAIN files' <=> Present(q, j)'
    BY Zenon, <2>1, <2>5, <2>7, <1>1
  <2>9. q \in 0 .. LastFile' /\ (OnDisk' # DOMAIN kept' => q = LastFile')
    BY Zenon, <2>1, <2>2, <2>3, <2>4, <1>1
  <2>10. rot' # "idle" /\ rotF' # "none" /\ rotF' # "closed"
    BY <2>1
  <2> QED
    BY Zenon, <2>8, <2>9, <2>10 DEF FullInv
<1>10. CASE AppendEntry
  <2>1. /\ rot = "write" /\ rotF = "open" /\ maxFiles' = maxFiles /\ fileFaults = 0
        /\ rotF' = "open" /\ rot' = "idle"
    BY <1>10 DEF AppendEntry, RotationInv
  <2>2. PICK k \in 0 .. LastFile : Files(k) /\ (OnDisk # DOMAIN kept => k = LastFile)
    BY Zenon, <2>1, <1>2
  <2>3. DOMAIN files' = DOMAIN files
    BY Zenon, <1>10 DEF AppendEntry
  <2>4. OnDisk' # DOMAIN kept' => OnDisk # DOMAIN kept
    BY Zenon, <1>10, AppendKeepsOrder
  <2>5. ASSUME NEW j \in 0 .. LastFile PROVE Present(k, j)' <=> Present(k, j)
    BY <2>1 DEF Present
  <2>6. \A j \in 0 .. LastFile' : j \in DOMAIN files' <=> Present(k, j)'
    BY Zenon, <2>1, <2>2, <2>3, <2>5, <1>1
  <2>7. k \in 0 .. LastFile' /\ (OnDisk' # DOMAIN kept' => k = LastFile')
    BY Zenon, <2>1, <2>2, <2>4, <1>1
  <2>8. rotF' # "none" /\ rotF' # "closed"
    BY <2>1
  <2> QED
    BY Zenon, <2>6, <2>7, <2>8 DEF FullInv
<1>11. CASE ShiftSkips \/ RotationFails \/ ProcessEnds \/ \E b \in 0 .. MaxFileSize : AppendFails(b)
  <2>1. fileFaults' = fileFaults + 1
    BY <1>11 DEF ShiftSkips, RotationFails, ProcessEnds, AppendFails
  <2> QED
    BY <2>1, <1>0
<1>12. CASE UNCHANGED rotVars
  <2>1. UNCHANGED <<maxFiles, files, rot, rotF, shift, fileFaults, kept>>
    BY <1>12 DEF rotVars
  <2> QED
    BY <2>1, <1>1, <1>3 DEF FullInv, Present, ShiftGap, OnDisk, EntriesOf
<1> QED
  BY Zenon, <1>4, <1>5, <1>6, <1>7, <1>8, <1>9, <1>10, <1>11, <1>12 DEF RotatorNext

\* For every number and size of files, at every step of every rotation, whichever
\* call fails or write is cut short and wherever the process dies: the files hold
\* the most recent entries in order, without a hole but for the files a failing
\* Stat hid; they are no more than asked for, unless one was; each is within the
\* size asked for, the bytes of failed writes and entries above it apart.
THEOREM LogFilesAreSound == RotatorSpec => []FilesAreSound
<1>1. RotatorInit => RotatorInv
  <2> SUFFICES ASSUME RotatorInit PROVE RotatorInv
    OBVIOUS
  <2>1. DOMAIN files = {} /\ files = [i \in {} |-> EmptyFile]
    BY DEF RotatorInit
  <2>2. RotatorTypes
    <3>1. files \in [DOMAIN files -> [entries : Seq(LogEntries), size : Nat, torn : Nat]]
      BY Zenon, <2>1
    <3> QED
      BY <2>1, <3>1 DEF RotatorInit, RotatorTypes, NoEntry, LogEntries
  <2>3. RotationInv
    BY <2>1 DEF RotatorInit, RotationInv
  <2>4. FilesInOrder /\ NoHole /\ FilesSized
    BY Zenon, <2>1 DEF FilesInOrder, NoHole, FilesSized, OnDisk
  <2>5. FullInv
    BY <2>1 DEF RotatorInit, FullInv
  <2> QED
    BY <2>2, <2>3, <2>4, <2>5 DEF RotatorInv
<1>2. RotatorInv /\ [RotatorNext]_rotVars => RotatorInv'
  BY Zenon, RotatorTyped, RotationStays, FilesStay, FullStays DEF RotatorInv
<1>3. RotatorInv => FilesAreSound
  <2> SUFFICES ASSUME RotatorInv PROVE FilesAreSound
    OBVIOUS
  <2>1. /\ RotatorTypes /\ RotationInv /\ FilesInOrder /\ NoHole /\ FilesSized /\ FullInv
        /\ LastFile \in Nat /\ FilesKept = LastFile + 1 /\ DOMAIN files \subseteq 0 .. LastFile
    BY RotatorDomains DEF RotatorInv, RotatorTypes
  <2>2. IsFiniteSet(0 .. LastFile) /\ Cardinality(0 .. LastFile) = LastFile + 1
    BY <2>1, FS_Interval
  <2>3. FilesBounded
    <3>1. CASE maxFiles = 0
      <4>1. DOMAIN files = {}
        BY <2>1, <3>1 DEF RotationInv
      <4>2. Cardinality(DOMAIN files) = 0
        BY <4>1, FS_EmptySet
      <4> QED
        BY <3>1, <4>2 DEF FilesBounded, AtMostMaxFiles
    <3>2. CASE maxFiles >= 2
      <4>1. Cardinality(DOMAIN files) <= LastFile + 1 /\ LastFile + 1 = maxFiles
        BY <2>1, <2>2, <3>2, FS_Subset DEF RotatorTypes, FilesKept
      <4> QED
        BY <4>1 DEF FilesBounded, AtMostMaxFiles
    <3> QED
      BY <2>1, <3>1, <3>2 DEF RotatorTypes, FilesBounded
  <2>4. ASSUME fileFaults = 0, rot = "idle", OnDisk # DOMAIN kept PROVE Cardinality(DOMAIN files) >= maxFiles
    <3>1. rotF # "none"
      <4>1. ASSUME kept = <<>>, DOMAIN files = {} PROVE OnDisk = DOMAIN kept
        BY <4>1 DEF OnDisk
      <4> QED
        BY Zenon, <2>1, <2>4, <4>1 DEF FullInv
    <3>2. PICK k \in 0 .. LastFile : (\A j \in 0 .. LastFile : j \in DOMAIN files <=> Present(k, j)) /\ k = LastFile
      BY Zenon, <2>1, <2>4, <3>1 DEF FullInv
    <3>3. \A j \in 0 .. LastFile : Present(k, j)
      BY <2>1, <2>4, <3>2 DEF Present
    <3>4. DOMAIN files = 0 .. LastFile
      BY Zenon, <2>1, <3>2, <3>3
    <3>5. Cardinality(DOMAIN files) = FilesKept
      BY Zenon, <2>1, <2>2, <3>4
    <3> QED
      BY <2>1, <3>5 DEF FilesKept, RotatorTypes
  <2> QED
    BY Zenon, <2>1, <2>3, <2>4 DEF FilesAreSound, FilesKeepLatest, NoHole
<1> QED
  BY <1>1, <1>2, <1>3, PTL DEF RotatorSpec

-----------------------------------------------------------------------------
(* The rings for recent output, for every capacity and any sequence of     *)
(* writes, shorter or longer than the ring.                                *)

\* A full ring of s bytes after w were written: from head on, the last ones.
RingFull(s, data, head, w) ==
  /\ w >= s /\ head \in 0 .. s - 1
  /\ \A j \in 0 .. s - 1 : data[j] = IF j < head THEN w - head + 1 + j ELSE w - s + 1 + (j - head)

\* One that is not full yet: all of them, from the start.
RingFilling(s, data, head, w) ==
  /\ head = w /\ w < s
  /\ \A j \in 0 .. s - 1 : j < head => data[j] = j + 1

RingIs(full, s, data, head, w) ==
  IF full THEN RingFull(s, data, head, w) ELSE RingFilling(s, data, head, w)

\* What Snapshot copies out of such a ring, and the last s of w bytes.
ReadRing(full, s, data, head) ==
  IF ~full THEN Slice(data, 0, head) ELSE Slice(data, head, s) \o Slice(data, 0, head)

LatestOf(s, w) == LET m == IF w < s THEN w ELSE s IN [i \in 1 .. m |-> w - m + i]

RingsInv ==
  /\ size \in Nat /\ written \in Nat /\ aring.full \in BOOLEAN
  /\ size = 0 => /\ aring = [data |-> <<>>, head |-> 0, full |-> FALSE]
                 /\ lring = [data |-> <<>>, head |-> 0, size |-> 0]
                 /\ written = 0
  /\ size > 0 =>
       /\ RingIs(aring.full, size, aring.data, aring.head, written)
       /\ RingIs(lring.size = size, size, lring.data, lring.head, written)
       /\ lring.size # size => lring.size = written

\* Positions wrap at the end of the ring.
LEMMA Wraps ==
  ASSUME NEW s \in Nat \ {0}, NEW a \in Nat
  PROVE  (a < s => a % s = a) /\ (s <= a /\ a < s + s => a % s = a - s)
  OBVIOUS

\* The position n bytes after head.
LEMMA Wrapped ==
  ASSUME NEW s \in Nat \ {0}, NEW head \in 0 .. s - 1, NEW n \in Nat, ~(n >= s)
  PROVE  (head + n) % s = IF head + n < s THEN head + n ELSE head + n - s
<1>1. PICK a \in Nat : a = head + n /\ a < s + s
  OBVIOUS
<1>2. (a < s => a % s = a) /\ (s <= a /\ a < s + s => a % s = a - s)
  BY Zenon, Wraps
<1>3. CASE head + n < s
  <2>1. a < s
    BY <1>1, <1>3
  <2> QED
    BY Zenon, <1>1, <1>2, <1>3, <2>1
<1>4. CASE ~(head + n < s)
  <2>1. s <= a /\ a - s = head + n - s
    BY <1>1, <1>4
  <2> QED
    BY Zenon, <1>1, <1>2, <1>4, <2>1
<1> QED
  BY Zenon, <1>3, <1>4

\* How far a position is behind head.
LEMMA Behind ==
  ASSUME NEW s \in Nat \ {0}, NEW head \in 0 .. s - 1, NEW j \in 0 .. s - 1
  PROVE  (j + s - head) % s = IF j >= head THEN j - head ELSE j + s - head
<1>1. PICK a \in Nat : a = j + s - head /\ a < s + s
  OBVIOUS
<1>2. (a < s => a % s = a) /\ (s <= a /\ a < s + s => a % s = a - s)
  BY Zenon, Wraps
<1>3. CASE j >= head
  <2>1. s <= a /\ a - s = j - head
    BY <1>1, <1>3
  <2> QED
    BY Zenon, <1>1, <1>2, <1>3, <2>1
<1>4. CASE ~(j >= head)
  <2>1. a < s
    BY <1>1, <1>4
  <2> QED
    BY Zenon, <1>1, <1>2, <1>4, <2>1
<1> QED
  BY Zenon, <1>3, <1>4

\* Two sequences of bytes, one after the other.
LEMMA Joined ==
  ASSUME NEW a \in Seq(Int), NEW b \in Seq(Int)
  PROVE  /\ a \o b = [i \in 1 .. Len(a) + Len(b) |-> (a \o b)[i]] /\ Len(a) \in Nat /\ Len(b) \in Nat
         /\ \A i \in 1 .. Len(a) : (a \o b)[i] = a[i]
         /\ \A i \in 1 .. Len(b) : (a \o b)[Len(a) + i] = b[i]
<1>1. Len(a) \in Nat /\ Len(b) \in Nat
  OBVIOUS
<1> DEFINE c == a \o b
<1>2. /\ c \in Seq(Int) /\ Len(c) = Len(a) + Len(b)
      /\ \A i \in 1 .. Len(a) + Len(b) : c[i] = IF i <= Len(a) THEN a[i] ELSE b[i - Len(a)]
  <2>1. c \in Seq(Int) /\ Len(c) = Len(a) + Len(b)
    OBVIOUS
  <2>2. ASSUME NEW i \in 1 .. Len(a) + Len(b) PROVE c[i] = IF i <= Len(a) THEN a[i] ELSE b[i - Len(a)]
    OBVIOUS
  <2> QED
    BY Zenon, <2>1, <2>2
<1> HIDE DEF c
<1>3. ASSUME NEW i \in 1 .. Len(a) PROVE c[i] = a[i]
  <2>1. i \in 1 .. Len(a) + Len(b) /\ i <= Len(a)
    BY <1>1
  <2> QED
    BY Zenon, <1>2, <2>1
<1>4. ASSUME NEW i \in 1 .. Len(b) PROVE c[Len(a) + i] = b[i]
  <2>1. PICK k \in 1 .. Len(a) + Len(b) : k = Len(a) + i
    BY <1>1
  <2>2. ~(k <= Len(a)) /\ k - Len(a) = i
    BY <1>1, <2>1
  <2>3. c[k] = b[k - Len(a)]
    BY Zenon, <1>2, <2>2
  <2> QED
    BY <2>1, <2>2, <2>3
<1>5. c = [i \in 1 .. Len(a) + Len(b) |-> c[i]]
  <2>1. c = [i \in 1 .. Len(c) |-> c[i]]
    BY <1>2
  <2> QED
    BY Zenon, <1>2, <2>1
<1> QED
  BY Zenon, <1>1, <1>3, <1>4, <1>5 DEF c

\* What is read from a ring: the older part first.
LEMMA RingIsRead ==
  ASSUME NEW s \in Nat \ {0}, NEW w \in Nat, NEW data, NEW head, NEW full \in BOOLEAN, RingIs(full, s, data, head, w)
  PROVE  ReadRing(full, s, data, head) = LatestOf(s, w)
<1> USE DEF ReadRing, LatestOf
<1>1. CASE ~full
  <2>1. head = w /\ w < s /\ \A j \in 0 .. s - 1 : j < head => data[j] = j + 1
    BY <1>1 DEF RingIs, RingFilling
  <2>2. Slice(data, 0, head) = [i \in 1 .. w |-> data[0 + i - 1]]
    BY <2>1 DEF Slice
  <2>3. \A i \in 1 .. w : data[0 + i - 1] = w - w + i
    <3> SUFFICES ASSUME NEW i \in 1 .. w PROVE data[0 + i - 1] = w - w + i
      OBVIOUS
    <3>1. 0 + i - 1 \in 0 .. s - 1 /\ 0 + i - 1 < head
      BY <2>1
    <3> QED
      BY <2>1, <3>1
  <2> QED
    BY <1>1, <2>1, <2>2, <2>3
<1>2. CASE full
  <2>1. /\ w >= s /\ head \in 0 .. s - 1
        /\ \A j \in 0 .. s - 1 : data[j] = IF j < head THEN w - head + 1 + j ELSE w - s + 1 + (j - head)
    BY <1>2 DEF RingIs, RingFull
  <2> DEFINE old == Slice(data, head, s)
             new == Slice(data, 0, head)
  <2>2. old = [i \in 1 .. s - head |-> w - s + i]
    <3>1. \A i \in 1 .. s - head : data[head + i - 1] = w - s + i
      <4> SUFFICES ASSUME NEW i \in 1 .. s - head PROVE data[head + i - 1] = w - s + i
        OBVIOUS
      <4>1. head + i - 1 \in 0 .. s - 1 /\ ~(head + i - 1 < head)
        BY <2>1
      <4>2. data[head + i - 1] = w - s + 1 + (head + i - 1 - head)
        BY <2>1, <4>1
      <4> QED
        BY <2>1, <4>2
    <3> QED
      BY <3>1 DEF Slice
  <2>3. new = [i \in 1 .. head |-> w - head + i]
    <3>1. \A i \in 1 .. head - 0 : data[0 + i - 1] = w - head + i
      <4> SUFFICES ASSUME NEW i \in 1 .. head - 0 PROVE data[0 + i - 1] = w - head + i
        OBVIOUS
      <4>1. 0 + i - 1 \in 0 .. s - 1 /\ 0 + i - 1 < head
        BY <2>1
      <4>2. data[0 + i - 1] = w - head + 1 + (0 + i - 1)
        BY <2>1, <4>1
      <4> QED
        BY <2>1, <4>2
    <3>2. head - 0 = head
      BY <2>1
    <3> QED
      BY <3>1, <3>2 DEF Slice
  <2> HIDE DEF old, new
  <2>4. old \o new = [i \in 1 .. s |-> w - s + i]
    <3>1. old \in Seq(Int) /\ new \in Seq(Int) /\ Len(old) = s - head /\ Len(new) = head
      BY <2>1, <2>2, <2>3
    <3>2. /\ old \o new = [i \in 1 .. (s - head) + head |-> (old \o new)[i]]
          /\ \A i \in 1 .. s - head : (old \o new)[i] = old[i]
          /\ \A i \in 1 .. head : (old \o new)[(s - head) + i] = new[i]
      <4>1. /\ old \o new = [i \in 1 .. Len(old) + Len(new) |-> (old \o new)[i]]
            /\ \A i \in 1 .. Len(old) : (old \o new)[i] = old[i]
            /\ \A i \in 1 .. Len(new) : (old \o new)[Len(old) + i] = new[i]
        BY Zenon, <3>1, Joined
      <4>2. Len(old) = s - head /\ Len(new) = head
        BY <3>1
      <4> QED
        BY ONLY Zenon, <4>1, <4>2
    <3>3. (s - head) + head = s
      BY <2>1
    <3>4. ASSUME NEW i \in 1 .. s PROVE (old \o new)[i] = w - s + i
      <4>1. CASE i <= s - head
        BY SMTT(30), <2>1, <2>2, <3>2, <4>1
      <4>2. CASE ~(i <= s - head)
        <5>1. PICK k \in 1 .. head : i = (s - head) + k
          <6>1. i - (s - head) \in 1 .. head /\ i = (s - head) + (i - (s - head))
            BY <2>1, <4>2
          <6> QED
            BY <6>1
        <5>2. (old \o new)[i] = w - head + k
          BY Zenon, <2>3, <3>2, <5>1
        <5> QED
          BY <2>1, <5>1, <5>2
      <4> QED
        BY <4>1, <4>2
    <3> QED
      BY Zenon, <3>2, <3>3, <3>4
  <2>5. (IF w < s THEN w ELSE s) = s
    BY <2>1
  <2> QED
    BY <1>2, <2>4, <2>5 DEF old, new
<1> QED
  BY <1>1, <1>2

\* A write of n bytes, fewer than the ring holds, from head on: the bytes at
\* the positions it covers are the new ones.
LEMMA RingIsWritten ==
  ASSUME NEW s \in Nat \ {0}, NEW w \in Nat, NEW n \in Nat, n < s, NEW data, NEW new, NEW head, NEW to,
         NEW full \in BOOLEAN, NEW full2 \in BOOLEAN, RingIs(full, s, data, head, w),
         to = IF head + n < s THEN head + n ELSE head + n - s,
         full2 <=> (full \/ head + n >= s),
         \A j \in 0 .. s - 1 :
           new[j] = IF j >= head /\ j < head + n THEN w + (j - head) + 1
                    ELSE IF j < head + n - s THEN w + (s - head) + j + 1
                    ELSE data[j]
  PROVE  RingIs(full2, s, new, to, w + n)
<1>1. CASE ~full
  <2>1. head = w /\ w < s /\ head \in Nat /\ \A j \in 0 .. s - 1 : j < head => data[j] = j + 1
    BY <1>1 DEF RingIs, RingFilling
  <2>2. CASE head + n < s
    <3>1. ~full2 /\ to = w + n /\ w + n < s
      BY <1>1, <2>1, <2>2
    <3>2. ASSUME NEW j \in 0 .. s - 1, j < to PROVE new[j] = j + 1
      BY <2>1, <2>2, <3>1, <3>2
    <3> QED
      BY <3>1, <3>2 DEF RingIs, RingFilling
  <2>3. CASE ~(head + n < s)
    <3>1. full2 /\ to = w + n - s /\ w + n >= s /\ to \in 0 .. s - 1 /\ to < head
      BY <1>1, <2>1, <2>3
    <3>2. ASSUME NEW j \in 0 .. s - 1
          PROVE  new[j] = IF j < to THEN w + n - to + 1 + j ELSE w + n - s + 1 + (j - to)
      <4>1. CASE j < to
        BY <2>1, <2>3, <3>1, <4>1
      <4>2. CASE j >= to /\ j < head
        BY <2>1, <2>3, <3>1, <4>2
      <4>3. CASE j >= head
        BY <2>1, <2>3, <3>1, <4>3
      <4> QED
        BY SMTT(30), <2>1, <3>1, <4>1, <4>2, <4>3
    <3> QED
      BY SMTT(30), <3>1, <3>2 DEF RingIs, RingFull
  <2> QED
    BY <2>2, <2>3
<1>2. CASE full
  <2>1. /\ w >= s /\ head \in 0 .. s - 1 /\ full2
        /\ \A j \in 0 .. s - 1 : data[j] = IF j < head THEN w - head + 1 + j ELSE w - s + 1 + (j - head)
    BY <1>2 DEF RingIs, RingFull
  <2>2. w + n >= s /\ to \in 0 .. s - 1
    BY <2>1
  <2>3. ASSUME NEW j \in 0 .. s - 1
        PROVE  new[j] = IF j < to THEN w + n - to + 1 + j ELSE w + n - s + 1 + (j - to)
    <3>1. CASE head + n < s
      <4>1. to = head + n
        BY <3>1
      <4>2. CASE j < head
        BY <2>1, <3>1, <4>1, <4>2
      <4>3. CASE j >= head /\ j < to
        BY <2>1, <3>1, <4>1, <4>3
      <4>4. CASE j >= to
        BY <2>1, <3>1, <4>1, <4>4
      <4> QED
        BY SMTT(30), <2>1, <2>2, <4>2, <4>3, <4>4
    <3>2. CASE ~(head + n < s)
      <4>1. to = head + n - s /\ to < head
        BY <2>1, <3>2
      <4>2. CASE j < to
        BY <2>1, <3>2, <4>1, <4>2
      <4>3. CASE j >= to /\ j < head
        BY <2>1, <3>2, <4>1, <4>3
      <4>4. CASE j >= head
        BY <2>1, <3>2, <4>1, <4>4
      <4> QED
        BY SMTT(30), <2>1, <2>2, <4>2, <4>3, <4>4
    <3> QED
      BY <3>1, <3>2
  <2> QED
    BY <2>1, <2>2, <2>3 DEF RingIs, RingFull
<1> QED
  BY <1>1, <1>2

\* A write of at least as many bytes as the ring holds replaces them all.
LEMMA RingIsReplaced ==
  ASSUME NEW s \in Nat \ {0}, NEW w \in Nat, NEW n \in Nat, n >= s, NEW new,
         \A j \in 0 .. s - 1 : new[j] = w + (n - s + j + 1)
  PROVE  RingIs(TRUE, s, new, 0, w + n)
<1>1. ASSUME NEW j \in 0 .. s - 1 PROVE new[j] = (w + n) - s + 1 + (j - 0) /\ ~(j < 0)
  OBVIOUS
<1>2. w + n >= s /\ 0 \in 0 .. s - 1
  OBVIOUS
<1> QED
  BY <1>1, <1>2 DEF RingIs, RingFull

\* ringBuffer.Write of the next n bytes.
LEMMA AgentRingStep ==
  ASSUME size \in Nat \ {0}, written \in Nat, NEW n \in Nat, NEW p, p = [i \in 1 .. n |-> written + i],
         NEW r, r.full \in BOOLEAN, RingIs(r.full, size, r.data, r.head, written)
  PROVE  LET q == AgentRingWrite(r, p) IN
         q.full \in BOOLEAN /\ RingIs(q.full, size, q.data, q.head, written + n)
<1>0. Len(p) = n /\ \A i \in 1 .. n : p[i] = written + i
  OBVIOUS
<1>h. r.head \in 0 .. size - 1
  BY DEF RingIs, RingFull, RingFilling
<1>1. CASE n >= size
  <2>1. AgentRingWrite(r, p) = [data |-> LastBytes(p), head |-> 0, full |-> TRUE]
    BY Zenon, <1>0, <1>1 DEF AgentRingWrite
  <2>2. ASSUME NEW j \in 0 .. size - 1 PROVE LastBytes(p)[j] = written + (n - size + j + 1)
    <3>1. LastBytes(p)[j] = p[n - size + j + 1]
      BY <1>0 DEF LastBytes
    <3>2. n - size + j + 1 \in 1 .. n
      BY <1>1
    <3> QED
      BY Zenon, <1>0, <3>1, <3>2
  <2>3. RingIs(TRUE, size, LastBytes(p), 0, written + n)
    BY <1>1, <2>2, RingIsReplaced
  <2> HIDE DEF LastBytes
  <2>4. /\ AgentRingWrite(r, p).data = LastBytes(p) /\ AgentRingWrite(r, p).head = 0
        /\ AgentRingWrite(r, p).full = TRUE
    BY <2>1
  <2> QED
    BY Zenon, <2>3, <2>4
<1>2. CASE ~(n >= size)
  <2> DEFINE first == IF size - r.head < Len(p) THEN size - r.head ELSE Len(p)
             new == [i \in 0 .. size - 1 |->
                       IF i < Len(p) - first THEN p[first + i + 1]
                       ELSE IF i \in r.head .. r.head + first - 1 THEN p[i - r.head + 1]
                       ELSE r.data[i]]
             to == (r.head + Len(p)) % size
             full2 == r.full \/ FillsUp(r.head, p)
  <2>1. AgentRingWrite(r, p) = [data |-> new, head |-> to, full |-> full2]
    <3>1. ~(Len(p) >= size)
      BY Zenon, <1>0, <1>2
    <3> QED
      BY Zenon, <3>1 DEF AgentRingWrite
  <2>2. to = IF r.head + n < size THEN r.head + n ELSE r.head + n - size
    BY <1>0, <1>h, <1>2, Wrapped
  <2>3. full2 \in BOOLEAN /\ (full2 <=> (r.full \/ r.head + n >= size))
    <3>1. FillsUp(r.head, p) <=> r.head + n >= size
      BY <1>0, <1>h DEF FillsUp
    <3>2. FillsUp(r.head, p) \in BOOLEAN
      BY Zenon DEF FillsUp
    <3> QED
      BY Zenon, <3>1, <3>2
  <2>4. first \in Nat /\ (r.head + n < size => first = n) /\ (~(r.head + n < size) => first = size - r.head)
    BY <1>0, <1>h
  <2>5. ASSUME NEW j \in 0 .. size - 1
        PROVE  new[j] = IF j >= r.head /\ j < r.head + n THEN written + (j - r.head) + 1
                        ELSE IF j < r.head + n - size THEN written + (size - r.head) + j + 1
                        ELSE r.data[j]
    <3>0. new[j] = IF j < Len(p) - first THEN p[first + j + 1]
                   ELSE IF j \in r.head .. r.head + first - 1 THEN p[j - r.head + 1]
                   ELSE r.data[j]
      BY Zenon
    <3> HIDE DEF new, first
    <3>1. CASE j >= r.head /\ j < r.head + n
      <4>1. r.head \in Nat /\ first \in Nat /\ j \in Nat /\ j < size /\ n - first < r.head + 1 /\ j < r.head + first
        <5>1. CASE r.head + n < size
          BY <1>h, <2>4, <3>1, <5>1
        <5>2. CASE ~(r.head + n < size)
          <6>1. first = size - r.head
            BY <2>4, <5>2
          <6> QED
            BY SMTT(30), <1>h, <1>2, <5>2, <6>1
        <5> QED
          BY <5>1, <5>2
      <4>2. ~(j < Len(p) - first) /\ j \in r.head .. r.head + first - 1 /\ j - r.head + 1 \in 1 .. n
        BY SMTT(30), <1>0, <3>1, <4>1
      <4>3. new[j] = written + (j - r.head + 1)
        BY Zenon, <1>0, <3>0, <4>2
      <4> QED
        BY <1>h, <3>1, <4>3
    <3>2. CASE ~(j >= r.head /\ j < r.head + n) /\ j < r.head + n - size
      <4>1. j < Len(p) - first /\ first + j + 1 \in 1 .. n /\ first = size - r.head
        BY <1>0, <1>h, <1>2, <2>4, <3>2
      <4>2. new[j] = written + (first + j + 1)
        BY Zenon, <1>0, <3>0, <4>1
      <4> QED
        BY <1>h, <3>2, <4>1, <4>2
    <3>3. CASE ~(j >= r.head /\ j < r.head + n) /\ ~(j < r.head + n - size)
      <4>1. ~(j < Len(p) - first) /\ j \notin r.head .. r.head + first - 1
        BY <1>0, <1>h, <1>2, <2>4, <3>3
      <4> QED
        BY Zenon, <3>0, <3>3, <4>1
    <3> QED
      BY Zenon, <3>1, <3>2, <3>3
  <2> HIDE DEF new, to, full2
  <2>6. RingIs(full2, size, new, to, written + n)
    BY SMTT(30), <1>2, <2>2, <2>3, <2>5, RingIsWritten
  <2>7. AgentRingWrite(r, p).data = new /\ AgentRingWrite(r, p).head = to /\ AgentRingWrite(r, p).full = full2
    BY <2>1
  <2> QED
    BY Zenon, <2>3, <2>6, <2>7
<1> QED
  BY <1>1, <1>2

\* RingBuffer.Write of the next n bytes.
LEMMA LogRingStep ==
  ASSUME size \in Nat \ {0}, written \in Nat, NEW n \in Nat, NEW p, p = [i \in 1 .. n |-> written + i],
         NEW r, RingIs(r.size = size, size, r.data, r.head, written), r.size # size => r.size = written
  PROVE  LET q == LogRingWrite(r, p) IN
         RingIs(q.size = size, size, q.data, q.head, written + n) /\ (q.size # size => q.size = written + n)
<1>0. Len(p) = n /\ \A i \in 1 .. n : p[i] = written + i
  OBVIOUS
<1>h. r.head \in 0 .. size - 1 /\ r.size \in 0 .. size /\ (r.size # size => r.head = written /\ r.size = written)
  BY DEF RingIs, RingFull, RingFilling
<1>1. CASE n = 0
  <2>1. LogRingWrite(r, p) = r /\ written + n = written
    BY SMTT(30), <1>0, <1>1 DEF LogRingWrite
  <2> QED
    BY <2>1
<1>2. CASE n # 0 /\ n >= size
  <2>1. LogRingWrite(r, p) = [data |-> LastBytes(p), head |-> 0, size |-> size]
    BY Zenon, <1>0, <1>2 DEF LogRingWrite
  <2>2. ASSUME NEW j \in 0 .. size - 1 PROVE LastBytes(p)[j] = written + (n - size + j + 1)
    <3>1. LastBytes(p)[j] = p[n - size + j + 1]
      BY <1>0 DEF LastBytes
    <3>2. n - size + j + 1 \in 1 .. n
      BY <1>2
    <3> QED
      BY Zenon, <1>0, <3>1, <3>2
  <2>3. RingIs(TRUE, size, LastBytes(p), 0, written + n)
    BY <1>2, <2>2, RingIsReplaced
  <2>4. /\ LogRingWrite(r, p).data = LastBytes(p) /\ LogRingWrite(r, p).head = 0
        /\ LogRingWrite(r, p).size = size
    BY <2>1
  <2>5. (LogRingWrite(r, p).size = size) = TRUE
    BY Zenon, <2>4
  <2> QED
    BY Zenon, <2>3, <2>4, <2>5
<1>3. CASE n # 0 /\ ~(n >= size)
  <2> DEFINE at(i) == (i + size - r.head) % size
             new == [i \in 0 .. size - 1 |-> IF at(i) < Len(p) THEN p[at(i) + 1] ELSE r.data[i]]
             to == (r.head + Len(p)) % size
             size2 == IF r.size + Len(p) > size THEN size ELSE r.size + Len(p)
  <2>1. LogRingWrite(r, p) = [data |-> new, head |-> to, size |-> size2]
    <3>1. Len(p) # 0 /\ ~(Len(p) >= size)
      BY Zenon, <1>0, <1>3
    <3> QED
      BY Zenon, <3>1 DEF LogRingWrite
  <2>2. to = IF r.head + n < size THEN r.head + n ELSE r.head + n - size
    BY <1>0, <1>h, <1>3, Wrapped
  <2>3. (size2 = size) <=> (r.size = size \/ r.head + n >= size)
    BY <1>0, <1>h, <1>3
  <2>4. size2 # size => size2 = written + n
    BY <1>0, <1>h, <1>3
  <2>5. ASSUME NEW j \in 0 .. size - 1
        PROVE  new[j] = IF j >= r.head /\ j < r.head + n THEN written + (j - r.head) + 1
                        ELSE IF j < r.head + n - size THEN written + (size - r.head) + j + 1
                        ELSE r.data[j]
    <3>0. new[j] = IF at(j) < Len(p) THEN p[at(j) + 1] ELSE r.data[j]
      BY Zenon
    <3>1. at(j) = IF j >= r.head THEN j - r.head ELSE j + size - r.head
      BY Zenon, <1>h, Behind
    <3> DEFINE k == at(j)
    <3>2. new[j] = (IF k < n THEN p[k + 1] ELSE r.data[j]) /\ k = IF j >= r.head THEN j - r.head ELSE j + size - r.head
      BY SMTT(30), <1>0, <3>0, <3>1
    <3> HIDE DEF new, k
    <3>3. CASE k < n
      <4>1. k + 1 \in 1 .. n
        <5>1. k \in Nat
          <6>1. k = IF j >= r.head THEN j - r.head ELSE j + size - r.head
            BY <3>2
          <6> QED
            BY <1>h, <6>1
        <5> QED
          BY <3>3, <5>1
      <4>2. new[j] = written + (k + 1)
        BY Zenon, <1>0, <3>2, <3>3, <4>1
      <4>3. CASE j >= r.head
        <5>1. k = j - r.head
          BY Zenon, <3>2, <4>3
        <5>2. j < r.head + n /\ written + (k + 1) = written + (j - r.head) + 1
          BY ONLY <1>h, <3>3, <5>1, j \in 0 .. size - 1, size \in Nat, n \in Nat, written \in Nat
        <5> QED
          BY Zenon, <4>2, <4>3, <5>2
      <4>4. CASE ~(j >= r.head)
        <5>1. k = j + size - r.head
          BY Zenon, <3>2, <4>4
        <5>2. j < r.head + n - size /\ written + (k + 1) = written + (size - r.head) + j + 1
          BY ONLY <1>h, <3>3, <5>1, j \in 0 .. size - 1, size \in Nat, n \in Nat, written \in Nat
        <5> QED
          BY Zenon, <4>2, <4>4, <5>2
      <4> QED
        BY Zenon, <4>3, <4>4
    <3>4. CASE ~(k < n)
      <4>1. ~(j >= r.head /\ j < r.head + n) /\ ~(j < r.head + n - size)
        BY SMTT(30), <1>h, <1>3, <3>2, <3>4
      <4> QED
        BY Zenon, <3>2, <3>4, <4>1
    <3> QED
      BY <3>3, <3>4
  <2> HIDE DEF new, to, size2
  <2>6. RingIs(size2 = size, size, new, to, written + n)
    <3>1. (size2 = size) \in BOOLEAN /\ (r.size = size) \in BOOLEAN
      BY Zenon
    <3>2. n < size
      BY <1>3
    <3> QED
      BY Zenon, <2>2, <2>3, <2>5, <3>1, <3>2, RingIsWritten
  <2>7. LogRingWrite(r, p).data = new /\ LogRingWrite(r, p).head = to /\ LogRingWrite(r, p).size = size2
    BY <2>1
  <2> QED
    BY Zenon, <2>4, <2>6, <2>7
<1> QED
  BY <1>1, <1>2, <1>3

\* Both rings give back the latest bytes, as many as they hold, in the order
\* in which they were written: for every capacity, wherever the writes wrap,
\* end at the end of the ring or are longer than it.
THEOREM RingsHoldLatest == RingsSpec => []RingsKeepLatest
<1>1. RingsInit => RingsInv
  BY DEF RingsInit, RingsInv
<1>2. RingsInv /\ [RingsNext]_ringVars => RingsInv'
  <2> SUFFICES ASSUME RingsInv, [RingsNext]_ringVars PROVE RingsInv'
    OBVIOUS
  <2>1. ASSUME NEW n \in Capacities, NewRings(n) PROVE RingsInv'
    <3>1. /\ size = 0 /\ size' = n /\ n \in Nat \ {0} /\ written' = written /\ written = 0
          /\ aring.head = 0 /\ ~aring.full /\ lring.head = 0 /\ lring.size = 0 /\ aring.full \in BOOLEAN
      BY <2>1, RingsAssumption DEF NewRings, RingsInv
    <3>2. /\ aring'.head = aring.head /\ aring'.full = aring.full
          /\ lring'.head = lring.head /\ lring'.size = lring.size
      BY <2>1, <3>1 DEF NewRings, RingsInv
    <3>3. RingFilling(n, aring'.data, 0, 0) /\ RingFilling(n, lring'.data, 0, 0)
      BY <3>1 DEF RingFilling
    <3>4. lring'.size # size' /\ lring'.size = written'
      BY <3>1, <3>2
    <3>5. ~aring'.full /\ aring'.full \in BOOLEAN
      BY Zenon, <3>1, <3>2
    <3>6. RingIs(aring'.full, size', aring'.data, aring'.head, written')
      BY Zenon, <3>1, <3>2, <3>3, <3>5 DEF RingIs
    <3>7. RingIs(lring'.size = size', size', lring'.data, lring'.head, written')
      BY Zenon, <3>1, <3>2, <3>3, <3>4 DEF RingIs
    <3>8. size' \in Nat /\ size' # 0 /\ written' \in Nat
      BY <3>1
    <3> QED
      BY Zenon, <3>4, <3>5, <3>6, <3>7, <3>8 DEF RingsInv
  <2>2. ASSUME NEW n \in 0 .. MaxBytes, WriteRings(n) PROVE RingsInv'
    <3> DEFINE p == NextBytes(n)
    <3>1. size' = size /\ written' = written + n /\ aring' = AgentRingWrite(aring, p) /\ lring' = LogRingWrite(lring, p)
      BY Zenon, <2>2 DEF WriteRings
    <3>2. size \in Nat \ {0} /\ written \in Nat /\ n \in Nat
      BY <2>2 DEF WriteRings, RingsInv
    <3>3. /\ aring.full \in BOOLEAN /\ RingIs(aring.full, size, aring.data, aring.head, written)
          /\ RingIs(lring.size = size, size, lring.data, lring.head, written)
          /\ lring.size # size => lring.size = written
      <4>1. size > 0
        BY <3>2
      <4> QED
        BY Zenon, <4>1 DEF RingsInv
    <3> HIDE DEF p
    <3>4. p = [i \in 1 .. n |-> written + i]
      BY DEF p, NextBytes
    <3>5. aring'.full \in BOOLEAN /\ RingIs(aring'.full, size, aring'.data, aring'.head, written + n)
      <4>1. LET q == AgentRingWrite(aring, p) IN q.full \in BOOLEAN /\ RingIs(q.full, size, q.data, q.head, written + n)
        <5>1. aring.full \in BOOLEAN /\ RingIs(aring.full, size, aring.data, aring.head, written)
          BY Zenon, <3>3
        <5> QED
          BY ONLY SMTT(30), <3>2, <3>4, <5>1, AgentRingStep
      <4> QED
        BY Zenon, <3>1, <4>1
    <3>6. RingIs(lring'.size = size, size, lring'.data, lring'.head, written + n) /\ (lring'.size # size => lring'.size = written + n)
      BY Zenon, <3>1, <3>2, <3>3, <3>4, LogRingStep
    <3>7. size' \in Nat /\ size' # 0 /\ written' \in Nat
      BY <3>1, <3>2
    <3> QED
      BY Zenon, <3>1, <3>5, <3>6, <3>7 DEF RingsInv
  <2>3. CASE UNCHANGED ringVars
    BY Zenon, <2>3 DEF ringVars, RingsInv
  <2> QED
    BY Zenon, <2>1, <2>2, <2>3 DEF RingsNext
<1>3. RingsInv => RingsKeepLatest
  <2> SUFFICES ASSUME RingsInv, size > 0 PROVE AgentRingSnapshot(aring) = Latest(size) /\ LogRingSnapshot(lring) = Latest(size)
    BY DEF RingsKeepLatest
  <2>1. /\ size \in Nat \ {0} /\ written \in Nat /\ aring.full \in BOOLEAN
        /\ RingIs(aring.full, size, aring.data, aring.head, written)
        /\ RingIs(lring.size = size, size, lring.data, lring.head, written)
        /\ lring.size # size => lring.size = written /\ lring.head = written /\ lring.size < size
    BY DEF RingsInv, RingIs, RingFilling
  <2> size \in Nat \ {0} /\ written \in Nat
    BY <2>1
  <2>a. ASSUME NEW data, NEW head, NEW full \in BOOLEAN, RingIs(full, size, data, head, written)
        PROVE  ReadRing(full, size, data, head) = Latest(size)
    <3>1. ReadRing(full, size, data, head) = LatestOf(size, written)
      BY Zenon, <2>a, RingIsRead
    <3> QED
      BY Zenon, <3>1 DEF Latest, LatestOf
  <2>2. AgentRingSnapshot(aring) = Latest(size)
    BY Zenon, <2>1, <2>a DEF AgentRingSnapshot, ReadRing
  <2>3. LogRingSnapshot(lring) = Latest(size)
    <3>1. CASE lring.size = size
      <4>1. ~(lring.size < size) /\ (lring.size = size) = TRUE
        BY <2>1, <3>1
      <4>2. RingIs(TRUE, size, lring.data, lring.head, written)
        BY Zenon, <2>1, <4>1
      <4> QED
        BY Zenon, <2>a, <4>1, <4>2 DEF LogRingSnapshot, ReadRing
    <3>2. CASE lring.size # size
      <4>1. lring.size < size /\ lring.size = lring.head /\ (lring.size = size) = FALSE
        BY <2>1, <3>2
      <4>2. RingIs(FALSE, size, lring.data, lring.head, written)
        BY Zenon, <2>1, <4>1
      <4> QED
        BY Zenon, <2>a, <4>1, <4>2 DEF LogRingSnapshot, ReadRing
    <3> QED
      BY <3>1, <3>2
  <2> QED
    BY <2>2, <2>3
<1> QED
  BY <1>1, <1>2, <1>3, PTL DEF RingsSpec
=============================================================================
