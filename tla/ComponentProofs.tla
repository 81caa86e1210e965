--------------------------- MODULE ComponentProofs ---------------------------
(***************************************************************************)
(* The components that share no state, each on its own: the stop cascade,  *)
(* the fan-out of PTY output, the resource evaluator, the restart loop and *)
(* the heartbeat, for all values of their constants.                       *)
(***************************************************************************)
EXTENDS StopCascade, PtySubs, Evaluator, RestartLoop, Heartbeat, FiniteSetTheorems,
        SequenceTheorems, TLAPS

-----------------------------------------------------------------------------
(* The stop cascade: no child that was asked to stop in time is orphaned,  *)
(* for all deadlines with DrainBudget < Grace.                             *)

IInv == TypeOK /\ CascadeInv

\* The strengthened invariant holds when the child has just been started.
LEMMA CascadeInit == Init => IInv
<1> SUFFICES ASSUME Init PROVE IInv
  OBVIOUS
<1>1. cancelled \in BOOLEAN /\ closing \in BOOLEAN
  BY Zenon DEF Init
<1>2. TypeOK
  BY <1>1 DEF Init, TypeOK
<1>3. CascadeInv
  BY DEF Init, CascadeInv, Up
<1> QED
  BY <1>2, <1>3 DEF IInv

\* Every step of the cascade preserves the types.
LEMMA CascadeType == TypeOK /\ [Next]_vars => TypeOK'
<1> SUFFICES ASSUME TypeOK, [Next]_vars PROVE TypeOK'
  OBVIOUS
<1>1. (cancelled \in BOOLEAN)' /\ (closing \in BOOLEAN)'
  BY Zenon
  DEF TypeOK, Next, vars, StopChild, ChildExits, RunnerKill, HandleClose, DrainReturns,
      AgentReturns, HandleKill, Tick
<1>2. (now \in Nat)' /\ (cancelAt \in Nat)' /\ (termAt \in Nat)'
  BY DEF TypeOK, Next, vars, StopChild, ChildExits, RunnerKill, HandleClose, DrainReturns,
      AgentReturns, HandleKill, Tick
<1>3. /\ (child \in {"running", "dead"})'
      /\ (agent \in {"run", "drain", "join", "returned", "killed"})'
  BY DEF TypeOK, Next, vars, StopChild, ChildExits, RunnerKill, HandleClose, DrainReturns,
      AgentReturns, HandleKill, Tick
<1> QED
  BY <1>1, <1>2, <1>3 DEF TypeOK

\* Every step of the cascade preserves the strengthened invariant.
LEMMA CascadeNext == IInv /\ [Next]_vars => IInv'
<1> SUFFICES ASSUME IInv, [Next]_vars PROVE CascadeInv'
  BY CascadeType DEF IInv
<1> USE CascadeAssumption DEF IInv, TypeOK, CascadeInv, Up, InTime
<1>1. CASE StopChild
  BY <1>1 DEF StopChild
<1>2. CASE ChildExits
  BY <1>2 DEF ChildExits
<1>3. CASE RunnerKill
  BY <1>3 DEF RunnerKill
<1>4. CASE HandleClose
  BY <1>4 DEF HandleClose
<1>5. CASE DrainReturns
  BY <1>5 DEF DrainReturns, DrainDue
<1>6. CASE AgentReturns
  BY <1>6 DEF AgentReturns, ReturnDue
<1>7. CASE HandleKill
  BY <1>7 DEF HandleKill, GraceDue
<1>8. CASE Tick
  BY <1>8 DEF Tick, KillDue, DrainDue, ReturnDue, GraceDue
<1>9. CASE UNCHANGED vars
  BY <1>9 DEF vars
<1> QED
  BY <1>1, <1>2, <1>3, <1>4, <1>5, <1>6, <1>7, <1>8, <1>9 DEF Next

\* The strengthened invariant implies that no child is orphaned.
LEMMA CascadeImplies == IInv => NoOrphan
  BY CascadeAssumption DEF IInv, TypeOK, CascadeInv, NoOrphan, Up, InTime

\* Whichever way the agent ends, by returning after its drain or by the host's
\* SIGKILL, a child asked to stop in time has been reaped: the CW-G3 cascade.
THEOREM CascadeSafe == Spec => []NoOrphan
<1>1. IInv /\ [Next]_vars => IInv'
  BY CascadeNext
<1> QED
  BY CascadeInit, <1>1, CascadeImplies, PTL DEF Spec

-----------------------------------------------------------------------------
(* The fan-out of PTY output *)

PtyTypes ==
  /\ ptyList \subseteq PtyReaders /\ drainer \subseteq PtyReaders
  /\ reader \in [PtyReaders -> {"none", "added", "won", "open", "left"}]
  /\ ptyCh \in [PtyReaders -> Seq(Nat)] /\ ptyTaken \in [PtyReaders -> Seq(Nat)]
  /\ ptyMissed \in [PtyReaders -> SUBSET Nat]
  /\ ptyFrom \in [PtyReaders -> Nat] /\ ptyTo \in [PtyReaders -> Nat]
  /\ live \in Nat /\ live <= MaxLive

\* What holds of a subscriber by itself.
ReaderOK(s) ==
  /\ s \in ptyList <=> reader[s] \in {"added", "won", "open"}
  /\ reader[s] = "none" => PtyStream(s) = <<>> /\ ptyMissed[s] = {}
  /\ reader[s] = "left" => ptyTo[s] <= live
  /\ reader[s] # "left" => ptyTo[s] = MaxLive
  /\ Rising(PtyStream(s))
  /\ reader[s] # "none" => /\ ptyFrom[s] <= live
                           /\ LiveIn(PtyStream(s)) \cup ptyMissed[s] = ptyFrom[s] + 1 .. LastOwed(s)

\* A dump that a subscriber was handed has left the controller for good, and
\* no other subscriber was handed it.
DumpNumbers ==
  /\ dumps \in Nat /\ initialBuffer \in Nat /\ initialBuffer <= dumps
  /\ dumpOf \in [PtyReaders -> Nat]
  /\ \A s \in PtyReaders : /\ dumpOf[s] <= dumps
                           /\ reader[s] \notin {"open", "left"} => dumpOf[s] = 0
                           /\ dumpOf[s] # 0 => dumpOf[s] # initialBuffer
  /\ \A s, t \in PtyReaders : dumpOf[s] = dumpOf[t] /\ dumpOf[s] # 0 => s = t

\* Where it is: with the goroutine, or once in the subscriber's stream.
DumpPlaces ==
  \A s \in PtyReaders : /\ HoldsDump(s) => dumpOf[s] # 0
                        /\ s \in drainer => DumpsIn(PtyStream(s)) = {}
                        /\ \A i, j \in DumpsIn(PtyStream(s)) : i = j

DumpInv == DumpNumbers /\ DumpPlaces

PtyInv == PtyTypes /\ DumpInv /\ \A s \in PtyReaders : ReaderOK(s)

\* A chunk at the end of a stream, from fanOut or from the dump's goroutine.
LEMMA StreamGrows ==
  ASSUME NEW q \in Seq(Nat), NEW x \in Nat
  PROVE  /\ LiveIn(Append(q, x)) = LiveIn(q) \cup ({x} \ {Dump})
         /\ DumpsIn(Append(q, x)) = DumpsIn(q) \cup (IF x = Dump THEN {Len(q) + 1} ELSE {})
         /\ Rising(q) /\ (x = Dump \/ \A a \in LiveIn(q) : a < x) => Rising(Append(q, x))
<1>1. /\ DOMAIN Append(q, x) = DOMAIN q \cup {Len(q) + 1}
      /\ \A i \in DOMAIN q : Append(q, x)[i] = q[i] /\ i < Len(q) + 1
      /\ Append(q, x)[Len(q) + 1] = x
      /\ Len(q) + 1 \notin DOMAIN q
  OBVIOUS
<1>2. LiveIn(Append(q, x)) = LiveIn(q) \cup ({x} \ {Dump})
  BY Zenon, <1>1 DEF LiveIn
<1>3. DumpsIn(Append(q, x)) = DumpsIn(q) \cup (IF x = Dump THEN {Len(q) + 1} ELSE {})
  BY Zenon, <1>1 DEF DumpsIn
<1>4. ASSUME Rising(q), x = Dump \/ \A a \in LiveIn(q) : a < x,
             NEW i \in DOMAIN Append(q, x), NEW j \in DOMAIN Append(q, x), i < j,
             Append(q, x)[i] # Dump, Append(q, x)[j] # Dump
      PROVE  Append(q, x)[i] < Append(q, x)[j]
  <2>1. i \in DOMAIN q
    BY <1>1, <1>4
  <2>2. CASE j \in DOMAIN q
    BY Zenon, <1>1, <1>4, <2>1, <2>2 DEF Rising
  <2>3. CASE j = Len(q) + 1
    BY Zenon, <1>1, <1>4, <2>1, <2>3 DEF LiveIn
  <2> QED
    BY Zenon, <1>1, <2>2, <2>3
<1> QED
  BY Zenon, <1>2, <1>3, <1>4 DEF Rising

\* A stream is what was taken and what is in the channel: taking changes
\* nothing, sending adds at the end.
LEMMA StreamMoves ==
  ASSUME NEW t \in Seq(Nat), NEW q \in Seq(Nat), NEW x \in Nat
  PROVE  /\ t \o Append(q, x) = Append(t \o q, x)
         /\ q # <<>> => Append(t, Head(q)) \o Tail(q) = t \o q
         /\ t \o q \in Seq(Nat)
<1>1. t \o Append(q, x) = Append(t \o q, x)
  OBVIOUS
<1>2. t \o q \in Seq(Nat)
  OBVIOUS
<1>3. ASSUME q # <<>> PROVE Append(t, Head(q)) \o Tail(q) = t \o q
  <2> DEFINE a == Append(t, Head(q)) \o Tail(q)
             b == t \o q
  <2>1. /\ Len(q) \in Nat \ {0} /\ Head(q) = q[1] /\ Tail(q) \in Seq(Nat) /\ Len(Tail(q)) = Len(q) - 1
        /\ Append(t, Head(q)) \in Seq(Nat) /\ Len(Append(t, Head(q))) = Len(t) + 1
    BY <1>3
  <2>2. a \in Seq(Nat) /\ b \in Seq(Nat) /\ Len(a) = Len(b)
    BY <2>1
  <2>3. ASSUME NEW i \in 1 .. Len(b) PROVE a[i] = b[i]
    <3>1. i \in 1 .. Len(t) + Len(q) /\ i \in 1 .. (Len(t) + 1) + (Len(q) - 1) /\ Len(t) \in Nat
      BY <2>1, <2>2
    <3>2. b[i] = IF i <= Len(t) THEN t[i] ELSE q[i - Len(t)]
      BY Zenon, <3>1, ConcatProperties
    <3>3. a[i] = IF i <= Len(t) + 1 THEN Append(t, Head(q))[i] ELSE Tail(q)[i - (Len(t) + 1)]
      <4> DEFINE u == Append(t, Head(q))
                 v == Tail(q)
      <4>1. u \in Seq(Nat) /\ v \in Seq(Nat) /\ Len(u) = Len(t) + 1 /\ Len(v) = Len(q) - 1 /\ a = u \o v
        BY Zenon, <2>1
      <4> HIDE DEF u, v, a
      <4>2. i \in 1 .. Len(u) + Len(v)
        BY <3>1, <4>1
      <4>3. (u \o v)[i] = IF i <= Len(u) THEN u[i] ELSE v[i - Len(u)]
        BY Zenon, <4>1, <4>2, ConcatProperties
      <4> QED
        BY <4>1, <4>3 DEF u, v
    <3> HIDE DEF a, b
    <3>4. CASE i <= Len(t)
      BY <2>1, <3>1, <3>2, <3>3, <3>4
    <3>5. CASE i = Len(t) + 1
      BY <2>1, <3>1, <3>2, <3>3, <3>5
    <3>6. CASE i > Len(t) + 1
      BY <2>1, <3>1, <3>2, <3>3, <3>6
    <3> QED
      BY <3>1, <3>4, <3>5, <3>6
  <2>4. \A i \in 1 .. Len(a) : a[i] = b[i]
    BY Zenon, <2>2, <2>3
  <2> HIDE DEF a, b
  <2>5. a = b
    BY Zenon, <2>2, <2>4, SeqEqual
  <2> QED
    BY Zenon, <2>5 DEF a, b
<1> QED
  BY Zenon, <1>1, <1>2, <1>3

\* What a step leaves alone for a subscriber, live output included.
SameReader(s) ==
  /\ reader'[s] = reader[s] /\ PtyStream(s)' = PtyStream(s) /\ ptyMissed'[s] = ptyMissed[s]
  /\ ptyFrom'[s] = ptyFrom[s] /\ ptyTo'[s] = ptyTo[s] /\ (s \in ptyList' <=> s \in ptyList)
  /\ live' = live

\* A step that leaves a subscriber alone keeps what holds of it.
LEMMA ReaderFrame ==
  ASSUME NEW s \in PtyReaders, ReaderOK(s), SameReader(s)
  PROVE  ReaderOK(s)'
  BY Zenon DEF ReaderOK, SameReader, LastOwed

\* What a step leaves alone of the dump.
SameDump == /\ initialBuffer' = initialBuffer /\ dumps' = dumps /\ dumpOf' = dumpOf /\ drainer' = drainer
            /\ \A s \in PtyReaders : DumpsIn(PtyStream(s))' = DumpsIn(PtyStream(s))
            /\ \A s \in PtyReaders : reader[s] \in {"open", "left"} => reader'[s] \in {"open", "left"}

\* A step that leaves the dump alone keeps track of it.
LEMMA DumpFrame ==
  ASSUME DumpInv, SameDump
  PROVE  DumpInv'
<1>1. \A s \in PtyReaders : HoldsDump(s)' <=> HoldsDump(s)
  BY Zenon DEF SameDump, HoldsDump
<1>2. DumpPlaces'
  BY Zenon, <1>1 DEF SameDump, DumpInv, DumpPlaces
<1>3. DumpNumbers'
  BY Zenon DEF SameDump, DumpInv, DumpNumbers
<1> QED
  BY Zenon, <1>2, <1>3 DEF DumpInv

\* SubscribePTYData's first half: the subscriber is owed what comes from now on.
LEMMA AddSubscriberStep ==
  ASSUME PtyInv, NEW s \in PtyReaders, AddSubscriber(s)
  PROVE  PtyInv'
<1>1. /\ PtyTypes /\ DumpInv /\ ReaderOK(s) /\ \A t \in PtyReaders : ReaderOK(t)
      /\ \A t \in PtyReaders : PtyStream(t)' = PtyStream(t)
      /\ reader[s] = "none" /\ reader' = [reader EXCEPT ![s] = "added"] /\ ptyList' = ptyList \cup {s}
      /\ ptyFrom' = [ptyFrom EXCEPT ![s] = live] /\ ptyTo' = ptyTo /\ ptyMissed' = ptyMissed
      /\ live' = live
      /\ initialBuffer' = initialBuffer /\ dumps' = dumps /\ dumpOf' = dumpOf /\ drainer' = drainer
  BY Zenon DEF PtyInv, AddSubscriber, PtyStream, dumpVars
<1>2. PtyTypes'
  BY <1>1 DEF PtyTypes, AddSubscriber, dumpVars
<1>3. DumpInv'
  <2>1. reader'[s] = "added" /\ \A t \in PtyReaders : t # s => reader'[t] = reader[t]
    BY Zenon, <1>1 DEF PtyTypes
  <2>2. \A t \in PtyReaders : reader[t] \in {"open", "left"} => reader'[t] \in {"open", "left"}
    BY <1>1, <2>1
  <2> QED
    BY Zenon, <1>1, <2>2, DumpFrame DEF SameDump
<1>4. ASSUME NEW t \in PtyReaders, t # s PROVE ReaderOK(t)'
  <2>1. SameReader(t)
    BY Zenon, <1>1, <1>4 DEF SameReader, PtyTypes
  <2> QED
    BY Zenon, <1>1, <2>1, ReaderFrame
<1>5. ReaderOK(s)'
  <2>1. PtyStream(s)' = <<>> /\ ptyMissed'[s] = {} /\ Rising(PtyStream(s)')
    BY Zenon, <1>1 DEF ReaderOK
  <2>2. LiveIn(PtyStream(s)') = {}
    BY <2>1 DEF LiveIn
  <2>3. reader'[s] = "added" /\ ptyFrom'[s] = live /\ ptyTo'[s] = MaxLive /\ s \in ptyList'
    BY <1>1 DEF PtyTypes, ReaderOK
  <2>4. ptyFrom'[s] + 1 .. LastOwed(s)' = {} /\ ptyFrom'[s] <= live'
    BY <1>1, <2>3, PtyAssumption DEF LastOwed, PtyTypes
  <2> QED
    BY <2>1, <2>2, <2>3, <2>4 DEF ReaderOK
<1> QED
  BY Zenon, <1>2, <1>3, <1>4, <1>5 DEF PtyInv

\* The second half: a subscriber swaps the flag.
LEMMA SwapDrainedStep ==
  ASSUME PtyInv, NEW s \in PtyReaders, SwapDrained(s)
  PROVE  PtyInv'
<1>1. /\ PtyTypes /\ DumpInv /\ \A t \in PtyReaders : ReaderOK(t)
      /\ \A t \in PtyReaders : PtyStream(t)' = PtyStream(t)
      /\ reader[s] = "added" /\ reader' = [reader EXCEPT ![s] = IF drained THEN "open" ELSE "won"]
      /\ ptyList' = ptyList /\ ptyFrom' = ptyFrom /\ ptyTo' = ptyTo /\ ptyMissed' = ptyMissed
      /\ live' = live /\ ptyCh' = ptyCh /\ ptyTaken' = ptyTaken
      /\ initialBuffer' = initialBuffer /\ dumps' = dumps /\ dumpOf' = dumpOf /\ drainer' = drainer
  BY Zenon DEF PtyInv, SwapDrained, PtyStream, chunkVars
<1>2. reader'[s] \in {"won", "open"} /\ \A t \in PtyReaders : t # s => reader'[t] = reader[t]
  BY Zenon, <1>1 DEF PtyTypes
<1>3. PtyTypes'
  BY <1>1 DEF PtyTypes
<1>4. DumpInv'
  <2>1. \A t \in PtyReaders : reader[t] \in {"open", "left"} => reader'[t] \in {"open", "left"}
    BY <1>1, <1>2
  <2> QED
    BY Zenon, <1>1, <2>1, DumpFrame DEF SameDump
<1>5. ASSUME NEW t \in PtyReaders, t # s PROVE ReaderOK(t)'
  <2>1. SameReader(t)
    BY Zenon, <1>1, <1>2, <1>5 DEF SameReader
  <2> QED
    BY Zenon, <1>1, <2>1, ReaderFrame
<1>6. ReaderOK(s)'
  <2>1. LastOwed(s)' = LastOwed(s) /\ ReaderOK(s)
    BY Zenon, <1>1 DEF LastOwed
  <2> QED
    BY Zenon, <1>1, <1>2, <2>1 DEF ReaderOK
<1> QED
  BY Zenon, <1>3, <1>4, <1>5, <1>6 DEF PtyInv

\* The subscriber that swapped the flag takes the buffer: from then on that
\* dump is its own.
LEMMA TakeInitialStep ==
  ASSUME PtyInv, NEW s \in PtyReaders, TakeInitial(s)
  PROVE  PtyInv'
<1>1. /\ PtyTypes /\ DumpNumbers /\ DumpPlaces /\ \A t \in PtyReaders : ReaderOK(t)
      /\ \A t \in PtyReaders : PtyStream(t)' = PtyStream(t)
      /\ reader[s] = "won" /\ reader' = [reader EXCEPT ![s] = "open"]
      /\ ptyList' = ptyList /\ ptyFrom' = ptyFrom /\ ptyTo' = ptyTo /\ ptyMissed' = ptyMissed
      /\ live' = live /\ ptyCh' = ptyCh /\ ptyTaken' = ptyTaken /\ dumps' = dumps
      /\ drainer' = IF initialBuffer # 0 THEN drainer \cup {s} ELSE drainer
      /\ dumpOf' = [dumpOf EXCEPT ![s] = initialBuffer] /\ initialBuffer' = 0
  BY Zenon DEF PtyInv, DumpInv, TakeInitial, PtyStream, chunkVars
<1>2. reader'[s] = "open" /\ \A t \in PtyReaders : t # s => reader'[t] = reader[t]
  BY Zenon, <1>1 DEF PtyTypes
<1>3. dumpOf'[s] = initialBuffer /\ \A t \in PtyReaders : t # s => dumpOf'[t] = dumpOf[t]
  BY Zenon, <1>1 DEF DumpNumbers
<1>4. PtyTypes'
  BY <1>1 DEF PtyTypes
<1>5. dumpOf[s] = 0 /\ ~HoldsDump(s)
  BY <1>1 DEF DumpNumbers, DumpPlaces
<1>6. DumpNumbers'
  BY <1>1, <1>2, <1>3 DEF DumpNumbers
<1>7. DumpPlaces'
  <2>1. ASSUME NEW t \in PtyReaders, t # s
        PROVE  /\ HoldsDump(t)' <=> HoldsDump(t)
               /\ t \in drainer' <=> t \in drainer
    BY Zenon, <1>1, <2>1 DEF HoldsDump
  <2>2. DumpsIn(PtyStream(s)') = {} /\ (s \in drainer' => initialBuffer # 0)
    BY Zenon, <1>1, <1>5 DEF HoldsDump
  <2>3. /\ HoldsDump(s)' => dumpOf'[s] # 0
        /\ \A i, j \in DumpsIn(PtyStream(s)') : i = j
    BY Zenon, <1>3, <2>2 DEF HoldsDump
  <2> QED
    BY Zenon, <1>1, <1>3, <2>1, <2>2, <2>3 DEF DumpPlaces
<1>8. ASSUME NEW t \in PtyReaders, t # s PROVE ReaderOK(t)'
  <2>1. SameReader(t)
    BY Zenon, <1>1, <1>2, <1>8 DEF SameReader
  <2> QED
    BY Zenon, <1>1, <2>1, ReaderFrame
<1>9. ReaderOK(s)'
  <2>1. LastOwed(s)' = LastOwed(s) /\ ReaderOK(s)
    BY Zenon, <1>1 DEF LastOwed
  <2> QED
    BY Zenon, <1>1, <1>2, <2>1 DEF ReaderOK
<1> QED
  BY Zenon, <1>4, <1>6, <1>7, <1>8, <1>9 DEF PtyInv, DumpInv

\* The dump's goroutine: its send moves the dump from the goroutine to the
\* stream of the same subscriber.
LEMMA DumpSentStep ==
  ASSUME PtyInv, NEW s \in PtyReaders, DumpSent(s)
  PROVE  PtyInv'
<1>1. /\ PtyTypes /\ DumpInv /\ \A t \in PtyReaders : ReaderOK(t)
      /\ ptyTaken' = ptyTaken /\ s \in drainer /\ ptyCh' = [ptyCh EXCEPT ![s] = Append(@, Dump)]
      /\ reader' = reader /\ ptyList' = ptyList /\ reader[s] = "open"
      /\ ptyFrom' = ptyFrom /\ ptyTo' = ptyTo /\ ptyMissed' = ptyMissed
      /\ live' = live /\ initialBuffer' = initialBuffer /\ dumps' = dumps /\ dumpOf' = dumpOf
      /\ drainer' = drainer \ {s}
  BY Zenon DEF PtyInv, DumpSent, chunkVars
<1>2. ptyCh[s] \in Seq(Nat) /\ ptyTaken[s] \in Seq(Nat) /\ Dump \in Nat /\ PtyStream(s) \in Seq(Nat)
  BY <1>1, StreamMoves DEF PtyTypes, PtyStream, Dump
<1>3. Append(ptyCh[s], Dump) \in Seq(Nat)
  BY <1>2
<1>4. PtyTypes'
  BY Zenon, <1>1, <1>3 DEF PtyTypes
<1>5. PtyStream(s)' = Append(PtyStream(s), Dump)
  BY Zenon, <1>1, <1>2, StreamMoves DEF PtyTypes, PtyStream
<1>6. \A t \in PtyReaders : t # s => PtyStream(t)' = PtyStream(t)
  BY Zenon, <1>1 DEF PtyTypes, PtyStream
<1>7. /\ LiveIn(PtyStream(s)') = LiveIn(PtyStream(s)) /\ Rising(PtyStream(s)')
      /\ DumpsIn(PtyStream(s)') = {Len(PtyStream(s)) + 1}
  <2>1. DumpsIn(PtyStream(s)) = {} /\ Rising(PtyStream(s))
    BY Zenon, <1>1 DEF DumpInv, DumpPlaces, ReaderOK
  <2>2. LiveIn(PtyStream(s)') = LiveIn(PtyStream(s)) \cup ({Dump} \ {Dump})
    BY Zenon, <1>2, <1>5, StreamGrows
  <2>3. DumpsIn(PtyStream(s)') = DumpsIn(PtyStream(s)) \cup {Len(PtyStream(s)) + 1}
    BY Zenon, <1>2, <1>5, StreamGrows
  <2> QED
    BY Zenon, <1>2, <1>5, <2>1, <2>2, <2>3, StreamGrows
<1>8. DumpInv'
  <2>1. DumpNumbers'
    BY Zenon, <1>1 DEF DumpInv, DumpNumbers
  <2>2. ASSUME NEW t \in PtyReaders, t # s
        PROVE  /\ HoldsDump(t)' <=> HoldsDump(t)
               /\ t \in drainer' <=> t \in drainer
               /\ DumpsIn(PtyStream(t)') = DumpsIn(PtyStream(t))
    BY Zenon, <1>1, <1>6, <2>2 DEF HoldsDump
  <2>3. dumpOf'[s] # 0 /\ s \notin drainer'
    BY Zenon, <1>1 DEF DumpInv, DumpPlaces, HoldsDump
  <2>4. \A i, j \in DumpsIn(PtyStream(s)') : i = j
    BY Zenon, <1>7
  <2> QED
    BY Zenon, <1>1, <2>1, <2>2, <2>3, <2>4 DEF DumpInv, DumpPlaces
<1>9. ASSUME NEW t \in PtyReaders PROVE ReaderOK(t)'
  <2>1. CASE t = s
    <3>1. LastOwed(s)' = LastOwed(s) /\ ReaderOK(s)
      BY Zenon, <1>1 DEF LastOwed
    <3> QED
      BY <1>1, <1>7, <2>1, <3>1 DEF ReaderOK
  <2>2. CASE t # s
    <3>1. SameReader(t)
      BY Zenon, <1>1, <1>6, <2>2 DEF SameReader
    <3> QED
      BY Zenon, <1>1, <3>1, ReaderFrame
  <2> QED
    BY Zenon, <2>1, <2>2
<1> QED
  BY Zenon, <1>4, <1>8, <1>9 DEF PtyInv

\* fanOut: every channel of the list gets the chunk, or has its loss on record.
LEMMA FanOutStep ==
  ASSUME PtyInv, FanOut
  PROVE  PtyInv'
<1> DEFINE full == {s \in ptyList : Len(ptyCh[s]) = PtyCap}
<1>1. /\ PtyTypes /\ DumpInv /\ \A t \in PtyReaders : ReaderOK(t)
      /\ live < MaxLive /\ live' = live + 1 /\ ptyTaken' = ptyTaken
      /\ reader' = reader /\ ptyList' = ptyList
      /\ ptyFrom' = ptyFrom /\ ptyTo' = ptyTo
      /\ initialBuffer' = initialBuffer /\ dumps' = dumps /\ dumpOf' = dumpOf /\ drainer' = drainer
      /\ live \in Nat /\ live + 1 \in Nat /\ live + 1 # Dump /\ live' <= MaxLive
  BY PtyAssumption DEF PtyInv, FanOut, PtyTypes, Dump, dumpVars
<1>2. \A t \in PtyReaders : /\ ptyCh'[t] = IF t \in ptyList \ full THEN Append(ptyCh[t], live + 1) ELSE ptyCh[t]
                            /\ ptyMissed'[t] = ptyMissed[t] \cup IF t \in full THEN {live + 1} ELSE {}
  BY Zenon DEF FanOut
<1>3. \A t \in PtyReaders : /\ ptyCh[t] \in Seq(Nat) /\ ptyTaken[t] \in Seq(Nat) /\ PtyStream(t) \in Seq(Nat)
                            /\ Append(ptyCh[t], live + 1) \in Seq(Nat) /\ ptyMissed[t] \in SUBSET Nat
  BY <1>1, StreamMoves DEF PtyTypes, PtyStream
<1>4. PtyTypes'
  <2>1. ptyCh' \in [PtyReaders -> Seq(Nat)]
    BY Zenon, <1>2, <1>3 DEF FanOut
  <2>2. \A t \in PtyReaders : ptyMissed'[t] \in SUBSET Nat
    BY Zenon, <1>1, <1>2, <1>3
  <2>3. ptyMissed' \in [PtyReaders -> SUBSET Nat]
    BY Zenon, <2>2 DEF FanOut
  <2> QED
    BY Zenon, <1>1, <2>1, <2>3 DEF PtyTypes
<1>5. \A t \in PtyReaders : PtyStream(t)' = IF t \in ptyList \ full THEN Append(PtyStream(t), live + 1) ELSE PtyStream(t)
  <2> SUFFICES ASSUME NEW t \in PtyReaders
               PROVE  PtyStream(t)' = IF t \in ptyList \ full THEN Append(PtyStream(t), live + 1) ELSE PtyStream(t)
    BY Zenon
  <2> HIDE DEF full
  <2>1. ptyTaken[t] \o Append(ptyCh[t], live + 1) = Append(ptyTaken[t] \o ptyCh[t], live + 1)
    BY Zenon, <1>1, <1>3, StreamMoves
  <2>2. PtyStream(t)' = ptyTaken[t] \o ptyCh'[t]
    BY Zenon, <1>1 DEF PtyStream
  <2>3. CASE t \in ptyList \ full
    BY Zenon, <1>2, <2>1, <2>2, <2>3 DEF PtyStream
  <2>4. CASE t \notin ptyList \ full
    BY Zenon, <1>2, <2>2, <2>4 DEF PtyStream
  <2> QED
    BY Zenon, <2>3, <2>4
<1>6. DumpInv'
  <2>1. \A t \in PtyReaders : DumpsIn(PtyStream(t)') = DumpsIn(PtyStream(t))
    <3> SUFFICES ASSUME NEW t \in PtyReaders PROVE DumpsIn(PtyStream(t)') = DumpsIn(PtyStream(t))
      OBVIOUS
    <3>1. DumpsIn(Append(PtyStream(t), live + 1)) = DumpsIn(PtyStream(t)) \cup {}
      BY Zenon, <1>1, <1>3, StreamGrows
    <3> QED
      BY Zenon, <1>5, <3>1
  <2> QED
    BY Zenon, <1>1, <2>1, DumpFrame DEF SameDump
<1>7. ASSUME NEW t \in PtyReaders PROVE ReaderOK(t)'
  <2> HIDE DEF full
  <2>0. ReaderOK(t) /\ full \subseteq ptyList
    BY Zenon, <1>1 DEF full
  <2>1. CASE t \in ptyList
    <3>1. /\ reader[t] \in {"added", "won", "open"} /\ ptyTo[t] = MaxLive /\ ptyFrom[t] <= live /\ Rising(PtyStream(t))
          /\ LiveIn(PtyStream(t)) \cup ptyMissed[t] = ptyFrom[t] + 1 .. LastOwed(t)
      BY <2>0, <2>1 DEF ReaderOK
    <3>2. LastOwed(t) = live /\ LastOwed(t)' = live + 1
      BY <1>1, <3>1, PtyAssumption DEF LastOwed
    <3>3. \A a \in LiveIn(PtyStream(t)) : a < live + 1
      BY <1>1, <3>1, <3>2 DEF PtyTypes
    <3>4. LiveIn(PtyStream(t)') \cup ptyMissed'[t] = (LiveIn(PtyStream(t)) \cup ptyMissed[t]) \cup {live + 1}
      <4>1. LiveIn(Append(PtyStream(t), live + 1)) = LiveIn(PtyStream(t)) \cup ({live + 1} \ {Dump})
        BY Zenon, <1>1, <1>3, StreamGrows
      <4> QED
        BY Zenon, <1>1, <1>2, <1>5, <2>1, <4>1
    <3>5. (ptyFrom[t] + 1 .. live) \cup {live + 1} = ptyFrom[t] + 1 .. live + 1
      <4>1. ptyFrom[t] \in Nat /\ live \in Nat /\ ptyFrom[t] <= live
        BY <1>1, <3>1 DEF PtyTypes
      <4>2. \A m, n \in Nat : m <= n => (m + 1 .. n) \cup {n + 1} = m + 1 .. n + 1
        OBVIOUS
      <4> QED
        BY Zenon, <4>1, <4>2
    <3>6. Rising(PtyStream(t)')
      <4>1. Rising(Append(PtyStream(t), live + 1))
        BY Zenon, <1>1, <1>3, <3>1, <3>3, StreamGrows
      <4> QED
        BY Zenon, <1>5, <3>1, <4>1
    <3>7. ptyFrom'[t] <= live'
      BY <1>1, <3>1 DEF PtyTypes
    <3>8. LiveIn(PtyStream(t)') \cup ptyMissed'[t] = ptyFrom'[t] + 1 .. LastOwed(t)'
      BY Zenon, <1>1, <3>1, <3>2, <3>4, <3>5
    <3> QED
      BY <1>1, <2>1, <3>1, <3>6, <3>7, <3>8 DEF ReaderOK
  <2>2. CASE t \notin ptyList
    <3>1. PtyStream(t)' = PtyStream(t) /\ ptyMissed'[t] = ptyMissed[t]
      BY Zenon, <1>2, <1>5, <2>0, <2>2
    <3>2. reader[t] # "none" => LastOwed(t)' = LastOwed(t) /\ ptyFrom[t] <= live' /\ ptyTo[t] <= live'
      BY <1>1, <2>0, <2>2 DEF LastOwed, ReaderOK, PtyTypes
    <3> QED
      BY <1>1, <2>0, <2>2, <3>1, <3>2 DEF ReaderOK, PtyTypes
  <2> QED
    BY Zenon, <2>1, <2>2
<1> QED
  BY Zenon, <1>4, <1>6, <1>7 DEF PtyInv

\* The subscriber takes a chunk: its stream is the same.
LEMMA TakePTYDataStep ==
  ASSUME PtyInv, NEW s \in PtyReaders, TakePTYData(s)
  PROVE  PtyInv'
<1>1. /\ PtyTypes /\ DumpInv /\ \A t \in PtyReaders : ReaderOK(t)
      /\ ptyCh[s] # <<>> /\ ptyTaken' = [ptyTaken EXCEPT ![s] = Append(@, Head(ptyCh[s]))]
      /\ ptyCh' = [ptyCh EXCEPT ![s] = Tail(@)]
      /\ reader' = reader /\ ptyList' = ptyList
      /\ ptyFrom' = ptyFrom /\ ptyTo' = ptyTo /\ ptyMissed' = ptyMissed
      /\ live' = live
      /\ initialBuffer' = initialBuffer /\ dumps' = dumps /\ dumpOf' = dumpOf /\ drainer' = drainer
  BY Zenon DEF PtyInv, TakePTYData, dumpVars
<1>2. ptyCh[s] \in Seq(Nat) /\ ptyTaken[s] \in Seq(Nat)
  BY Zenon, <1>1 DEF PtyTypes
<1>3. Tail(ptyCh[s]) \in Seq(Nat) /\ Append(ptyTaken[s], Head(ptyCh[s])) \in Seq(Nat)
  BY <1>1, <1>2
<1>4. PtyTypes'
  BY Zenon, <1>1, <1>3 DEF PtyTypes
<1>5. ASSUME NEW t \in PtyReaders PROVE PtyStream(t)' = PtyStream(t)
  <2>1. t # s => ptyTaken'[t] = ptyTaken[t] /\ ptyCh'[t] = ptyCh[t]
    BY Zenon, <1>1 DEF PtyTypes
  <2>2. ptyTaken'[s] = Append(ptyTaken[s], Head(ptyCh[s])) /\ ptyCh'[s] = Tail(ptyCh[s])
    BY Zenon, <1>1 DEF PtyTypes
  <2>3. Append(ptyTaken[s], Head(ptyCh[s])) \o Tail(ptyCh[s]) = ptyTaken[s] \o ptyCh[s]
    <3>1. 0 \in Nat
      OBVIOUS
    <3> QED
      BY Zenon, <1>1, <1>2, <3>1, StreamMoves
  <2> QED
    BY Zenon, <2>1, <2>2, <2>3 DEF PtyStream
<1>6. DumpInv'
  BY Zenon, <1>1, <1>5, DumpFrame DEF SameDump
<1>7. ASSUME NEW t \in PtyReaders PROVE ReaderOK(t)'
  BY Zenon, <1>1, <1>5, ReaderFrame DEF SameReader
<1> QED
  BY Zenon, <1>4, <1>6, <1>7 DEF PtyInv

\* The subscriber leaves: nothing that comes from now on is owed to it.
LEMMA RemoveSubscriberStep ==
  ASSUME PtyInv, NEW s \in PtyReaders, RemoveSubscriber(s)
  PROVE  PtyInv'
<1>1. /\ PtyTypes /\ DumpInv /\ \A t \in PtyReaders : ReaderOK(t)
      /\ \A t \in PtyReaders : PtyStream(t)' = PtyStream(t)
      /\ reader[s] = "open" /\ reader' = [reader EXCEPT ![s] = "left"] /\ ptyList' = ptyList \ {s}
      /\ ptyFrom' = ptyFrom /\ ptyTo' = [ptyTo EXCEPT ![s] = live] /\ ptyMissed' = ptyMissed
      /\ live' = live
      /\ initialBuffer' = initialBuffer /\ dumps' = dumps /\ dumpOf' = dumpOf /\ drainer' = drainer
  BY Zenon DEF PtyInv, RemoveSubscriber, PtyStream, dumpVars
<1>2. PtyTypes'
  BY <1>1 DEF PtyTypes, RemoveSubscriber, dumpVars
<1>3. /\ reader'[s] = "left" /\ ptyTo'[s] = live
      /\ \A t \in PtyReaders : t # s => reader'[t] = reader[t] /\ ptyTo'[t] = ptyTo[t]
  BY Zenon, <1>1 DEF PtyTypes
<1>4. DumpInv'
  BY Zenon, <1>1, <1>3, DumpFrame DEF SameDump
<1>5. ASSUME NEW t \in PtyReaders, t # s PROVE ReaderOK(t)'
  <2>1. SameReader(t)
    BY Zenon, <1>1, <1>3, <1>5 DEF SameReader
  <2> QED
    BY Zenon, <1>1, <2>1, ReaderFrame
<1>6. ReaderOK(s)'
  <2>1. ptyTo[s] = MaxLive /\ ReaderOK(s)
    BY <1>1 DEF ReaderOK
  <2>2. LastOwed(s)' = LastOwed(s) /\ live \in Nat /\ live <= live
    BY <1>1, <1>3, <2>1, PtyAssumption DEF LastOwed, PtyTypes
  <2> QED
    BY <1>1, <1>3, <2>1, <2>2 DEF ReaderOK
<1> QED
  BY Zenon, <1>2, <1>4, <1>5, <1>6 DEF PtyInv

\* SetInitialPTYBuffer brings a dump that no subscriber was handed.
LEMMA SetInitialPTYBufferStep ==
  ASSUME PtyInv, NEW empty \in BOOLEAN, SetInitialPTYBuffer(empty) \/ ResetDrained
  PROVE  PtyInv'
<1>1. /\ PtyTypes /\ DumpNumbers /\ DumpPlaces /\ \A t \in PtyReaders : ReaderOK(t)
      /\ \A t \in PtyReaders : PtyStream(t)' = PtyStream(t)
      /\ reader' = reader /\ ptyList' = ptyList /\ ptyFrom' = ptyFrom /\ ptyTo' = ptyTo
      /\ ptyMissed' = ptyMissed /\ live' = live /\ ptyCh' = ptyCh /\ ptyTaken' = ptyTaken
      /\ drainer' = drainer /\ dumpOf' = dumpOf
  BY Zenon DEF PtyInv, DumpInv, SetInitialPTYBuffer, ResetDrained, PtyStream, chunkVars
<1>2. PtyTypes'
  BY Zenon, <1>1 DEF PtyTypes
<1>3. DumpNumbers'
  BY <1>1 DEF DumpNumbers, SetInitialPTYBuffer, ResetDrained
<1>4. DumpPlaces'
  <2>1. \A t \in PtyReaders : HoldsDump(t)' <=> HoldsDump(t)
    BY Zenon, <1>1 DEF HoldsDump
  <2> QED
    BY Zenon, <1>1, <2>1 DEF DumpPlaces
<1>5. ASSUME NEW t \in PtyReaders PROVE ReaderOK(t)'
  BY Zenon, <1>1, ReaderFrame DEF SameReader
<1> QED
  BY Zenon, <1>2, <1>3, <1>4, <1>5 DEF PtyInv, DumpInv

\* The goroutine gives up or panics: at most it no longer has the dump.
LEMMA DumpLostStep ==
  ASSUME PtyInv, NEW s \in PtyReaders, DumpPanics(s) \/ DumpDropped(s)
  PROVE  PtyInv'
<1>1. /\ PtyTypes /\ DumpInv /\ \A t \in PtyReaders : ReaderOK(t)
      /\ \A t \in PtyReaders : PtyStream(t)' = PtyStream(t)
      /\ reader' = reader /\ ptyList' = ptyList
      /\ initialBuffer' = initialBuffer /\ dumps' = dumps /\ dumpOf' = dumpOf
      /\ ptyFrom' = ptyFrom /\ ptyTo' = ptyTo /\ ptyMissed' = ptyMissed
      /\ live' = live /\ drainer' \subseteq drainer /\ ptyCh' = ptyCh /\ ptyTaken' = ptyTaken
  BY Zenon DEF PtyInv, DumpPanics, DumpDropped, PtyStream, chunkVars
<1>2. PtyTypes'
  BY Zenon, <1>1 DEF PtyTypes
<1>3. DumpInv'
  <2>1. \A t \in PtyReaders : HoldsDump(t)' => HoldsDump(t)
    BY Zenon, <1>1 DEF HoldsDump
  <2>2. DumpPlaces'
    BY Zenon, <1>1, <2>1 DEF DumpInv, DumpPlaces
  <2>3. DumpNumbers'
    BY Zenon, <1>1 DEF DumpInv, DumpNumbers
  <2> QED
    BY Zenon, <2>2, <2>3 DEF DumpInv
<1>4. ASSUME NEW t \in PtyReaders PROVE ReaderOK(t)'
  BY Zenon, <1>1, ReaderFrame DEF SameReader
<1> QED
  BY Zenon, <1>2, <1>3, <1>4 DEF PtyInv

\* A set whose members are all equal has at most one.
LEMMA AtMostOneMember ==
  ASSUME NEW S, \A x, y \in S : x = y
  PROVE  Cardinality(S) <= 1
<1>1. CASE S = {}
  BY <1>1, FS_EmptySet
<1>2. CASE S # {}
  <2>1. PICK x \in S : TRUE
    BY Zenon, <1>2
  <2>2. S = {x}
    BY Zenon, <2>1
  <2>3. Cardinality({x}) = 1
    BY Zenon, FS_Singleton
  <2> QED
    BY <2>2, <2>3
<1> QED
  BY Zenon, <1>1, <1>2

\* The fan-out of PTY output keeps its invariant.
LEMMA PtyInvariant == PtySpec => []PtyInv
<1>1. PtyInit => PtyInv
  <2> SUFFICES ASSUME PtyInit PROVE PtyInv
    OBVIOUS
  <2>1. \A s \in PtyReaders : PtyStream(s) = <<>>
    BY DEF PtyInit, PtyStream
  <2>2. Rising(<<>>) /\ DumpsIn(<<>>) = {} /\ LiveIn(<<>>) = {}
    BY DEF Rising, DumpsIn, LiveIn
  <2>3. PtyTypes
    <3>1. <<>> \in Seq(Nat) /\ 0 \in Nat /\ MaxLive \in Nat /\ 0 <= MaxLive
      BY PtyAssumption
    <3> QED
      BY Zenon, <3>1 DEF PtyInit, PtyTypes
  <2>4. DumpInv
    <3>1. DumpPlaces
      BY Zenon, <2>1, <2>2 DEF PtyInit, DumpPlaces, HoldsDump
    <3>2. DumpNumbers
      BY DEF PtyInit, DumpNumbers
    <3> QED
      BY Zenon, <3>1, <3>2 DEF DumpInv
  <2>5. \A s \in PtyReaders : ReaderOK(s)
    BY <2>1, <2>2 DEF PtyInit, ReaderOK
  <2> QED
    BY Zenon, <2>3, <2>4, <2>5 DEF PtyInv
<1>2. PtyInv /\ [PtyNext]_ptyVars => PtyInv'
  <2> SUFFICES ASSUME PtyInv, [PtyNext]_ptyVars PROVE PtyInv'
    OBVIOUS
  <2>1. CASE UNCHANGED ptyVars
    BY Zenon, <2>1
    DEF ptyVars, PtyInv, PtyTypes, DumpInv, DumpNumbers, DumpPlaces, HoldsDump, ReaderOK, PtyStream, LastOwed
  <2>2. ASSUME NEW s \in PtyReaders,
               \/ AddSubscriber(s) \/ SwapDrained(s) \/ TakeInitial(s) \/ TakePTYData(s)
               \/ RemoveSubscriber(s) \/ DumpSent(s) \/ DumpPanics(s) \/ DumpDropped(s)
        PROVE  PtyInv'
    BY Zenon, <2>2, AddSubscriberStep, SwapDrainedStep, TakeInitialStep, TakePTYDataStep,
       RemoveSubscriberStep, DumpSentStep, DumpLostStep
  <2> QED
    BY Zenon, <2>1, <2>2, SetInitialPTYBufferStep, FanOutStep DEF PtyNext
<1> QED
  BY <1>1, <1>2, PTL DEF PtySpec

\* For any number of subscribers, channels of any size and output of any
\* length, and dumps at any time: each dump goes to one subscriber at most, once; live output has no silent
\* gap and no repetition; fanOut meets no closed channel.
THEOREM FanOutIsSound == PtySpec => []PtyFanOutIsSound
<1>1. PtyInv => PtyFanOutIsSound
  <2> SUFFICES ASSUME PtyInv PROVE PtyFanOutIsSound
    OBVIOUS
  <2>1. \A s, t \in PtyReaders : HoldsDump(s) /\ HoldsDump(t) /\ dumpOf[s] = dumpOf[t] => s = t
    BY Zenon DEF PtyInv, DumpInv, DumpNumbers, DumpPlaces
  <2>2. \A s \in PtyReaders : Cardinality(DumpsIn(PtyStream(s))) <= 1
    BY Zenon, AtMostOneMember DEF PtyInv, DumpInv, DumpPlaces
  <2>3. PtyNoSilentGap /\ ListedIsOpen
    BY Zenon DEF PtyInv, PtyTypes, ReaderOK, PtyNoSilentGap, ListedIsOpen
  <2> QED
    BY Zenon, <2>1, <2>2, <2>3 DEF PtyFanOutIsSound, DumpAtMostOnce
<1> QED
  BY <1>1, PtyInvariant, PTL

-----------------------------------------------------------------------------
(* The resource evaluator *)

\* A breach count is the length of the row of breaches that the samples end
\* with.
Row(s, n) ==
  /\ n \in Nat /\ n <= Len(s)
  /\ \A j \in DOMAIN s : j > Len(s) - n => s[j] = "over"
  /\ n < Len(s) => s[Len(s) - n] # "over"

\* ActionIsSustained and BreachIsActedOn of one row of samples.
SustainedIn(s, t) ==
  \A i \in DOMAIN s : s[i] = "fired" => i >= t /\ \A j \in i - t + 1 .. i - 1 : s[j] = "over"
ActedOnIn(s, t) ==
  \A i \in DOMAIN s : i >= t => \E j \in i - t + 1 .. i : s[j] # "over"

CountsOK(s, n, t) == Row(s, n) /\ n < t /\ SustainedIn(s, t) /\ ActedOnIn(s, t)

Verdicts == {"over", "under", "fired"}

EvaluatorTypes ==
  /\ seen \in [Kinds -> [Sampled -> Seq(Verdicts)]]
  /\ breaches \in [Kinds -> [Sampled -> Nat]]

EvaluatorInv ==
  /\ EvaluatorTypes
  /\ \A k \in Kinds, p \in Sampled : CountsOK(seen[k][p], breaches[k][p], Threshold[k])
  /\ fired # {} => mon = "sampling"
  /\ monStop = "returned" => mon = "ended"

\* One more sample, and the count Evaluate makes of it.
LEMMA SampleAdded ==
  ASSUME NEW s \in Seq(Verdicts), NEW n \in Nat, NEW t \in Nat \ {0}, CountsOK(s, n, t)
  PROVE  /\ CountsOK(Append(s, "under"), 0, t)
         /\ n + 1 < t => CountsOK(Append(s, "over"), n + 1, t)
         /\ n + 1 >= t => CountsOK(Append(s, "fired"), 0, t)
<1>1. ASSUME NEW v \in Verdicts
      PROVE  /\ Append(s, v) \in Seq(Verdicts) /\ Len(Append(s, v)) = Len(s) + 1 /\ Len(s) \in Nat
             /\ DOMAIN Append(s, v) = 1 .. Len(s) + 1 /\ DOMAIN s = 1 .. Len(s)
             /\ \A i \in 1 .. Len(s) : Append(s, v)[i] = s[i]
             /\ Append(s, v)[Len(s) + 1] = v
  OBVIOUS
<1>2. /\ n <= Len(s) /\ n < t
      /\ \A j \in 1 .. Len(s) : j > Len(s) - n => s[j] = "over"
      /\ n < Len(s) => s[Len(s) - n] # "over"
      /\ \A i \in 1 .. Len(s) : s[i] = "fired" => i >= t /\ \A j \in i - t + 1 .. i - 1 : s[j] = "over"
      /\ \A i \in 1 .. Len(s) : i >= t => \E j \in i - t + 1 .. i : s[j] # "over"
  BY Zenon, <1>1 DEF CountsOK, Row, SustainedIn, ActedOnIn, Verdicts
<1>3. ASSUME NEW v \in Verdicts,
             v = "fired" => Len(s) + 1 >= t /\ \A j \in (Len(s) + 1) - t + 1 .. Len(s) : s[j] = "over"
      PROVE  SustainedIn(Append(s, v), t)
  <2> DEFINE r == Append(s, v)
  <2>1. SUFFICES ASSUME NEW i \in 1 .. Len(s) + 1, r[i] = "fired"
                 PROVE  i >= t /\ \A j \in i - t + 1 .. i - 1 : r[j] = "over"
    BY Zenon, <1>1 DEF SustainedIn
  <2>2. CASE i \in 1 .. Len(s)
    <3>1. i >= t /\ \A j \in i - t + 1 .. i - 1 : s[j] = "over"
      BY <1>1, <1>2, <2>1, <2>2
    <3>2. \A j \in i - t + 1 .. i - 1 : j \in 1 .. Len(s)
      BY <1>1, <2>2, <3>1
    <3> QED
      BY Zenon, <1>1, <3>1, <3>2
  <2>3. CASE i = Len(s) + 1
    <3>1. v = "fired"
      BY Zenon, <1>1, <2>1, <2>3
    <3>2. \A j \in i - t + 1 .. i - 1 : j \in 1 .. Len(s) /\ s[j] = "over"
      BY <1>1, <1>3, <2>3, <3>1
    <3> QED
      BY Zenon, <1>1, <1>3, <2>3, <3>1, <3>2
  <2> QED
    BY <1>1, <2>2, <2>3
<1>4. ASSUME NEW v \in Verdicts, v = "over" => n + 1 < t
      PROVE  ActedOnIn(Append(s, v), t)
  <2> DEFINE r == Append(s, v)
  <2>1. SUFFICES ASSUME NEW i \in 1 .. Len(s) + 1, i >= t
                 PROVE  \E j \in i - t + 1 .. i : r[j] # "over"
    BY Zenon, <1>1 DEF ActedOnIn
  <2>2. CASE i \in 1 .. Len(s)
    <3>1. PICK j \in i - t + 1 .. i : s[j] # "over"
      BY <1>2, <2>1, <2>2
    <3>2. j \in 1 .. Len(s)
      BY <1>1, <2>1, <2>2
    <3> QED
      BY Zenon, <1>1, <3>1, <3>2
  <2>3. CASE i = Len(s) + 1 /\ v # "over"
    <3>1. i \in i - t + 1 .. i
      BY <1>1
    <3> QED
      BY Zenon, <1>1, <2>3, <3>1
  <2>4. CASE i = Len(s) + 1 /\ v = "over"
    <3>1. n < Len(s) /\ Len(s) - n \in 1 .. Len(s) /\ Len(s) - n \in i - t + 1 .. i
      BY <1>1, <1>2, <1>4, <2>1, <2>4
    <3> QED
      BY Zenon, <1>1, <1>2, <3>1
  <2>5. i \in 1 .. Len(s) \/ i = Len(s) + 1
    BY <1>1, <2>1
  <2> QED
    BY Zenon, <2>2, <2>3, <2>4, <2>5
<1>5. ASSUME NEW v \in Verdicts, v # "over"
      PROVE  Row(Append(s, v), 0)
  BY <1>1, <1>5 DEF Row
<1>6. Row(Append(s, "over"), n + 1)
  <2> DEFINE r == Append(s, "over")
  <2>0. "over" \in Verdicts
    BY DEF Verdicts
  <2>1. n + 1 \in Nat /\ n + 1 <= Len(r)
    BY <1>1, <1>2, <2>0
  <2>2. ASSUME NEW j \in 1 .. Len(s) + 1, j > (Len(s) + 1) - (n + 1) PROVE r[j] = "over"
    <3>1. j \in 1 .. Len(s) => j > Len(s) - n
      BY <1>1, <2>0, <2>2
    <3>2. j \in 1 .. Len(s) \/ j = Len(s) + 1
      BY <1>1, <2>0
    <3> QED
      BY Zenon, <1>1, <1>2, <2>0, <3>1, <3>2
  <2>3. n + 1 < Len(s) + 1 => r[(Len(s) + 1) - (n + 1)] # "over"
    <3>1. n + 1 < Len(s) + 1 => n < Len(s) /\ Len(s) - n \in 1 .. Len(s) /\ (Len(s) + 1) - (n + 1) = Len(s) - n
      BY <1>1, <2>0
    <3> QED
      BY Zenon, <1>1, <1>2, <2>0, <3>1
  <2> QED
    BY Zenon, <1>1, <2>0, <2>1, <2>2, <2>3 DEF Row
<1>7. n + 1 >= t => Len(s) + 1 >= t /\ \A j \in (Len(s) + 1) - t + 1 .. Len(s) : s[j] = "over"
  BY <1>1, <1>2 DEF Verdicts
<1>8. 0 < t /\ "over" \in Verdicts /\ "under" \in Verdicts /\ "fired" \in Verdicts
      /\ "under" # "over" /\ "fired" # "over" /\ "under" # "fired"
  BY DEF Verdicts
<1>9. CountsOK(Append(s, "under"), 0, t)
  BY Zenon, <1>3, <1>4, <1>5, <1>8 DEF CountsOK
<1>10. n + 1 < t => CountsOK(Append(s, "over"), n + 1, t)
  BY Zenon, <1>3, <1>4, <1>6, <1>8 DEF CountsOK
<1>11. n + 1 >= t => CountsOK(Append(s, "fired"), 0, t)
  BY Zenon, <1>3, <1>4, <1>5, <1>7, <1>8 DEF CountsOK
<1> QED
  BY Zenon, <1>9, <1>10, <1>11

\* Evaluate: the samples of the checked kinds grow by one, with their counts.
LEMMA EvaluateStep ==
  ASSUME EvaluatorInv, NEW p \in Sampled, NEW over \in SUBSET Kinds, Evaluate(p, over)
  PROVE  EvaluatorInv'
<1> DEFINE checked == IF p \in DOMAIN limits THEN limits[p] ELSE {}
           count(k) == IF k \in over THEN breaches[k][p] + 1 ELSE 0
           acts == {k \in checked \cap over : Sustained(k, count(k))}
           verdict(k) == IF k \in acts THEN "fired" ELSE IF k \in over THEN "over" ELSE "under"
           newCount(k) == IF k \in acts THEN 0 ELSE count(k)
<1>1. /\ EvaluatorTypes /\ mon = "sampling" /\ mon' = mon /\ monStop' = monStop
      /\ monStop = "returned" => mon = "ended"
      /\ breaches' = [k \in Kinds |-> IF k \notin checked THEN breaches[k]
                                      ELSE [breaches[k] EXCEPT ![p] = newCount(k)]]
      /\ seen' = [k \in Kinds |-> IF k \notin checked THEN seen[k]
                                  ELSE [seen[k] EXCEPT ![p] = Append(@, verdict(k))]]
  BY Zenon DEF EvaluatorInv, Evaluate
<1>2. ASSUME NEW k \in Kinds, k \in checked
      PROVE  /\ CountsOK(Append(seen[k][p], verdict(k)), newCount(k), Threshold[k])
             /\ newCount(k) \in Nat /\ Append(seen[k][p], verdict(k)) \in Seq(Verdicts)
  <2>1. /\ seen[k][p] \in Seq(Verdicts) /\ breaches[k][p] \in Nat /\ Threshold[k] \in Nat \ {0}
        /\ CountsOK(seen[k][p], breaches[k][p], Threshold[k])
    BY Zenon, <1>1, EvaluatorAssumption DEF EvaluatorInv, EvaluatorTypes
  <2>2. verdict(k) \in Verdicts /\ Append(seen[k][p], verdict(k)) \in Seq(Verdicts)
    <3>1. verdict(k) \in Verdicts
      BY Zenon DEF Verdicts
    <3> HIDE DEF verdict
    <3> QED
      BY <2>1, <3>1
  <2>3. newCount(k) \in Nat
    BY <2>1
  <2>4. CASE k \notin over
    <3>1. verdict(k) = "under" /\ newCount(k) = 0
      BY Zenon, <2>4
    <3> QED
      BY Zenon, <2>1, <2>2, <2>3, <3>1, SampleAdded
  <2>5. CASE k \in over /\ breaches[k][p] + 1 >= Threshold[k]
    <3>1. verdict(k) = "fired" /\ newCount(k) = 0
      BY Zenon, <1>2, <2>5 DEF Sustained
    <3> QED
      BY Zenon, <2>1, <2>2, <2>3, <2>5, <3>1, SampleAdded
  <2>6. CASE k \in over /\ ~(breaches[k][p] + 1 >= Threshold[k])
    <3>1. verdict(k) = "over" /\ newCount(k) = breaches[k][p] + 1
      BY Zenon, <1>2, <2>6 DEF Sustained
    <3>2. breaches[k][p] + 1 < Threshold[k]
      BY <2>1, <2>6
    <3> QED
      BY Zenon, <2>1, <2>2, <2>3, <3>1, <3>2, SampleAdded
  <2> QED
    BY Zenon, <2>4, <2>5, <2>6
<1> HIDE DEF checked, verdict, newCount
<1>3. ASSUME NEW k \in Kinds
      PROVE  /\ seen'[k] \in [Sampled -> Seq(Verdicts)] /\ breaches'[k] \in [Sampled -> Nat]
             /\ \A q \in Sampled : CountsOK(seen'[k][q], breaches'[k][q], Threshold[k])
  <2>0. /\ seen[k] \in [Sampled -> Seq(Verdicts)] /\ breaches[k] \in [Sampled -> Nat]
        /\ \A q \in Sampled : CountsOK(seen[k][q], breaches[k][q], Threshold[k])
    BY Zenon, <1>1 DEF EvaluatorInv, EvaluatorTypes
  <2>1. CASE k \notin checked
    <3>1. seen'[k] = seen[k] /\ breaches'[k] = breaches[k]
      BY Zenon, <1>1, <2>1
    <3> QED
      BY Zenon, <2>0, <3>1
  <2>2. CASE k \in checked
    <3>1. /\ seen'[k] = [seen[k] EXCEPT ![p] = Append(seen[k][p], verdict(k))]
          /\ breaches'[k] = [breaches[k] EXCEPT ![p] = newCount(k)]
      BY Zenon, <1>1, <2>2
    <3>2. seen'[k] \in [Sampled -> Seq(Verdicts)] /\ breaches'[k] \in [Sampled -> Nat]
      BY Zenon, <1>2, <2>0, <2>2, <3>1
    <3>3. /\ seen'[k][p] = Append(seen[k][p], verdict(k)) /\ breaches'[k][p] = newCount(k)
          /\ \A q \in Sampled : q # p => seen'[k][q] = seen[k][q] /\ breaches'[k][q] = breaches[k][q]
      BY Zenon, <2>0, <3>1
    <3> QED
      BY Zenon, <1>2, <2>0, <2>2, <3>2, <3>3
  <2> QED
    BY Zenon, <2>1, <2>2
<1>4. EvaluatorTypes'
  <2>1. DOMAIN seen' = Kinds /\ seen' = [k \in Kinds |-> seen'[k]] /\ breaches' = [k \in Kinds |-> breaches'[k]]
    BY Zenon, <1>1
  <2> QED
    BY Zenon, <1>3, <2>1 DEF EvaluatorTypes
<1> QED
  BY Zenon, <1>1, <1>3, <1>4 DEF EvaluatorInv

\* Unregister: the counts and the samples they count go together.
LEMMA UnregisterStep ==
  ASSUME EvaluatorInv, NEW p \in Sampled, Unregister(p)
  PROVE  EvaluatorInv'
<1>1. /\ EvaluatorTypes /\ mon' = mon /\ monStop' = monStop /\ fired' = fired
      /\ breaches' = [k \in Kinds |-> [breaches[k] EXCEPT ![p] = 0]]
      /\ seen' = [k \in Kinds |-> [seen[k] EXCEPT ![p] = <<>>]]
  BY Zenon DEF EvaluatorInv, Unregister
<1>2. \A k \in Kinds : CountsOK(<<>>, 0, Threshold[k])
  BY EvaluatorAssumption DEF CountsOK, Row, SustainedIn, ActedOnIn
<1>3. ASSUME NEW k \in Kinds
      PROVE  /\ seen'[k] \in [Sampled -> Seq(Verdicts)] /\ breaches'[k] \in [Sampled -> Nat]
             /\ \A q \in Sampled : CountsOK(seen'[k][q], breaches'[k][q], Threshold[k])
  <2>0. /\ seen[k] \in [Sampled -> Seq(Verdicts)] /\ breaches[k] \in [Sampled -> Nat]
        /\ \A q \in Sampled : CountsOK(seen[k][q], breaches[k][q], Threshold[k])
    BY Zenon, <1>1 DEF EvaluatorInv, EvaluatorTypes
  <2>1. seen'[k] = [seen[k] EXCEPT ![p] = <<>>] /\ breaches'[k] = [breaches[k] EXCEPT ![p] = 0]
    BY Zenon, <1>1
  <2>2. <<>> \in Seq(Verdicts) /\ 0 \in Nat
    OBVIOUS
  <2>3. seen'[k] \in [Sampled -> Seq(Verdicts)] /\ breaches'[k] \in [Sampled -> Nat]
    BY Zenon, <2>0, <2>1, <2>2
  <2>4. /\ seen'[k][p] = <<>> /\ breaches'[k][p] = 0
        /\ \A q \in Sampled : q # p => seen'[k][q] = seen[k][q] /\ breaches'[k][q] = breaches[k][q]
    BY Zenon, <2>0, <2>1
  <2> QED
    BY Zenon, <1>2, <2>0, <2>3, <2>4
<1>4. EvaluatorTypes'
  <2>1. seen' = [k \in Kinds |-> seen'[k]] /\ breaches' = [k \in Kinds |-> breaches'[k]]
    BY Zenon, <1>1
  <2> QED
    BY Zenon, <1>3, <2>1 DEF EvaluatorTypes
<1> QED
  BY Zenon, <1>1, <1>3, <1>4 DEF EvaluatorInv

\* The evaluator keeps its invariant, whoever registers, unregisters and stops.
LEMMA EvaluatorInvariant == EvaluatorSpec => []EvaluatorInv
<1>1. EvaluatorInit => EvaluatorInv
  <2> SUFFICES ASSUME EvaluatorInit PROVE EvaluatorInv
    OBVIOUS
  <2>1. <<>> \in Seq(Verdicts) /\ 0 \in Nat
    OBVIOUS
  <2>2. EvaluatorTypes
    BY Zenon, <2>1 DEF EvaluatorInit, EvaluatorTypes
  <2>3. \A k \in Kinds : CountsOK(<<>>, 0, Threshold[k])
    BY EvaluatorAssumption DEF CountsOK, Row, SustainedIn, ActedOnIn
  <2>4. \A k \in Kinds, p \in Sampled : seen[k][p] = <<>> /\ breaches[k][p] = 0
    BY Zenon DEF EvaluatorInit
  <2>5. fired = {} /\ monStop # "returned"
    BY DEF EvaluatorInit
  <2> QED
    BY Zenon, <2>2, <2>3, <2>4, <2>5 DEF EvaluatorInv
<1>2. EvaluatorInv /\ [EvaluatorNext]_evVars => EvaluatorInv'
  <2> SUFFICES ASSUME EvaluatorInv, [EvaluatorNext]_evVars PROVE EvaluatorInv'
    OBVIOUS
  <2>1. ASSUME UNCHANGED <<breaches, seen>>,
               /\ fired' # {} => mon' = "sampling"
               /\ monStop' = "returned" => mon' = "ended"
        PROVE  EvaluatorInv'
    BY Zenon, <2>1 DEF EvaluatorInv, EvaluatorTypes
  <2>2. CASE UNCHANGED evVars
    BY Zenon, <2>1, <2>2 DEF evVars, EvaluatorInv
  <2>3. ASSUME NEW p \in Sampled, NEW kinds \in SUBSET Kinds, RegisterLimits(p, kinds)
        PROVE  EvaluatorInv'
    BY Zenon, <2>1, <2>3 DEF RegisterLimits, EvaluatorInv
  <2>4. ASSUME NEW p \in Sampled, CollectFails(p)
        PROVE  EvaluatorInv'
    BY Zenon, <2>1, <2>4 DEF CollectFails, EvaluatorInv
  <2>5. CASE StartMonitor \/ MonitorTick \/ CallOnAction \/ TickEnds \/ MonitorEnds
             \/ CloseStop \/ StopMonitorReturns
    <3>1. UNCHANGED <<breaches, seen>>
      BY Zenon, <2>5
      DEF StartMonitor, MonitorTick, CallOnAction, TickEnds, MonitorEnds, CloseStop, StopMonitorReturns
    <3>2. fired' # {} => mon' = "sampling"
      BY <2>5
      DEF StartMonitor, MonitorTick, CallOnAction, TickEnds, MonitorEnds, CloseStop, StopMonitorReturns,
          EvaluatorInv
    <3>3. monStop' = "returned" => mon' = "ended"
      BY <2>5
      DEF StartMonitor, MonitorTick, CallOnAction, TickEnds, MonitorEnds, CloseStop, StopMonitorReturns,
          LoopJoined, EvaluatorInv
    <3> QED
      BY Zenon, <2>1, <3>1, <3>2, <3>3
  <2> QED
    BY Zenon, <2>2, <2>3, <2>4, <2>5, EvaluateStep, UnregisterStep DEF EvaluatorNext
<1> QED
  BY <1>1, <1>2, PTL DEF EvaluatorSpec

\* For any thresholds, samples and registrations: OnAction is called for a
\* sustained breach of one registration, for every one, and not after Stop.
THEOREM EvaluatorIsRight == EvaluatorSpec => []ActionsAreDue
<1>1. EvaluatorInv => ActionsAreDue
  <2> SUFFICES ASSUME EvaluatorInv PROVE ActionsAreDue
    OBVIOUS
  <2>1. ActionIsSustained /\ BreachIsActedOn
    BY Zenon DEF EvaluatorInv, CountsOK, SustainedIn, ActedOnIn, ActionIsSustained, BreachIsActedOn
  <2>2. QuietAfterStop
    BY DEF EvaluatorInv, QuietAfterStop
  <2> QED
    BY Zenon, <2>1, <2>2 DEF ActionsAreDue
<1> QED
  BY <1>1, EvaluatorInvariant, PTL

-----------------------------------------------------------------------------
(* The restart loop *)

\* What Run has counted, by where it is.
AttemptInv ==
  /\ attempts \in Nat /\ begun \in Nat /\ begunDone \in Nat
  /\ rlOpts \in [policy : {"Never", "OnFailure", "Always"}, max : Nat,
                 backoff : [initial : Nat, max : Nat, multiplier : Nat, jitter : Nat]]
  /\ rl \in {"none", "check", "start", "starting", "backoff", "returned"}
  /\ rl \in {"none", "check", "start", "backoff"} => begun = attempts
  /\ rl = "none" => begun = 0 /\ begunDone = 0
  /\ rl = "starting" => begun = attempts + 1
  /\ begunDone > 0 => begunDone = 1 /\ rlDone /\ rl # "start"
  /\ rlOpts.max > 0 /\ rl # "returned" => attempts <= rlOpts.max
  /\ rlOpts.policy = "Never" /\ rl \in {"check", "start", "backoff"} => begun = 0
  /\ rlResult = "exhausted" => rl = "returned"
  /\ RestartsCounted

\* Run has waited between any two attempts.
SleptInv ==
  /\ slept \in Seq(Nat)
  /\ rl \in {"none", "check", "start"} => Len(slept) = begun
  /\ rl \in {"starting", "backoff"} => Len(slept) + 1 = begun
  /\ Len(slept) + 1 >= begun

\* The waits keep to the backoff; without jitter none exceeds the next one.
WaitInv ==
  /\ power \in Nat /\ 1 <= power
  /\ slept = <<>> => power = 1
  /\ \A i \in DOMAIN slept : 10 * slept[i] <= MaxDelay * (10 + Jitter)
  /\ Jitter = 0 =>
       /\ slept # <<>> => slept[1] = Clamped(InitialDelay)
       /\ \A i \in DOMAIN slept : slept[i] <= Clamped(InitialDelay * power)
       /\ \A i, j \in DOMAIN slept : i < j => slept[i] <= slept[j]

RestartInv == AttemptInv /\ SleptInv /\ WaitInv

\* The backoff with its defaults applied.
LEMMA BackoffTyped ==
  ASSUME AttemptInv
  PROVE  InitialDelay \in Nat /\ MaxDelay \in Nat /\ Multiplier \in Nat /\ 1 <= Multiplier /\ Jitter \in Nat
BY DEF AttemptInv, InitialDelay, MaxDelay, Multiplier, Jitter

\* Products of natural numbers grow with their factors.
LEMMA ProductGrows ==
  ASSUME NEW a \in Nat, NEW b \in Nat, NEW c \in Nat, b <= c
  PROVE  a * b \in Nat /\ a * c \in Nat /\ b * a \in Nat /\ a * b <= a * c /\ b * a <= c * a
OBVIOUS

\* A delay is cut at Max, and a larger one is not cut to less.
LEMMA ClampGrows ==
  ASSUME AttemptInv, NEW d \in Nat, NEW e \in Nat, d <= e
  PROVE  Clamped(d) \in Nat /\ Clamped(d) <= MaxDelay /\ Clamped(d) <= Clamped(e)
<1>1. MaxDelay \in Nat
  BY Zenon, BackoffTyped
<1> QED
  BY <1>1 DEF Clamped

\* The jitter moves a delay by no more than its share, and not at all when
\* there is none.
LEMMA JitterBound ==
  ASSUME AttemptInv, NEW d \in Nat, NEW w \in Jittered(d)
  PROVE  w \in Nat /\ 10 * w <= d * (10 + Jitter) /\ (Jitter = 0 => w = d)
<1>1. Jitter \in Nat
  BY Zenon, BackoffTyped
<1> DEFINE k == d * Jitter
           m == d * (10 + Jitter)
<1>2. k \in Nat /\ m \in Nat /\ m = d * 10 + k /\ (Jitter = 0 => k = 0)
  BY <1>1
<1>3. w \in 0 .. m /\ (w = d \/ (10 * w < m /\ 10 * (w + 1) + k > d * 10))
  BY Zenon DEF Jittered
<1> HIDE DEF k, m
<1>4. w \in Nat /\ 10 * w <= m /\ (Jitter = 0 => w = d)
  BY <1>2, <1>3
<1> QED
  BY Zenon, <1>4 DEF m

\* The counts follow every step of Run, of its caller and of the cancellation.
LEMMA AttemptStep ==
  ASSUME AttemptInv, [RestartNext]_rlVars
  PROVE  AttemptInv'
<1> USE DEF AttemptInv, RestartsCounted
<1>1. CASE UNCHANGED rlVars
  BY <1>1 DEF rlVars
<1>2. ASSUME NEW p \in {"Never", "OnFailure", "Always"}, NEW m \in MaxRestartsValues,
             NEW b \in Backoffs, NewRestartLoop(p, m, b)
      PROVE  AttemptInv'
  BY <1>2, RestartAssumption DEF NewRestartLoop
<1>3. CASE CancelRun
  BY <1>3 DEF CancelRun
<1>4. CASE CheckContext
  BY <1>4 DEF CheckContext, RunReturns
<1>5. CASE CallStart
  BY <1>5 DEF CallStart
<1>6. CASE StartSucceeds
  BY <1>6 DEF StartSucceeds, RunReturns
<1>7. CASE StartFails
  BY <1>7 DEF StartFails, RunReturns, Exhausted
<1>8. CASE TimerFires
  BY <1>8 DEF TimerFires
<1>9. CASE BackoffCancelled
  BY <1>9 DEF BackoffCancelled, RunReturns
<1> QED
  BY <1>1, <1>2, <1>3, <1>4, <1>5, <1>6, <1>7, <1>8, <1>9 DEF RestartNext

\* A wait is added when the timer fires, and an attempt follows a wait.
LEMMA SleptStep ==
  ASSUME RestartInv, [RestartNext]_rlVars
  PROVE  SleptInv'
<1>0. AttemptInv /\ SleptInv /\ power \in Nat
  BY DEF RestartInv, WaitInv
<1>1. CASE TimerFires
  <2>1. PICK w \in NextDelay : slept' = Append(slept, w)
    BY Zenon, <1>1 DEF TimerFires
  <2>2. w \in Nat
    <3>1. InitialDelay * power \in Nat
      <4>1. InitialDelay \in Nat
        BY Zenon, <1>0, BackoffTyped
      <4> QED
        BY <1>0, <4>1
    <3>2. InitialDelay * power <= InitialDelay * power
      BY <3>1
    <3>3. Clamped(InitialDelay * power) \in Nat
      BY Zenon, <1>0, <3>1, <3>2, ClampGrows
    <3> QED
      BY Zenon, <1>0, <2>1, <3>3, JitterBound DEF NextDelay
  <2>3. /\ slept \in Seq(Nat) /\ attempts = Len(slept) + 1 /\ begun = attempts /\ begun' = begun
        /\ rl' = "check"
    BY <1>0, <1>1 DEF TimerFires, AttemptInv, SleptInv
  <2>4. slept' \in Seq(Nat) /\ Len(slept') = Len(slept) + 1
    BY <2>1, <2>2, <2>3
  <2> QED
    BY <2>3, <2>4 DEF SleptInv
<1>2. CASE slept' = slept
  <2> DEFINE n == Len(slept)
  <2>1. slept' \in Seq(Nat) /\ Len(slept') = n /\ n \in Nat
    BY <1>0, <1>2 DEF SleptInv
  <2>2. /\ rl \in {"none", "check", "start"} => n = begun
        /\ rl \in {"starting", "backoff"} => n + 1 = begun
        /\ n + 1 >= begun
    BY Zenon, <1>0 DEF SleptInv
  <2>3. ~TimerFires
    <3>1. ASSUME TimerFires PROVE FALSE
      <4>1. PICK w : slept' = Append(slept, w)
        BY Zenon, <3>1 DEF TimerFires
      <4> QED
        BY <1>0, <1>2, <4>1 DEF SleptInv
    <3> QED
      BY Zenon, <3>1
  <2> HIDE DEF n
  <2>4. /\ rl' \in {"none", "check", "start"} => n = begun'
        /\ rl' \in {"starting", "backoff"} => n + 1 = begun'
        /\ n + 1 >= begun'
    <3>1. CASE UNCHANGED <<rl, begun>>
      BY <2>2, <3>1
    <3>2. CASE \/ CheckContext \/ CallStart \/ StartSucceeds \/ StartFails \/ BackoffCancelled
      BY <1>0, <2>1, <2>2, <3>2
      DEF AttemptInv, CheckContext, CallStart, StartSucceeds, StartFails, BackoffCancelled, RunReturns
    <3>3. ASSUME NEW p, NEW m, NEW b, NewRestartLoop(p, m, b)
          PROVE  rl = "none" /\ rl' = "check" /\ begun' = begun
      BY Zenon, <3>3 DEF NewRestartLoop
    <3>4. CancelRun \/ UNCHANGED rlVars => UNCHANGED <<rl, begun>>
      BY Zenon DEF CancelRun, rlVars
    <3> QED
      BY <2>2, <2>3, <3>1, <3>2, <3>3, <3>4 DEF RestartNext
  <2> QED
    BY Zenon, <2>1, <2>4 DEF SleptInv
<1>3. TimerFires \/ slept' = slept
  BY Zenon
  DEF RestartNext, rlVars, NewRestartLoop, CancelRun, CheckContext, CallStart, StartSucceeds, StartFails,
      BackoffCancelled
<1> QED
  BY Zenon, <1>1, <1>2, <1>3

\* The new wait lies in the jitter's range around the delay cut at Max, and
\* the next delay is no less than this one.
LEMMA WaitAdded ==
  ASSUME RestartInv, TimerFires
  PROVE  WaitInv'
<1>0. AttemptInv /\ SleptInv /\ WaitInv
  BY DEF RestartInv
<1>1. rlOpts' = rlOpts /\ power' = power * Multiplier
  BY Zenon DEF TimerFires
<1>2. PICK w \in NextDelay : slept' = Append(slept, w)
  BY Zenon DEF TimerFires
<1>3. /\ InitialDelay \in Nat /\ MaxDelay \in Nat /\ Multiplier \in Nat /\ 1 <= Multiplier /\ Jitter \in Nat
      /\ power \in Nat /\ 1 <= power
  BY Zenon, <1>0, BackoffTyped DEF WaitInv
<1> DEFINE d == InitialDelay * power
           e == InitialDelay * (power * Multiplier)
           c == Clamped(d)
           J == 10 + Jitter
<1>4. power * Multiplier \in Nat /\ power <= power * Multiplier
  <2>1. power * 1 \in Nat /\ power * Multiplier \in Nat /\ power * 1 <= power * Multiplier
    BY Zenon, <1>3, ProductGrows, 1 \in Nat
  <2> QED
    BY <1>3, <2>1
<1>5. d \in Nat /\ e \in Nat /\ d <= e
  BY Zenon, <1>3, <1>4, ProductGrows
<1>6. c \in Nat /\ c <= MaxDelay /\ c <= Clamped(e)
  BY Zenon, <1>0, <1>5, ClampGrows
<1>7. w \in Nat /\ 10 * w <= c * J /\ (Jitter = 0 => w = c)
  BY Zenon, <1>0, <1>2, <1>6, JitterBound DEF NextDelay
<1>8. 10 * w <= MaxDelay * J
  <2>1. J \in Nat
    BY <1>3
  <2>2. c * J <= MaxDelay * J /\ c * J \in Nat /\ MaxDelay * J \in Nat
    <3> HIDE DEF c, J
    <3>1. c * J \in Nat /\ c * J <= MaxDelay * J
      BY Zenon, <1>3, <1>6, <2>1, ProductGrows
    <3> QED
      BY <1>3, <1>6, <2>1, <3>1
  <2>3. 10 * w \in Nat
    BY <1>7
  <2> HIDE DEF c, J
  <2> QED
    BY <1>7, <2>2, <2>3
<1>9. /\ InitialDelay' = InitialDelay /\ MaxDelay' = MaxDelay /\ Jitter' = Jitter
      /\ \A x : Clamped(x)' = Clamped(x)
  BY Zenon, <1>1 DEF InitialDelay, MaxDelay, Jitter, Clamped
<1> DEFINE n == Len(slept)
<1>10. /\ n \in Nat /\ slept' # <<>> /\ Len(slept') = n + 1
       /\ \A i \in DOMAIN slept' : \/ i \in DOMAIN slept /\ i <= n /\ slept'[i] = slept[i] /\ slept[i] \in Nat
                                   \/ i = n + 1 /\ slept'[i] = w
       /\ DOMAIN slept = 1 .. n /\ DOMAIN slept' = 1 .. n + 1
       /\ n = 0 <=> slept = <<>>
  BY <1>0, <1>2, <1>7 DEF SleptInv
<1>11. \A i \in DOMAIN slept' : 10 * slept'[i] <= MaxDelay' * (10 + Jitter')
  BY Zenon, <1>0, <1>8, <1>9, <1>10 DEF WaitInv
<1>12. ASSUME Jitter = 0
       PROVE  /\ slept'[1] = Clamped(InitialDelay)
              /\ \A i \in DOMAIN slept' : slept'[i] <= Clamped(e)
              /\ \A i, j \in DOMAIN slept' : i < j => slept'[i] <= slept'[j]
  <2>1. w = c
    BY Zenon, <1>7, <1>12
  <2>2. /\ slept # <<>> => slept[1] = Clamped(InitialDelay)
        /\ \A i \in DOMAIN slept : slept[i] <= c
        /\ \A i, j \in DOMAIN slept : i < j => slept[i] <= slept[j]
    BY Zenon, <1>0, <1>12 DEF WaitInv
  <2>3. slept'[1] = Clamped(InitialDelay)
    <3>1. CASE slept = <<>>
      <4>1. power = 1
        BY Zenon, <1>0, <3>1 DEF WaitInv
      <4>2. d = InitialDelay
        BY <1>3, <4>1
      <4>3. slept'[1] = w
        BY <1>10, <3>1
      <4> QED
        BY Zenon, <2>1, <4>2, <4>3
    <3>2. CASE slept # <<>>
      <4>1. 1 \in DOMAIN slept /\ 1 \in DOMAIN slept' /\ 1 # n + 1
        BY <1>10, <3>2
      <4> QED
        BY Zenon, <1>10, <2>2, <3>2, <4>1
    <3> QED
      BY Zenon, <3>1, <3>2
  <2>4. Clamped(e) \in Nat
    <3>1. e <= e
      BY <1>5
    <3> QED
      BY Zenon, <1>0, <1>5, <3>1, ClampGrows
  <2> HIDE DEF c, d, e, n
  <2>5. \A i \in DOMAIN slept' : slept'[i] <= Clamped(e)
    BY <1>6, <1>10, <2>1, <2>2, <2>4
  <2>6. \A i, j \in DOMAIN slept' : i < j => slept'[i] <= slept'[j]
    BY <1>6, <1>10, <2>1, <2>2
  <2> QED
    BY Zenon, <2>3, <2>5, <2>6
<1>13. power' \in Nat /\ 1 <= power'
  BY <1>1, <1>3, <1>4
<1> QED
  BY Zenon, <1>1, <1>9, <1>10, <1>11, <1>12, <1>13 DEF WaitInv

\* Every other step leaves the waits alone, and the backoff too once there is
\* one.
LEMMA WaitKept ==
  ASSUME RestartInv, [RestartNext]_rlVars, ~TimerFires
  PROVE  WaitInv'
<1>0. AttemptInv /\ SleptInv /\ WaitInv
  BY DEF RestartInv
<1>1. slept' = slept /\ power' = power
  BY Zenon
  DEF RestartNext, rlVars, NewRestartLoop, CancelRun, CheckContext, CallStart, StartSucceeds, StartFails,
      BackoffCancelled
<1>2. CASE rlOpts' = rlOpts
  <2>1. /\ InitialDelay' = InitialDelay /\ MaxDelay' = MaxDelay /\ Jitter' = Jitter
        /\ \A x : Clamped(x)' = Clamped(x)
    BY Zenon, <1>2 DEF InitialDelay, MaxDelay, Jitter, Clamped
  <2> QED
    BY Zenon, <1>0, <1>1, <2>1 DEF WaitInv
<1>3. CASE rl = "none"
  <2>1. Len(slept) = 0 /\ slept \in Seq(Nat)
    BY <1>0, <1>3 DEF AttemptInv, SleptInv
  <2>2. slept = <<>> /\ DOMAIN slept = {}
    BY <2>1
  <2> QED
    BY Zenon, <1>0, <1>1, <2>2 DEF WaitInv
<1>4. rlOpts' = rlOpts \/ rl = "none"
  BY Zenon
  DEF RestartNext, rlVars, NewRestartLoop, CancelRun, CheckContext, CallStart, StartSucceeds, StartFails,
      BackoffCancelled
<1> QED
  BY Zenon, <1>2, <1>3, <1>4

\* For every limit, policy and backoff, jitter and an Initial above Max
\* included: a cancelled Run begins at most one more attempt, MaxRestarts is
\* the number of attempts after the first, there is a wait between any two, it
\* exceeds Max at most by the jitter, and without jitter the waits never
\* shrink.
THEOREM RestartsAreBounded == RestartSpec => []RetriesAreBounded
<1>1. RestartInit => RestartInv
  <2> SUFFICES ASSUME RestartInit PROVE RestartInv
    OBVIOUS
  <2>1. AttemptInv
    BY DEF RestartInit, DefaultBackoff, AttemptInv, RestartsCounted
  <2>2. SleptInv
    BY DEF RestartInit, SleptInv
  <2>3. slept = <<>> /\ DOMAIN slept = {} /\ power = 1
    BY DEF RestartInit
  <2>4. 1 \in Nat /\ 1 <= 1
    OBVIOUS
  <2> QED
    BY Zenon, <2>1, <2>2, <2>3, <2>4 DEF RestartInv, WaitInv
<1>2. RestartInv /\ [RestartNext]_rlVars => RestartInv'
  BY Zenon, AttemptStep, SleptStep, WaitAdded, WaitKept DEF RestartInv
<1>3. RestartInv => RetriesAreBounded
  <2> SUFFICES ASSUME RestartInv PROVE RetriesAreBounded
    OBVIOUS
  <2>1. CancelStopsStarts /\ RestartsCounted
    BY DEF RestartInv, AttemptInv, CancelStopsStarts
  <2>2. begun > 1 => Len(slept) >= begun - 1
    BY DEF RestartInv, SleptInv, AttemptInv
  <2> QED
    BY Zenon, <2>1, <2>2 DEF RestartInv, WaitInv, RetriesAreBounded, BackoffGrows
<1> QED
  BY <1>1, <1>2, <1>3, PTL DEF RestartSpec

-----------------------------------------------------------------------------
(* The heartbeat *)

\* The first tick of a ticker with interval i after time c.
NextTick(c, i) == c - (c % i) + i

\* The look the loop is heading for, when it waits for a tick.
NextLook == IF deadline = 0 THEN Window ELSE deadline + Period

\* The last look there was; before the first, no later than it could have been.
LastLook == IF hb = "wait" THEN deadline - Period ELSE deadline

HeartbeatTypes ==
  /\ hbOpts \in [interval : Nat \ {0}, timeout : Nat \ {0}, threshold : Nat \ {0}]
  /\ hb \in {"none", "select", "wait", "ended"}
  /\ clock \in Nat /\ deadline \in Nat /\ misses \in Nat /\ lastPong \in Nat
  /\ onMiss \in [at : Nat, silence : Nat]
  /\ pending \in BOOLEAN

\* Looks are a Period apart: a tick that waits in the channel is taken in time
\* for the next one, and so is the tick to come when none waits.
TickInv ==
  LET i == hbOpts.interval
      t == hbOpts.timeout
      n == NextTick(clock, i)
  IN
  /\ hb = "none" => clock = 0 /\ deadline = 0 /\ ~pending /\ onMiss.at = 0
  /\ hb = "select" =>
       /\ deadline <= clock /\ (deadline > 0 => deadline >= Window)
       /\ pending => clock + t = NextLook /\ (i >= t => n = clock + i)
       /\ ~pending => n + t = NextLook
  /\ hb = "wait" =>
       /\ deadline <= clock + t /\ clock <= deadline /\ deadline >= Window
       /\ ~pending => n + t <= deadline + i /\ (i >= t => n + t = deadline + i)
       /\ pending /\ i >= t => clock + t >= deadline + i /\ n + t = deadline + 2 * i

\* A row of misses is a silence of as many periods, unless a pong has come
\* since the last look; without a call of OnMiss since the last pong the
\* silence is no longer than the misses counted.
MissInv ==
  /\ misses < hbOpts.threshold /\ lastPong <= clock
  /\ hb \in {"none", "select"} /\ deadline = 0 => misses = 0
  /\ AlarmMeansSilence
  /\ hb \in {"select", "wait"} =>
       /\ misses > 0 => lastPong >= LastLook \/ LastLook >= lastPong + Window + (misses - 1) * Period
       /\ onMiss.at <= lastPong => LastLook <= lastPong + Window + misses * Period

HeartbeatInv == HeartbeatTypes /\ TickInv /\ MissInv

\* Division with remainder.
LEMMA Division ==
  ASSUME NEW c \in Nat, NEW i \in Nat \ {0}
  PROVE  /\ (c % i) \in 0 .. i - 1 /\ (c \div i) \in Nat /\ c = i * (c \div i) + (c % i)
         /\ \A q, r \in Nat : c = i * q + r /\ r < i => r = c % i
<1>1. (c % i) \in 0 .. i - 1 /\ c = i * (c \div i) + (c % i) /\ (c \div i) \in Nat
  BY SMTT(30)
<1>2. ASSUME NEW q \in Nat, NEW r \in Nat, c = i * q + r, r < i PROVE r = c % i
  BY <1>2, SMTT(30)
<1> QED
  BY Zenon, <1>1, <1>2

\* The ticker: one tick in every interval.
LEMMA TickerTicks ==
  ASSUME NEW c \in Nat, NEW i \in Nat \ {0}
  PROVE  /\ NextTick(c, i) \in Nat /\ c < NextTick(c, i) /\ NextTick(c, i) <= c + i
         /\ (c + 1) % i = 0 <=> NextTick(c, i) = c + 1
         /\ NextTick(c + 1, i) = IF NextTick(c, i) = c + 1 THEN c + 1 + i ELSE NextTick(c, i)
<1> DEFINE r == c % i
           q == c \div i
<1>1. r \in 0 .. i - 1 /\ q \in Nat /\ c = i * q + r
  BY Zenon, Division
<1>2. c + 1 \in Nat /\ \A u, v \in Nat : c + 1 = i * u + v /\ v < i => v = (c + 1) % i
  <2>1. c + 1 \in Nat
    OBVIOUS
  <2> QED
    BY Zenon, <2>1, Division
<1>3. NextTick(c, i) = c - r + i /\ NextTick(c + 1, i) = (c + 1) - ((c + 1) % i) + i
  BY Zenon DEF NextTick
<1> HIDE DEF r, q
<1>4. (c + 1) % i = IF r + 1 = i THEN 0 ELSE r + 1
  <2>1. CASE r + 1 = i
    <3>1. c + 1 = i * (q + 1) + 0 /\ q + 1 \in Nat /\ 0 \in Nat /\ 0 < i
      BY <1>1, <2>1, SMTT(30)
    <3>2. 0 = (c + 1) % i
      BY Zenon, <1>2, <3>1
    <3> QED
      BY Zenon, <2>1, <3>2
  <2>2. CASE r + 1 # i
    <3>1. c + 1 = i * q + (r + 1) /\ r + 1 \in Nat /\ r + 1 < i
      BY <1>1, <2>2, SMTT(30)
    <3>2. r + 1 = (c + 1) % i
      BY Zenon, <1>1, <1>2, <3>1
    <3> QED
      BY Zenon, <2>2, <3>2
  <2> QED
    BY Zenon, <2>1, <2>2
<1> DEFINE s == (c + 1) % i
<1>5. s = (IF r + 1 = i THEN 0 ELSE r + 1) /\ NextTick(c + 1, i) = (c + 1) - s + i
  BY Zenon, <1>3, <1>4
<1> HIDE DEF s
<1>6. /\ NextTick(c, i) \in Nat /\ c < NextTick(c, i) /\ NextTick(c, i) <= c + i
      /\ s = 0 <=> NextTick(c, i) = c + 1
      /\ NextTick(c + 1, i) = IF NextTick(c, i) = c + 1 THEN c + 1 + i ELSE NextTick(c, i)
  BY <1>1, <1>3, <1>5
<1> QED
  BY Zenon, <1>6 DEF s

\* The types of the heartbeat.
LEMMA HeartbeatTyped ==
  ASSUME HeartbeatTypes, TickInv, MissInv, [HeartbeatNext]_hbVars
  PROVE  HeartbeatTypes'
<1> USE DEF HeartbeatTypes
<1>1. CASE UNCHANGED hbVars
  BY <1>1 DEF hbVars
<1>2. ASSUME NEW i \in Intervals, NEW t \in Timeouts, NEW m \in MissThresholds, StartHeartbeat(i, t, m)
      PROVE  HeartbeatTypes'
  BY <1>2, HeartbeatAssumption DEF StartHeartbeat
<1>3. CASE RecordPong
  BY <1>3 DEF RecordPong
<1>4. CASE TickArrives
  <2>1. pending' \in BOOLEAN
    BY Zenon, <1>4 DEF TickArrives
  <2> QED
    BY <1>4, <2>1 DEF TickArrives
<1>5. CASE CheckPong
  BY <1>5 DEF CheckPong, Misses, MissInv
<1>6. CASE HeartbeatCancelled
  BY <1>6 DEF HeartbeatCancelled
<1>7. CASE ClockTicks
  <2>1. pending' \in BOOLEAN
    BY Zenon, <1>7 DEF ClockTicks
  <2> QED
    BY <1>7, <2>1 DEF ClockTicks
<1> QED
  BY Zenon, <1>1, <1>2, <1>3, <1>4, <1>5, <1>6, <1>7 DEF HeartbeatNext

\* What the options say about the times.
LEMMA HeartbeatTimes ==
  ASSUME HeartbeatTypes
  PROVE  /\ hbOpts.interval \in Nat \ {0} /\ hbOpts.timeout \in Nat \ {0} /\ hbOpts.threshold \in Nat \ {0}
         /\ Window = hbOpts.interval + hbOpts.timeout
         /\ Period = IF hbOpts.interval >= hbOpts.timeout THEN hbOpts.interval ELSE hbOpts.timeout
         /\ Window \in Nat /\ Period \in Nat \ {0}
  BY DEF HeartbeatTypes, Window, Period

\* The looks stay a Period apart.
LEMMA TickStep ==
  ASSUME HeartbeatTypes, TickInv, [HeartbeatNext]_hbVars
  PROVE  TickInv'
<1> DEFINE i == hbOpts.interval
           t == hbOpts.timeout
           n == NextTick(clock, i)
<1>1. /\ i \in Nat \ {0} /\ t \in Nat \ {0} /\ Window = i + t
      /\ Period = IF i >= t THEN i ELSE t
      /\ clock \in Nat /\ deadline \in Nat /\ pending \in BOOLEAN
      /\ n \in Nat /\ clock < n /\ n <= clock + i
  <2>1. clock \in Nat /\ i \in Nat \ {0}
    BY Zenon, HeartbeatTimes DEF HeartbeatTypes
  <2> QED
    BY Zenon, <2>1, HeartbeatTimes, TickerTicks DEF HeartbeatTypes
<1>2. /\ hb = "none" => clock = 0 /\ deadline = 0 /\ ~pending /\ onMiss.at = 0
      /\ hb = "select" =>
           /\ deadline <= clock /\ (deadline > 0 => deadline >= Window)
           /\ pending => clock + t = NextLook /\ (i >= t => n = clock + i)
           /\ ~pending => n + t = NextLook
      /\ hb = "wait" =>
           /\ deadline <= clock + t /\ clock <= deadline /\ deadline >= Window
           /\ ~pending => n + t <= deadline + i /\ (i >= t => n + t = deadline + i)
           /\ pending /\ i >= t => clock + t >= deadline + i /\ n + t = deadline + 2 * i
  BY Zenon DEF TickInv
<1>3. NextLook = IF deadline = 0 THEN i + t ELSE deadline + Period
  BY Zenon, <1>1 DEF NextLook
<1>4. ASSUME hbOpts' = hbOpts
      PROVE  /\ Window' = Window /\ Period' = Period /\ i' = i /\ t' = t
             /\ NextLook' = IF deadline' = 0 THEN i + t ELSE deadline' + Period
             /\ clock' = clock => NextTick(clock', i') = n
             /\ clock' = clock + 1 => NextTick(clock', i') = IF n = clock + 1 THEN clock + 1 + i ELSE n
             /\ (clock + 1) % i = 0 <=> n = clock + 1
  <2>1. Window' = Window /\ Period' = Period /\ i' = i /\ t' = t
    BY Zenon, <1>4 DEF Window, Period
  <2> QED
    <3>1. NextLook' = IF deadline' = 0 THEN i + t ELSE deadline' + Period
      BY Zenon, <1>1, <2>1 DEF NextLook
    <3>2. clock' = clock => NextTick(clock', i') = n
      BY Zenon, <2>1
    <3>3. clock' = clock + 1 => NextTick(clock', i') = NextTick(clock + 1, i)
      BY Zenon, <2>1
    <3>4. /\ NextTick(clock + 1, i) = IF n = clock + 1 THEN clock + 1 + i ELSE n
          /\ (clock + 1) % i = 0 <=> n = clock + 1
      BY Zenon, <1>1, TickerTicks
    <3> QED
      BY Zenon, <2>1, <3>1, <3>2, <3>3, <3>4
<1> HIDE DEF i, t, n
<1>5. ASSUME hb' = "select", hbOpts' = hbOpts,
             deadline' <= clock', deadline' > 0 => deadline' >= Window,
             pending' => clock' + t = NextLook' /\ (i >= t => NextTick(clock', i') = clock' + i),
             ~pending' => NextTick(clock', i') + t = NextLook'
      PROVE  TickInv'
  <2>1. hb' # "none" /\ hb' # "wait"
    BY <1>5
  <2> QED
    BY Zenon, <1>4, <1>5, <2>1 DEF TickInv, i, t
<1>6. ASSUME hb' = "wait", hbOpts' = hbOpts,
             deadline' <= clock' + t, clock' <= deadline', deadline' >= Window,
             ~pending' => /\ NextTick(clock', i') + t <= deadline' + i
                          /\ i >= t => NextTick(clock', i') + t = deadline' + i,
             pending' /\ i >= t => clock' + t >= deadline' + i /\ NextTick(clock', i') + t = deadline' + 2 * i
      PROVE  TickInv'
  <2>1. hb' # "none" /\ hb' # "select"
    BY <1>6
  <2> QED
    BY Zenon, <1>4, <1>6, <2>1 DEF TickInv, i, t
<1>7. CASE UNCHANGED <<hbOpts, hb, clock, pending, deadline, onMiss>>
  BY Zenon, <1>7 DEF TickInv, NextLook, Window, Period
<1>8. ASSUME NEW a \in Intervals, NEW b \in Timeouts, NEW m \in MissThresholds, StartHeartbeat(a, b, m)
      PROVE  TickInv'
  <2>1. /\ hb' = "select" /\ clock' = 0 /\ deadline' = 0 /\ pending' = FALSE /\ onMiss' = onMiss
        /\ hbOpts'.interval = a /\ hbOpts'.timeout = b /\ a \in Nat \ {0} /\ b \in Nat
    BY <1>2, <1>8, HeartbeatAssumption DEF StartHeartbeat
  <2>2. NextTick(0, a) = a
    <3>1. /\ NextTick(0, a) \in Nat /\ 0 < NextTick(0, a) /\ NextTick(0, a) <= 0 + a
          /\ NextTick(0, a) = 0 - (0 % a) + a
      <4>1. 0 \in Nat
        OBVIOUS
      <4> QED
        BY Zenon, <2>1, <4>1, TickerTicks DEF NextTick
    <3>2. (0 % a) = 0
      <4>1. 0 = a * 0 + 0 /\ 0 < a /\ 0 \in Nat
        BY <2>1
      <4> QED
        BY Zenon, <2>1, <4>1, Division
    <3> QED
      BY <2>1, <3>1, <3>2
  <2>3. NextLook' = a + b
    BY Zenon, <2>1 DEF NextLook, Window
  <2>4. hb' # "none" /\ hb' # "wait" /\ ~pending' /\ deadline' <= clock' /\ ~(deadline' > 0)
    BY <2>1
  <2> QED
    BY Zenon, <2>1, <2>2, <2>3, <2>4 DEF TickInv
<1>9. CASE TickArrives
  <2>1. /\ hb = "select" /\ pending /\ hb' = "wait" /\ pending' = FALSE /\ deadline' = clock + t
        /\ hbOpts' = hbOpts /\ clock' = clock
    BY Zenon, <1>9 DEF TickArrives, t
  <2> QED
    BY <1>1, <1>2, <1>3, <1>4, <1>6, <2>1
<1>10. CASE CheckPong
  <2>1. /\ hb = "wait" /\ clock = deadline /\ hb' = "select" /\ pending' = pending /\ deadline' = deadline
        /\ hbOpts' = hbOpts /\ clock' = clock
    BY Zenon, <1>10 DEF CheckPong
  <2> QED
    BY <1>1, <1>2, <1>3, <1>4, <1>5, <2>1
<1>11. CASE HeartbeatCancelled
  <2>1. hb' = "ended"
    BY <1>11 DEF HeartbeatCancelled
  <2> QED
    BY <2>1 DEF TickInv
<1>12. CASE ClockTicks
  <2>1. /\ hb \in {"select", "wait"} /\ ~(hb = "select" /\ pending) /\ ~(hb = "wait" /\ clock = deadline)
        /\ clock' = clock + 1 /\ hb' = hb /\ deadline' = deadline /\ hbOpts' = hbOpts
        /\ pending' = (pending \/ (clock + 1) % i = 0)
    BY Zenon, <1>12 DEF ClockTicks, i
  <2>2. pending' <=> pending \/ n = clock + 1
    BY Zenon, <1>4, <2>1
  <2>3. pending' \in BOOLEAN
    BY Zenon, <2>1
  <2>4. CASE hb = "select"
    BY <1>1, <1>2, <1>3, <1>4, <1>5, <2>1, <2>2, <2>3, <2>4
  <2>5. CASE hb = "wait"
    BY <1>1, <1>2, <1>3, <1>4, <1>6, <2>1, <2>2, <2>3, <2>5
  <2> QED
    BY Zenon, <2>1, <2>4, <2>5
<1> QED
  BY Zenon, <1>7, <1>8, <1>9, <1>10, <1>11, <1>12 DEF HeartbeatNext, RecordPong, hbVars

\* Multiples of the period.
LEMMA Multiples ==
  ASSUME NEW p \in Nat
  PROVE  /\ 0 * p = 0
         /\ \A m \in Nat : m * p \in Nat /\ (m + 1) * p = m * p + p
         /\ \A m, k \in Nat : m <= k => m * p <= k * p
  OBVIOUS

\* Where the loop is between two looks.
LEMMA BetweenLooks ==
  ASSUME HeartbeatTypes, TickInv, hb \in {"select", "wait"}
  PROVE  /\ LastLook \in Nat /\ LastLook <= clock /\ clock <= LastLook + Period
         /\ hb = "wait" => deadline = LastLook + Period
         /\ hb = "select" => LastLook = deadline
<1>1. clock \in Nat /\ hbOpts.interval \in Nat \ {0}
  BY DEF HeartbeatTypes
<1>2. clock < NextTick(clock, hbOpts.interval) /\ NextTick(clock, hbOpts.interval) \in Nat
  BY Zenon, <1>1, TickerTicks
<1> QED
  BY <1>1, <1>2, HeartbeatTimes DEF HeartbeatTypes, TickInv, LastLook, NextLook

\* A look: a miss more and a silence longer by a period, or the count starts
\* again.
LEMMA CheckPongStep ==
  ASSUME HeartbeatTypes, TickInv, MissInv, CheckPong
  PROVE  MissInv'
<1>0. PICK late \in TooOld :
        \/ /\ Alarm(Misses(misses, late)) /\ misses' = 0
           /\ onMiss' = [at |-> clock, silence |-> clock - lastPong]
        \/ ~Alarm(Misses(misses, late)) /\ misses' = Misses(misses, late) /\ onMiss' = onMiss
  BY Zenon DEF CheckPong
<1> DEFINE m == Misses(misses, late)
           p == Period
           w == Window
           th == hbOpts.threshold
           l == LastLook
<1>1. /\ hb = "wait" /\ clock = deadline /\ hb' = "select" /\ clock' = clock /\ deadline' = deadline
      /\ lastPong' = lastPong /\ hbOpts' = hbOpts
      /\ \/ /\ Alarm(m) /\ misses' = 0 /\ onMiss' = [at |-> clock, silence |-> clock - lastPong]
         \/ ~Alarm(m) /\ misses' = m /\ onMiss' = onMiss
  BY Zenon, <1>0 DEF CheckPong
<1>2. /\ clock \in Nat /\ lastPong \in Nat /\ misses \in Nat /\ lastPong <= clock /\ misses < th
      /\ p \in Nat \ {0} /\ w \in Nat /\ p < w /\ th \in Nat \ {0} /\ onMiss.at \in Nat /\ clock >= w
      /\ l \in Nat /\ clock = l + p
      /\ misses > 0 => lastPong >= l \/ l >= lastPong + w + (misses - 1) * p
      /\ onMiss.at <= lastPong => l <= lastPong + w + misses * p
      /\ onMiss.at > 0 => onMiss.silence >= w + (th - 1) * p
  <2>1. hb \in {"select", "wait"}
    BY <1>1
  <2>2. /\ l \in Nat /\ clock = l + p /\ deadline >= w
        /\ misses > 0 => lastPong >= l \/ l >= lastPong + w + (misses - 1) * p
        /\ onMiss.at <= lastPong => l <= lastPong + w + misses * p
        /\ onMiss.at > 0 => onMiss.silence >= w + (th - 1) * p
    BY Zenon, <1>1, <2>1, BetweenLooks DEF MissInv, AlarmMeansSilence, TickInv
  <2>3. p \in Nat \ {0} /\ w \in Nat /\ p < w /\ th \in Nat \ {0}
    BY HeartbeatTimes
  <2>4. /\ clock \in Nat /\ lastPong \in Nat /\ misses \in Nat /\ onMiss.at \in Nat
        /\ lastPong <= clock /\ misses < th
    BY DEF HeartbeatTypes, MissInv
  <2> QED
    BY Zenon, <1>1, <2>2, <2>3, <2>4
<1>3. Window' = w /\ Period' = p /\ hbOpts'.threshold = th /\ LastLook' = clock
  BY <1>1 DEF Window, Period, LastLook
<1>4. /\ (m = misses + 1 /\ clock >= lastPong + w) \/ (m = 0 /\ clock <= lastPong + w)
      /\ Alarm(m) <=> m >= th
  <2>1. late \in BOOLEAN /\ (clock - lastPong > w => late) /\ (clock - lastPong < w => ~late)
    BY Zenon DEF TooOld
  <2>2. (late => clock >= lastPong + w) /\ (~late => clock <= lastPong + w)
    BY <1>2, <2>1
  <2>3. m = IF late THEN misses + 1 ELSE 0
    BY Zenon DEF Misses
  <2> QED
    BY Zenon, <2>1, <2>2, <2>3 DEF Alarm
<1> HIDE DEF m, p, w, th, l
<1>5. ASSUME clock >= lastPong + w
      PROVE  clock >= lastPong + w + misses * p
  <2>1. CASE misses = 0
    BY <1>2, <1>5, <2>1, Multiples
  <2>2. CASE misses > 0
    <3>1. misses - 1 \in Nat /\ misses * p = (misses - 1) * p + p /\ (misses - 1) * p \in Nat
      <4>1. misses - 1 \in Nat /\ (misses - 1) + 1 = misses
        BY <1>2, <2>2
      <4> QED
        BY <1>2, <4>1, Multiples
    <3> DEFINE x == (misses - 1) * p
               y == misses * p
    <3>2. x \in Nat /\ y = x + p /\ (lastPong >= l \/ l >= lastPong + w + x)
      BY Zenon, <1>2, <2>2, <3>1
    <3> HIDE DEF x, y
    <3>3. clock >= lastPong + w + y
      BY <1>2, <1>5, <3>2
    <3> QED
      BY Zenon, <3>3 DEF y
  <2> QED
    BY <1>2, <2>1, <2>2
<1>6. hb' \in {"select", "wait"} /\ deadline' # 0
  BY <1>1, <1>2
<1>7. CASE Alarm(m)
  <2>1. misses' = 0 /\ onMiss' = [at |-> clock, silence |-> clock - lastPong]
    BY Zenon, <1>1, <1>7
  <2>2. clock >= lastPong + w /\ misses + 1 >= th
    BY <1>2, <1>4, <1>7
  <2>3. onMiss'.at = clock /\ onMiss'.silence >= w + (th - 1) * p
    <3>1. th - 1 = misses
      BY <1>2, <2>2
    <3>2. misses * p \in Nat
      BY <1>2, Multiples
    <3> QED
      BY <1>2, <1>5, <2>1, <2>2, <3>1, <3>2
  <2>4. AlarmMeansSilence'
    BY Zenon, <1>3, <2>3 DEF AlarmMeansSilence
  <2>5. ~(misses' > 0) /\ ~(onMiss'.at <= lastPong') /\ misses' < th
    BY <1>1, <1>2, <2>1, <2>2, <2>3
  <2> QED
    BY Zenon, <1>1, <1>2, <1>3, <1>6, <2>4, <2>5 DEF MissInv
<1>8. CASE ~Alarm(m)
  <2>1. misses' = m /\ onMiss' = onMiss /\ m < th
    BY <1>1, <1>2, <1>4, <1>8
  <2>2. AlarmMeansSilence'
    BY Zenon, <1>2, <1>3, <2>1 DEF AlarmMeansSilence
  <2>3. m > 0 => clock >= lastPong + w + (m - 1) * p
    <3>1. m > 0 => m = misses + 1 /\ m - 1 = misses /\ clock >= lastPong + w
      BY <1>2, <1>4
    <3> QED
      BY Zenon, <1>5, <3>1
  <2>4. onMiss.at <= lastPong => clock <= lastPong + w + m * p
    <3>1. CASE m = misses + 1
      <4> DEFINE x == misses * p
                 y == m * p
      <4>1. x \in Nat /\ y = x + p
        BY <1>2, <1>4, <3>1, Multiples
      <4>2. onMiss.at <= lastPong => l <= lastPong + w + x
        BY Zenon, <1>2
      <4> HIDE DEF x, y
      <4>3. onMiss.at <= lastPong => clock <= lastPong + w + y
        BY <1>2, <4>1, <4>2
      <4> QED
        BY Zenon, <4>3 DEF y
    <3>2. CASE m = 0 /\ clock <= lastPong + w
      <4>1. m * p = 0
        BY <1>2, <3>2, Multiples
      <4> QED
        BY <1>2, <3>2, <4>1
    <3> QED
      BY Zenon, <1>4, <3>1, <3>2
  <2> QED
    BY Zenon, <1>1, <1>2, <1>3, <1>6, <2>1, <2>2, <2>3, <2>4 DEF MissInv
<1> QED
  BY Zenon, <1>7, <1>8

\* Between two looks neither the misses nor the last look change, and a pong
\* only makes the silence shorter.
LEMMA MissStep ==
  ASSUME HeartbeatInv, [HeartbeatNext]_hbVars
  PROVE  MissInv'
<1>0. HeartbeatTypes /\ TickInv /\ MissInv
  BY DEF HeartbeatInv
<1>1. /\ clock \in Nat /\ lastPong \in Nat /\ misses \in Nat /\ deadline \in Nat /\ onMiss.at \in Nat
      /\ lastPong <= clock /\ misses < hbOpts.threshold
      /\ Window \in Nat /\ Period \in Nat \ {0} /\ misses * Period \in Nat
  <2>1. /\ clock \in Nat /\ lastPong \in Nat /\ misses \in Nat /\ deadline \in Nat /\ onMiss.at \in Nat
        /\ lastPong <= clock /\ misses < hbOpts.threshold
    BY <1>0 DEF HeartbeatTypes, MissInv
  <2>2. Window \in Nat /\ Period \in Nat \ {0}
    BY Zenon, <1>0, HeartbeatTimes
  <2> QED
    BY <2>1, <2>2, Multiples
<1>2. ASSUME hbOpts' = hbOpts, UNCHANGED <<misses, lastPong, onMiss>>, clock' \in Nat, clock' >= clock,
             hb' \in {"select", "wait"} => hb \in {"select", "wait"} /\ LastLook' = LastLook,
             hb' \in {"none", "select"} /\ deadline' = 0 => hb \in {"none", "select"} /\ deadline = 0
      PROVE  MissInv'
  <2>1. Window' = Window /\ Period' = Period /\ (AlarmMeansSilence' <=> AlarmMeansSilence)
    BY Zenon, <1>2 DEF Window, Period, AlarmMeansSilence
  <2>2. lastPong <= clock'
    BY <1>1, <1>2
  <2> QED
    BY Zenon, <1>0, <1>2, <2>1, <2>2 DEF MissInv
<1>3. CASE UNCHANGED hbVars
  BY Zenon, <1>0, <1>3 DEF hbVars, MissInv, AlarmMeansSilence, Window, Period, LastLook
<1>4. ASSUME NEW i \in Intervals, NEW t \in Timeouts, NEW m \in MissThresholds, StartHeartbeat(i, t, m)
      PROVE  MissInv'
  <2>1. /\ hb = "none" /\ clock' = 0 /\ deadline' = 0 /\ misses' = 0 /\ lastPong' = lastPong
        /\ onMiss'.at = 0 /\ hb' = "select" /\ lastPong = 0 /\ hbOpts'.threshold = m
        /\ hbOpts'.interval = i /\ hbOpts'.timeout = t
    BY <1>0, <1>1, <1>4 DEF StartHeartbeat, TickInv, MissInv
  <2>2. m \in Nat \ {0} /\ i \in Nat \ {0} /\ t \in Nat \ {0}
    BY HeartbeatAssumption
  <2>3. Window' = i + t /\ Period' \in Nat /\ LastLook' = 0
    BY <2>1, <2>2 DEF Window, Period, LastLook
  <2>4. 0 * Period' = 0 /\ ~(onMiss'.at > 0)
    <3>1. 0 * Period' = 0
      BY Zenon, <2>3, Multiples
    <3>2. ~(0 > 0)
      OBVIOUS
    <3> QED
      BY Zenon, <2>1, <3>1, <3>2
  <2>5. 0 <= 0 + (i + t) + 0 /\ ~(0 > 0) /\ 0 < m /\ 0 <= 0
    BY <2>2
  <2> QED
    BY Zenon, <2>1, <2>3, <2>4, <2>5 DEF MissInv, AlarmMeansSilence
<1>5. CASE RecordPong
  <2>1. /\ hb \in {"select", "wait"} /\ lastPong' = clock /\ clock' = clock /\ hb' = hb /\ misses' = misses
        /\ UNCHANGED <<hbOpts, deadline, onMiss>>
    BY Zenon, <1>5 DEF RecordPong
  <2>2. LastLook \in Nat /\ LastLook <= clock
    BY Zenon, <1>0, <2>1, BetweenLooks
  <2>3. Window' = Window /\ Period' = Period /\ LastLook' = LastLook /\ (AlarmMeansSilence' <=> AlarmMeansSilence)
    BY Zenon, <2>1 DEF Window, Period, AlarmMeansSilence, LastLook
  <2>4. lastPong' >= LastLook' /\ LastLook' <= lastPong' + Window' + misses' * Period' /\ lastPong' <= clock'
    BY <1>1, <2>1, <2>2, <2>3
  <2> QED
    BY Zenon, <1>0, <2>1, <2>3, <2>4 DEF MissInv
<1>6. CASE TickArrives
  <2>1. /\ hb = "select" /\ hb' = "wait" /\ clock' = clock /\ deadline' = NextLook
        /\ UNCHANGED <<hbOpts, misses, lastPong, onMiss>>
    BY <1>0, <1>6 DEF TickArrives, TickInv
  <2>2. CASE deadline # 0
    <3>1. LastLook' = LastLook
      BY <1>1, <2>1, <2>2 DEF LastLook, NextLook, Period
    <3>2. clock' >= clock /\ hb' # "select" /\ hb' # "none" /\ hb \in {"select", "wait"}
      BY <1>1, <2>1
    <3> QED
      BY Zenon, <1>1, <1>2, <2>1, <3>1, <3>2
  <2>3. CASE deadline = 0
    <3>1. misses = 0 /\ AlarmMeansSilence
      BY <1>0, <2>1, <2>3 DEF MissInv
    <3>2. Window' = Window /\ Period' = Period /\ AlarmMeansSilence'
      BY Zenon, <2>1, <3>1 DEF Window, Period, AlarmMeansSilence
    <3>3. LastLook' = Window - Period
      BY <2>1, <2>3, <3>2 DEF LastLook, NextLook
    <3>4. LastLook' <= lastPong + Window + misses * Period
      BY <1>1, <3>3
    <3>5. ~(misses > 0) /\ hb' # "select" /\ hb' # "none"
      BY <2>1, <3>1
    <3> QED
      BY Zenon, <1>1, <2>1, <3>2, <3>4, <3>5 DEF MissInv
  <2> QED
    BY Zenon, <2>2, <2>3
<1>7. CASE HeartbeatCancelled
  <2>1. hb' = "ended" /\ clock' = clock /\ UNCHANGED <<hbOpts, misses, lastPong, onMiss>>
    BY Zenon, <1>7 DEF HeartbeatCancelled
  <2>2. clock' \in Nat /\ clock' >= clock /\ hb' \notin {"select", "wait"} /\ hb' \notin {"none", "select"}
    BY <1>1, <2>1
  <2> QED
    BY Zenon, <1>2, <2>1, <2>2
<1>8. CASE ClockTicks
  <2>1. hb' = hb /\ clock' = clock + 1 /\ deadline' = deadline /\ UNCHANGED <<hbOpts, misses, lastPong, onMiss>>
    BY Zenon, <1>8 DEF ClockTicks
  <2>2. clock' \in Nat /\ clock' >= clock
    BY <1>1, <2>1
  <2>3. LastLook' = LastLook
    BY Zenon, <2>1 DEF LastLook, Period
  <2> QED
    BY Zenon, <1>2, <2>1, <2>2, <2>3
<1> QED
  BY Zenon, <1>0, <1>3, <1>4, <1>5, <1>6, <1>7, <1>8, CheckPongStep DEF HeartbeatNext

\* For every interval, timeout and threshold: OnMiss is called only after a
\* silence of the window and threshold - 1 periods, and a silence of the window
\* and threshold periods does not pass without it.
THEOREM HeartbeatIsTimely == HeartbeatSpec => []AlarmIsTimely
<1>1. HeartbeatInit => HeartbeatInv
  <2> SUFFICES ASSUME HeartbeatInit PROVE HeartbeatInv
    OBVIOUS
  <2>1. pending \in BOOLEAN
    BY Zenon DEF HeartbeatInit
  <2>2. HeartbeatTypes
    BY <2>1 DEF HeartbeatInit, HeartbeatTypes
  <2>3. TickInv
    BY DEF HeartbeatInit, TickInv
  <2>4. MissInv
    BY DEF HeartbeatInit, MissInv, AlarmMeansSilence
  <2> QED
    BY Zenon, <2>2, <2>3, <2>4 DEF HeartbeatInv
<1>2. HeartbeatInv /\ [HeartbeatNext]_hbVars => HeartbeatInv'
  BY Zenon, HeartbeatTyped, TickStep, MissStep DEF HeartbeatInv
<1>3. HeartbeatInv => AlarmIsTimely
  <2> SUFFICES ASSUME HeartbeatInv PROVE AlarmIsTimely
    OBVIOUS
  <2> SUFFICES ASSUME hb \in {"select", "wait"}, onMiss.at <= lastPong
               PROVE  clock <= lastPong + Window + hbOpts.threshold * Period
    <3>1. AlarmMeansSilence
      BY DEF HeartbeatInv, MissInv
    <3>2. clock \in Nat /\ lastPong \in Nat /\ onMiss.at \in Nat /\ lastPong <= clock
      BY DEF HeartbeatInv, HeartbeatTypes, MissInv
    <3>3. Window \in Nat /\ hbOpts.threshold * Period \in Nat
      BY HeartbeatTimes, Multiples DEF HeartbeatInv
    <3> QED
      BY <3>1, <3>2, <3>3 DEF AlarmIsTimely, SilenceIsNoticed
  <2>1. /\ clock \in Nat /\ lastPong \in Nat /\ misses \in Nat /\ misses < hbOpts.threshold
        /\ LastLook <= lastPong + Window + misses * Period
    BY DEF HeartbeatInv, HeartbeatTypes, MissInv
  <2>2. LastLook \in Nat /\ clock <= LastLook + Period
    BY Zenon, BetweenLooks DEF HeartbeatInv
  <2>3. Window \in Nat /\ Period \in Nat \ {0} /\ hbOpts.threshold \in Nat
    BY HeartbeatTimes DEF HeartbeatInv
  <2> DEFINE x == misses * Period
             y == hbOpts.threshold * Period
  <2>4. x \in Nat /\ y \in Nat /\ x + Period <= y
    <3>1. misses + 1 \in Nat /\ misses + 1 <= hbOpts.threshold
      BY <2>1, <2>3
    <3>2. (misses + 1) * Period <= y /\ (misses + 1) * Period = x + Period /\ x \in Nat /\ y \in Nat
      BY <2>1, <2>3, <3>1, Multiples
    <3> QED
      BY <3>2
  <2>5. LastLook <= lastPong + Window + x
    BY Zenon, <2>1
  <2> HIDE DEF x, y
  <2>6. clock <= lastPong + Window + y
    BY <2>1, <2>2, <2>3, <2>4, <2>5
  <2> QED
    BY Zenon, <2>6 DEF y
<1> QED
  BY <1>1, <1>2, <1>3, PTL DEF HeartbeatSpec
=============================================================================
