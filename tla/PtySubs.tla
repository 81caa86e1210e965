------------------------------ MODULE PtySubs ------------------------------
(***************************************************************************)
(* Fan-out of PTY output in the host (internal/controller/pty.go): readLoop*)
(* hands every chunk to the channels of all subscribers; a ring dump of a  *)
(* reattached session goes to one of them, from a goroutine of its own.    *)
(* Live chunks are numbered from one, a dump has sequence number zero.     *)
(***************************************************************************)
EXTENDS Naturals, Sequences, FiniteSets

CONSTANTS
  PtyReaders,  \* callers of SubscribePTYData, one call each
  PtyCap,      \* capacity of a subscriber's channel, 256
  MaxLive,     \* bound on the live chunks
  MaxDumps     \* bound on the calls of SetInitialPTYBuffer

ASSUME PtyAssumption == PtyCap \in Nat \ {0} /\ MaxLive \in Nat /\ MaxDumps \in Nat

VARIABLES
  ptyList,   \* ptySubscribers.list, in any order
  reader,    \* where each caller is
  ptyCh,     \* contents of its channel
  ptyTaken,  \* history: chunks it has taken from there
  ptyMissed, \* history: chunks its full channel dropped
  ptyFrom,   \* history: chunks that were out when it was added
  ptyTo,     \* history: chunks that were out when it was removed
  initialBuffer, \* Controller.initialPTYBuffer: which dump, 0 for nil or empty
  drained,   \* Controller.initialBufferDrained
  setting,   \* SetInitialPTYBuffer is inside Controller.mu
  dumps,     \* calls of SetInitialPTYBuffer
  dumpOf,    \* history: the dump a subscriber was handed, 0 for none
  drainer,   \* subscribers that the goroutine with their dump still sends to
  live,      \* live chunks fanned out
  ptyPanic   \* the goroutine has sent on a closed channel

ptyVars == <<ptyList, reader, ptyCh, ptyTaken, ptyMissed, ptyFrom, ptyTo, initialBuffer,
             drained, setting, dumps, dumpOf, drainer, live, ptyPanic>>

\* What the delivery of dumps leaves alone, and what the rest leaves alone.
chunkVars == <<ptyList, ptyTaken, ptyMissed, ptyFrom, ptyTo, live>>
dumpVars == <<initialBuffer, drained, setting, dumps, dumpOf, drainer, ptyPanic>>

Dump == 0

PtyInit ==
  /\ ptyList = {}
  /\ reader = [s \in PtyReaders |-> "none"]
  /\ ptyCh = [s \in PtyReaders |-> <<>>]
  /\ ptyTaken = [s \in PtyReaders |-> <<>>]
  /\ ptyMissed = [s \in PtyReaders |-> {}]
  /\ ptyFrom = [s \in PtyReaders |-> 0]
  /\ ptyTo = [s \in PtyReaders |-> MaxLive]
  /\ initialBuffer = 0
  /\ drained = FALSE
  /\ setting = FALSE
  /\ dumps = 0
  /\ dumpOf = [s \in PtyReaders |-> 0]
  /\ drainer = {}
  /\ live = 0
  /\ ptyPanic = FALSE

\* NewControllerFromReattach stores the dump of the handshake; handleMessage
\* stores any later one, which may be empty.  The flag is reset inside the same
\* lock, but a subscriber swaps it without that lock.
SetInitialPTYBuffer(empty) ==
  /\ ~setting /\ dumps < MaxDumps
  /\ setting' = TRUE
  /\ dumps' = dumps + 1
  /\ initialBuffer' = IF empty THEN 0 ELSE dumps + 1
  /\ UNCHANGED <<chunkVars, reader, ptyCh, drained, dumpOf, drainer, ptyPanic>>

ResetDrained ==
  /\ setting
  /\ setting' = FALSE
  /\ drained' = FALSE
  /\ UNCHANGED <<chunkVars, reader, ptyCh, initialBuffer, dumps, dumpOf, drainer, ptyPanic>>

\* SubscribePTYData: first the channel is registered ...
AddSubscriber(s) ==
  /\ reader[s] = "none"
  /\ reader' = [reader EXCEPT ![s] = "added"]
  /\ ptyList' = ptyList \cup {s}
  /\ ptyFrom' = [ptyFrom EXCEPT ![s] = live]
  /\ UNCHANGED <<dumpVars, ptyCh, ptyTaken, ptyMissed, ptyTo, live>>

\* ... then the flag is swapped ...
SwapDrained(s) ==
  /\ reader[s] = "added"
  /\ reader' = [reader EXCEPT ![s] = IF drained THEN "open" ELSE "won"]
  /\ drained' = TRUE
  /\ UNCHANGED <<chunkVars, ptyCh, initialBuffer, setting, dumps, dumpOf, drainer, ptyPanic>>

\* Mutant: the buffer stays where it is.
BugKeepBuffer(s) ==
  /\ reader[s] = "won" /\ ~setting
  /\ reader' = [reader EXCEPT ![s] = "open"]
  /\ drainer' = IF initialBuffer # 0 THEN drainer \cup {s} ELSE drainer
  /\ dumpOf' = [dumpOf EXCEPT ![s] = initialBuffer]
  /\ UNCHANGED <<chunkVars, ptyCh, initialBuffer, drained, setting, dumps, ptyPanic>>

\* ... and whoever swapped it takes the buffer and starts a goroutine with it.
TakeInitial(s) ==
  /\ reader[s] = "won" /\ ~setting
  /\ reader' = [reader EXCEPT ![s] = "open"]
  /\ drainer' = IF initialBuffer # 0 THEN drainer \cup {s} ELSE drainer
  /\ dumpOf' = [dumpOf EXCEPT ![s] = initialBuffer]
  /\ initialBuffer' = 0
  /\ UNCHANGED <<chunkVars, ptyCh, drained, setting, dumps, ptyPanic>>

\* The goroutine: a send that waits for room, or panics, or gives up after
\* five seconds.
DumpSent(s) ==
  /\ s \in drainer /\ reader[s] = "open" /\ Len(ptyCh[s]) < PtyCap
  /\ ptyCh' = [ptyCh EXCEPT ![s] = Append(@, Dump)]
  /\ drainer' = drainer \ {s}
  /\ UNCHANGED <<chunkVars, reader, initialBuffer, drained, setting, dumps, dumpOf, ptyPanic>>

DumpPanics(s) ==
  /\ s \in drainer /\ reader[s] = "left"
  /\ ptyPanic' = TRUE
  /\ UNCHANGED <<chunkVars, reader, ptyCh, initialBuffer, drained, setting, dumps, dumpOf, drainer>>

DumpDropped(s) ==
  /\ s \in drainer /\ (Len(ptyCh[s]) = PtyCap \/ reader[s] = "left")
  /\ drainer' = drainer \ {s}
  /\ UNCHANGED <<chunkVars, reader, ptyCh, initialBuffer, drained, setting, dumps, dumpOf, ptyPanic>>

\* fanOut, under the lock to the end.
FanOut ==
  LET full == {s \in ptyList : Len(ptyCh[s]) = PtyCap} IN
  /\ live < MaxLive
  /\ live' = live + 1
  /\ ptyCh' = [s \in PtyReaders |-> IF s \in ptyList \ full THEN Append(ptyCh[s], live + 1) ELSE ptyCh[s]]
  /\ ptyMissed' = [s \in PtyReaders |-> ptyMissed[s] \cup IF s \in full THEN {live + 1} ELSE {}]
  /\ UNCHANGED <<dumpVars, ptyList, reader, ptyTaken, ptyFrom, ptyTo>>

TakePTYData(s) ==
  /\ reader[s] = "open" /\ ptyCh[s] # <<>>
  /\ ptyTaken' = [ptyTaken EXCEPT ![s] = Append(@, Head(ptyCh[s]))]
  /\ ptyCh' = [ptyCh EXCEPT ![s] = Tail(@)]
  /\ UNCHANGED <<dumpVars, ptyList, reader, ptyMissed, ptyFrom, ptyTo, live>>

\* The unsubscribe function: remove closes the channel under the same lock.
RemoveSubscriber(s) ==
  /\ reader[s] = "open"
  /\ reader' = [reader EXCEPT ![s] = "left"]
  /\ ptyList' = ptyList \ {s}
  /\ ptyTo' = [ptyTo EXCEPT ![s] = live]
  /\ UNCHANGED <<dumpVars, ptyCh, ptyTaken, ptyMissed, ptyFrom, live>>

PtyNext ==
  /\ ~ptyPanic
  /\ \/ \E empty \in BOOLEAN : SetInitialPTYBuffer(empty)
     \/ ResetDrained \/ FanOut
     \/ \E s \in PtyReaders :
          \/ AddSubscriber(s) \/ SwapDrained(s) \/ TakeInitial(s) \/ TakePTYData(s) \/ RemoveSubscriber(s)
          \/ DumpSent(s) \/ DumpPanics(s) \/ DumpDropped(s)

PtySpec == PtyInit /\ [][PtyNext]_ptyVars

-----------------------------------------------------------------------------
PtyStream(s) == ptyTaken[s] \o ptyCh[s]

DumpsIn(q) == {i \in DOMAIN q : q[i] = Dump}
LiveIn(q) == {q[i] : i \in DOMAIN q} \ {Dump}

\* The live chunks come in the order they were fanned out, each once.
Rising(q) == \A i, j \in DOMAIN q : i < j /\ q[i] # Dump /\ q[j] # Dump => q[i] < q[j]

HoldsDump(s) == s \in drainer \/ DumpsIn(PtyStream(s)) # {}

\* A ring dump is handed to at most one subscriber, and once, however many
\* subscribe while dumps arrive (initialBufferDrained).
DumpAtMostOnce ==
  /\ \A s, t \in PtyReaders :
       HoldsDump(s) /\ HoldsDump(t) /\ dumpOf[s] = dumpOf[t] => s = t
  /\ \A s \in PtyReaders : Cardinality(DumpsIn(PtyStream(s))) <= 1

LastOwed(s) == IF ptyTo[s] < live THEN ptyTo[s] ELSE live

\* A subscriber's live output has no silent hole and no repetition: what was
\* fanned out while it was registered is in its stream, in order, or was
\* dropped because its channel was full (fanOut against add and remove).
PtyNoSilentGap ==
  \A s \in PtyReaders :
    /\ Rising(PtyStream(s))
    /\ reader[s] # "none" =>
         LiveIn(PtyStream(s)) \cup ptyMissed[s] = ptyFrom[s] + 1 .. LastOwed(s)

\* fanOut never meets a closed channel, which would end the host: a channel is
\* closed and leaves the list in one step.
ListedIsOpen == \A s \in ptyList : reader[s] \in {"added", "won", "open"}

\* What a subscriber of PTY output is owed, however many come and go: a dump
\* to one of them at most, live output without a silent gap, and no send by fanOut on
\* a closed channel.
PtyFanOutIsSound == DumpAtMostOnce /\ PtyNoSilentGap /\ ListedIsOpen

\* "drain it to THIS subscriber as the first chunk before live data"
\* (pty.go:95-96): in a subscriber's stream nothing comes before the dump.
DumpComesFirst == \A s \in PtyReaders : \A i \in DumpsIn(PtyStream(s)) : i = 1
=============================================================================
