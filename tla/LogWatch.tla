------------------------------ MODULE LogWatch ------------------------------
(***************************************************************************)
(* pkg/cliwrap/manager_logs.go: the Manager's log pipeline.  Every chunk a *)
(* child writes goes into the Collector and is then fanned out to the      *)
(* followers registered with WatchLogs.  As in the event bus the sends run *)
(* outside the lock: the read loop of a process takes the watchers, and    *)
(* unregister or closeLogWatchers may close a channel before it sends.     *)
(***************************************************************************)
EXTENDS Naturals, Sequences, FiniteSets

CONSTANTS
  Processes,  \* managed processes; the read loop of each emits its chunks
  Watchers,   \* WatchLogs registrations, each made at most once
  WatchCap,   \* capacity of a watcher's channel, 256 in the code
  RingChunks, \* chunks of one stream that the Collector keeps
  MaxChunks   \* bound: chunks one process writes

\* The empty process id of a watcher, which stands for every process.
AnyProcess == "any"

\* A process has a name: Spec.Validate refuses an empty id.
ASSUME LogAssumption ==
  /\ WatchCap \in Nat \ {0} /\ RingChunks \in Nat \ {0} /\ MaxChunks \in Nat
  /\ AnyProcess \notin Processes

VARIABLES
  readLoop,     \* read loop of each process: held by its handle, taken from it, or ended
  ring,         \* Collector: retained chunks of each process and stream
  emitted,      \* chunks written so far by each process
  emit,         \* emitLogChunk in the read loop of each process
  watchers,     \* managerLogs.watchers
  watched,      \* logWatcher.processID
  wch,          \* contents of logWatcher.ch
  wClosed,      \* logWatcher.ch is closed
  logPanicked,  \* a send hit a closed channel
  registered,   \* registrations made so far
  wDue,         \* history: chunks each watcher was to be given
  wLost         \* history: chunks each watcher missed because it was full

logVars == <<readLoop, ring, emitted, emit, watchers, watched, wch, wClosed, logPanicked,
             registered, wDue, wLost>>

StdStreams == {0, 1}

NotEmitting == [pc |-> "idle", todo |-> {}]

LogInit ==
  /\ readLoop = [p \in Processes |-> "held"]
  /\ ring = [p \in Processes |-> [t \in StdStreams |-> <<>>]]
  /\ emitted = [p \in Processes |-> 0]
  /\ emit = [p \in Processes |-> NotEmitting]
  /\ watchers = {}
  /\ watched = [w \in Watchers |-> AnyProcess]
  /\ wch = [w \in Watchers |-> <<>>]
  /\ wClosed = [w \in Watchers |-> FALSE]
  /\ logPanicked = FALSE
  /\ registered = {}
  /\ wDue = [w \in Watchers |-> {}]
  /\ wLost = [w \in Watchers |-> {}]

\* chunkBuffer.append with chunks of one size: the oldest ones give way.
Retain(q, c) ==
  LET r == Append(q, c) IN
  IF Len(r) > RingChunks THEN Tail(r) ELSE r

\* emitLogChunk: Collector.Write, under the Collector's lock.
CollectChunk(p, t) ==
  LET c == [n |-> emitted[p] + 1, stream |-> t] IN
  /\ readLoop[p] # "ended" /\ emit[p].pc = "idle" /\ emitted[p] < MaxChunks
  /\ emitted' = [emitted EXCEPT ![p] = @ + 1]
  /\ ring' = [ring EXCEPT ![p][t] = Retain(@, c)]
  /\ emit' = [emit EXCEPT ![p] = [pc |-> "collected", todo |-> {}, chunk |-> c]]
  /\ UNCHANGED <<readLoop, watchers, watched, wch, wClosed, logPanicked, registered, wDue, wLost>>

\* emitLogChunk: the matching watchers, under the read lock.
TakeWatchers(p) ==
  LET active == {w \in watchers : watched[w] \in {p, AnyProcess}} IN
  /\ emit[p].pc = "collected"
  /\ emit' = [emit EXCEPT ![p] = IF active = {} THEN NotEmitting
                                 ELSE [@ EXCEPT !.pc = "send", !.todo = active]]
  /\ wDue' = [w \in Watchers |-> wDue[w] \cup IF w \in active THEN {emit[p].chunk} ELSE {}]
  /\ UNCHANGED <<readLoop, ring, emitted, watchers, watched, wch, wClosed, logPanicked,
                 registered, wLost>>

\* emitLogChunk: the non-blocking send to one watcher.
SendChunk(p, w) ==
  /\ emit[p].pc = "send" /\ w \in emit[p].todo
  /\ \/ /\ wClosed[w]
        /\ logPanicked' = TRUE
        /\ UNCHANGED <<wch, wLost, emit>>
     \/ /\ ~wClosed[w]
        /\ IF Len(wch[w]) < WatchCap
             THEN wch' = [wch EXCEPT ![w] = Append(@, emit[p].chunk)] /\ UNCHANGED wLost
             ELSE wLost' = [wLost EXCEPT ![w] = @ \cup {emit[p].chunk}] /\ UNCHANGED wch
        /\ emit' = IF emit[p].todo = {w} THEN [emit EXCEPT ![p] = NotEmitting]
                   ELSE [emit EXCEPT ![p].todo = @ \ {w}]
        /\ UNCHANGED logPanicked
  /\ UNCHANGED <<readLoop, ring, emitted, watchers, watched, wClosed, registered, wDue>>

EmitStep(p) ==
  \/ \E t \in StdStreams : CollectChunk(p, t)
  \/ TakeWatchers(p)
  \/ \E w \in Watchers : SendChunk(p, w)

\* The Close that took the Controller joins its read loop, which is then in no
\* callback.
JoinReadLoop(p) ==
  /\ readLoop[p] # "ended" /\ emit[p].pc = "idle"
  /\ readLoop' = [readLoop EXCEPT ![p] = "ended"]
  /\ UNCHANGED <<ring, emitted, emit, watchers, watched, wch, wClosed, logPanicked,
                 registered, wDue, wLost>>

\* processHandle.Close of some caller sets ctrl to nil: whoever closes the
\* handle next returns at once and joins nothing.  A Start that fails after
\* conn.Start leaves its read loop in the same state.
TakeController(p) ==
  /\ readLoop[p] = "held"
  /\ readLoop' = [readLoop EXCEPT ![p] = "taken"]
  /\ UNCHANGED <<ring, emitted, emit, watchers, watched, wch, wClosed, logPanicked,
                 registered, wDue, wLost>>

\* Start or Reattach makes a Controller.  Neither looks at Manager.closed: the
\* Controller is late when Shutdown no longer closes its handle.
StartReadLoop(p, late) ==
  /\ readLoop[p] = "ended"
  /\ readLoop' = [readLoop EXCEPT ![p] = IF late THEN "taken" ELSE "held"]
  /\ UNCHANGED <<ring, emitted, emit, watchers, watched, wch, wClosed, logPanicked,
                 registered, wDue, wLost>>

WatchLogs(w, p) ==
  /\ w \notin registered
  /\ registered' = registered \cup {w}
  /\ watchers' = watchers \cup {w}
  /\ watched' = [watched EXCEPT ![w] = p]
  /\ UNCHANGED <<readLoop, ring, emitted, emit, wch, wClosed, logPanicked, wDue, wLost>>

\* The function WatchLogs returns: closes the channel of a registered watcher.
unregister(w) ==
  /\ w \in registered
  /\ watchers' = watchers \ {w}
  /\ wClosed' = IF w \in watchers THEN [wClosed EXCEPT ![w] = TRUE] ELSE wClosed
  /\ UNCHANGED <<readLoop, ring, emitted, emit, watched, wch, logPanicked, registered, wDue, wLost>>

\* The follower takes a chunk from its channel.
TakeChunk(w) ==
  /\ wch[w] # <<>>
  /\ wch' = [wch EXCEPT ![w] = Tail(@)]
  /\ UNCHANGED <<readLoop, ring, emitted, emit, watchers, watched, wClosed, logPanicked,
                 registered, wDue, wLost>>

\* Mutant: the watchers are forgotten, their channels stay open.
BugForgetWatchers ==
  /\ watchers' = {}
  /\ UNCHANGED <<readLoop, ring, emitted, emit, watched, wch, wClosed, logPanicked, registered, wDue, wLost>>

closeLogWatchers ==
  /\ wClosed' = [w \in Watchers |-> wClosed[w] \/ w \in watchers]
  /\ watchers' = {}
  /\ UNCHANGED <<readLoop, ring, emitted, emit, watched, wch, logPanicked, registered, wDue, wLost>>
=============================================================================
