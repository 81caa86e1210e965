------------------------------- MODULE Manager -------------------------------
(***************************************************************************)
(* pkg/cliwrap/manager.go and manager_events.go: the registry of handles,  *)
(* the watchLoop that polls their states and turns them into lifecycle     *)
(* events on the bus, and Shutdown.  A handle is seen through Status, so   *)
(* of its Controller only the state matters; Session has the rest.         *)
(*                                                                         *)
(* Start holds the handle's mutex throughout, and Status takes it: a slow  *)
(* Start holds up watchLoop for every process.  The bus is EventBus; here  *)
(* only what watchLoop gives to it counts.                                 *)
(***************************************************************************)
EXTENDS Naturals, Sequences

CONSTANTS
  Ids,       \* process ids
  MaxStarts  \* bound on the Start calls of a handle

ASSUME ManagerAssumption == MaxStarts \in Nat

VARIABLES
  persistent,\* ids whose spec has Persistent
  closed,    \* Manager.closed
  handles,   \* ids in Manager.handles
  ctrl,      \* state of processHandle.ctrl, or "nil"
  starting,  \* Start is under way and holds processHandle.mu
  closing,   \* state of the Controller that Close is tearing down, or "nil"
  last,      \* processHandle.lastStatus, Pending when unset
  watch,     \* where watchLoop is
  visit,     \* handles of its snapshot still to be looked at
  found,     \* the handle it is looking at and the state it found, or none
  lastState, \* handleSeen.lastState
  events,    \* the types of the events published of each id, in order: the
             \* emit flags of handleSeen say which of them are there
  shut,      \* where Shutdown is
  snap,      \* the handles it found
  stopTried, \* those it has called Stop on
  swept,     \* those it has called Close on
  awaited,   \* the one whose Close has not returned yet
  starts,    \* Start calls that passed the test for a Controller
  late,      \* history: ids that came to life where Shutdown no longer looks
  was        \* history: the ends each handle has come to

procVars == <<ctrl, starting, starts, closing, last, was>>
watchVars == <<watch, visit, found, lastState, events>>
shutVars == <<closed, shut, snap, stopTried, swept, awaited>>
managerVars == <<persistent, handles, procVars, watchVars, shutVars, late>>

Ended == {"Stopped", "Crashed"}

NoneFound == [id |-> "none", state |-> "none"]

NewManager ==
  /\ persistent \in SUBSET Ids
  /\ closed = FALSE
  /\ handles = {}
  /\ ctrl = [p \in Ids |-> "nil"]
  /\ starting = {}
  /\ closing = [p \in Ids |-> "nil"]
  /\ last = [p \in Ids |-> "Pending"]
  /\ watch = "off"
  /\ visit = {}
  /\ found = NoneFound
  /\ lastState = [p \in Ids |-> "Pending"]
  /\ shut = "idle"
  /\ snap = {}
  /\ stopTried = {}
  /\ swept = {}
  /\ awaited = {}
  /\ late = {}
  /\ starts = [p \in Ids |-> 0]
  /\ events = [p \in Ids |-> <<>>]
  /\ was = [p \in Ids |-> {}]

\* startWatcherOnce
startWatcherOnce == watch' = IF watch = "off" THEN "wait" ELSE watch

Register(p) ==
  /\ ~closed /\ p \notin handles
  /\ handles' = handles \cup {p}
  /\ startWatcherOnce
  /\ UNCHANGED <<procVars, shutVars, persistent, visit, found, lastState, events, late>>

\* The end of Manager.Reattach: the handle of a session taken over from its
\* agent enters the registry with a Controller that frames have reached.
RegisterReattached(p) ==
  /\ p \in persistent /\ p \notin handles
  /\ handles' = handles \cup {p}
  /\ \E s \in {"Running", "Stopped", "Crashed"} :
       /\ ctrl' = [ctrl EXCEPT ![p] = s]
       /\ was' = [was EXCEPT ![p] = @ \cup ({s} \cap Ended)]
  /\ late' = IF closed THEN late \cup {p} ELSE late
  /\ startWatcherOnce
  /\ UNCHANGED <<shutVars, persistent, starting, starts, closing, last, visit, found,
                 lastState, events>>

\* processHandle.Start takes its mutex and has no Controller yet.
StartBegins(p) ==
  /\ p \in handles /\ p \notin starting /\ ctrl[p] = "nil"
  /\ starts[p] < MaxStarts
  /\ starting' = starting \cup {p}
  /\ starts' = [starts EXCEPT ![p] = @ + 1]
  /\ late' = IF p \in swept THEN late \cup {p} ELSE late
  /\ UNCHANGED <<watchVars, shutVars, persistent, handles, ctrl, closing, last, was>>

StartReturns(p) ==
  /\ p \in starting
  /\ starting' = starting \ {p}
  /\ \E s \in {"nil", "Starting"} : ctrl' = [ctrl EXCEPT ![p] = s]
  /\ UNCHANGED <<watchVars, shutVars, persistent, handles, starts, closing, last, was, late>>

\* What the frames and the disconnect callback do to a Controller's state:
\* the loss of the connection is a crash even after an orderly end.
NextStates(s) ==
  CASE s = "Starting" -> {"Running", "Stopped", "Crashed"}
    [] s = "Running" -> {"Stopped", "Crashed"}
    [] s = "Stopping" -> {"Running", "Stopped", "Crashed"}
    [] s = "Stopped" -> {"Crashed"}
    [] OTHER -> {}

ControllerMoves(p) ==
  /\ \E s \in NextStates(ctrl[p]) :
       /\ ctrl' = [ctrl EXCEPT ![p] = s]
       /\ was' = [was EXCEPT ![p] = @ \cup ({s} \cap Ended)]
  /\ UNCHANGED <<watchVars, shutVars, persistent, handles, starting, starts, closing, last,
                 late>>

\* Controller.Stop reads the state and, unless it is Stopped, stores Stopping:
\* a ChildExited between the two is overwritten.
MarkStopping(p) ==
  /\ p \notin starting
  /\ \/ /\ ctrl[p] \in {"nil", "Stopped"}
        /\ UNCHANGED ctrl
     \/ /\ ctrl[p] # "nil"
        /\ ctrl' = [ctrl EXCEPT ![p] = "Stopping"]

Stop(p) ==
  /\ p \in handles /\ MarkStopping(p)
  /\ UNCHANGED <<watchVars, shutVars, persistent, handles, starting, starts, closing, last,
                 was, late>>

\* processHandle.Close detaches the Controller under the mutex ...  (The
\* Closes of two lives of one handle are taken one after the other.)
Detach(p) ==
  /\ p \notin starting
  /\ IF ctrl[p] = "nil"
       THEN UNCHANGED <<ctrl, closing>>
       ELSE /\ closing[p] = "nil"
            /\ closing' = [closing EXCEPT ![p] = ctrl[p]]
            /\ ctrl' = [ctrl EXCEPT ![p] = "nil"]

Close(p) ==
  /\ p \in handles /\ ctrl[p] # "nil" /\ Detach(p)
  /\ UNCHANGED <<watchVars, shutVars, persistent, handles, starting, starts, last, was, late>>

\* ... and keeps the state in which it has been torn down.
CloseReturns(p) ==
  /\ closing[p] # "nil"
  /\ \E s \in NextStates(closing[p]) \cup {closing[p]} :
       /\ last' = [last EXCEPT ![p] = s]
       /\ was' = [was EXCEPT ![p] = @ \cup ({s} \cap Ended)]
  /\ closing' = [closing EXCEPT ![p] = "nil"]
  /\ awaited' = awaited \ {p}
  /\ UNCHANGED <<watchVars, persistent, handles, ctrl, starting, starts, closed, shut, snap,
                 stopTried, swept, late>>

\* processHandle.Status, once Start has let go of the mutex.
Status(p) == IF ctrl[p] = "nil" THEN last[p] ELSE ctrl[p]

-----------------------------------------------------------------------------
\* Mutant: the loop only ends when select happens to pick watchStop.
BugTickWhenClosed ==
  /\ watch = "wait"
  /\ watch' = "visit" /\ visit' = handles
  /\ UNCHANGED <<procVars, shutVars, persistent, handles, found, lastState, events, late>>

\* watchLoop: the ticker fires; a closed manager ends the loop.
Tick ==
  /\ watch = "wait"
  /\ IF closed THEN watch' = "ended" /\ UNCHANGED visit
               ELSE watch' = "visit" /\ visit' = handles
  /\ UNCHANGED <<procVars, shutVars, persistent, handles, found, lastState, events, late>>

\* watchStop is closed.
WatchStopped ==
  /\ watch = "wait" /\ shut \notin {"idle", "begun"}
  /\ watch' = "ended"
  /\ UNCHANGED <<procVars, shutVars, persistent, handles, visit, found, lastState, events,
                 late>>

\* Mutant: Stopped does not make up for a Started the poll has missed.
BugNoSynthesis(st) ==
  CASE st = "Starting" -> <<"starting">>
    [] st = "Running" -> <<"starting", "started">>
    [] st = "Stopped" -> <<"starting", "stopped">>
    [] st = "Crashed" -> <<"starting", "started", "crashed">>
    [] OTHER -> <<>>

\* The events a state stands for, those it presupposes first.
Presupposes(st) ==
  CASE st = "Starting" -> <<"starting">>
    [] st = "Running" -> <<"starting", "started">>
    [] st = "Stopped" -> <<"starting", "started", "stopped">>
    [] st = "Crashed" -> <<"starting", "started", "crashed">>
    [] OTHER -> <<>>

Told(w) == {w[j] : j \in DOMAIN w}

Announced(p) == Told(events[p])

\* The flags that publishTransition still finds unset.
Unset(p, st) == {i \in DOMAIN Presupposes(st) : Presupposes(st)[i] \notin Announced(p)}

\* Mutant: the first poll of a handle only records its state.
BugVisitFirst(p) ==
  /\ watch = "visit" /\ found = NoneFound
  /\ p \in visit /\ p \notin starting
  /\ visit' = visit \ {p}
  /\ IF lastState[p] = "Pending"
       THEN lastState' = [lastState EXCEPT ![p] = Status(p)] /\ UNCHANGED found
       ELSE /\ found' = IF Status(p) = lastState[p] THEN found ELSE [id |-> p, state |-> Status(p)]
            /\ UNCHANGED lastState
  /\ UNCHANGED <<procVars, shutVars, persistent, handles, watch, events, late>>

\* One turn of watchLoop's inner loop begins: Status, once Start has let go
\* of the handle.
Visit(p) ==
  /\ watch = "visit" /\ found = NoneFound
  /\ p \in visit /\ p \notin starting
  /\ visit' = visit \ {p}
  /\ found' = IF Status(p) = lastState[p] THEN found ELSE [id |-> p, state |-> Status(p)]
  /\ UNCHANGED <<procVars, shutVars, persistent, handles, watch, lastState, events, late>>

\* publishTransition emits the next event whose flag is unset.
emit ==
  LET p == found.id
      unset == Unset(p, found.state) IN
  /\ found # NoneFound /\ unset # {}
  /\ LET i == CHOOSE j \in unset : \A k \in unset : j <= k IN
       events' = [events EXCEPT ![p] = Append(@, Presupposes(found.state)[i])]
  /\ UNCHANGED <<procVars, shutVars, persistent, handles, watch, visit, found, lastState, late>>

\* publishTransition returns and watchLoop keeps the state.
publishTransitionReturns ==
  /\ found # NoneFound /\ Unset(found.id, found.state) = {}
  /\ lastState' = [lastState EXCEPT ![found.id] = found.state]
  /\ found' = NoneFound
  /\ UNCHANGED <<procVars, shutVars, persistent, handles, watch, visit, events, late>>

VisitsDone ==
  /\ watch = "visit" /\ visit = {} /\ found = NoneFound
  /\ watch' = "wait"
  /\ UNCHANGED <<procVars, shutVars, persistent, handles, visit, found, lastState, events,
                 late>>

-----------------------------------------------------------------------------
\* Manager.Shutdown.  A second call returns at once.
ShutdownBegins ==
  /\ ~closed
  /\ closed' = TRUE
  /\ shut' = "begun"
  /\ snap' = handles
  /\ UNCHANGED <<procVars, watchVars, persistent, handles, stopTried, swept, awaited, late>>

CloseWatchStop ==
  /\ shut = "begun"
  /\ shut' = "stop"
  /\ UNCHANGED <<procVars, watchVars, persistent, handles, closed, snap, stopTried, swept,
                 awaited, late>>

\* Persistent sessions outlive the manager: they are not stopped.
ShutdownStops(p) ==
  /\ shut = "stop" /\ p \in snap \ (persistent \cup stopTried)
  /\ MarkStopping(p)
  /\ stopTried' = stopTried \cup {p}
  /\ UNCHANGED <<watchVars, persistent, handles, starting, starts, closing, last, was, closed,
                 shut, snap, swept, awaited, late>>

ShutdownStopsDone ==
  /\ shut = "stop" /\ snap \subseteq persistent \cup stopTried
  /\ shut' = "close"
  /\ UNCHANGED <<procVars, watchVars, persistent, handles, closed, snap, stopTried, swept,
                 awaited, late>>

\* Close takes the Controller of p away; the call returns with CloseReturns.
ShutdownCloses(p) ==
  /\ shut = "close" /\ p \in snap \ swept /\ awaited = {}
  /\ Detach(p)
  /\ swept' = swept \cup {p}
  /\ awaited' = IF ctrl[p] = "nil" THEN {} ELSE {p}
  /\ UNCHANGED <<watchVars, persistent, handles, starting, starts, last, was, closed, shut,
                 snap, stopTried, late>>

\* Mutant: persistent sessions are left alone altogether.
BugKeepPersistent ==
  /\ shut = "close" /\ snap \subseteq persistent \cup swept /\ awaited = {}
  /\ shut' = "join"
  /\ UNCHANGED <<procVars, watchVars, persistent, handles, closed, snap, stopTried, swept, awaited, late>>

ShutdownClosesDone ==
  /\ shut = "close" /\ swept = snap /\ awaited = {}
  /\ shut' = "join"
  /\ UNCHANGED <<procVars, watchVars, persistent, handles, closed, snap, stopTried, swept,
                 awaited, late>>

\* Mutant: Shutdown does not wait for the poll.
BugNoJoin == TRUE

\* watchWG.Wait
WatcherEnded == watch \in {"off", "ended"}

\* closeLogWatchers and Bus.Close, which LogWatch and EventBus have.
ShutdownEnds ==
  /\ shut = "join" /\ WatcherEnded
  /\ shut' = "done"
  /\ UNCHANGED <<procVars, watchVars, persistent, handles, closed, snap, stopTried, swept,
                 awaited, late>>

-----------------------------------------------------------------------------
HandleStep(p) ==
  \/ Register(p)
  \/ RegisterReattached(p)
  \/ StartBegins(p)
  \/ StartReturns(p)
  \/ ControllerMoves(p)
  \/ Stop(p)
  \/ Close(p)
  \/ CloseReturns(p)

ShutdownStep ==
  \/ CloseWatchStop
  \/ \E p \in Ids : ShutdownStops(p)
  \/ ShutdownStopsDone
  \/ \E p \in Ids : ShutdownCloses(p)
  \/ ShutdownClosesDone
  \/ ShutdownEnds

WatchStep ==
  \/ Tick
  \/ WatchStopped
  \/ \E p \in Ids : Visit(p)
  \/ publishTransitionReturns
  \/ VisitsDone
  \/ emit

ManagerNext ==
  \/ \E p \in Ids : HandleStep(p)
  \/ WatchStep
  \/ ShutdownBegins
  \/ ShutdownStep

ManagerSpec == NewManager /\ [][ManagerNext]_managerVars

\* Goroutines of the Manager run on: the watcher, a Start and a Close that
\* were called (their contexts bound them), Shutdown.  Strong fairness where
\* a handle's mutex is awaited: callers may retry Start for ever, and a Go
\* mutex in starvation mode is handed to the longest waiter.
ManagerFairSpec ==
  /\ ManagerSpec
  /\ SF_managerVars(WatchStep)
  /\ SF_managerVars(ShutdownStep)
  /\ \A p \in Ids : WF_managerVars(StartReturns(p)) /\ WF_managerVars(CloseReturns(p))

-----------------------------------------------------------------------------
\* Each event once, and after the events it presupposes.
InOrder(w) ==
  \A i \in DOMAIN w :
    LET before == {w[j] : j \in 1 .. i - 1} IN
    /\ w[i] \notin before
    /\ w[i] = "started" => "starting" \in before
    /\ w[i] \in {"stopped", "crashed"} => {"starting", "started"} \subseteq before

\* "This guarantees callers see Started before Stopped even when the
\* underlying process transitions faster than the poll interval"
\* (manager_events.go:96), over any number of restarts of the handle and any
\* states the poll misses.
PublishedInOrder == \A p \in Ids : InOrder(events[p])

\* A terminal event is the truth: Stopped or Crashed is published only of a
\* handle that has come to that end, though the poll reads Status under
\* another lock than the one under which it took its snapshot, and though
\* Close and Start change what Status shows.
PublishedWasTrue ==
  \A p \in Ids :
    /\ "stopped" \in Announced(p) => "Stopped" \in was[p]
    /\ "crashed" \in Announced(p) => "Crashed" \in was[p]

\* A reader of the bus can follow the life of a process: the events come in
\* order and once (publishTransition), and the ends they tell of happened.
EventsAreTrue == PublishedInOrder /\ PublishedWasTrue

\* Shutdown joins the poll before it closes the bus: what the poll has found
\* is published, and nothing is published once Shutdown has returned, a
\* session reattached afterwards included.
NoEventAfterShutdown == [][shut = "done" => found = NoneFound /\ UNCHANGED events]_managerVars

\* Shutdown leaves nothing behind: when it has returned, every handle is
\* without a Controller, except one that was started after Shutdown had
\* closed it or reattached after Shutdown had taken its snapshot.
ShutdownReleasesAll ==
  shut = "done" => \A p \in Ids \ late : ctrl[p] = "nil" /\ p \notin starting

\* A process that ends and stays so is announced, unless the manager is shut
\* down: its event is published by a later poll, however long another
\* handle's Start held the poll up.
EndIsAnnounced ==
  \A p \in Ids :
    <>[](~closed /\ p \in handles /\ ctrl[p] \in Ended) =>
      []<>((IF ctrl[p] = "Stopped" THEN "stopped" ELSE "crashed") \in Announced(p))

\* Shutdown returns: it waits for mutexes held by Start, for Close calls and
\* for a poll that may itself wait for the same mutexes and for the bus, and
\* none of these waits for Shutdown.
ShutdownReturns == []<>(closed => shut = "done")
=============================================================================
