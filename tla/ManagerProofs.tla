---------------------------- MODULE ManagerProofs ----------------------------
(***************************************************************************)
(* The safety properties of Manager, for any set of processes and any      *)
(* number of starts.  Three inductive invariants: what the poll publishes  *)
(* (WordInv), that every end the poll can see has come (TruthInv), and what *)
(* Shutdown has let go of (ReleaseInv).                                    *)
(***************************************************************************)
EXTENDS Manager, TLAPS

CtrlStates == {"Pending", "Starting", "Running", "Stopping", "Stopped", "Crashed"}

EventTypes == {"starting", "started", "stopped", "crashed"}

Findings == [id : Ids, state : CtrlStates]

ProcType ==
  /\ ctrl \in [Ids -> CtrlStates \cup {"nil"}]
  /\ closing \in [Ids -> CtrlStates \cup {"nil"}]
  /\ last \in [Ids -> CtrlStates]
  /\ was \in [Ids -> SUBSET Ended]

PollType ==
  /\ found \in Findings \cup {NoneFound}
  /\ visit \subseteq Ids /\ handles \subseteq Ids

-----------------------------------------------------------------------------
\* The states a Controller may move to are states, and none follows "nil".
LEMMA NextStatesType ==
  \A s \in CtrlStates \cup {"nil"} : NextStates(s) \subseteq CtrlStates \ {"nil"}
BY DEF NextStates, CtrlStates

\* What Status shows is a state.
LEMMA StatusType == ASSUME ProcType, NEW p \in Ids PROVE Status(p) \in CtrlStates
BY DEF ProcType, Status

\* Every end that a Controller is in, was closed in, or that the poll holds in
\* its hand, is one the handle has come to.
TruthInv ==
  /\ ProcType /\ PollType
  /\ \A p \in Ids : {ctrl[p], closing[p], last[p]} \cap Ended \subseteq was[p]
  /\ found # NoneFound => {found.state} \cap Ended \subseteq was[found.id]

\* No handle of a new Manager has a Controller, and the poll has found nothing.
LEMMA TruthInit == NewManager => TruthInv
BY DEF NewManager, TruthInv, ProcType, PollType, CtrlStates, Ended

\* The steps of a handle: those that change the state of its Controller record
\* an end at once, and none forgets one.
LEMMA TruthHandle ==
  ASSUME TruthInv, NEW p \in Ids, HandleStep(p) PROVE TruthInv'
<1> USE DEF TruthInv, ProcType, PollType, procVars, watchVars, shutVars
<1>1. CASE Register(p)
  BY <1>1 DEF Register
<1>2. CASE RegisterReattached(p)
  BY <1>2 DEF RegisterReattached, CtrlStates, Ended
<1>3. CASE StartBegins(p)
  BY <1>3 DEF StartBegins
<1>4. CASE StartReturns(p)
  BY <1>4 DEF StartReturns, CtrlStates, Ended
<1>5. CASE ControllerMoves(p)
  BY <1>5, NextStatesType DEF ControllerMoves
<1>6. CASE Stop(p)
  BY <1>6 DEF Stop, MarkStopping, CtrlStates, Ended
<1>7. CASE Close(p)
  BY <1>7 DEF Close, Detach, CtrlStates, Ended
<1>8. CASE CloseReturns(p)
  <2>1. PICK s \in NextStates(closing[p]) \cup {closing[p]} :
          /\ last' = [last EXCEPT ![p] = s]
          /\ was' = [was EXCEPT ![p] = @ \cup ({s} \cap Ended)]
    BY <1>8 DEF CloseReturns
  <2>2. s \in CtrlStates
    BY <1>8, NextStatesType DEF CloseReturns
  <2>3. ProcType'
    BY <1>8, <2>1, <2>2 DEF CloseReturns
  <2>4. \A q \in Ids : ({ctrl[q], closing[q], last[q]} \cap Ended \subseteq was[q])'
    <3> SUFFICES ASSUME NEW q \in Ids, NEW e \in Ended,
                        e \in {ctrl'[q], closing'[q], last'[q]}
                 PROVE  e \in was'[q]
      OBVIOUS
    <3>1. was[q] \subseteq was'[q]
      BY <2>1
    <3>2. CASE q = p
      BY <1>8, <2>1, <3>1, <3>2 DEF CloseReturns, Ended
    <3>3. CASE q # p
      BY <1>8, <2>1, <3>1, <3>3 DEF CloseReturns
    <3> QED BY <3>2, <3>3
  <2> QED BY <1>8, <2>1, <2>3, <2>4 DEF CloseReturns
<1> QED BY <1>1, <1>2, <1>3, <1>4, <1>5, <1>6, <1>7, <1>8 DEF HandleStep

\* The steps of the poll: it takes what Status shows, and Status shows the state
\* of a Controller or the last one of a closed handle.
LEMMA TruthWatch == ASSUME TruthInv, WatchStep PROVE TruthInv'
<1> USE DEF TruthInv, ProcType, PollType, procVars, shutVars
<1>1. CASE Tick
  BY <1>1 DEF Tick
<1>2. CASE WatchStopped
  BY <1>2 DEF WatchStopped
<1>3. ASSUME NEW p \in Ids, Visit(p) PROVE TruthInv'
  <2>1. Status(p) \in CtrlStates
    BY StatusType
  <2>2. {Status(p)} \cap Ended \subseteq was[p]
    BY DEF Status
  <2>3. found' = found \/ found' = [id |-> p, state |-> Status(p)]
    BY <1>3 DEF Visit
  <2> QED BY <1>3, <2>1, <2>2, <2>3 DEF Visit, Findings
<1>4. CASE publishTransitionReturns
  BY <1>4 DEF publishTransitionReturns
<1>5. CASE VisitsDone
  BY <1>5 DEF VisitsDone
<1>6. CASE emit
  BY <1>6 DEF emit
<1> QED BY <1>1, <1>2, <1>3, <1>4, <1>5, <1>6 DEF WatchStep

\* The steps of Shutdown.
LEMMA TruthShutdown == ASSUME TruthInv, ShutdownBegins \/ ShutdownStep PROVE TruthInv'
<1> USE DEF TruthInv, ProcType, PollType, procVars, watchVars
<1>1. CASE ShutdownBegins \/ CloseWatchStop \/ ShutdownStopsDone \/ ShutdownClosesDone \/ ShutdownEnds
  BY <1>1 DEF ShutdownBegins, CloseWatchStop, ShutdownStopsDone, ShutdownClosesDone, ShutdownEnds
<1>2. ASSUME NEW p \in Ids, ShutdownStops(p) PROVE TruthInv'
  BY <1>2 DEF ShutdownStops, MarkStopping, CtrlStates, Ended
<1>3. ASSUME NEW p \in Ids, ShutdownCloses(p) PROVE TruthInv'
  BY <1>3 DEF ShutdownCloses, Detach, CtrlStates, Ended
<1> QED BY <1>1, <1>2, <1>3 DEF ShutdownStep

\* TruthInv holds in every state the Manager reaches.
LEMMA TruthInvariant == ManagerSpec => []TruthInv
<1>1. TruthInv /\ [ManagerNext]_managerVars => TruthInv'
  <2> SUFFICES ASSUME TruthInv, [ManagerNext]_managerVars PROVE TruthInv'
    OBVIOUS
  <2>1. CASE UNCHANGED managerVars
    BY <2>1 DEF managerVars, procVars, watchVars, TruthInv, ProcType, PollType
  <2> QED BY <2>1, TruthHandle, TruthWatch, TruthShutdown DEF ManagerNext
<1> QED BY <1>1, TruthInit, PTL DEF ManagerSpec

-----------------------------------------------------------------------------
\* Publishing an event that was not told and whose predecessors were keeps a
\* sequence of events in order.
LEMMA NextEvent ==
  ASSUME NEW w \in Seq(EventTypes), NEW e \in EventTypes, InOrder(w), e \notin Told(w),
         e = "started" => "starting" \in Told(w),
         e \in {"stopped", "crashed"} => {"starting", "started"} \subseteq Told(w)
  PROVE  InOrder(Append(w, e))
<1> DEFINE v == Append(w, e)
<1>1. /\ DOMAIN w = 1 .. Len(w) /\ DOMAIN v = 1 .. Len(w) + 1
      /\ v[Len(w) + 1] = e /\ \A i \in 1 .. Len(w) : v[i] = w[i]
      /\ Len(w) \in Nat
  OBVIOUS
<1> HIDE DEF v
<1> SUFFICES ASSUME NEW i \in 1 .. Len(w) + 1
             PROVE  LET before == {v[j] : j \in 1 .. i - 1} IN
                    /\ v[i] \notin before
                    /\ v[i] = "started" => "starting" \in before
                    /\ v[i] \in {"stopped", "crashed"} => {"starting", "started"} \subseteq before
  BY <1>1 DEF InOrder, v
<1>2. CASE i = Len(w) + 1
  <2>1. {v[j] : j \in 1 .. i - 1} = Told(w)
    BY <1>1, <1>2 DEF Told
  <2> QED BY <1>1, <1>2, <2>1
<1>3. CASE i \in 1 .. Len(w)
  <2>1. {v[j] : j \in 1 .. i - 1} = {w[j] : j \in 1 .. i - 1}
    BY <1>1, <1>3
  <2> QED BY <1>1, <1>3, <2>1 DEF InOrder
<1> QED BY <1>1, <1>2, <1>3

\* Publishing an event adds its type, and no other, to what was told.
LEMMA ToldAppend ==
  ASSUME NEW w \in Seq(EventTypes), NEW e \in EventTypes
  PROVE  Told(Append(w, e)) = Told(w) \cup {e}
<1> DEFINE v == Append(w, e)
<1>1. /\ DOMAIN w = 1 .. Len(w) /\ DOMAIN v = 1 .. Len(w) + 1
      /\ v[Len(w) + 1] = e /\ \A i \in 1 .. Len(w) : v[i] = w[i]
      /\ Len(w) \in Nat
  OBVIOUS
<1> HIDE DEF v
<1>2. 1 .. Len(w) + 1 = (1 .. Len(w)) \cup {Len(w) + 1}
  BY <1>1
<1>3. Told(v) = Told(w) \cup {e}
  BY <1>1, <1>2 DEF Told
<1> QED BY <1>3 DEF v

\* The events a state stands for are in order themselves: the first one whose
\* flag is unset has all its predecessors told.
LEMMA FirstUnset ==
  ASSUME NEW st \in CtrlStates, NEW told, NEW i \in DOMAIN Presupposes(st),
         \A k \in DOMAIN Presupposes(st) : k < i => Presupposes(st)[k] \in told
  PROVE  LET e == Presupposes(st)[i] IN
         /\ e \in EventTypes
         /\ e = "started" => "starting" \in told
         /\ e \in {"stopped", "crashed"} => {"starting", "started"} \subseteq told
         /\ e = "stopped" => st = "Stopped"
         /\ e = "crashed" => st = "Crashed"
<1>1. CASE st = "Starting"
  <2>1. Presupposes(st) = <<"starting">>
    BY <1>1 DEF Presupposes
  <2>2. i \in {1}
    BY <2>1
  <2> QED BY <1>1, <2>1, <2>2 DEF EventTypes
<1>2. CASE st = "Running"
  <2>1. Presupposes(st) = <<"starting", "started">>
    BY <1>2 DEF Presupposes
  <2>2. i \in {1, 2}
    BY <2>1
  <2> QED BY <1>2, <2>1, <2>2 DEF EventTypes
<1>3. CASE st = "Stopped"
  <2>1. Presupposes(st) = <<"starting", "started", "stopped">>
    BY <1>3 DEF Presupposes
  <2>2. i \in {1, 2, 3}
    BY <2>1
  <2> QED BY <1>3, <2>1, <2>2 DEF EventTypes
<1>4. CASE st = "Crashed"
  <2>1. Presupposes(st) = <<"starting", "started", "crashed">>
    BY <1>4 DEF Presupposes
  <2>2. i \in {1, 2, 3}
    BY <2>1
  <2> QED BY <1>4, <2>1, <2>2 DEF EventTypes
<1>5. CASE st \in {"Pending", "Stopping"}
  BY <1>5 DEF Presupposes
<1> QED BY <1>1, <1>2, <1>3, <1>4, <1>5 DEF CtrlStates

\* The CHOOSE of emit finds a least member.
LEMMA LeastUnset ==
  ASSUME NEW st \in CtrlStates, NEW U \in SUBSET DOMAIN Presupposes(st), U # {}
  PROVE  \E j \in U : \A k \in U : j <= k
<1>1. DOMAIN Presupposes(st) \subseteq {1, 2, 3}
  BY DEF Presupposes, CtrlStates
<1>2. CASE 1 \in U
  BY <1>1, <1>2
<1>3. CASE 1 \notin U /\ 2 \in U
  BY <1>1, <1>3
<1>4. CASE 1 \notin U /\ 2 \notin U
  BY <1>1, <1>4
<1> QED BY <1>2, <1>3, <1>4

\* What has been published of each process is in order, and its terminal events
\* are ends it has come to.
WordInv ==
  /\ events \in [Ids -> Seq(EventTypes)]
  /\ \A p \in Ids :
       /\ InOrder(events[p])
       /\ "stopped" \in Told(events[p]) => "Stopped" \in was[p]
       /\ "crashed" \in Told(events[p]) => "Crashed" \in was[p]

\* Only emit publishes, and the ends a handle has come to stay.
LEMMA OnlyEmit ==
  ASSUME TruthInv, [ManagerNext]_managerVars, ~emit
  PROVE  events' = events /\ \A q \in Ids : was[q] \subseteq was'[q]
<1> USE DEF procVars, watchVars, shutVars
<1>1. ASSUME NEW p \in Ids, HandleStep(p)
      PROVE  events' = events /\ \A q \in Ids : was[q] \subseteq was'[q]
  BY <1>1 DEF HandleStep, Register, RegisterReattached, StartBegins, StartReturns,
     ControllerMoves, Stop, Close, CloseReturns, TruthInv, ProcType
<1>2. CASE WatchStep
  BY <1>2 DEF WatchStep, Tick, WatchStopped, Visit, publishTransitionReturns, VisitsDone
<1>3. CASE ShutdownBegins \/ ShutdownStep
  BY <1>3 DEF ShutdownBegins, ShutdownStep, CloseWatchStop, ShutdownStops, ShutdownStopsDone,
     ShutdownCloses, ShutdownClosesDone, ShutdownEnds
<1>4. CASE UNCHANGED managerVars
  BY <1>4 DEF managerVars
<1> QED BY <1>1, <1>2, <1>3, <1>4 DEF ManagerNext

\* emit continues the word of the process the poll has found.
LEMMA WordEmit == ASSUME TruthInv, WordInv, emit PROVE WordInv'
<1> DEFINE p == found.id
           st == found.state
           i == CHOOSE j \in Unset(p, st) : \A k \in Unset(p, st) : j <= k
           e == Presupposes(st)[i]
<1>1. p \in Ids /\ st \in CtrlStates /\ {st} \cap Ended \subseteq was[p]
  BY DEF emit, TruthInv, PollType, Findings
<1>2. /\ events' = [events EXCEPT ![p] = Append(events[p], e)] /\ was' = was
      /\ Unset(p, st) # {}
  BY DEF emit, procVars
<1>3. Unset(p, st) \in SUBSET DOMAIN Presupposes(st)
  BY DEF Unset
<1>4. i \in Unset(p, st) /\ \A k \in Unset(p, st) : i <= k
  BY <1>1, <1>2, <1>3, LeastUnset
<1> HIDE DEF i
<1>5. /\ i \in DOMAIN Presupposes(st) /\ e \notin Told(events[p])
      /\ \A k \in DOMAIN Presupposes(st) : k < i => Presupposes(st)[k] \in Told(events[p])
  <2>1. DOMAIN Presupposes(st) \subseteq {1, 2, 3}
    BY <1>1 DEF Presupposes, CtrlStates
  <2> QED BY <1>4, <2>1 DEF Unset, Announced
<1>6. /\ e \in EventTypes
      /\ e = "started" => "starting" \in Told(events[p])
      /\ e \in {"stopped", "crashed"} => {"starting", "started"} \subseteq Told(events[p])
      /\ e = "stopped" => st = "Stopped"
      /\ e = "crashed" => st = "Crashed"
  BY <1>1, <1>5, FirstUnset
<1> HIDE DEF e, p, st
<1>7. InOrder(Append(events[p], e))
  BY <1>1, <1>5, <1>6, NextEvent DEF WordInv
<1>8. Told(Append(events[p], e)) = Told(events[p]) \cup {e}
  BY <1>1, <1>6, ToldAppend DEF WordInv
<1>9. ASSUME NEW q \in Ids
      PROVE  (/\ InOrder(events[q])
              /\ "stopped" \in Told(events[q]) => "Stopped" \in was[q]
              /\ "crashed" \in Told(events[q]) => "Crashed" \in was[q])'
  <2>1. CASE q = p
    BY <1>1, <1>2, <1>6, <1>7, <1>8, <2>1 DEF WordInv, Ended
  <2>2. CASE q # p
    BY <1>1, <1>2, <2>2 DEF WordInv
  <2> QED BY <2>1, <2>2
<1>10. events' \in [Ids -> Seq(EventTypes)]
  BY <1>1, <1>2, <1>6 DEF WordInv
<1> QED BY <1>9, <1>10 DEF WordInv

\* WordInv holds in every state the Manager reaches.
LEMMA WordInvariant == ManagerSpec => []WordInv
<1>1. NewManager => WordInv
  <2> SUFFICES ASSUME NewManager PROVE WordInv
    OBVIOUS
  <2>1. \A p \in Ids : events[p] = <<>>
    BY DEF NewManager
  <2>2. InOrder(<<>>) /\ Told(<<>>) = {}
    BY DEF InOrder, Told
  <2> QED BY <2>1, <2>2 DEF NewManager, WordInv
<1>2. TruthInv /\ WordInv /\ [ManagerNext]_managerVars => WordInv'
  <2> SUFFICES ASSUME TruthInv, WordInv, [ManagerNext]_managerVars PROVE WordInv'
    OBVIOUS
  <2>1. CASE ~emit
    BY <2>1, OnlyEmit DEF WordInv
  <2> QED BY <2>1, WordEmit
<1> QED BY <1>1, <1>2, TruthInvariant, PTL DEF ManagerSpec

\* publishTransition: for any processes, whatever the poll misses, each
\* lifecycle event is published once and after those it presupposes.
THEOREM LifecycleOrder == ManagerSpec => []PublishedInOrder
<1>1. WordInv => PublishedInOrder
  BY DEF WordInv, PublishedInOrder
<1> QED BY <1>1, WordInvariant, PTL

\* watchLoop and Status: a terminal event is published only of a handle that has
\* come to that end, for any processes.
THEOREM TerminalTruth == ManagerSpec => []PublishedWasTrue
<1>1. WordInv => PublishedWasTrue
  BY DEF WordInv, PublishedWasTrue, Announced
<1> QED BY <1>1, WordInvariant, PTL

\* Both together: publishTransition tells the life of every process in order and
\* truly, for any processes and any number of restarts.
THEOREM EventsTold == ManagerSpec => []EventsAreTrue
<1>1. PublishedInOrder /\ PublishedWasTrue => EventsAreTrue
  BY DEF EventsAreTrue
<1> QED BY <1>1, LifecycleOrder, TerminalTruth, PTL

-----------------------------------------------------------------------------
\* What Shutdown has let go of: the handles it found are all there were but for
\* late ones, and those it has closed are without a Controller.
ReleaseInv ==
  /\ handles \subseteq Ids /\ swept \subseteq snap /\ snap \subseteq handles
  /\ ctrl \in [Ids -> CtrlStates \cup {"nil"}]
  /\ \A p \in Ids \ handles : ctrl[p] = "nil" /\ p \notin starting
  /\ closed <=> shut # "idle"
  /\ closed => handles \ late \subseteq snap
  /\ shut \in {"join", "done"} => swept = snap
  /\ \A p \in swept \ late : ctrl[p] = "nil" /\ p \notin starting

\* Every call on a handle, and every move of its controller, keeps ReleaseInv.
LEMMA ReleaseHandle ==
  ASSUME ReleaseInv, NEW p \in Ids, HandleStep(p) PROVE ReleaseInv'
<1> USE DEF ReleaseInv, procVars, watchVars, shutVars
<1>1. CASE Register(p)
  BY <1>1 DEF Register
<1>2. CASE RegisterReattached(p)
  BY <1>2 DEF RegisterReattached, CtrlStates
<1>3. CASE StartBegins(p)
  BY <1>3 DEF StartBegins
<1>4. CASE StartReturns(p)
  BY <1>4 DEF StartReturns, CtrlStates
<1>5. CASE ControllerMoves(p)
  BY <1>5, NextStatesType DEF ControllerMoves, NextStates
<1>6. CASE Stop(p)
  BY <1>6 DEF Stop, MarkStopping, CtrlStates
<1>7. CASE Close(p)
  BY <1>7 DEF Close, Detach
<1>8. CASE CloseReturns(p)
  BY <1>8 DEF CloseReturns
<1> QED BY <1>1, <1>2, <1>3, <1>4, <1>5, <1>6, <1>7, <1>8 DEF HandleStep

\* Every step of Manager.Shutdown keeps ReleaseInv.
LEMMA ReleaseShutdown == ASSUME ReleaseInv, ShutdownBegins \/ ShutdownStep PROVE ReleaseInv'
<1> USE DEF ReleaseInv, procVars, watchVars
<1>1. CASE ShutdownBegins
  BY <1>1 DEF ShutdownBegins
<1>2. CASE CloseWatchStop \/ ShutdownStopsDone \/ ShutdownClosesDone \/ ShutdownEnds
  BY <1>2 DEF CloseWatchStop, ShutdownStopsDone, ShutdownClosesDone, ShutdownEnds
<1>3. ASSUME NEW p \in Ids, ShutdownStops(p) PROVE ReleaseInv'
  BY <1>3 DEF ShutdownStops, MarkStopping, CtrlStates
<1>4. ASSUME NEW p \in Ids, ShutdownCloses(p) PROVE ReleaseInv'
  BY <1>4 DEF ShutdownCloses, Detach
<1> QED BY <1>1, <1>2, <1>3, <1>4 DEF ShutdownStep

\* ReleaseInv holds in every state the Manager reaches.
LEMMA ReleaseInvariant == ManagerSpec => []ReleaseInv
<1>1. NewManager => ReleaseInv
  BY DEF NewManager, ReleaseInv
<1>2. ReleaseInv /\ [ManagerNext]_managerVars => ReleaseInv'
  <2> SUFFICES ASSUME ReleaseInv, [ManagerNext]_managerVars PROVE ReleaseInv'
    OBVIOUS
  <2>1. CASE WatchStep \/ UNCHANGED managerVars
    BY <2>1 DEF WatchStep, Tick, WatchStopped, Visit, publishTransitionReturns, VisitsDone, emit,
       managerVars, procVars, shutVars, ReleaseInv
  <2> QED BY <2>1, ReleaseHandle, ReleaseShutdown DEF ManagerNext
<1> QED BY <1>1, <1>2, PTL DEF ManagerSpec

\* Manager.Shutdown: for any processes, when it has returned no handle has a
\* Controller, except those that came or were started too late for it.
THEOREM ShutdownComplete == ManagerSpec => []ShutdownReleasesAll
<1>1. ReleaseInv => ShutdownReleasesAll
  BY DEF ReleaseInv, ShutdownReleasesAll
<1> QED BY <1>1, ReleaseInvariant, PTL

-----------------------------------------------------------------------------
\* The poll holds a finding only while it visits; once Shutdown has returned it
\* visits no more, a watcher started by a later Reattach included.
QuietInv ==
  /\ closed <=> shut # "idle"
  /\ found # NoneFound => watch = "visit"
  /\ shut = "done" => watch # "visit"

\* watchWG.Wait: nothing is published after Shutdown has returned.
THEOREM QuietAfterShutdown == ManagerSpec => NoEventAfterShutdown
<1> USE DEF QuietInv, procVars, watchVars, shutVars
<1>1. NewManager => QuietInv
  BY DEF NewManager
<1>2. QuietInv /\ [ManagerNext]_managerVars => QuietInv'
  <2> SUFFICES ASSUME QuietInv, [ManagerNext]_managerVars PROVE QuietInv'
    OBVIOUS
  <2>1. ASSUME NEW p \in Ids, HandleStep(p) PROVE QuietInv'
    BY <2>1 DEF HandleStep, Register, RegisterReattached, startWatcherOnce, StartBegins,
       StartReturns, ControllerMoves, Stop, Close, CloseReturns
  <2>2. CASE WatchStep
    BY <2>2 DEF WatchStep, Tick, WatchStopped, Visit, publishTransitionReturns, VisitsDone, emit
  <2>3. CASE ShutdownBegins \/ ShutdownStep
    BY <2>3 DEF ShutdownBegins, ShutdownStep, CloseWatchStop, ShutdownStops, ShutdownStopsDone,
       ShutdownCloses, ShutdownClosesDone, ShutdownEnds, WatcherEnded
  <2>4. CASE UNCHANGED managerVars
    BY <2>4 DEF managerVars
  <2> QED BY <2>1, <2>2, <2>3, <2>4 DEF ManagerNext
<1>3. QuietInv /\ TruthInv /\ [ManagerNext]_managerVars
        => [shut = "done" => found = NoneFound /\ UNCHANGED events]_managerVars
  <2> SUFFICES ASSUME QuietInv, TruthInv, [ManagerNext]_managerVars, shut = "done"
               PROVE  found = NoneFound /\ UNCHANGED events
    OBVIOUS
  <2>1. found = NoneFound
    OBVIOUS
  <2>2. ~emit
    BY <2>1 DEF emit
  <2> QED BY <2>1, <2>2, OnlyEmit
<1> QED BY <1>1, <1>2, <1>3, TruthInvariant, PTL DEF ManagerSpec, NoEventAfterShutdown
=============================================================================
