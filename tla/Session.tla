------------------------------- MODULE Session -------------------------------
(***************************************************************************)
(* One managed process from end to end: the host's processHandle and       *)
(* Controller, the cliwrap-agent process (agent.Run, Dispatcher, Runner)   *)
(* and the child it supervises.  Host goroutines start, stop, write to and *)
(* close the handle; the Conn's readLoop runs Controller.handleMessage on  *)
(* the host and Dispatcher.Handle in the agent; the agent also has its     *)
(* main goroutine and the runner's.                                        *)
(*                                                                         *)
(* Each direction of the connection is what FrameChannel promises: frames  *)
(* arrive in order and at most once; a frame still in an outbox is lost    *)
(* when its end goes, and with Overflow a send may leave its frame in the  *)
(* log for good.  Timers fire at any moment (StopCascade has the clock).   *)
(* HELLO frames, log chunks and PTY output carry no lifecycle state.       *)
(***************************************************************************)
EXTENDS Naturals, Sequences

CONSTANTS
  Stoppers,   \* host goroutines that may call Stop
  Specs,      \* the process specs to consider
  Mortal,     \* processes that may die on their own: "host", "agent"
  Overflow,   \* whether an outbox may be full
  MaxRequests \* bound: WriteInput, Resize and Signal calls

ASSUME SessionAssumption ==
  /\ Specs \subseteq [pty : BOOLEAN, persistent : BOOLEAN]
  /\ Mortal \subseteq {"host", "agent"} /\ Overflow \in BOOLEAN
  /\ MaxRequests \in Nat

VARIABLES
  spec,    \* the Spec of the process
  hstate,  \* Controller.state
  lost,    \* Controller.crashSource is CrashSourceConnectionLost
  hpc,     \* where processHandle.Start is
  caps,    \* Controller.features holds what the agent advertised
  capReply,\* a reply is in capReplyCh
  hconn,   \* the host's Conn
  hsock,   \* the host's end of the socket is open
  verdict, \* state handleMessage is about to set for a ChildExited, or "none"
  nextId,  \* numbers of frames that ask for an ack
  spc,     \* where each Stop call is
  stopId,  \* the number of its frame
  acked,   \* numbers whose ack has arrived
  cpc      \* where processHandle.Close is

VARIABLES
  hout, hwire, \* frames from the host: in its outbox, on the socket
  aout, awire, \* frames from the agent: in its outbox, on the socket
  logged       \* some frame found its outbox full and was left in the log

VARIABLES
  amain,       \* where agent.Run is
  aconn,       \* the agent's Conn
  sigterm,     \* SIGTERM has been delivered to the agent
  shutdownReq, \* Dispatcher.shutdownReq is closed
  arpc,        \* where Dispatcher.Handle is
  acur,        \* number of the frame it owes an ack, 0 for none
  rn,          \* where the runner goroutine is
  cancelFn,    \* Dispatcher.cancelFn is not nil
  cancelled,   \* the runner's context is done
  termed,      \* the runner has sent SIGTERM to the child
  ptyOn,       \* Runner.activePTY is not nil
  child,       \* the child process
  code         \* how it ended

\* What happened so far; no step of the program reads these.
VARIABLES
  ended,    \* the host has learnt of the child's end or lost the agent
  requests  \* PTY requests made

hostVars == <<hstate, lost, hpc, caps, capReply, hconn, hsock, verdict, cpc>>
stopVars == <<nextId, spc, stopId, acked>>
wireVars == <<hout, hwire, aout, awire, logged>>
mainVars == <<amain, aconn, sigterm, shutdownReq>>
handVars == <<arpc, acur>>
runVars == <<rn, cancelFn, cancelled, termed, ptyOn>>
childVars == <<spec, child, code>>
histVars == <<ended, requests>>
vars == <<hostVars, stopVars, wireVars, mainVars, handVars, runVars, childVars, histVars>>

PTYMode == spec.pty
Persistent == spec.persistent

Frame(type, id) == [type |-> type, id |-> id]

Init ==
  /\ spec \in Specs /\ logged = FALSE
  /\ hstate = "Pending" /\ lost = FALSE /\ caps = FALSE /\ capReply = FALSE /\ hsock = FALSE
  /\ hpc = "idle" /\ hconn = "none" /\ verdict = "none" /\ cpc = "no"
  /\ nextId = 1 /\ acked = {}
  /\ spc = [s \in Stoppers |-> "idle"] /\ stopId = [s \in Stoppers |-> 0]
  /\ hout = <<>> /\ hwire = <<>> /\ aout = <<>> /\ awire = <<>>
  /\ amain = "none" /\ aconn = "open"
  /\ sigterm = FALSE /\ shutdownReq = FALSE
  /\ arpc = "idle" /\ acur = 0
  /\ rn = "none" /\ cancelFn = FALSE /\ cancelled = FALSE /\ termed = FALSE /\ ptyOn = FALSE
  /\ child = "none" /\ code = "none"
  /\ ended = FALSE /\ requests = 0

Gone == amain \in {"returned", "killed"}

Up == amain # "none" /\ ~Gone

\* The agent's end of the socket is open.
AgentSock == Up /\ aconn # "closed"

-----------------------------------------------------------------------------
(* The connection *)

\* SendWithNewSeq on the host: refused once closed; a full outbox swallows it.
HostSend(f) ==
  \/ hout' = (IF hconn = "closed" THEN hout ELSE Append(hout, f)) /\ UNCHANGED logged
  \/ Overflow /\ logged' = TRUE /\ UNCHANGED hout

\* Dispatcher.SendControl; a Conn that has lost its peer queues for nobody.
SendControl(f) ==
  \/ aout' = (IF aconn = "open" THEN Append(aout, f) ELSE aout) /\ UNCHANGED logged
  \/ Overflow /\ logged' = TRUE /\ UNCHANGED aout

HostWrite ==
  /\ hconn = "open" /\ hsock /\ AgentSock /\ hout # <<>>
  /\ hwire' = Append(hwire, Head(hout))
  /\ hout' = Tail(hout)
  /\ UNCHANGED <<hostVars, stopVars, aout, awire, logged, mainVars, handVars, runVars, childVars,
                 histVars>>

AgentWrite ==
  /\ Up /\ aconn = "open" /\ hsock /\ aout # <<>>
  /\ awire' = Append(awire, Head(aout))
  /\ aout' = Tail(aout)
  /\ UNCHANGED <<hostVars, stopVars, hout, hwire, logged, mainVars, handVars, runVars, childVars,
                 histVars>>

\* The agent's readLoop hits the end of the stream; nobody registered a callback
\* there, so only its Conn stops.
AgentDisconnect ==
  /\ Up /\ aconn = "open" /\ arpc = "idle" /\ ~hsock /\ hwire = <<>>
  /\ aconn' = "lost"
  /\ UNCHANGED <<hostVars, stopVars, wireVars, amain, sigterm, shutdownReq,
                 handVars, runVars, childVars, histVars>>

\* The host's readLoop does, and the callback Start registered runs.
HostDisconnect ==
  /\ hconn = "open" /\ verdict = "none"
  /\ ~hsock \/ (~AgentSock /\ awire = <<>>)
  /\ hconn' = "lost"
  /\ lost' = TRUE
  /\ hstate' = "Crashed"
  /\ ended' = TRUE
  /\ UNCHANGED <<hpc, caps, capReply, hsock, verdict, cpc, stopVars, wireVars, mainVars,
                 handVars, runVars, childVars, requests>>

-----------------------------------------------------------------------------
(* processHandle.Start, which holds the handle's lock to the end, and the  *)
(* Controller.Start it calls                                               *)

StartBegin ==
  /\ hpc = "idle"
  /\ hpc' = "spawn"
  /\ hstate' = "Starting"
  /\ UNCHANGED <<lost, caps, capReply, hconn, hsock, verdict, cpc, stopVars, wireVars, mainVars,
                 handVars, runVars, childVars, histVars>>

\* cliwrap-agent starts and its Run gets as far as waiting for a reason to leave.
AgentBoots == amain' = "run"

\* Spawn and NewConn succeed; the Conn starts and the capability query is sent.
Spawn ==
  /\ hpc = "spawn"
  /\ hpc' = "negotiate"
  /\ AgentBoots
  /\ hconn' = "open" /\ hsock' = TRUE
  /\ HostSend(Frame("query", 0))
  /\ UNCHANGED <<hstate, lost, caps, capReply, verdict, cpc, stopVars, hwire, aout, awire,
                 aconn, sigterm, shutdownReq, handVars, runVars, childVars, histVars>>

SpawnFails ==
  /\ hpc = "spawn"
  /\ hpc' = "failed"
  /\ hstate' = "Crashed"
  /\ UNCHANGED <<lost, caps, capReply, hconn, hsock, verdict, cpc, stopVars, wireVars, mainVars,
                 handVars, runVars, childVars, histVars>>

\* AgentHandle.Close begins: it shuts the socket and sends SIGTERM.
TerminateAgent == hsock' = FALSE /\ sigterm' = TRUE

\* The agent runs but NewConn fails.
ConnFails ==
  /\ hpc = "spawn"
  /\ hpc' = "abort"
  /\ AgentBoots
  /\ TerminateAgent
  /\ UNCHANGED <<hstate, lost, caps, capReply, hconn, verdict, cpc, stopVars, wireVars, aconn,
                 shutdownReq, handVars, runVars, childVars, histVars>>

NegotiateReply ==
  /\ hpc = "negotiate" /\ capReply
  /\ caps' = TRUE
  /\ hpc' = "sendStart"
  /\ UNCHANGED <<hstate, lost, capReply, hconn, hsock, verdict, cpc, stopVars, wireVars,
                 mainVars, handVars, runVars, childVars, histVars>>

\* No reply in time means no features: a PTY spec is refused.
NegotiateTimeout ==
  /\ hpc = "negotiate"
  /\ hpc' = IF PTYMode THEN "abort" ELSE "sendStart"
  /\ IF PTYMode THEN TerminateAgent ELSE UNCHANGED <<hsock, sigterm>>
  /\ UNCHANGED <<hstate, lost, caps, capReply, hconn, verdict, cpc, stopVars, wireVars,
                 amain, aconn, shutdownReq, handVars, runVars, childVars, histVars>>

NegotiateCtxDone ==
  /\ hpc = "negotiate"
  /\ hpc' = "abort"
  /\ TerminateAgent
  /\ UNCHANGED <<hstate, lost, caps, capReply, hconn, verdict, cpc, stopVars, wireVars,
                 amain, aconn, shutdownReq, handVars, runVars, childVars, histVars>>

\* An agent that answered the query has all the features, one that did not none.
AgentSupports == caps

\* START_CHILD goes out, and a persistent spec is refused only afterwards.
SendStartChild ==
  /\ hpc = "sendStart"
  /\ HostSend(Frame("start", nextId))
  /\ nextId' = nextId + 1
  /\ hpc' = IF Persistent /\ ~AgentSupports THEN "refuse" ELSE "started"
  /\ UNCHANGED <<hstate, lost, caps, capReply, hconn, hsock, verdict, cpc, spc, stopId, acked,
                 hwire, aout, awire, mainVars, handVars, runVars, childVars, histVars>>

\* Controller.Close on behalf of the refusal.
RefusePersistent ==
  /\ hpc = "refuse" /\ verdict = "none"
  /\ hpc' = "reap"
  /\ hconn' = "closed" /\ hout' = <<>>
  /\ TerminateAgent
  /\ UNCHANGED <<hstate, lost, caps, capReply, verdict, cpc, stopVars, hwire, aout, awire, logged,
                 amain, aconn, shutdownReq, handVars, runVars, childVars, histVars>>

StartFails ==
  /\ hpc \in {"abort", "reap"} /\ Gone
  /\ hpc' = "failed"
  /\ hstate' = IF hpc = "abort" THEN "Crashed" ELSE hstate
  /\ UNCHANGED <<lost, caps, capReply, hconn, hsock, verdict, cpc, stopVars, wireVars, mainVars,
                 handVars, runVars, childVars, histVars>>

-----------------------------------------------------------------------------
(* Controller.handleMessage, on the host's readLoop *)

\* Mutant: a transient error is taken for the end of the child.
BugTransientCrashes == hstate' = "Crashed" /\ ended' = TRUE

HandleTransient == UNCHANGED <<hstate, ended>>

HandleFatal == hstate' = "Crashed" /\ ended' = TRUE

\* ChildExited is judged by the state it finds; the state is stored afterwards.
HandleMessage ==
  LET m == Head(awire) IN
  /\ hconn = "open" /\ hsock /\ verdict = "none" /\ awire # <<>>
  /\ awire' = Tail(awire)
  /\ \/ m.type = "caps" /\ capReply' = TRUE /\ UNCHANGED <<hstate, verdict, acked, ended>>
     \/ m.type = "started" /\ hstate' = "Running" /\ UNCHANGED <<capReply, verdict, acked, ended>>
     \/ /\ m.type \in {"exitZero", "exitOther"}
        /\ verdict' = IF hstate = "Stopping" \/ m.type = "exitZero" THEN "Stopped" ELSE "Crashed"
        /\ UNCHANGED <<hstate, capReply, acked, ended>>
     \/ m.type = "fatal" /\ HandleFatal /\ UNCHANGED <<capReply, verdict, acked>>
     \/ m.type = "transient" /\ HandleTransient /\ UNCHANGED <<capReply, verdict, acked>>
     \/ /\ m.type = "ack" /\ acked' = acked \cup {m.id}
        /\ UNCHANGED <<hstate, capReply, verdict, ended>>
  /\ UNCHANGED <<lost, hpc, caps, hconn, hsock, cpc, nextId, spc, stopId, hout, hwire, aout,
                 logged, mainVars, handVars, runVars, childVars, requests>>

StoreVerdict ==
  /\ verdict # "none"
  /\ hstate' = verdict
  /\ verdict' = "none"
  /\ ended' = TRUE
  /\ UNCHANGED <<lost, hpc, caps, capReply, hconn, hsock, cpc, stopVars, wireVars, mainVars,
                 handVars, runVars, childVars, requests>>

-----------------------------------------------------------------------------
(* processHandle.Stop and Controller.Stop *)

StopEnter(s) ==
  /\ hpc = "started" /\ cpc = "no" /\ spc[s] = "idle"
  /\ spc' = [spc EXCEPT ![s] = IF hstate = "Stopped" THEN "already" ELSE "mark"]
  /\ UNCHANGED <<hostVars, nextId, stopId, acked, wireVars, mainVars, handVars, runVars,
                 childVars, histVars>>

StopMark(s) ==
  /\ spc[s] = "mark"
  /\ spc' = [spc EXCEPT ![s] = "send"]
  /\ hstate' = "Stopping"
  /\ UNCHANGED <<lost, hpc, caps, capReply, hconn, hsock, verdict, cpc, nextId, stopId, acked,
                 wireVars, mainVars, handVars, runVars, childVars, ended, requests>>

\* What is left to do once the frame is dealt with: a persistent Stop polls.
AfterSend(done) == IF Persistent THEN "poll" ELSE done

\* With frame_ack the call waits, unless the outbox refuses the frame; without,
\* it is over once the frame is queued.
StopSend(s) ==
  /\ spc[s] = "send"
  /\ IF AgentSupports /\ hconn = "closed"
     THEN spc' = [spc EXCEPT ![s] = "err"] /\ UNCHANGED <<hout, logged, nextId, stopId>>
     ELSE /\ HostSend(Frame("stop", nextId))
          /\ nextId' = nextId + 1
          /\ stopId' = [stopId EXCEPT ![s] = nextId]
          /\ \E next \in IF ~AgentSupports THEN {AfterSend("sent")}
                       ELSE {"await"} \cup (IF hout' = hout THEN {"err"} ELSE {}) :
               spc' = [spc EXCEPT ![s] = next]
  /\ UNCHANGED <<hostVars, acked, hwire, aout, awire, mainVars, handVars, runVars, childVars,
                 histVars>>

StopAcked(s) ==
  /\ spc[s] = "await" /\ stopId[s] \in acked
  /\ spc' = [spc EXCEPT ![s] = AfterSend("acked")]
  /\ UNCHANGED <<hostVars, nextId, stopId, acked, wireVars, mainVars, handVars, runVars,
                 childVars, histVars>>

StopConnDone(s) ==
  /\ spc[s] = "await" /\ hconn \in {"lost", "closed"}
  /\ spc' = [spc EXCEPT ![s] = "err"]
  /\ UNCHANGED <<hostVars, nextId, stopId, acked, wireVars, mainVars, handVars, runVars,
                 childVars, histVars>>

\* The caller's context ends, or the persistent poll runs out of time.
StopGivesUp(s) ==
  /\ spc[s] \in {"await", "poll"}
  /\ spc' = [spc EXCEPT ![s] = "err"]
  /\ UNCHANGED <<hostVars, nextId, stopId, acked, wireVars, mainVars, handVars, runVars,
                 childVars, histVars>>

StopPolled(s) ==
  /\ spc[s] = "poll" /\ hstate \in {"Stopped", "Crashed"}
  /\ spc' = [spc EXCEPT ![s] = IF AgentSupports THEN "acked" ELSE "sent"]
  /\ UNCHANGED <<hostVars, nextId, stopId, acked, wireVars, mainVars, handVars, runVars,
                 childVars, histVars>>

\* processHandle.WriteInput, Resize and Signal: one frame, no ack.
PTYRequest ==
  /\ PTYMode /\ hpc = "started" /\ cpc = "no" /\ requests < MaxRequests
  /\ HostSend(Frame("pty", 0))
  /\ requests' = requests + 1
  /\ UNCHANGED <<hostVars, stopVars, hwire, aout, awire, mainVars, handVars, runVars, childVars,
                 ended>>

-----------------------------------------------------------------------------
(* processHandle.Close: the Conn, then for a session that is not           *)
(* persistent the agent's process                                          *)

CloseConn ==
  /\ hpc = "started" /\ cpc = "no" /\ verdict = "none"
  /\ cpc' = IF Persistent THEN "done" ELSE "conn"
  /\ hconn' = "closed" /\ hsock' = FALSE /\ hout' = <<>>
  /\ UNCHANGED <<hstate, lost, hpc, caps, capReply, verdict, stopVars, hwire, aout, awire,
                 logged, mainVars, handVars, runVars, childVars, histVars>>

CloseHandle ==
  /\ cpc = "conn"
  /\ cpc' = "wait"
  /\ TerminateAgent
  /\ UNCHANGED <<hstate, lost, hpc, caps, capReply, hconn, verdict, stopVars, wireVars, amain,
                 aconn, shutdownReq, handVars, runVars, childVars, histVars>>

CloseReaped ==
  /\ cpc = "wait" /\ Gone
  /\ cpc' = "done"
  /\ UNCHANGED <<hstate, lost, hpc, caps, capReply, hconn, hsock, verdict, stopVars, wireVars,
                 mainVars, handVars, runVars, childVars, histVars>>

\* AgentHandle.Close loses patience.
KillAgent ==
  /\ Up /\ (cpc = "wait" \/ hpc \in {"abort", "reap"})
  /\ amain' = "killed"
  /\ UNCHANGED <<hostVars, stopVars, wireVars, aconn, sigterm, shutdownReq, handVars,
                 runVars, childVars, histVars>>

-----------------------------------------------------------------------------
(* Dispatcher.Handle, on the agent's readLoop.  The ack a frame asked for  *)
(* is sent when its case is over.                                          *)

Handle ==
  LET m == Head(hwire) IN
  /\ Up /\ aconn = "open" /\ arpc = "idle" /\ hwire # <<>>
  /\ hwire' = Tail(hwire)
  /\ \/ /\ m.type = "query"
        /\ SendControl(Frame("caps", 0))
        /\ UNCHANGED <<arpc, acur, rn, cancelFn, cancelled>>
     \/ /\ m.type = "pty"
        /\ (ptyOn /\ UNCHANGED <<aout, logged>>) \/ SendControl(Frame("transient", 0))
        /\ UNCHANGED <<arpc, acur, rn, cancelFn, cancelled>>
     \/ /\ m.type = "start" /\ arpc' = "ack" /\ acur' = m.id
        /\ IF cancelFn
           THEN SendControl(Frame("transient", 0)) /\ UNCHANGED <<rn, cancelFn>>
           ELSE rn' = "launch" /\ cancelFn' = TRUE /\ UNCHANGED <<aout, logged>>
        /\ UNCHANGED cancelled
     \/ /\ m.type = "stop" /\ arpc' = IF cancelFn THEN "stopWait" ELSE "ack"
        /\ acur' = m.id
        /\ cancelled' = (cancelled \/ cancelFn)
        /\ UNCHANGED <<aout, logged, rn, cancelFn>>
  /\ UNCHANGED <<hostVars, stopVars, hout, awire, mainVars, termed, ptyOn, childVars, histVars>>

\* Mutant: the runner releases its waiters before it has reported.
BugReleaseEarly ==
  /\ Up /\ arpc = "stopWait" /\ rn \in {"reaped", "reported", "done"}
  /\ arpc' = "ack"
  /\ UNCHANGED <<hostVars, stopVars, wireVars, mainVars, acur, runVars, childVars, histVars>>

\* stopChild's wg.Wait returns.
StopWaited ==
  /\ Up /\ arpc = "stopWait" /\ rn = "done"
  /\ arpc' = "ack"
  /\ UNCHANGED <<hostVars, stopVars, wireVars, mainVars, acur, runVars, childVars, histVars>>

HandleAck ==
  /\ Up /\ arpc = "ack"
  /\ SendControl(Frame("ack", acur))
  /\ arpc' = "idle" /\ acur' = 0
  /\ UNCHANGED <<hostVars, stopVars, hout, hwire, awire, mainVars, runVars, childVars, histVars>>

-----------------------------------------------------------------------------
(* The runner goroutine of startChild *)

\* A PTY child is started under the context, which must not be done yet.
MayExec == ~(PTYMode /\ cancelled)

RunnerExec ==
  /\ Up /\ rn = "launch" /\ MayExec
  /\ rn' = "started"
  /\ child' = "running"
  /\ UNCHANGED <<hostVars, stopVars, wireVars, mainVars, handVars, cancelFn, cancelled, termed,
                 ptyOn, spec, code, histVars>>

RunnerExecFails ==
  /\ Up /\ rn = "launch"
  /\ rn' = "reported"
  /\ SendControl(Frame("fatal", 0))
  /\ UNCHANGED <<hostVars, stopVars, hout, hwire, awire, mainVars, handVars, cancelFn, cancelled,
                 termed, ptyOn, childVars, histVars>>

OnStarted ==
  /\ Up /\ rn = "started"
  /\ rn' = IF PTYMode THEN "register" ELSE "wait"
  /\ SendControl(Frame("started", 0))
  /\ UNCHANGED <<hostVars, stopVars, hout, hwire, awire, mainVars, handVars, cancelFn, cancelled,
                 termed, ptyOn, childVars, histVars>>

RegisterPTY ==
  /\ Up /\ rn = "register"
  /\ rn' = "wait"
  /\ ptyOn' = TRUE
  /\ UNCHANGED <<hostVars, stopVars, wireVars, mainVars, handVars, cancelFn, cancelled, termed,
                 childVars, histVars>>

\* The escalation goroutine of Run.
RunnerTerm ==
  /\ Up /\ ~PTYMode /\ rn = "wait" /\ cancelled /\ ~termed /\ child = "running"
  /\ termed' = TRUE
  /\ UNCHANGED <<hostVars, stopVars, wireVars, mainVars, handVars, rn, cancelFn, cancelled, ptyOn,
                 childVars, histVars>>

\* Mutant: the child is never killed.
BugNoKill == FALSE

\* Run kills when StopTimeout has passed since SIGTERM; exec.CommandContext
\* kills a PTY child as soon as the context is done.
RunnerKill ==
  /\ Up /\ child = "running"
  /\ IF PTYMode THEN cancelled ELSE termed
  /\ child' = "dead" /\ code' = "other"
  /\ UNCHANGED <<hostVars, stopVars, wireVars, mainVars, handVars, runVars, spec, histVars>>

\* A signal, and a status other than zero, give an exit code other than zero.
ExitCodes == {"zero", "other"}

\* The child ends by itself or of the SIGTERM.
ChildExits ==
  /\ child = "running"
  /\ child' = "dead"
  /\ code' \in ExitCodes
  /\ UNCHANGED <<hostVars, stopVars, wireVars, mainVars, handVars, runVars, spec, histVars>>

\* Mutant: the runner goes on without waiting for the child.
BugNoWait ==
  /\ Up /\ rn = "wait"
  /\ rn' = "reaped"
  /\ ptyOn' = FALSE
  /\ UNCHANGED <<hostVars, stopVars, wireVars, mainVars, handVars, cancelFn, cancelled, termed,
                 childVars, histVars>>

\* cmd.Wait returns.
RunnerReaps ==
  /\ Up /\ rn = "wait" /\ child = "dead"
  /\ rn' = "reaped"
  /\ ptyOn' = FALSE
  /\ UNCHANGED <<hostVars, stopVars, wireVars, mainVars, handVars, cancelFn, cancelled, termed,
                 childVars, histVars>>

\* Mutant: the end of the child is not reported.
BugNoReport ==
  /\ Up /\ rn = "reaped"
  /\ rn' = "reported"
  /\ UNCHANGED <<hostVars, stopVars, wireVars, mainVars, handVars, cancelFn, cancelled,
                 termed, ptyOn, childVars, histVars>>

\* ChildExited with the status, or ChildError if cmd.Wait failed for another
\* reason than the status.
RunnerReports ==
  /\ Up /\ rn = "reaped"
  /\ rn' = "reported"
  /\ \E t \in {IF code = "zero" THEN "exitZero" ELSE "exitOther", "fatal"} : SendControl(Frame(t, 0))
  /\ UNCHANGED <<hostVars, stopVars, hout, hwire, awire, mainVars, handVars, cancelFn, cancelled,
                 termed, ptyOn, childVars, histVars>>

\* Mutant: a persistent agent is not told that its child is gone.
BugNoShutdown ==
  /\ Up /\ rn = "reported"
  /\ rn' = "done"
  /\ cancelFn' = FALSE
  /\ UNCHANGED <<hostVars, stopVars, wireVars, mainVars, handVars, cancelled, termed, ptyOn,
                 childVars, histVars>>

RequestPersistentShutdown == shutdownReq' = Persistent

\* clearRunning, requestPersistentShutdown, and the deferred releases.
RunnerDone ==
  /\ Up /\ rn = "reported"
  /\ rn' = "done"
  /\ cancelFn' = FALSE
  /\ RequestPersistentShutdown
  /\ UNCHANGED <<hostVars, stopVars, wireVars, amain, aconn, sigterm, handVars, cancelled,
                 termed, ptyOn, childVars, histVars>>

-----------------------------------------------------------------------------
(* agent.Run *)

\* Mutant: a lost connection ends a persistent agent too.
BugWakeOnEOF ==
  /\ amain = "run" /\ (sigterm \/ shutdownReq \/ aconn = "lost")
  /\ amain' = "drain"
  /\ UNCHANGED <<hostVars, stopVars, wireVars, aconn, sigterm, shutdownReq, handVars,
                 runVars, childVars, histVars>>

AgentWakes ==
  /\ amain = "run" /\ (sigterm \/ shutdownReq)
  /\ amain' = "drain"
  /\ UNCHANGED <<hostVars, stopVars, wireVars, aconn, sigterm, shutdownReq, handVars,
                 runVars, childVars, histVars>>

\* Drain returns: the runner has released its token, or the budget is spent.
DrainReturns ==
  /\ amain = "drain"
  /\ amain' = "close"
  /\ UNCHANGED <<hostVars, stopVars, wireVars, aconn, sigterm, shutdownReq, handVars, runVars,
                 childVars, histVars>>

AgentConnClose ==
  /\ amain = "close"
  /\ amain' = "join"
  /\ aconn' = "closed" /\ aout' = <<>>
  /\ UNCHANGED <<hostVars, stopVars, hout, hwire, awire, logged, sigterm, shutdownReq, handVars,
                 runVars, childVars, histVars>>

\* Conn.Close joins readLoop, so a Handle in progress holds the process back.
AgentExits ==
  /\ amain = "join" /\ arpc = "idle"
  /\ amain' = "returned"
  /\ UNCHANGED <<hostVars, stopVars, wireVars, aconn, sigterm, shutdownReq, handVars,
                 runVars, childVars, histVars>>

\* The agent is killed from outside or fails.
AgentDies ==
  /\ "agent" \in Mortal /\ Up
  /\ amain' = "killed"
  /\ UNCHANGED <<hostVars, stopVars, wireVars, aconn, sigterm, shutdownReq, handVars, runVars,
                 childVars, histVars>>

\* The host process dies; the kernel closes its socket and nobody signals the agent.
HostDies ==
  /\ "host" \in Mortal /\ hpc # "dead"
  /\ hpc' = "dead" /\ cpc' = "done" /\ verdict' = "none"
  /\ spc' = [s \in Stoppers |-> IF spc[s] \in {"already", "acked", "sent"} THEN spc[s] ELSE "err"]
  /\ hconn' = "closed" /\ hsock' = FALSE /\ hout' = <<>>
  /\ UNCHANGED <<hstate, lost, caps, capReply, nextId, stopId, acked, hwire, aout, awire,
                 logged, mainVars, handVars, runVars, childVars, histVars>>

-----------------------------------------------------------------------------
StartStep ==
  \/ StartBegin \/ Spawn \/ SpawnFails \/ ConnFails \/ NegotiateReply \/ NegotiateTimeout
  \/ NegotiateCtxDone \/ SendStartChild \/ RefusePersistent \/ StartFails

StopStep(s) ==
  \/ StopEnter(s) \/ StopMark(s) \/ StopSend(s) \/ StopAcked(s) \/ StopConnDone(s)
  \/ StopGivesUp(s) \/ StopPolled(s)

ConnStep == HostWrite \/ AgentWrite \/ AgentDisconnect \/ HostDisconnect

HostReadStep == HandleMessage \/ StoreVerdict

CloseStep == CloseConn \/ CloseHandle \/ CloseReaped \/ KillAgent

HandleStep == Handle \/ StopWaited \/ HandleAck

RunnerStep ==
  \/ RunnerExec \/ RunnerExecFails \/ OnStarted \/ RegisterPTY \/ RunnerReaps
  \/ RunnerReports \/ RunnerDone

MainStep == AgentWakes \/ DrainReturns \/ AgentConnClose \/ AgentExits

Next ==
  \/ StartStep \/ (\E s \in Stoppers : StopStep(s)) \/ ConnStep \/ HostReadStep \/ PTYRequest
  \/ CloseStep \/ HandleStep \/ RunnerStep \/ RunnerTerm \/ RunnerKill \/ ChildExits
  \/ MainStep \/ AgentDies \/ HostDies

Spec == Init /\ [][Next]_vars

\* Goroutines that can run do, sockets move data, timers fire, the kernel
\* delivers signals.  Nothing makes an application call Stop or Close, a child
\* exit, or a process die.
Fairness ==
  /\ WF_vars(HostWrite) /\ WF_vars(AgentWrite)
  /\ WF_vars(AgentDisconnect) /\ WF_vars(HostDisconnect)
  /\ WF_vars(HostReadStep)
  /\ \A s \in Stoppers :
       WF_vars(StopMark(s) \/ StopSend(s) \/ StopAcked(s) \/ StopConnDone(s) \/ StopPolled(s))
  /\ WF_vars(CloseHandle \/ CloseReaped)
  /\ WF_vars(HandleStep)
  /\ WF_vars(RunnerStep)
  /\ WF_vars(RunnerTerm) /\ WF_vars(RunnerKill)
  /\ WF_vars(MainStep)

FairSpec == Spec /\ Fairness

-----------------------------------------------------------------------------
(* Properties *)

\* When Stop returns nil on the strength of the agent's ack, the child is dead
\* and the runner has finished with it (Controller.Stop's promise).
StopAckedMeansDead ==
  \A s \in Stoppers : spc[s] = "acked" => child # "running" /\ rn \in {"none", "done"}

\* The ack never overtakes the news of the child's end: by the time Stop returns
\* nil, handleMessage has recorded the exit of the child that was running, unless
\* a full outbox left a frame in the log.
StopAckedMeansReported ==
  \A s \in Stoppers : spc[s] = "acked" /\ child = "dead" => ended \/ logged

\* A nil from Stop means that it is over: the child is dead and, unless a frame
\* was left in a log, the host knows it.
StopAckedMeansOver == StopAckedMeansDead /\ StopAckedMeansReported

\* Once the host has learnt that the child ended or that the agent is lost, no
\* message makes the process look running again: the state has no sawtooth.
NoResurrection == ended => hstate # "Running"

\* A terminal state that does not come from a lost connection is the truth: no
\* child is left running, so a replacement may be started.
TerminalMeansDead ==
  hstate = "Stopped" \/ (hstate = "Crashed" /\ ~lost) => child # "running"

\* The agent of a persistent session ends by itself only after its child, no
\* matter what becomes of the host's connection.
PersistentOutlives ==
  Persistent /\ amain = "returned" /\ ~sigterm => child # "running"

\* "immediately after Stop returns, the child is reported as terminal".
StopAckedMeansTerminal ==
  \A s \in Stoppers : spc[s] = "acked" => hstate \in {"Stopped", "Crashed"}

\* The runner has seen the end of the child, or failed to start one.
Reaped == rn \in {"reaped", "reported", "done"}

\* In what follows nobody is stuck: a wait that must end is over again and again,
\* and none of them begins anew.

\* Stop does not hang: the agent's ack or the end of the connection releases it.
StopReturns == \A s \in Stoppers : []<>(spc[s] # "await")

\* The end of a child reaches the controller of a host that still listens.
ExitReported == []<>(Reaped /\ hconn \in {"open", "lost"} => ended)

\* A persistent agent whose child has ended leaves.
PersistentAgentLeaves == []<>(Persistent /\ Reaped => Gone)

\* Run "blocks until the IPC connection closes or ctx is canceled".
AgentLeavesWithConn == []<>(aconn = "lost" => Gone)
=============================================================================
