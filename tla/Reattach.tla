------------------------------ MODULE Reattach ------------------------------
(***************************************************************************)
(* Persistent sessions (CW-G4): the agent's session directory and accept   *)
(* loop (internal/agent/persistent.go, main.go), the output pump of its    *)
(* PTY child with the ring buffer, AdoptConn, and the hosts that reattach  *)
(* (Manager.Reattach, internal/controller/reattach.go).                    *)
(*                                                                         *)
(* Output is a sequence of numbered chunks.  An ipc.Conn is the queue of   *)
(* its outbox and the bytes on the socket, both in order; IpcConn has the  *)
(* rest: here the outbox is bounded, and what it has no room for goes to   *)
(* the log, which nobody reads back.  A host makes one attempt.            *)
(*                                                                         *)
(* The directory may hold the files of an agent that ran under the same id *)
(* before and has ended: meta.json after its Close, also pid and sock after *)
(* a crash.                                                                *)
(***************************************************************************)
EXTENDS Naturals, Sequences

CONSTANTS
  Boot,      \* the host that spawned the agent and holds the socketpair
  Hosts,     \* hosts that reattach
  MaxOut,    \* bound on the chunks the child writes
  RingCap,   \* chunks the ring buffer holds
  OutboxCap  \* frames the outbox of a Conn holds

ASSUME ReattachAssumption ==
  /\ Boot \notin Hosts
  /\ MaxOut \in Nat /\ RingCap \in Nat \ {0} /\ OutboxCap \in Nat

VARIABLES
  left,      \* files of an earlier agent: none, meta.json, or all ("crash")
  phase,     \* how far the agent has come with its session directory
  child,     \* the PTY child
  attached,  \* persistentState.attached, and the file .attached
  loop,      \* where runAcceptLoop is, and the host it serves
  current,   \* the host whose Conn is Dispatcher.conn
  pump,      \* where the OnData callback is, with its chunk and its Conn
  out,       \* chunks read from the PTY so far
  ring,      \* contents of the ring buffer
  queued,    \* outbox of the Conn to each host that reattached
  wire,      \* what is on the socket to it
  agentEnd,  \* the agent's end of the connection to each host
  hostEnd,   \* the host's end
  host,      \* where Manager.Reattach is, or its result
  stale,     \* the meta.json it has read is the earlier agent's
  dump,      \* the ring dump the host was given
  recv,      \* history: the chunks its Controller has fanned out
  hstate,    \* its Controller's state
  between,   \* history: chunks picked for an earlier Conn and put into the
             \* ring after the snapshot for this host
  spilled    \* history: frames its outbox had no room for (0: the exit)

agentVars == <<left, phase, child, attached, loop, current>>
pumpVars == <<pump, out, ring, between, spilled>>
hostVars == <<host, stale, dump, recv, hstate>>
connVars == <<queued, wire, agentEnd, hostEnd>>
reattachVars == <<agentVars, pumpVars, hostVars, connVars>>

All == Hosts \cup {Boot}

\* A frame and the chunks it carries.
Frame(t, chunks) == [type |-> t, body |-> chunks]

\* The loop at pc, serving h; old is the host whose Conn it has to close.
Loop(pc, h, old) == [pc |-> pc, host |-> h, old |-> old]

AtAccept == Loop("accept", Boot, Boot)

NoChunk == [pc |-> "idle", n |-> 0, to |-> Boot]

\* The agent's process has started; the socketpair is open.
ReattachInit ==
  /\ left \in {"none", "meta", "crash"}
  /\ phase = "boot"
  /\ child = "running"
  /\ attached = FALSE
  /\ loop = AtAccept
  /\ current = Boot
  /\ pump = NoChunk
  /\ out = 0
  /\ ring = <<>>
  /\ queued = [h \in Hosts |-> <<>>]
  /\ wire = [h \in Hosts |-> <<>>]
  /\ agentEnd = [h \in All |-> IF h = Boot THEN "open" ELSE "none"]
  /\ hostEnd = [h \in All |-> IF h = Boot THEN "open" ELSE "none"]
  /\ host = [h \in Hosts |-> "idle"]
  /\ stale = [h \in Hosts |-> FALSE]
  /\ dump = [h \in Hosts |-> <<>>]
  /\ recv = [h \in Hosts |-> <<>>]
  /\ hstate = [h \in Hosts |-> "none"]
  /\ between = [h \in Hosts |-> {}]
  /\ spilled = [h \in Hosts |-> {}]

Alive == phase # "dead"

-----------------------------------------------------------------------------
\* The agent's start and end.

\* initPersistent: meta.json first, then pid, then the listener.
WritePersistentMeta ==
  /\ phase = "boot"
  /\ phase' = "meta"
  /\ UNCHANGED <<pumpVars, hostVars, connVars, left, child, attached, loop, current>>

WritePidFile ==
  /\ phase = "meta"
  /\ phase' = "pid"
  /\ UNCHANGED <<pumpVars, hostVars, connVars, left, child, attached, loop, current>>

\* The sock of an earlier agent is removed, and net.ListenUnix binds, which
\* makes the file anew, and then listens.
Bind ==
  /\ phase = "pid"
  /\ phase' = "bound"
  /\ left' = "none"
  /\ UNCHANGED <<pumpVars, hostVars, connVars, child, attached, loop, current>>

Listen ==
  /\ phase = "bound"
  /\ phase' = "serving"
  /\ UNCHANGED <<pumpVars, hostVars, connVars, left, child, attached, loop, current>>

\* The child ends after its last output; startChild reports it as the pump
\* sends output, and shutdownReq wakes Run.
ChildEnds ==
  /\ phase = "serving" /\ child = "running" /\ pump = NoChunk
  /\ child' = "exited"
  /\ pump' = [pc |-> "send", n |-> 0, to |-> current]
  /\ UNCHANGED <<hostVars, connVars, left, phase, attached, loop, current, out, ring, between, spilled>>

\* Run closes the bootstrap Conn and, deferred, the session: the listener with
\* its backlog, sock and pid.  A Conn adopted since is left to the end of the
\* process.
CloseSession ==
  /\ phase = "leaving"
  /\ phase' = "deaf"
  /\ agentEnd' = [h \in All |-> IF h = Boot \/ agentEnd[h] = "backlog" THEN "closed" ELSE agentEnd[h]]
  /\ UNCHANGED <<pumpVars, hostVars, queued, wire, hostEnd, left, child, attached, loop, current>>

\* The process ends, by itself or killed: its sockets close, what is in its
\* outboxes is gone, what is on the wire can still be read.  Before meta.json
\* is written nobody could tell.
AgentEnds ==
  /\ Alive /\ phase # "boot"
  /\ phase' = "dead"
  /\ child' = "exited"
  /\ pump' = NoChunk
  /\ queued' = [h \in Hosts |-> <<>>]
  /\ agentEnd' = [h \in All |-> IF agentEnd[h] = "none" THEN "none" ELSE "closed"]
  /\ loop' = Loop("ended", Boot, Boot)
  /\ UNCHANGED <<hostVars, left, attached, current, out, ring, between, spilled, wire, hostEnd>>

-----------------------------------------------------------------------------
\* The accept loop.  onAttach runs in the loop itself.

Accept(h) ==
  /\ phase \in {"serving", "leaving"} /\ loop.pc = "accept"
  /\ agentEnd[h] = "backlog"
  /\ IF attached
       THEN /\ agentEnd' = [agentEnd EXCEPT ![h] = "closed"]
            /\ wire' = [wire EXCEPT ![h] = <<Frame("rejected", <<>>)>>]
            /\ UNCHANGED <<attached, loop>>
       ELSE /\ agentEnd' = [agentEnd EXCEPT ![h] = "open"]
            /\ attached' = TRUE
            /\ loop' = Loop("hello", h, Boot)
            /\ UNCHANGED wire
  /\ UNCHANGED <<pumpVars, hostVars, left, phase, child, current, queued, hostEnd>>

\* Accept fails when the listener is closed.
AcceptFails ==
  /\ phase = "deaf" /\ loop.pc = "accept"
  /\ loop' = Loop("ended", Boot, Boot)
  /\ UNCHANGED <<pumpVars, hostVars, connVars, left, phase, child, attached, current>>

\* Deferred in onAttach: the next host may come.
markDetached == attached' = FALSE /\ loop' = AtAccept

\* A frame of writeReattachHandshake, which fails if the host has gone.
Handshake(pc, frame, next) ==
  LET h == loop.host IN
  /\ Alive /\ loop.pc = pc
  /\ IF hostEnd[h] = "open"
       THEN /\ wire' = [wire EXCEPT ![h] = Append(@, frame)]
            /\ loop' = Loop(next, h, Boot)
            /\ UNCHANGED <<attached, agentEnd>>
       ELSE /\ agentEnd' = [agentEnd EXCEPT ![h] = "closed"]
            /\ markDetached
            /\ UNCHANGED wire
  /\ UNCHANGED <<hostVars, left, phase, child, current, queued, hostEnd>>

\* Mutant: the Conn is adopted before the handshake.
BugAdoptFirst ==
  /\ Alive /\ loop.pc = "hello" /\ hostEnd[loop.host] = "open"
  /\ wire' = [wire EXCEPT ![loop.host] = Append(@, Frame("hello", <<>>))]
  /\ loop' = Loop("snapshot", loop.host, Boot)
  /\ current' = loop.host
  /\ UNCHANGED <<pumpVars, hostVars, left, phase, child, attached, queued, agentEnd, hostEnd>>

SendHello == Handshake("hello", Frame("hello", <<>>), "snapshot") /\ UNCHANGED pumpVars

\* The snapshot of the ring, and the frame that carries it.
SendRingDump == Handshake("snapshot", Frame("dump", ring), "adopt") /\ UNCHANGED pumpVars

\* ipc.NewConn fails, on the directory of its log: the host is dropped, though
\* it may have both frames of the handshake by now.
NewConnFails ==
  /\ Alive /\ loop.pc = "adopt"
  /\ agentEnd' = [agentEnd EXCEPT ![loop.host] = "closed"]
  /\ markDetached
  /\ UNCHANGED <<pumpVars, hostVars, left, phase, child, current, queued, wire, hostEnd>>

\* AdoptConn: the new Conn takes over ...
AdoptConn ==
  /\ Alive /\ loop.pc = "adopt"
  /\ current' = loop.host
  /\ loop' = Loop("closeold", loop.host, current)
  /\ UNCHANGED <<pumpVars, hostVars, connVars, left, phase, child, attached>>

\* ... and the old one is closed; then newConn.Start.
CloseOldConn ==
  /\ Alive /\ loop.pc = "closeold"
  /\ agentEnd' = [agentEnd EXCEPT ![loop.old] = "closed"]
  /\ queued' = [h \in Hosts |-> IF h = loop.old THEN <<>> ELSE queued[h]]
  /\ loop' = Loop("wait", loop.host, Boot)
  /\ UNCHANGED <<pumpVars, hostVars, left, phase, child, attached, current, wire, hostEnd>>

\* Mutant: onAttach does not wait for the end of the Conn.
BugNoWait ==
  /\ Alive /\ loop.pc = "wait"
  /\ markDetached
  /\ UNCHANGED <<pumpVars, hostVars, connVars, left, phase, child, current>>

\* Mutant: the end of the host is not taken for the end of the Conn.
BugNeverDone ==
  /\ Alive /\ loop.pc = "wait" /\ agentEnd[loop.host] = "closed"
  /\ markDetached
  /\ UNCHANGED <<pumpVars, hostVars, connVars, left, phase, child, current>>

\* <-newConn.Done(): the host has gone and readLoop has seen it.
ConnDone ==
  /\ Alive /\ loop.pc = "wait" /\ hostEnd[loop.host] = "closed"
  /\ agentEnd' = [agentEnd EXCEPT ![loop.host] = "closed"]
  /\ queued' = [queued EXCEPT ![loop.host] = <<>>]
  /\ markDetached
  /\ UNCHANGED <<pumpVars, hostVars, left, phase, child, current, wire, hostEnd>>

-----------------------------------------------------------------------------
\* The OnData callback of runPTY, chunk by chunk: it picks the current Conn,
\* queues the chunk there and then writes it to the ring.

ReadChunk ==
  /\ phase = "serving" /\ child = "running" /\ pump = NoChunk /\ out < MaxOut
  /\ out' = out + 1
  /\ pump' = [pc |-> "send", n |-> out + 1, to |-> current]
  /\ UNCHANGED <<agentVars, hostVars, connVars, ring, between, spilled>>

\* The Conn to h keeps what it is given; it may have no room for it.
Takes(h) == h \in Hosts /\ agentEnd[h] = "open"

Full(h) == Len(queued[h]) >= OutboxCap

\* SendWithNewSeq.  What the outbox has no room for is spilled.  A Conn whose
\* end is closed keeps the frame to itself; of the frames to the first host
\* nothing is said here.
SendPTYData ==
  LET frame == IF pump.n = 0 THEN Frame("exited", <<>>) ELSE Frame("data", <<pump.n>>) IN
  /\ pump.pc = "send"
  /\ queued' = [h \in Hosts |->
                  IF h = pump.to /\ Takes(h) /\ ~Full(h) THEN Append(queued[h], frame) ELSE queued[h]]
  /\ spilled' = [h \in Hosts |->
                   IF h = pump.to /\ Takes(h) /\ Full(h) THEN spilled[h] \cup {pump.n} ELSE spilled[h]]
  /\ pump' = [pump EXCEPT !.pc = "ring"]
  /\ UNCHANGED <<agentVars, hostVars, wire, agentEnd, hostEnd, out, ring, between>>

Keep(q, n) == IF Len(q) = RingCap THEN Append(Tail(q), n) ELSE Append(q, n)

\* A snapshot was taken for h.
Snapped(h) == \/ loop.host = h /\ loop.pc \in {"adopt", "closeold", "wait"}
              \/ host[h] \in {"start", "done"}

WriteRing ==
  /\ pump.pc = "ring"
  /\ ring' = IF pump.n = 0 THEN ring ELSE Keep(ring, pump.n)
  /\ between' = [h \in Hosts |-> between[h] \cup IF Snapped(h) /\ pump.to # h THEN {pump.n} ELSE {}]
  /\ phase' = IF pump.n = 0 THEN "leaving" ELSE phase
  /\ pump' = NoChunk
  /\ UNCHANGED <<hostVars, connVars, left, child, attached, loop, current, out, spilled>>

\* writeLoop of the Conn to h, once started.
WriteFrame(h) ==
  /\ queued[h] # <<>> /\ agentEnd[h] = "open" /\ ~(loop.host = h /\ loop.pc = "closeold")
  /\ queued' = [queued EXCEPT ![h] = Tail(@)]
  /\ wire' = IF hostEnd[h] = "open" THEN [wire EXCEPT ![h] = Append(@, Head(queued[h]))] ELSE wire
  /\ UNCHANGED <<agentVars, pumpVars, hostVars, agentEnd, hostEnd>>

-----------------------------------------------------------------------------
\* Manager.Reattach on host h.

\* There is a meta.json, if only an earlier agent's.  It is written in place,
\* at the start and again by startChild, and cannot be parsed halfway.
ReadPersistentMeta(h) ==
  /\ host[h] = "idle"
  /\ \/ /\ phase # "boot" \/ left # "none"
        /\ host' = [host EXCEPT ![h] = "pid"]
        /\ stale' = [stale EXCEPT ![h] = phase = "boot"]
     \/ /\ phase \in {"boot", "serving", "dead"}
        /\ host' = [host EXCEPT ![h] = "ErrSessionNotFound"]
        /\ UNCHANGED stale
  /\ UNCHANGED <<agentVars, pumpVars, connVars, dump, recv, hstate>>

\* The pid that h looks at is the earlier agent's: from the file pid before
\* this agent writes it, without one from the meta.json it has read.
OldPid(h) ==
  IF phase \in {"boot", "meta"} /\ left = "crash" THEN TRUE
  ELSE phase \in {"boot", "meta", "deaf", "dead"} /\ stale[h]

\* Mutant: no pid file, no agent.
BugNoPidFallback(h) ==
  /\ host[h] = "pid"
  /\ host' = [host EXCEPT ![h] = IF Alive /\ phase # "meta" THEN "dial" ELSE "ErrAgentDead"]
  /\ UNCHANGED <<agentVars, pumpVars, connVars, stale, dump, recv, hstate>>

\* The pid of a dead agent may by now belong to another process.
CheckPid(h) ==
  /\ host[h] = "pid"
  /\ \E reused \in BOOLEAN :
       host' = [host EXCEPT ![h] = IF reused \/ (Alive /\ ~OldPid(h)) THEN "dial" ELSE "ErrAgentDead"]
  /\ UNCHANGED <<agentVars, pumpVars, connVars, stale, dump, recv, hstate>>

Listening == phase \in {"serving", "leaving"}

\* Without a listener sock is missing (ErrSessionNotFound), or there is one and
\* it refuses: bound and not yet open, or left behind by a crash, of this agent
\* or of an earlier one.  ctx may end first.  Every error but the first is
\* joined with ErrAgentDead.
DialErrors ==
  {"ErrAgentDead, ctx"}
    \cup {err \in {"ErrSessionNotFound"} : phase \in {"boot", "meta", "pid", "deaf", "dead"}}
    \cup {err \in {"ErrAgentDead"} : phase \in {"bound", "deaf", "dead"} \/ left = "crash"}

\* A listener takes the connection into its backlog.
Dial(h) ==
  /\ host[h] = "dial"
  /\ \/ /\ Listening
        /\ host' = [host EXCEPT ![h] = "hello"]
        /\ hostEnd' = [hostEnd EXCEPT ![h] = "open"]
        /\ agentEnd' = [agentEnd EXCEPT ![h] = "backlog"]
     \/ /\ \E err \in DialErrors : host' = [host EXCEPT ![h] = err]
        /\ UNCHANGED <<hostEnd, agentEnd>>
  /\ UNCHANGED <<agentVars, pumpVars, queued, wire, stale, dump, recv, hstate>>

HangUp(h, result) ==
  /\ host' = [host EXCEPT ![h] = result]
  /\ hostEnd' = [hostEnd EXCEPT ![h] = "closed"]

\* ReadHandshakeHello, and StartedAt compared with that of meta.json.
ReadHello(h) ==
  /\ host[h] = "hello" /\ wire[h] # <<>>
  /\ wire' = [wire EXCEPT ![h] = Tail(@)]
  /\ IF Head(wire[h]).type = "hello" /\ ~stale[h]
       THEN host' = [host EXCEPT ![h] = "dump"] /\ UNCHANGED hostEnd
       ELSE HangUp(h, IF Head(wire[h]).type = "hello" THEN "ErrAgentDead" ELSE "ErrIncompatibleAgent")
  /\ UNCHANGED <<agentVars, pumpVars, queued, agentEnd, stale, dump, recv, hstate>>

\* ReadHandshakePTYRingDump, then NewControllerFromReattach up to conn.Start.
ReadRingDump(h) ==
  /\ host[h] = "dump" /\ wire[h] # <<>>
  /\ dump' = [dump EXCEPT ![h] = Head(wire[h]).body]
  /\ wire' = [wire EXCEPT ![h] = Tail(@)]
  /\ host' = [host EXCEPT ![h] = "start"]
  /\ UNCHANGED <<agentVars, pumpVars, queued, agentEnd, hostEnd, stale, recv, hstate>>

\* The handshake ends early: the agent has hung up, or the deadline of ctx has
\* passed.
HandshakeFails(h) ==
  /\ host[h] \in {"hello", "dump"}
  /\ HangUp(h, "ErrIncompatibleAgent")
  /\ UNCHANGED <<agentVars, pumpVars, queued, wire, agentEnd, stale, dump, recv, hstate>>

\* setState(StateRunning), after conn.Start, and the registration.
SetRunning(h) ==
  /\ host[h] = "start"
  /\ host' = [host EXCEPT ![h] = "done"]
  /\ hstate' = [hstate EXCEPT ![h] = "Running"]
  /\ UNCHANGED <<agentVars, pumpVars, connVars, stale, dump, recv>>

Attached(h) == host[h] \in {"start", "done"} /\ hostEnd[h] = "open"

\* readLoop and handleMessage
HandleMessage(h) ==
  /\ Attached(h) /\ wire[h] # <<>>
  /\ wire' = [wire EXCEPT ![h] = Tail(@)]
  /\ IF Head(wire[h]).type = "exited"
       THEN /\ \E s \in {"Stopped", "Crashed"} : hstate' = [hstate EXCEPT ![h] = s]
            /\ UNCHANGED recv
       ELSE /\ recv' = [recv EXCEPT ![h] = @ \o Head(wire[h]).body]
            /\ UNCHANGED hstate
  /\ UNCHANGED <<agentVars, pumpVars, queued, agentEnd, hostEnd, host, stale, dump>>

\* Mutant: the callback is taken away once the handle is registered.
BugDisconnectOnlyEarly(h) ==
  /\ host[h] = "start" /\ hostEnd[h] = "open" /\ wire[h] = <<>> /\ agentEnd[h] = "closed"
  /\ hstate' = [hstate EXCEPT ![h] = "Crashed"]
  /\ hostEnd' = [hostEnd EXCEPT ![h] = "closed"]
  /\ UNCHANGED <<agentVars, pumpVars, queued, wire, agentEnd, host, stale, dump, recv>>

\* The disconnect callback.
Disconnected(h) ==
  /\ Attached(h) /\ wire[h] = <<>> /\ agentEnd[h] = "closed"
  /\ hstate' = [hstate EXCEPT ![h] = "Crashed"]
  /\ hostEnd' = [hostEnd EXCEPT ![h] = "closed"]
  /\ UNCHANGED <<agentVars, pumpVars, queued, wire, agentEnd, host, stale, dump, recv>>

\* CloseConnOnly, or the death of the host.
Detach(h) ==
  /\ hostEnd[h] = "open" /\ (h \in Hosts => host[h] = "done")
  /\ hostEnd' = [hostEnd EXCEPT ![h] = "closed"]
  /\ UNCHANGED <<agentVars, pumpVars, hostVars, queued, wire, agentEnd>>

-----------------------------------------------------------------------------
LoopStep ==
  \/ \E h \in Hosts : Accept(h)
  \/ AcceptFails
  \/ SendHello
  \/ SendRingDump
  \/ NewConnFails
  \/ AdoptConn
  \/ CloseOldConn
  \/ ConnDone

PumpStep == ReadChunk \/ SendPTYData \/ WriteRing

HostStep(h) ==
  \/ ReadPersistentMeta(h)
  \/ CheckPid(h)
  \/ Dial(h)
  \/ ReadHello(h)
  \/ ReadRingDump(h)
  \/ HandshakeFails(h)
  \/ SetRunning(h)
  \/ HandleMessage(h)
  \/ Disconnected(h)

ReattachNext ==
  \/ WritePersistentMeta
  \/ WritePidFile
  \/ Bind
  \/ Listen
  \/ ChildEnds
  \/ CloseSession
  \/ AgentEnds
  \/ LoopStep
  \/ PumpStep
  \/ \E h \in Hosts : WriteFrame(h) \/ HostStep(h)
  \/ \E h \in All : Detach(h)

ReattachSpec == ReattachInit /\ [][ReattachNext]_reattachVars

\* The goroutines of a living agent run on; so do the calls of a host, whose
\* handshake reads wait for the agent.
ReattachFairSpec ==
  /\ ReattachSpec
  /\ WF_reattachVars(LoopStep)
  /\ WF_reattachVars(SendPTYData \/ WriteRing)
  /\ WF_reattachVars(CloseSession)
  /\ \A h \in Hosts :
       WF_reattachVars(ReadHello(h) \/ ReadRingDump(h) \/ SetRunning(h) \/ HandleMessage(h)
                         \/ Disconnected(h))

-----------------------------------------------------------------------------
\* A reattached host is not thrown out: once its Conn has taken over, the
\* connection ends because it left, or with the agent.  The accept loop serves
\* the next one only after that.  Until then the agent may give up on it: a
\* host that has both frames of the handshake, and believes itself attached,
\* is dropped when no Conn can be made for it.  The host that spawned the agent
\* is not protected at all.
NoTakeover ==
  [][\A h \in Hosts :
       agentEnd[h] = "open" /\ agentEnd'[h] # "open" =>
         hostEnd[h] = "closed" \/ phase' = "dead" \/ NewConnFails]_reattachVars

\* Since the loop waits for the attached host, none is ever turned away with
\* ALREADY_ATTACHED: it waits in the backlog.
NoneRejected == \A h \in Hosts : \A i \in DOMAIN wire[h] : wire[h][i].type # "rejected"

\* This agent has ended or closed its listener.
Ended == phase \in {"deaf", "dead"}

\* A verdict of death on a living agent: pid or sock are still the ones a crash
\* left behind, or the new sock is bound and not yet open.
TooEarly == left = "crash" \/ phase = "bound"

\* ErrAgentDead is the truth, unless ctx ended the dial: the agent whose
\* meta.json was read has ended or stopped listening, and for good, however
\* files and agents changed while Reattach looked at one after the other.
\* Two windows of an agent's start are excepted.
DeadVerdictIsTrue ==
  [][/\ \A h \in Hosts :
          host[h] # "ErrAgentDead" /\ host'[h] = "ErrAgentDead" => Ended \/ stale[h] \/ TooEarly
     /\ Ended => Ended']_reattachVars

\* A host in the backlog is served when the attached one has left: it does
\* not wait for ever, unless another one stays or the agent ends.
BacklogIsServed ==
  \A h \in Hosts :
    []<>(agentEnd[h] # "backlog" \/ ~Alive \/ \E g \in Hosts \ {h} : hostEnd[g] = "open")

\* The end of the session is noticed: the Controller of a host whose session
\* has ended leaves Running, unless the news came between conn.Start and
\* setState(StateRunning), which then overwrites it.
EndIsNoticed ==
  \A h \in Hosts :
    []<>(host[h] = "done" /\ ~Alive => hstate[h] # "Running" \/ hostEnd[h] = "closed")
=============================================================================
