---------------------------- MODULE ReattachProofs ----------------------------
(***************************************************************************)
(* Who may be attached, for any number of hosts, any output and any ring.  *)
(* LoopInv relates the accept loop, the attach lock and the Conn in use:   *)
(* the lock is held exactly while the loop serves a host, and the Conn the *)
(* loop is about to replace is the first one or has already ended.         *)
(***************************************************************************)
EXTENDS Reattach, TLAPS

Places == {"idle", "pid", "dial", "hello", "dump", "start", "done", "ErrSessionNotFound",
           "ErrAgentDead", "ErrAgentDead, ctx", "ErrIncompatibleAgent"}

\* Places before the dial.
Early == {"idle", "pid", "dial"}

Serving == {"hello", "snapshot", "adopt", "closeold", "wait"}

LoopType ==
  /\ loop \in [pc : Serving \cup {"accept", "ended"}, host : All, old : All]
  /\ loop.pc \in Serving => loop.host \in Hosts
  /\ current \in All
  /\ agentEnd \in [All -> {"none", "backlog", "open", "closed"}]
  /\ hostEnd \in [All -> {"none", "open", "closed"}]
  /\ attached \in BOOLEAN
  /\ host \in [Hosts -> Places]

\* The Conn of g is over for the agent, or g is the host that spawned it.
Over(g) == g = Boot \/ agentEnd[g] = "closed"

LoopInv ==
  /\ LoopType
  /\ loop.pc = "accept" => ~attached
  /\ \A h \in Hosts : agentEnd[h] = "open" <=> loop.pc \in Serving /\ loop.host = h
  /\ \A h \in Hosts : agentEnd[h] # "none" => hostEnd[h] # "none"
  /\ \A h \in Hosts : host[h] \in Early => agentEnd[h] = "none"
  /\ loop.pc \in {"hello", "snapshot", "adopt", "accept"} => Over(current)
  /\ loop.pc \in {"closeold", "wait"} => current = loop.host
  /\ loop.pc = "closeold" => Over(loop.old)

\* At the start the accept loop waits and no host has dialled.
LEMMA LoopInit == ReattachInit => LoopInv
<1> SUFFICES ASSUME ReattachInit PROVE LoopInv
  OBVIOUS
<1>1. /\ loop = [pc |-> "accept", host |-> Boot, old |-> Boot] /\ Boot \in All /\ current = Boot
      /\ attached = FALSE
  BY DEF ReattachInit, AtAccept, Loop, All
<1>2. /\ agentEnd = [h \in All |-> IF h = Boot THEN "open" ELSE "none"]
      /\ hostEnd = [h \in All |-> IF h = Boot THEN "open" ELSE "none"]
  BY DEF ReattachInit
<1>3. \A h \in Hosts : agentEnd[h] = "none"
  BY <1>2, ReattachAssumption DEF All
<1>4. host \in [Hosts -> Places]
  BY DEF ReattachInit, Places
<1>5. /\ agentEnd \in [All -> {"none", "backlog", "open", "closed"}]
      /\ hostEnd \in [All -> {"none", "open", "closed"}]
  BY <1>2
<1>6. loop \in [pc : Serving \cup {"accept", "ended"}, host : All, old : All] /\ loop.pc \notin Serving
  BY <1>1 DEF Serving
<1>7. LoopType
  BY <1>1, <1>4, <1>5, <1>6 DEF LoopType
<1> QED BY <1>1, <1>3, <1>6, <1>7 DEF LoopInv, Over

\* Steps that leave the loop, the lock and the agent's ends alone.
LEMMA LoopFrame ==
  ASSUME LoopInv, UNCHANGED <<attached, loop, current, agentEnd>>,
         hostEnd' = hostEnd \/ (\E h \in All : hostEnd' = [hostEnd EXCEPT ![h] = "closed"]),
         host' = host \/ (host' \in [Hosts -> Places] /\ \A g \in Hosts : host'[g] \in Early => host[g] \in Early)
  PROVE  LoopInv'
<1>1. hostEnd' \in [All -> {"none", "open", "closed"}] /\ \A g \in All : hostEnd[g] # "none" => hostEnd'[g] # "none"
  BY DEF LoopInv, LoopType
<1>2. host' \in [Hosts -> Places] /\ \A g \in Hosts : host'[g] \in Early => host[g] \in Early
  BY DEF LoopInv, LoopType
<1>3. LoopType'
  BY <1>1, <1>2 DEF LoopInv, LoopType
<1> QED BY <1>1, <1>2, <1>3 DEF LoopInv, Over, All

\* The loop is done with its host and goes back to Accept.
LEMMA LoopServed ==
  ASSUME LoopInv, loop.host \in Hosts, loop.pc \in Serving, Over(current) \/ current = loop.host,
         agentEnd' = [agentEnd EXCEPT ![loop.host] = "closed"],
         loop' = [pc |-> "accept", host |-> Boot, old |-> Boot], attached' = FALSE,
         UNCHANGED <<current, hostEnd, host>>
  PROVE  LoopInv'
<1>1. /\ \A g \in Hosts : agentEnd'[g] # "open" /\ (agentEnd'[g] # "none" <=> agentEnd[g] # "none")
      /\ agentEnd' \in [All -> {"none", "backlog", "open", "closed"}]
  BY DEF LoopInv, LoopType, All
<1>2. Over(current)'
  BY DEF LoopInv, LoopType, Over, All
<1>3. loop'.pc = "accept" /\ "accept" \notin Serving /\ Boot \in All
  BY DEF Serving, All
<1>4. LoopType'
  BY <1>1, <1>3 DEF LoopInv, LoopType
<1> QED BY <1>1, <1>2, <1>3, <1>4 DEF LoopInv

\* A frame of the handshake goes out, or the host has gone and the lock is
\* released.
LEMMA LoopHandshake ==
  ASSUME LoopInv, NEW pc \in {"hello", "snapshot"}, NEW next \in {"snapshot", "adopt"}, NEW frame,
         Handshake(pc, frame, next)
  PROVE  LoopInv'
<1> DEFINE h == loop.host
<1>1. /\ h \in Hosts /\ loop.pc = pc /\ current' = current /\ hostEnd' = hostEnd
      /\ host' = host /\ Over(current) /\ h \in All /\ Boot \in All
  BY DEF Handshake, LoopInv, LoopType, Serving, All, hostVars
<1>2. CASE hostEnd[h] = "open"
  <2>1. loop' = [pc |-> next, host |-> h, old |-> Boot] /\ UNCHANGED <<attached, agentEnd>>
    BY <1>2 DEF Handshake, Loop
  <2> QED BY <1>1, <2>1 DEF LoopInv, LoopType, Serving, Over
<1>3. CASE hostEnd[h] # "open"
  <2>1. /\ loop' = [pc |-> "accept", host |-> Boot, old |-> Boot] /\ attached' = FALSE
        /\ agentEnd' = [agentEnd EXCEPT ![h] = "closed"]
    BY <1>3 DEF Handshake, markDetached, AtAccept, Loop
  <2> QED BY <1>1, <2>1, LoopServed DEF Serving
<1> QED BY <1>2, <1>3

\* The loop's own steps.
LEMMA LoopLoop == ASSUME LoopInv, LoopStep PROVE LoopInv'
<1>1. ASSUME NEW h \in Hosts, Accept(h) PROVE LoopInv'
  BY <1>1, ReattachAssumption DEF Accept, LoopInv, LoopType, Loop, Serving, All, Over, hostVars
<1>2. CASE AcceptFails
  BY <1>2 DEF AcceptFails, LoopInv, LoopType, Loop, Serving, All, Over, hostVars, connVars
<1>3. CASE SendHello
  BY <1>3, LoopHandshake DEF SendHello
<1>4. CASE SendRingDump
  BY <1>4, LoopHandshake DEF SendRingDump
<1>5. CASE AdoptConn
  BY <1>5 DEF AdoptConn, LoopInv, LoopType, Loop, Serving, Over, hostVars, connVars
<1>6. CASE CloseOldConn
  BY <1>6, ReattachAssumption DEF CloseOldConn, LoopInv, LoopType, Loop, Serving, All, Over, hostVars
<1>7. CASE ConnDone
  <2>1. /\ loop.host \in Hosts /\ loop.pc \in Serving /\ current = loop.host
        /\ agentEnd' = [agentEnd EXCEPT ![loop.host] = "closed"]
        /\ loop' = [pc |-> "accept", host |-> Boot, old |-> Boot] /\ attached' = FALSE
        /\ UNCHANGED <<current, hostEnd, host>>
    BY <1>7 DEF ConnDone, markDetached, AtAccept, Loop, LoopInv, LoopType, Serving, hostVars
  <2> QED BY <2>1, LoopServed
<1>8. CASE NewConnFails
  <2>1. /\ loop.host \in Hosts /\ loop.pc \in Serving /\ Over(current)
        /\ agentEnd' = [agentEnd EXCEPT ![loop.host] = "closed"]
        /\ loop' = [pc |-> "accept", host |-> Boot, old |-> Boot] /\ attached' = FALSE
        /\ UNCHANGED <<current, hostEnd, host>>
    BY <1>8 DEF NewConnFails, markDetached, AtAccept, Loop, LoopInv, LoopType, Serving, hostVars
  <2> QED BY <2>1, LoopServed
<1> QED BY <1>1, <1>2, <1>3, <1>4, <1>5, <1>6, <1>7, <1>8 DEF LoopStep

\* The start and the end of the agent, and the pump.
LEMMA LoopAgent ==
  ASSUME LoopInv,
         \/ WritePersistentMeta \/ WritePidFile \/ Bind \/ Listen \/ ChildEnds \/ CloseSession \/ AgentEnds
         \/ PumpStep \/ (\E h \in Hosts : WriteFrame(h))
  PROVE  LoopInv'
<1>1. CASE CloseSession
  BY <1>1, ReattachAssumption DEF CloseSession, LoopInv, LoopType, Serving, All, Over, hostVars
<1>2. CASE AgentEnds
  BY <1>2 DEF AgentEnds, Loop, LoopInv, LoopType, Serving, All, Over, hostVars
<1>3. CASE WritePersistentMeta \/ WritePidFile \/ Bind \/ Listen \/ ChildEnds
  <2>1. UNCHANGED <<attached, loop, current, agentEnd, hostEnd, host>>
    BY <1>3, Zenon DEF WritePersistentMeta, WritePidFile, Bind, Listen, ChildEnds, connVars, hostVars
  <2> QED BY <2>1, LoopFrame
<1>4. CASE PumpStep \/ (\E h \in Hosts : WriteFrame(h))
  <2>1. UNCHANGED <<attached, loop, current, agentEnd, hostEnd, host>>
    BY <1>4, Zenon DEF PumpStep, ReadChunk, SendPTYData, WriteRing, WriteFrame, agentVars, connVars, hostVars
  <2> QED BY <2>1, LoopFrame
<1> QED BY <1>1, <1>2, <1>3, <1>4

-----------------------------------------------------------------------------
\* What a step of host h leaves alone, and what it does to its connection.
LEMMA HostFrame ==
  ASSUME NEW h \in Hosts, HostStep(h)
  PROVE  /\ UNCHANGED <<left, phase, attached, loop, current, pump, out, ring, between, spilled, queued>>
         /\ wire' = wire \/ (wire[h] # <<>> /\ wire' = [wire EXCEPT ![h] = Tail(@)])
         /\ \/ Dial(h)
            \/ agentEnd' = agentEnd /\ (hostEnd' = hostEnd \/ hostEnd' = [hostEnd EXCEPT ![h] = "closed"])
<1>1. CASE ReadPersistentMeta(h) \/ CheckPid(h)
  BY <1>1, Zenon DEF ReadPersistentMeta, CheckPid, agentVars, pumpVars, connVars
<1>2. CASE Dial(h)
  BY <1>2, Zenon DEF Dial, agentVars, pumpVars
<1>3. CASE ReadHello(h)
  BY <1>3, Zenon DEF ReadHello, HangUp, agentVars, pumpVars
<1>4. CASE ReadRingDump(h) \/ HandshakeFails(h)
  BY <1>4, Zenon DEF ReadRingDump, HandshakeFails, HangUp, agentVars, pumpVars
<1>5. CASE SetRunning(h)
  BY <1>5, Zenon DEF SetRunning, agentVars, pumpVars, connVars
<1>6. CASE HandleMessage(h) \/ Disconnected(h)
  BY <1>6, Zenon DEF HandleMessage, Disconnected, agentVars, pumpVars
<1> QED BY <1>1, <1>2, <1>3, <1>4, <1>5, <1>6, Zenon DEF HostStep

\* Where a step takes host h: never back before its dial, and to the verdict
\* ErrAgentDead only when that is true or too early.
LEMMA PlaceStep ==
  ASSUME host \in [Hosts -> Places], NEW h \in Hosts, HostStep(h)
  PROVE  /\ host' \in [Hosts -> Places]
         /\ \A g \in Hosts : host'[g] \in Early => host[g] \in Early
         /\ Dial(h) => host'[h] \notin Early
         /\ \A g \in Hosts : host'[g] = "ErrAgentDead" =>
              host[g] = "ErrAgentDead" \/ Ended \/ stale[g] \/ TooEarly
<1> DEFINE Goes(r) == /\ r \in Places /\ host' = [host EXCEPT ![h] = r]
                      /\ r \in Early => host[h] \in Early /\ ~Dial(h)
                      /\ r = "ErrAgentDead" => Ended \/ stale[h] \/ TooEarly
<1>1. CASE ReadPersistentMeta(h)
  <2>1. Goes("ErrSessionNotFound") \/ Goes("pid")
    BY <1>1 DEF ReadPersistentMeta, Dial, Places, Early
  <2> QED BY <2>1
<1>2. CASE CheckPid(h)
  <2>1. Goes("dial") \/ Goes("ErrAgentDead")
    BY <1>2 DEF CheckPid, Alive, OldPid, Ended, TooEarly, Dial, Places, Early
  <2> QED BY <2>1
<1>3. CASE Dial(h)
  <2>1. CASE host' = [host EXCEPT ![h] = "hello"]
    <3>1. Goes("hello")
      BY <1>3, <2>1 DEF Places, Early
    <3> QED BY <3>1
  <2>2. ASSUME NEW err \in DialErrors, host' = [host EXCEPT ![h] = err]
        PROVE  \E e \in DialErrors : Goes(e)
    <3>1. err \in Places \ Early /\ (err = "ErrAgentDead" => Ended \/ TooEarly)
      BY <2>2 DEF DialErrors, Places, Early, Ended, TooEarly
    <3> QED BY <2>2, <3>1
  <2> QED BY <1>3, <2>1, <2>2 DEF Dial
<1>4. CASE ReadHello(h) \/ ReadRingDump(h) \/ SetRunning(h)
  <2>1. \/ Goes("dump") \/ Goes("ErrAgentDead") \/ Goes("ErrIncompatibleAgent")
        \/ Goes("start") \/ Goes("done")
    BY <1>4 DEF ReadHello, ReadRingDump, SetRunning, HangUp, Places, Early
  <2> QED BY <2>1
<1>5. CASE HandshakeFails(h)
  <2>1. Goes("ErrIncompatibleAgent")
    BY <1>5 DEF HandshakeFails, HangUp, Places, Early
  <2> QED BY <2>1
<1>6. CASE HandleMessage(h) \/ Disconnected(h)
  <2>1. host' = host /\ ~Dial(h)
    BY <1>6 DEF HandleMessage, Disconnected, Attached, Dial
  <2> QED BY <2>1
<1> QED BY <1>1, <1>2, <1>3, <1>4, <1>5, <1>6 DEF HostStep

\* The hosts open and close their ends; a dial also enters the backlog.
LEMMA LoopHost ==
  ASSUME LoopInv, (\E h \in Hosts : HostStep(h)) \/ (\E h \in All : Detach(h))
  PROVE  LoopInv'
<1>1. ASSUME NEW h \in Hosts, HostStep(h), Dial(h) PROVE LoopInv'
  <2>1. /\ UNCHANGED <<attached, loop, current>> /\ host' \in [Hosts -> Places]
        /\ \A g \in Hosts : host'[g] \in Early => host[g] \in Early
        /\ host'[h] \notin Early /\ host[h] = "dial"
    BY <1>1, HostFrame, PlaceStep DEF LoopInv, LoopType, Dial
  <2>2. agentEnd[h] = "none"
    BY <2>1 DEF LoopInv, Early
  <2>3. \/ UNCHANGED <<hostEnd, agentEnd>>
        \/ hostEnd' = [hostEnd EXCEPT ![h] = "open"] /\ agentEnd' = [agentEnd EXCEPT ![h] = "backlog"]
    BY <1>1 DEF Dial
  <2>4. CASE UNCHANGED <<hostEnd, agentEnd>>
    BY <2>1, <2>4, LoopFrame
  <2>5. CASE hostEnd' = [hostEnd EXCEPT ![h] = "open"] /\ agentEnd' = [agentEnd EXCEPT ![h] = "backlog"]
    <3>1. LoopType' /\ \A g \in All : Over(g) => Over(g)'
      BY <2>1, <2>2, <2>5, ReattachAssumption DEF LoopInv, LoopType, All, Over
    <3>2. /\ \A g \in Hosts : agentEnd'[g] = "open" <=> agentEnd[g] = "open"
          /\ \A g \in Hosts : agentEnd'[g] # "none" => hostEnd'[g] # "none"
          /\ \A g \in Hosts : host'[g] \in Early => agentEnd'[g] = "none"
      BY <2>1, <2>2, <2>5 DEF LoopInv, LoopType, All
    <3>3. loop.old \in All /\ current \in All
      BY DEF LoopInv, LoopType
    <3> QED BY <2>1, <3>1, <3>2, <3>3 DEF LoopInv, Over
  <2> QED BY <2>3, <2>4, <2>5
<1>2. ASSUME NEW h \in Hosts, HostStep(h), ~Dial(h) PROVE LoopInv'
  <2>1. /\ UNCHANGED <<attached, loop, current, agentEnd>> /\ host' \in [Hosts -> Places]
        /\ \A g \in Hosts : host'[g] \in Early => host[g] \in Early
        /\ hostEnd' = hostEnd \/ hostEnd' = [hostEnd EXCEPT ![h] = "closed"]
    BY <1>2, HostFrame, PlaceStep DEF LoopInv, LoopType
  <2>2. h \in All
    BY DEF All
  <2> QED BY <2>1, <2>2, LoopFrame
<1>3. ASSUME NEW h \in All, Detach(h) PROVE LoopInv'
  <2>1. UNCHANGED <<attached, loop, current, agentEnd, host>> /\ hostEnd' = [hostEnd EXCEPT ![h] = "closed"]
    BY <1>3 DEF Detach, agentVars, hostVars
  <2> QED BY <2>1, LoopFrame
<1> QED BY <1>1, <1>2, <1>3

\* A step that changes nothing keeps LoopInv.
LEMMA LoopStutter == ASSUME LoopInv, UNCHANGED reattachVars PROVE LoopInv'
BY LoopFrame DEF reattachVars, agentVars, connVars, hostVars

\* LoopInv holds in every state of the agent and its hosts.
LEMMA LoopInvariant == ReattachSpec => []LoopInv
<1>1. ASSUME LoopInv, [ReattachNext]_reattachVars PROVE LoopInv'
  <2>1. CASE LoopStep
    BY <1>1, <2>1, LoopLoop
  <2>2. CASE \E h \in Hosts : HostStep(h)
    BY <1>1, <2>2, LoopHost
  <2>3. CASE \E h \in All : Detach(h)
    BY <1>1, <2>3, LoopHost
  <2>4. CASE UNCHANGED reattachVars
    BY <1>1, <2>4, LoopStutter
  <2> QED BY <1>1, <2>1, <2>2, <2>3, <2>4, LoopAgent DEF ReattachNext
<1> QED BY <1>1, LoopInit, PTL DEF ReattachSpec

-----------------------------------------------------------------------------
\* Only the end of its host, of the agent, or a Conn that cannot be made ends
\* the connection of a reattached host: each step that closes one, taken alone.
LEMMA TakeoverStep ==
  ASSUME LoopInv, [ReattachNext]_reattachVars, NEW h \in Hosts,
         agentEnd[h] = "open", agentEnd'[h] # "open"
  PROVE  hostEnd[h] = "closed" \/ phase' = "dead" \/ NewConnFails
<1>1. /\ agentEnd \in [All -> {"none", "backlog", "open", "closed"}] /\ h \in All /\ h # Boot
      /\ loop.pc \in Serving /\ loop.host = h
      /\ hostEnd[h] \in {"open", "closed"}
  BY ReattachAssumption DEF LoopInv, LoopType, All
<1>2. CASE \E g \in Hosts : Accept(g)
  BY <1>1, <1>2 DEF Accept, Serving
<1>3. CASE AcceptFails
  BY <1>1, <1>3 DEF AcceptFails, connVars
<1>4. CASE SendHello \/ SendRingDump
  BY <1>1, <1>4 DEF SendHello, SendRingDump, Handshake
<1>5. CASE AdoptConn
  BY <1>1, <1>5 DEF AdoptConn, connVars
<1>6. CASE CloseOldConn
  <2>1. Over(loop.old) /\ agentEnd' = [agentEnd EXCEPT ![loop.old] = "closed"]
    BY <1>6 DEF CloseOldConn, LoopInv
  <2> QED BY <1>1, <2>1 DEF Over
<1>7. CASE ConnDone
  BY <1>1, <1>7 DEF ConnDone
<1>8. CASE CloseSession \/ AgentEnds
  BY <1>1, <1>8 DEF CloseSession, AgentEnds
<1>9. CASE WritePersistentMeta \/ WritePidFile \/ Bind \/ Listen \/ ChildEnds
  BY <1>9 DEF WritePersistentMeta, WritePidFile, Bind, Listen, ChildEnds, connVars
<1>10. CASE PumpStep \/ (\E g \in Hosts : WriteFrame(g))
  BY <1>10 DEF PumpStep, ReadChunk, SendPTYData, WriteRing, WriteFrame, connVars
<1>11. ASSUME NEW g \in Hosts, Dial(g) PROVE FALSE
  <2>1. agentEnd[g] = "none"
    BY <1>11 DEF Dial, LoopInv, Early
  <2>2. agentEnd' = agentEnd \/ agentEnd' = [agentEnd EXCEPT ![g] = "backlog"]
    BY <1>11 DEF Dial
  <2> QED BY <1>1, <2>1, <2>2
<1>12. ASSUME NEW g \in Hosts, HostStep(g), ~Dial(g) PROVE FALSE
  BY <1>12, HostFrame
<1>13. CASE (\E g \in All : Detach(g)) \/ UNCHANGED reattachVars
  BY <1>13 DEF Detach, reattachVars, connVars
<1> QED
  BY <1>2, <1>3, <1>4, <1>5, <1>6, <1>7, <1>8, <1>9, <1>10, <1>11, <1>12, <1>13
  DEF ReattachNext, LoopStep

\* NoTakeover for any number of hosts: runAcceptLoop serves one at a time and
\* AdoptConn only closes a Conn that has ended or the bootstrap one.
THEOREM ReattachedIsSafe == ReattachSpec => NoTakeover
<1>1. LoopInv /\ [ReattachNext]_reattachVars =>
        [\A h \in Hosts : agentEnd[h] = "open" /\ agentEnd'[h] # "open"
                            => hostEnd[h] = "closed" \/ phase' = "dead" \/ NewConnFails]_reattachVars
  BY TakeoverStep
<1> QED BY <1>1, LoopInvariant, PTL DEF ReattachSpec, NoTakeover

-----------------------------------------------------------------------------
\* A verdict of death stays true, for the pump, whose last step sets the
\* phase, is at work only while the agent serves.
VerdictInv ==
  /\ host \in [Hosts -> Places]
  /\ pump.pc \in {"send", "ring"} => phase = "serving"

\* At the start no host has made an attempt and the pump is idle.
LEMMA VerdictInit == ReattachInit => VerdictInv
<1> SUFFICES ASSUME ReattachInit PROVE VerdictInv
  OBVIOUS
<1>1. host = [h \in Hosts |-> "idle"] /\ pump.pc = "idle"
  BY DEF ReattachInit, NoChunk
<1> QED BY <1>1 DEF VerdictInv, Places

\* The agent: no step leaves deaf or dead, but for the death of a deaf agent.
LEMMA VerdictAgent ==
  ASSUME VerdictInv, UNCHANGED host,
         \/ WritePersistentMeta \/ WritePidFile \/ Bind \/ Listen \/ ChildEnds \/ CloseSession \/ AgentEnds
         \/ LoopStep \/ PumpStep \/ (\E h \in Hosts : WriteFrame(h))
  PROVE  VerdictInv' /\ (Ended => Ended')
<1> USE DEF VerdictInv, Ended
<1>1. CASE WritePersistentMeta \/ WritePidFile \/ Bind \/ Listen
  BY <1>1 DEF WritePersistentMeta, WritePidFile, Bind, Listen, pumpVars
<1>2. CASE ChildEnds
  BY <1>2 DEF ChildEnds
<1>3. CASE CloseSession
  BY <1>3 DEF CloseSession, pumpVars
<1>4. CASE AgentEnds
  BY <1>4 DEF AgentEnds, NoChunk
<1>5. CASE LoopStep
  BY <1>5 DEF LoopStep, Accept, AcceptFails, SendHello, SendRingDump, Handshake, NewConnFails, AdoptConn,
     CloseOldConn, ConnDone, pumpVars
<1>6. CASE ReadChunk
  BY <1>6 DEF ReadChunk, agentVars
<1>7. CASE SendPTYData
  <2>1. pump.pc = "send" /\ phase' = phase
    BY <1>7 DEF SendPTYData, agentVars
  <2> QED BY <2>1
<1>8. CASE WriteRing
  <2>1. phase = "serving" /\ pump' = NoChunk
    BY <1>8 DEF WriteRing
  <2> QED BY <2>1 DEF NoChunk
<1>9. CASE \E h \in Hosts : WriteFrame(h)
  BY <1>9 DEF WriteFrame, agentVars, pumpVars
<1> QED BY <1>1, <1>2, <1>3, <1>4, <1>5, <1>6, <1>7, <1>8, <1>9 DEF PumpStep

\* What a step may do to the verdicts: CheckPid, Dial and ReadHello give one.
LEMMA VerdictStep ==
  ASSUME VerdictInv, [ReattachNext]_reattachVars
  PROVE  /\ VerdictInv' /\ (Ended => Ended')
         /\ \A g \in Hosts : host'[g] = "ErrAgentDead" =>
              host[g] = "ErrAgentDead" \/ Ended \/ stale[g] \/ TooEarly
<1>1. ASSUME NEW h \in Hosts, HostStep(h) PROVE /\ VerdictInv' /\ (Ended => Ended')
                                              /\ \A g \in Hosts : host'[g] = "ErrAgentDead" =>
                                                   host[g] = "ErrAgentDead" \/ Ended \/ stale[g] \/ TooEarly
  <2>1. UNCHANGED <<phase, pump>>
    BY <1>1, HostFrame
  <2> QED BY <1>1, <2>1, PlaceStep DEF VerdictInv, Ended
<1>2. CASE (\E h \in All : Detach(h)) \/ UNCHANGED reattachVars
  BY <1>2 DEF Detach, reattachVars, agentVars, pumpVars, hostVars, VerdictInv, Ended
<1>3. CASE \/ WritePersistentMeta \/ WritePidFile \/ Bind \/ Listen \/ ChildEnds \/ CloseSession \/ AgentEnds
           \/ LoopStep \/ PumpStep \/ (\E h \in Hosts : WriteFrame(h))
  <2>1. host' = host
    BY <1>3 DEF WritePersistentMeta, WritePidFile, Bind, Listen, ChildEnds, CloseSession, AgentEnds, LoopStep,
       Accept, AcceptFails, SendHello, SendRingDump, Handshake, NewConnFails, AdoptConn, CloseOldConn, ConnDone,
       PumpStep, ReadChunk, SendPTYData, WriteRing, WriteFrame, hostVars
  <2> QED BY <1>3, <2>1, VerdictAgent
<1> QED BY <1>1, <1>2, <1>3 DEF ReattachNext

\* VerdictInv holds in every state of the agent and its hosts.
LEMMA VerdictInvariant == ReattachSpec => []VerdictInv
<1>1. VerdictInv /\ [ReattachNext]_reattachVars => VerdictInv'
  BY VerdictStep
<1> QED BY <1>1, VerdictInit, PTL DEF ReattachSpec

\* DeadVerdictIsTrue for any number of hosts and any order of their attempts
\* with the start and the end of the agent and the files of an earlier one.
THEOREM DeadIsDead == ReattachSpec => DeadVerdictIsTrue
<1>1. VerdictInv /\ [ReattachNext]_reattachVars =>
        [/\ \A h \in Hosts :
              host[h] # "ErrAgentDead" /\ host'[h] = "ErrAgentDead" => Ended \/ stale[h] \/ TooEarly
         /\ Ended => Ended']_reattachVars
  BY VerdictStep
<1> QED BY <1>1, VerdictInvariant, PTL DEF ReattachSpec, DeadVerdictIsTrue

-----------------------------------------------------------------------------
\* The frames a reattached host is sent: ALREADY_ATTACHED is not among them,
\* and HELLO and the exit carry no output.
Frames == {f \in [type : {"hello", "dump", "data", "exited"}, body : Seq(Nat)] :
             f.type \in {"hello", "exited"} => f.body = <<>>}

FrameInv ==
  /\ wire \in [Hosts -> Seq(Frames)]
  /\ queued \in [Hosts -> Seq(Frames)]
  /\ ring \in Seq(Nat)
  /\ out \in Nat
  /\ pump \in [pc : {"idle", "send", "ring"}, n : Nat, to : All]

\* One queue changes and remains a queue.
LEMMA QueueChanged ==
  ASSUME NEW f \in [Hosts -> Seq(Frames)], NEW h \in Hosts, NEW q \in Seq(Frames)
  PROVE  [f EXCEPT ![h] = q] \in [Hosts -> Seq(Frames)]
<1> DEFINE S == Seq(Frames)
<1>1. f \in [Hosts -> S] /\ q \in S
  OBVIOUS
<1> HIDE DEF S
<1>2. [f EXCEPT ![h] = q] \in [Hosts -> S]
  BY <1>1
<1> QED BY <1>2 DEF S

\* At the start there are no frames and no output.
LEMMA FrameInit == ReattachInit => FrameInv
<1> SUFFICES ASSUME ReattachInit PROVE FrameInv
  OBVIOUS
<1>1. wire \in [Hosts -> Seq(Frames)] /\ queued \in [Hosts -> Seq(Frames)]
  BY DEF ReattachInit
<1>2. pump \in [pc : {"idle", "send", "ring"}, n : Nat, to : All]
  BY DEF ReattachInit, NoChunk, All
<1> QED BY <1>1, <1>2 DEF ReattachInit, FrameInv

\* The accept loop adds hello and the dump; its rejection needs an attach
\* lock that is held while it accepts, which LoopInv excludes.
LEMMA FrameLoop == ASSUME LoopInv, FrameInv, LoopStep PROVE FrameInv'
<1> USE DEF FrameInv
<1>1. CASE \E h \in Hosts : Accept(h)
  BY <1>1 DEF Accept, LoopInv, pumpVars
<1>2. ASSUME NEW pc, NEW next, NEW frame \in Frames, pc \in Serving, Handshake(pc, frame, next), UNCHANGED pumpVars
      PROVE  FrameInv'
  <2>1. loop.host \in Hosts
    BY <1>2 DEF Handshake, LoopInv, LoopType
  <2>2. \/ wire' = [wire EXCEPT ![loop.host] = Append(@, frame)]
        \/ wire' = wire
    BY <1>2 DEF Handshake
  <2>3. wire' \in [Hosts -> Seq(Frames)]
    <3>1. wire \in [Hosts -> Seq(Frames)] /\ frame \in Frames
      BY <1>2
    <3>2. Append(wire[loop.host], frame) \in Seq(Frames)
      BY ONLY <2>1, <3>1
    <3> QED BY ONLY <2>1, <2>2, <3>1, <3>2, QueueChanged
  <2> QED BY <1>2, <2>3 DEF Handshake, pumpVars
<1>3. Frame("hello", <<>>) \in Frames /\ Frame("dump", ring) \in Frames
  BY DEF Frame, Frames
<1>4. CASE SendHello \/ SendRingDump
  BY <1>2, <1>3, <1>4 DEF SendHello, SendRingDump, Serving
<1>5. CASE AcceptFails \/ AdoptConn
  BY <1>5 DEF AcceptFails, AdoptConn, pumpVars, connVars
<1>6. CASE CloseOldConn
  BY <1>6 DEF CloseOldConn, pumpVars
<1>7. CASE ConnDone
  <2>1. loop.host \in Hosts /\ <<>> \in Seq(Frames)
    BY <1>7 DEF ConnDone, LoopInv, LoopType, Serving
  <2>2. queued' \in [Hosts -> Seq(Frames)]
    BY <1>7, <2>1, QueueChanged DEF ConnDone
  <2> QED BY <1>7, <2>2 DEF ConnDone, pumpVars
<1>8. CASE NewConnFails
  BY <1>8 DEF NewConnFails, pumpVars
<1> QED BY <1>1, <1>4, <1>5, <1>6, <1>7, <1>8 DEF LoopStep

\* The pump adds data and the exit.
LEMMA FramePump ==
  ASSUME LoopInv, FrameInv, PumpStep \/ ChildEnds \/ (\E h \in Hosts : WriteFrame(h))
  PROVE  FrameInv'
<1> USE DEF FrameInv
<1>1. CASE ReadChunk
  BY <1>1 DEF ReadChunk, connVars, LoopInv, LoopType
<1>2. CASE ChildEnds
  BY <1>2 DEF ChildEnds, connVars, LoopInv, LoopType
<1>3. CASE SendPTYData
  <2> DEFINE frame == IF pump.n = 0 THEN Frame("exited", <<>>) ELSE Frame("data", <<pump.n>>)
  <2>1. <<pump.n>> \in Seq(Nat)
    OBVIOUS
  <2>2. frame \in Frames
    BY <2>1 DEF Frame, Frames
  <2>3. queued' = [h \in Hosts |-> IF h = pump.to /\ Takes(h) /\ ~Full(h)
                                    THEN Append(queued[h], frame) ELSE queued[h]]
    BY <1>3 DEF SendPTYData
  <2> HIDE DEF frame
  <2>4. queued' \in [Hosts -> Seq(Frames)]
    <3>1. \A h \in Hosts : queued[h] \in Seq(Frames)
      OBVIOUS
    <3>2. \A h \in Hosts : Append(queued[h], frame) \in Seq(Frames)
      BY ONLY <2>2, <3>1
    <3> QED BY ONLY <2>3, <3>1, <3>2, Zenon
  <2>5. pump' = [pump EXCEPT !.pc = "ring"] /\ UNCHANGED <<wire, ring, out>>
    BY <1>3 DEF SendPTYData
  <2>6. pump' \in [pc : {"idle", "send", "ring"}, n : Nat, to : All]
    BY <2>5
  <2> QED BY <2>4, <2>5, <2>6
<1>4. CASE WriteRing
  <2>1. /\ ring' = IF pump.n = 0 THEN ring ELSE Keep(ring, pump.n)
        /\ pump' = NoChunk /\ UNCHANGED <<wire, queued, out>>
    BY <1>4 DEF WriteRing, connVars
  <2>2. Keep(ring, pump.n) \in Seq(Nat)
    BY ReattachAssumption DEF Keep
  <2>3. pump' \in [pc : {"idle", "send", "ring"}, n : Nat, to : All]
    BY <2>1 DEF NoChunk, All
  <2> QED BY <2>1, <2>2, <2>3
<1>5. ASSUME NEW h \in Hosts, WriteFrame(h) PROVE FrameInv'
  <2>1. queued[h] \in Seq(Frames) /\ queued[h] # <<>>
    BY <1>5 DEF WriteFrame
  <2>2. Head(queued[h]) \in Frames /\ Tail(queued[h]) \in Seq(Frames)
    BY <2>1
  <2>3. /\ queued' = [queued EXCEPT ![h] = Tail(@)]
        /\ wire' = wire \/ wire' = [wire EXCEPT ![h] = Append(@, Head(queued[h]))]
    BY <1>5 DEF WriteFrame
  <2>4. wire' \in [Hosts -> Seq(Frames)] /\ queued' \in [Hosts -> Seq(Frames)]
    <3>1. wire \in [Hosts -> Seq(Frames)] /\ queued \in [Hosts -> Seq(Frames)] /\ h \in Hosts
      OBVIOUS
    <3>2. Append(wire[h], Head(queued[h])) \in Seq(Frames)
      BY ONLY <2>2, <3>1
    <3> QED BY ONLY <2>2, <2>3, <3>1, <3>2, QueueChanged
  <2> QED BY <1>5, <2>4 DEF WriteFrame, pumpVars
<1> QED BY <1>1, <1>2, <1>3, <1>4, <1>5 DEF PumpStep

\* The hosts take frames; the end of the agent drops its outboxes.
LEMMA FrameRest ==
  ASSUME FrameInv,
         \/ WritePersistentMeta \/ WritePidFile \/ Bind \/ Listen \/ CloseSession \/ AgentEnds
         \/ (\E h \in Hosts : HostStep(h)) \/ (\E h \in All : Detach(h)) \/ UNCHANGED reattachVars
  PROVE  FrameInv'
<1> USE DEF FrameInv
<1>1. CASE WritePersistentMeta \/ WritePidFile \/ Bind \/ Listen \/ CloseSession
  BY <1>1 DEF WritePersistentMeta, WritePidFile, Bind, Listen, CloseSession, pumpVars, connVars
<1>2. CASE AgentEnds
  BY <1>2 DEF AgentEnds, NoChunk, All
<1>3. ASSUME NEW h \in Hosts, HostStep(h) PROVE FrameInv'
  <2>1. UNCHANGED <<pump, out, ring, queued>>
    BY <1>3, HostFrame
  <2>2. wire' = wire \/ (wire[h] # <<>> /\ wire' = [wire EXCEPT ![h] = Tail(@)])
    BY <1>3, HostFrame
  <2>3. wire' \in [Hosts -> Seq(Frames)]
    <3>1. wire \in [Hosts -> Seq(Frames)] /\ h \in Hosts
      OBVIOUS
    <3>2. wire[h] # <<>> => Tail(wire[h]) \in Seq(Frames)
      BY ONLY <3>1
    <3> QED BY ONLY <2>2, <3>1, <3>2, QueueChanged
  <2> QED BY <2>1, <2>3
<1>4. CASE (\E h \in All : Detach(h)) \/ UNCHANGED reattachVars
  BY <1>4 DEF Detach, reattachVars, pumpVars, connVars
<1> QED BY <1>1, <1>2, <1>3, <1>4

\* FrameInv holds in every state of the agent and its hosts.
LEMMA FrameInvariant == ReattachSpec => []FrameInv
<1>1. ASSUME LoopInv, FrameInv, [ReattachNext]_reattachVars PROVE FrameInv'
  BY <1>1, FrameLoop, FramePump, FrameRest DEF ReattachNext
<1> QED BY <1>1, FrameInit, LoopInvariant, PTL DEF ReattachSpec

\* NoneRejected for any number of hosts: the accept loop has no attached host
\* when it accepts, so its ALREADY_ATTACHED branch is never taken.
THEOREM NeverTurnedAway == ReattachSpec => []NoneRejected
<1>1. FrameInv => NoneRejected
  <2> SUFFICES ASSUME FrameInv, NEW h \in Hosts, NEW i \in DOMAIN wire[h]
               PROVE  wire[h][i].type # "rejected"
    BY DEF NoneRejected
  <2>1. wire[h][i] \in Frames
    BY DEF FrameInv
  <2> QED BY <2>1 DEF Frames
<1> QED BY <1>1, FrameInvariant, PTL
=============================================================================
