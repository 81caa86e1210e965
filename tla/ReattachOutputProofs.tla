------------------------ MODULE ReattachOutputProofs ------------------------
(***************************************************************************)
(* What a reattached host sees of the output: the dump of the ring and the *)
(* live frames after it are one sequence, without a chunk twice and without *)
(* a gap but for what the ring no longer held, the window of the handshake *)
(* and what a full outbox spilled, for any number of hosts, any output, any *)
(* ring and any outbox.                                                    *)
(***************************************************************************)
EXTENDS ReattachProofs, ReattachOutput

-----------------------------------------------------------------------------
\* Queues of frames and sequences of chunks.

\* A frame is queued behind the others.
LEMMA QueueAppend ==
  ASSUME NEW q \in Seq(Frames), NEW f \in Frames
  PROVE  /\ Carried(Append(q, f)) = Carried(q) \cup Chunks(f.body)
         /\ Successive(q) /\ Rising(f.body) /\ Before(Carried(q), Chunks(f.body)) => Successive(Append(q, f))
<1> DEFINE r == Append(q, f)
           C(i) == Chunks(r[i].body)
<1>1. /\ DOMAIN r = DOMAIN q \cup {Len(q) + 1} /\ r[Len(q) + 1] = f
      /\ \A i \in DOMAIN q : r[i] = q[i] /\ i < Len(q) + 1
      /\ DOMAIN q \subseteq Nat /\ Len(q) \in Nat
  OBVIOUS
<1> HIDE DEF r
<1>2. Carried(r) = Carried(q) \cup Chunks(f.body)
  BY <1>1, Zenon DEF Carried
<1>3. ASSUME Successive(q), Rising(f.body), Before(Carried(q), Chunks(f.body)) PROVE Successive(r)
  <2>1. ASSUME NEW j \in DOMAIN r PROVE Rising(r[j].body)
    BY <1>1, <1>3, <2>1, Zenon DEF Successive
  <2>2. ASSUME NEW i \in DOMAIN r, NEW j \in DOMAIN r, i < j
        PROVE  Before(Chunks(r[i].body), Chunks(r[j].body))
    <3>1. i \in DOMAIN q
      BY <1>1, <2>2
    <3>2. CASE j \in DOMAIN q
      BY <1>1, <1>3, <2>2, <3>1, <3>2, Zenon DEF Successive
    <3>3. CASE j = Len(q) + 1
      <4>1. Chunks(r[i].body) \subseteq Carried(q)
        BY <1>1, <3>1, Zenon DEF Carried
      <4> QED BY <1>1, <1>3, <3>3, <4>1, Zenon DEF Before
    <3> QED BY <1>1, <2>2, <3>2, <3>3
  <2> QED BY <2>1, <2>2, Zenon DEF Successive
<1> QED BY <1>2, <1>3 DEF r

\* A frame is taken off a queue.
LEMMA QueueTail ==
  ASSUME NEW q \in Seq(Frames), q # <<>>
  PROVE  /\ Head(q) \in Frames /\ Tail(q) \in Seq(Frames)
         /\ Carried(q) = Chunks(Head(q).body) \cup Carried(Tail(q))
         /\ Successive(q) => /\ Rising(Head(q).body) /\ Successive(Tail(q))
                            /\ Before(Chunks(Head(q).body), Carried(Tail(q)))
<1> DEFINE t == Tail(q)
<1>1. /\ 1 \in DOMAIN q /\ Head(q) = q[1] /\ q[1] \in Frames /\ t \in Seq(Frames)
      /\ \A i \in DOMAIN t : i + 1 \in DOMAIN q /\ t[i] = q[i + 1] /\ 1 < i + 1
      /\ \A j \in DOMAIN q : j = 1 \/ (j - 1 \in DOMAIN t /\ q[j] = t[j - 1])
      /\ \A i, j \in DOMAIN t : i < j => i + 1 < j + 1
  OBVIOUS
<1> HIDE DEF t
<1>2. Carried(q) = Chunks(q[1].body) \cup Carried(t)
  BY ZenonT(30), <1>1 DEF Carried
<1>3. ASSUME Successive(q) PROVE Rising(q[1].body) /\ Successive(t)
  BY <1>1, <1>3, Zenon DEF Successive
<1>4. ASSUME Successive(q) PROVE Before(Chunks(q[1].body), Carried(t))
  <2> SUFFICES ASSUME NEW i \in DOMAIN t PROVE Before(Chunks(q[1].body), Chunks(t[i].body))
    BY Zenon DEF Before, Carried
  <2> QED BY <1>1, <1>4, Zenon DEF Successive
<1> QED BY <1>1, <1>2, <1>3, <1>4 DEF t

\* Chunks that follow older ones.
LEMMA ChunksJoin ==
  ASSUME NEW s \in Seq(Nat), NEW t \in Seq(Nat)
  PROVE  /\ s \o t \in Seq(Nat) /\ Chunks(s \o t) = Chunks(s) \cup Chunks(t)
         /\ Rising(s) /\ Rising(t) /\ Before(Chunks(s), Chunks(t)) => Rising(s \o t)
<1> DEFINE r == s \o t
<1>1. /\ r \in Seq(Nat) /\ Len(s) \in Nat
      /\ \A i \in DOMAIN s : i \in DOMAIN r /\ r[i] = s[i]
      /\ \A i \in DOMAIN t : i + Len(s) \in DOMAIN r /\ r[i + Len(s)] = t[i]
      /\ \A i \in DOMAIN r : \/ i \in DOMAIN s /\ i <= Len(s) /\ r[i] = s[i]
                             \/ i > Len(s) /\ i - Len(s) \in DOMAIN t /\ r[i] = t[i - Len(s)]
  OBVIOUS
<1> HIDE DEF r
<1>2. Chunks(r) = Chunks(s) \cup Chunks(t)
  <2>1. Chunks(r) \subseteq Chunks(s) \cup Chunks(t)
    BY <1>1 DEF Chunks
  <2>2. Chunks(s) \subseteq Chunks(r) /\ Chunks(t) \subseteq Chunks(r)
    BY <1>1 DEF Chunks
  <2> QED BY <2>1, <2>2
<1>3. ASSUME Rising(s), Rising(t), Before(Chunks(s), Chunks(t)),
             NEW i \in DOMAIN r, NEW j \in DOMAIN r, i < j
      PROVE  r[i] < r[j]
  <2>1. CASE j \in DOMAIN s /\ j <= Len(s)
    BY SMTT(30), <1>1, <1>3, <2>1 DEF Rising
  <2>2. CASE i > Len(s)
    <3>1. /\ i - Len(s) \in DOMAIN t /\ r[i] = t[i - Len(s)]
          /\ j - Len(s) \in DOMAIN t /\ r[j] = t[j - Len(s)]
          /\ i - Len(s) < j - Len(s)
      BY SMTT(30), <1>1, <1>3, <2>2
    <3> QED BY <1>3, <3>1, Zenon DEF Rising
  <2>3. CASE i \in DOMAIN s /\ r[i] = s[i] /\ j - Len(s) \in DOMAIN t /\ r[j] = t[j - Len(s)]
    BY <1>3, <2>3, Zenon DEF Before, Chunks
  <2> QED BY <1>1, <1>3, <2>1, <2>2, <2>3
<1> QED BY <1>1, <1>2, <1>3, Zenon DEF r, Rising

-----------------------------------------------------------------------------
\* The output a reattached host sees.  Before AdoptConn nothing is queued for
\* a host, and the pump does not hold its Conn.

Unadopted(h) ==
  \/ agentEnd[h] \in {"none", "backlog"}
  \/ loop.host = h /\ loop.pc \in {"hello", "snapshot", "adopt"}

AdoptInv == \A h \in Hosts : Unadopted(h) => current # h /\ pump.to # h /\ queued[h] = <<>>

\* Steps that leave Conns, outboxes and loop alone, or only end Conns.
LEMMA AdoptFrame ==
  ASSUME AdoptInv, UNCHANGED current, pump'.to \in {pump.to, current, Boot},
         \A h \in Hosts : Unadopted(h)' => Unadopted(h) /\ queued'[h] = queued[h]
  PROVE  AdoptInv'
BY ReattachAssumption DEF AdoptInv

\* The loop: AdoptConn makes its host's Conn the current one and its host is
\* adopted from then on.
LEMMA AdoptLoop == ASSUME LoopInv, FrameInv, AdoptInv, LoopStep PROVE AdoptInv'
<1>1. pump' = pump
  BY DEF LoopStep, Accept, AcceptFails, SendHello, SendRingDump, NewConnFails, AdoptConn, CloseOldConn, ConnDone, pumpVars
<1>2. CASE \E h \in Hosts : Accept(h)
  <2>1. /\ UNCHANGED <<current, queued>>
        /\ \A h \in Hosts : Unadopted(h)' => Unadopted(h)
    BY <1>2 DEF Accept, Loop, LoopInv, LoopType, Unadopted, All, Serving
  <2> QED BY <1>1, <2>1, AdoptFrame
<1>3. CASE AcceptFails
  <2>1. UNCHANGED <<current, queued>> /\ \A h \in Hosts : Unadopted(h)' => Unadopted(h)
    BY <1>3 DEF AcceptFails, Loop, Unadopted, connVars
  <2> QED BY <1>1, <2>1, AdoptFrame
<1>4. ASSUME NEW pc \in {"hello", "snapshot"}, NEW frame, NEW next \in {"snapshot", "adopt"},
             Handshake(pc, frame, next)
      PROVE  AdoptInv'
  <2>1. UNCHANGED <<current, queued>> /\ loop.pc = pc
    BY <1>4 DEF Handshake
  <2>2. CASE hostEnd[loop.host] = "open"
    <3>1. loop' = [pc |-> next, host |-> loop.host, old |-> Boot] /\ agentEnd' = agentEnd
      BY <1>4, <2>2 DEF Handshake, Loop
    <3>2. \A h \in Hosts : Unadopted(h)' => Unadopted(h)
      BY <2>1, <3>1 DEF Unadopted
    <3> QED BY <1>1, <2>1, <3>2, AdoptFrame
  <2>3. CASE hostEnd[loop.host] # "open"
    <3>1. /\ loop' = [pc |-> "accept", host |-> Boot, old |-> Boot]
          /\ agentEnd' = [agentEnd EXCEPT ![loop.host] = "closed"]
      BY <1>4, <2>3 DEF Handshake, markDetached, AtAccept, Loop
    <3>2. \A h \in Hosts : Unadopted(h)' => Unadopted(h)
      BY <3>1 DEF Unadopted, LoopInv, LoopType, All
    <3> QED BY <1>1, <2>1, <3>2, AdoptFrame
  <2> QED BY <2>2, <2>3
<1>5. CASE SendHello \/ SendRingDump
  BY <1>4, <1>5 DEF SendHello, SendRingDump
<1>6. CASE AdoptConn
  BY <1>1, <1>6 DEF AdoptConn, Loop, AdoptInv, Unadopted, LoopInv, Serving, connVars
<1>7. CASE CloseOldConn
  <2>1. current' = current /\ \A h \in Hosts : Unadopted(h)' => Unadopted(h) /\ loop.old # h
    BY <1>7 DEF CloseOldConn, Loop, Unadopted, LoopInv, LoopType, All
  <2>2. \A h \in Hosts : Unadopted(h)' => queued'[h] = queued[h]
    BY <1>7, <2>1 DEF CloseOldConn
  <2> QED BY <1>1, <2>1, <2>2, AdoptFrame
<1>8. CASE ConnDone
  <2>1. current' = current /\ \A h \in Hosts : Unadopted(h)' => Unadopted(h) /\ loop.host # h
    BY <1>8 DEF ConnDone, markDetached, AtAccept, Loop, Unadopted, LoopInv, LoopType, All
  <2>2. \A h \in Hosts : Unadopted(h)' => queued'[h] = queued[h]
    BY <1>8, <2>1 DEF ConnDone, FrameInv
  <2> QED BY <1>1, <2>1, <2>2, AdoptFrame
<1>9. CASE NewConnFails
  <2>1. UNCHANGED <<current, queued>> /\ \A h \in Hosts : Unadopted(h)' => Unadopted(h)
    BY <1>9 DEF NewConnFails, markDetached, AtAccept, Loop, Unadopted, LoopInv, LoopType, All
  <2> QED BY <1>1, <2>1, AdoptFrame
<1> QED BY <1>2, <1>3, <1>5, <1>6, <1>7, <1>8, <1>9 DEF LoopStep

\* The agent, its pump and the hosts.
LEMMA AdoptRest ==
  ASSUME LoopInv, FrameInv, AdoptInv, [ReattachNext]_reattachVars, ~LoopStep
  PROVE  AdoptInv'
<1>1. CASE WritePersistentMeta \/ WritePidFile \/ Bind \/ Listen \/ ChildEnds \/ ReadChunk \/ WriteRing
  <2>1. UNCHANGED <<current, queued, agentEnd, loop>>
    BY <1>1, Zenon DEF WritePersistentMeta, WritePidFile, Bind, Listen, ChildEnds, ReadChunk, WriteRing, connVars, agentVars
  <2>2. pump'.to \in {pump.to, current, Boot}
    BY <1>1 DEF WritePersistentMeta, WritePidFile, Bind, Listen, ChildEnds, ReadChunk, WriteRing, pumpVars, NoChunk
  <2> QED BY <2>1, <2>2, AdoptFrame DEF Unadopted
<1>2. CASE CloseSession
  <2>1. UNCHANGED <<current, queued, loop, pump>> /\ \A h \in Hosts : Unadopted(h)' => Unadopted(h)
    BY <1>2 DEF CloseSession, pumpVars, Unadopted, All
  <2> QED BY <2>1, AdoptFrame
<1>3. CASE AgentEnds
  BY <1>3, ReattachAssumption DEF AgentEnds, NoChunk, AdoptInv, Unadopted, Loop, All
<1>4. CASE SendPTYData
  <2>1. /\ UNCHANGED <<current, agentEnd, loop>> /\ pump'.to = pump.to
        /\ \A h \in Hosts : h # pump.to => queued'[h] = queued[h]
    BY <1>4 DEF SendPTYData, agentVars, FrameInv
  <2> QED BY <2>1 DEF AdoptInv, Unadopted
<1>5. ASSUME NEW g \in Hosts, WriteFrame(g) PROVE AdoptInv'
  <2>1. /\ UNCHANGED <<current, agentEnd, loop, pump>> /\ queued[g] # <<>>
        /\ \A h \in Hosts : h # g => queued'[h] = queued[h]
    BY <1>5 DEF WriteFrame, agentVars, pumpVars, FrameInv
  <2> QED BY <2>1 DEF AdoptInv, Unadopted
<1>6. ASSUME NEW g \in Hosts, HostStep(g) PROVE AdoptInv'
  <2>1. UNCHANGED <<current, queued, loop, pump>>
    BY <1>6, HostFrame
  <2>2. agentEnd' = agentEnd \/ (host[g] = "dial" /\ agentEnd' = [agentEnd EXCEPT ![g] = "backlog"])
    BY <1>6, HostFrame DEF Dial
  <2>3. \A h \in Hosts : Unadopted(h)' => Unadopted(h)
    BY <2>1, <2>2 DEF Unadopted, LoopInv, LoopType, Early, All
  <2> QED BY <2>1, <2>3, AdoptFrame
<1>7. CASE (\E g \in All : Detach(g)) \/ UNCHANGED reattachVars
  <2>1. UNCHANGED <<current, queued, agentEnd, loop, pump>>
    BY <1>7 DEF Detach, reattachVars, agentVars, pumpVars, connVars
  <2> QED BY <2>1, AdoptFrame DEF Unadopted
<1> QED BY <1>1, <1>2, <1>3, <1>4, <1>5, <1>6, <1>7 DEF ReattachNext, PumpStep

\* Where a host is, with the state of its end and what it was given: before
\* the dump is read it has nothing.
Given == {"start", "done"}

PlaceInv ==
  /\ dump \in [Hosts -> Seq(Nat)]
  /\ recv \in [Hosts -> Seq(Nat)]
  /\ \A h \in Hosts :
       /\ host[h] \in Early => hostEnd[h] = "none"
       /\ hostEnd[h] = "open" => host[h] \in {"hello", "dump"} \cup Given
       /\ host[h] \in {"hello", "dump"} => hostEnd[h] = "open"
       /\ host[h] \notin Given => dump[h] = <<>> /\ recv[h] = <<>>

\* At the start no host has dialled.
LEMMA PlaceInit == ReattachInit => PlaceInv
<1> SUFFICES ASSUME ReattachInit PROVE PlaceInv
  OBVIOUS
<1>1. \A h \in Hosts : host[h] = "idle" /\ hostEnd[h] = "none" /\ dump[h] = <<>> /\ recv[h] = <<>>
  BY ReattachAssumption DEF ReattachInit, All
<1>2. dump \in [Hosts -> Seq(Nat)] /\ recv \in [Hosts -> Seq(Nat)]
  BY DEF ReattachInit
<1> QED BY <1>1, <1>2 DEF PlaceInv, Given, Early

\* One host's chunks change and remain chunks.
LEMMA ChunksChanged ==
  ASSUME NEW f \in [Hosts -> Seq(Nat)], NEW h \in Hosts, NEW s \in Seq(Nat)
  PROVE  /\ [f EXCEPT ![h] = s] \in [Hosts -> Seq(Nat)]
         /\ [f EXCEPT ![h] = s][h] = s
         /\ \A g \in Hosts : g # h => [f EXCEPT ![h] = s][g] = f[g]
<1> DEFINE S == Seq(Nat)
<1>1. f \in [Hosts -> S] /\ s \in S
  OBVIOUS
<1> HIDE DEF S
<1>2. [f EXCEPT ![h] = s] \in [Hosts -> S]
  BY <1>1
<1>3. [f EXCEPT ![h] = s][h] = s /\ \A g \in Hosts : g # h => [f EXCEPT ![h] = s][g] = f[g]
  BY <1>1
<1> QED BY <1>2, <1>3 DEF S

\* Steps of the hosts, one by one; every other step leaves all of it alone
\* but for the ends that Detach closes.
LEMMA PlaceStays ==
  ASSUME LoopInv, FrameInv, PlaceInv, [ReattachNext]_reattachVars
  PROVE  PlaceInv'
<1> USE DEF PlaceInv
<1>0. /\ host \in [Hosts -> Places] /\ hostEnd \in [All -> {"none", "open", "closed"}] /\ Hosts \subseteq All
      /\ wire \in [Hosts -> Seq(Frames)]
  BY Zenon DEF LoopInv, LoopType, All, FrameInv
<1>1. ASSUME NEW h \in Hosts, NEW r, host' = [host EXCEPT ![h] = r], UNCHANGED <<dump, recv>>,
             r \notin Given => host[h] \notin Given, r \notin Early \/ host[h] \in Early,
             \/ hostEnd' = hostEnd /\ (hostEnd[h] = "open" => r \in {"hello", "dump"} \cup Given)
                  /\ (r \in {"hello", "dump"} => hostEnd[h] = "open")
             \/ hostEnd' = [hostEnd EXCEPT ![h] = "open"] /\ r = "hello"
             \/ hostEnd' = [hostEnd EXCEPT ![h] = "closed"] /\ r \notin Early \cup {"hello", "dump"}
      PROVE  PlaceInv'
  BY <1>0, <1>1 DEF Early, Given
<1>2. ASSUME NEW h \in Hosts, ReadPersistentMeta(h) \/ CheckPid(h) PROVE PlaceInv'
  <2>1. PICK r \in {"ErrSessionNotFound", "pid", "dial", "ErrAgentDead"} : host' = [host EXCEPT ![h] = r]
    BY <1>2 DEF ReadPersistentMeta, CheckPid
  <2>2. UNCHANGED <<hostEnd, dump, recv>> /\ host[h] \in {"idle", "pid"}
    BY <1>2 DEF ReadPersistentMeta, CheckPid, connVars
  <2> QED BY <1>1, <2>1, <2>2 DEF Early, Given
<1>3. ASSUME NEW h \in Hosts, Dial(h) PROVE PlaceInv'
  <2>1. UNCHANGED <<dump, recv>> /\ host[h] = "dial"
    BY <1>3 DEF Dial
  <2>2. CASE host' = [host EXCEPT ![h] = "hello"] /\ hostEnd' = [hostEnd EXCEPT ![h] = "open"]
    BY Zenon, <1>1, <2>1, <2>2 DEF Early, Given
  <2>3. CASE hostEnd' = hostEnd /\ \E err \in DialErrors : host' = [host EXCEPT ![h] = err]
    <3>1. PICK err \in DialErrors : host' = [host EXCEPT ![h] = err]
      BY Zenon, <2>3
    <3>2. err \notin Early \cup {"hello", "dump"}
      BY DEF DialErrors, Early
    <3> QED BY <1>1, <2>1, <2>3, <3>1, <3>2 DEF Early, Given
  <2> QED BY <1>3, <2>2, <2>3 DEF Dial
<1>4. ASSUME NEW h \in Hosts, ReadHello(h) \/ HandshakeFails(h) PROVE PlaceInv'
  <2>1. PICK r \in {"dump", "ErrAgentDead", "ErrIncompatibleAgent"} :
               /\ host' = [host EXCEPT ![h] = r]
               /\ IF r = "dump" THEN hostEnd' = hostEnd ELSE hostEnd' = [hostEnd EXCEPT ![h] = "closed"]
    BY <1>4 DEF ReadHello, HandshakeFails, HangUp
  <2>2. UNCHANGED <<dump, recv>> /\ host[h] \in {"hello", "dump"}
    BY <1>4 DEF ReadHello, HandshakeFails
  <2> QED BY Zenon, <1>1, <2>1, <2>2 DEF Early, Given
<1>5. ASSUME NEW h \in Hosts, ReadRingDump(h) PROVE PlaceInv'
  <2>1. Head(wire[h]) \in Frames
    BY <1>0, <1>5, QueueTail DEF ReadRingDump
  <2>2. Head(wire[h]).body \in Seq(Nat)
    BY <2>1 DEF Frames
  <2>3. dump' \in [Hosts -> Seq(Nat)] /\ \A g \in Hosts : g # h => dump'[g] = dump[g]
    BY <1>5, <2>2, ChunksChanged DEF ReadRingDump
  <2>4. /\ host' = [host EXCEPT ![h] = "start"] /\ UNCHANGED <<hostEnd, recv>> /\ host[h] = "dump"
    BY <1>5 DEF ReadRingDump
  <2> QED BY <1>0, <2>3, <2>4 DEF Early, Given
<1>6. ASSUME NEW h \in Hosts, SetRunning(h) PROVE PlaceInv'
  <2>1. /\ host' = [host EXCEPT ![h] = "done"] /\ UNCHANGED <<hostEnd, dump, recv>> /\ host[h] = "start"
    BY <1>6 DEF SetRunning, connVars
  <2> QED BY <1>1, <2>1 DEF Early, Given
<1>7. ASSUME NEW h \in Hosts, HandleMessage(h) PROVE PlaceInv'
  <2>1. Head(wire[h]) \in Frames
    BY <1>0, <1>7, QueueTail DEF HandleMessage
  <2>2. recv[h] \o Head(wire[h]).body \in Seq(Nat)
    BY <2>1, ChunksJoin DEF Frames
  <2>3. recv' = recv \/ recv' = [recv EXCEPT ![h] = recv[h] \o Head(wire[h]).body]
    BY <1>7 DEF HandleMessage
  <2>4. recv' \in [Hosts -> Seq(Nat)] /\ \A g \in Hosts : g # h => recv'[g] = recv[g]
    <3> DEFINE s == recv[h] \o Head(wire[h]).body
    <3>1. s \in Seq(Nat) /\ recv \in [Hosts -> Seq(Nat)] /\ (recv' = recv \/ recv' = [recv EXCEPT ![h] = s])
      BY <2>2, <2>3
    <3> HIDE DEF s
    <3> QED BY ONLY ZenonT(30), <3>1, h \in Hosts, ChunksChanged
  <2>5. UNCHANGED <<hostEnd, host, dump>> /\ host[h] \in Given
    BY <1>7 DEF HandleMessage, Attached, Given
  <2> QED BY <1>0, <2>4, <2>5 DEF Early, Given
<1>8. ASSUME NEW h \in All, UNCHANGED <<host, dump, recv>>, hostEnd' = [hostEnd EXCEPT ![h] = "closed"],
             h \in Hosts => host[h] \in Given
      PROVE  PlaceInv'
  BY <1>0, <1>8 DEF Early, Given
<1>9. ASSUME NEW h \in All, Detach(h) PROVE PlaceInv'
  BY <1>8, <1>9 DEF Detach, hostVars, Given
<1>10. ASSUME NEW h \in Hosts, Disconnected(h) PROVE PlaceInv'
  BY <1>0, <1>8, <1>10 DEF Disconnected, Attached, Given
<1>11. CASE LoopStep \/ PumpStep \/ (\E h \in Hosts : WriteFrame(h)) \/ UNCHANGED reattachVars
  <2>1. UNCHANGED <<host, hostEnd, dump, recv>>
    BY <1>11 DEF LoopStep, Accept, AcceptFails, SendHello, SendRingDump, Handshake, NewConnFails, AdoptConn, CloseOldConn,
       ConnDone, PumpStep, ReadChunk, SendPTYData, WriteRing, WriteFrame, reattachVars, hostVars, connVars
  <2> QED BY <2>1
<1>12. CASE WritePersistentMeta \/ WritePidFile \/ Bind \/ Listen \/ ChildEnds \/ CloseSession \/ AgentEnds
  <2>1. UNCHANGED <<host, hostEnd, dump, recv>>
    BY <1>12 DEF WritePersistentMeta, WritePidFile, Bind, Listen, ChildEnds, CloseSession, AgentEnds, hostVars, connVars
  <2> QED BY <2>1
<1> QED
  BY <1>2, <1>3, <1>4, <1>5, <1>6, <1>7, <1>9, <1>10, <1>11, <1>12 DEF ReattachNext, HostStep

\* The handshake: nothing is on the socket before HELLO, no output before the
\* dump, and before the dump the host has read HELLO or has it to read.
Unwritten(h) == agentEnd[h] \in {"none", "backlog"} \/ (loop.host = h /\ loop.pc = "hello")

Undumped(h) == Unwritten(h) \/ (loop.host = h /\ loop.pc = "snapshot")

Hello == Frame("hello", <<>>)

GreetInv ==
  \A h \in Hosts :
    /\ Unwritten(h) => wire[h] = <<>> /\ host[h] # "dump"
    /\ Undumped(h) => host[h] \notin Given /\ Carried(wire[h]) = {}
    /\ (loop.host = h /\ loop.pc = "snapshot" /\ hostEnd[h] = "open") =>
         \/ host[h] = "hello" /\ wire[h] = <<Hello>>
         \/ host[h] = "dump" /\ wire[h] = <<>>

\* The queue of one frame HELLO.
LEMMA HelloAlone ==
  /\ Hello \in Frames /\ Append(<<>>, Hello) = <<Hello>>
  /\ Carried(<<>>) = {} /\ Carried(<<Hello>>) = {} /\ Tail(<<Hello>>) = <<>>
  /\ Head(<<Hello>>) = Hello /\ Hello.type = "hello" /\ Hello.body = <<>> /\ <<Hello>> # <<>>
<1>1. Hello \in Frames /\ Hello.body = <<>> /\ Hello.type = "hello"
  BY DEF Hello, Frame, Frames
<1>2. Carried(<<>>) = {} /\ Chunks(<<>>) = {}
  BY DEF Carried, Chunks
<1>3. <<>> \in Seq(Frames) /\ Append(<<>>, Hello) = <<Hello>>
  OBVIOUS
<1>4. Carried(<<Hello>>) = {}
  BY Zenon, <1>1, <1>2, <1>3, QueueAppend
<1> QED BY <1>1, <1>2, <1>3, <1>4

\* Steps that touch only queues and Conns beyond the handshake, and close ends.
LEMMA GreetFrame ==
  ASSUME GreetInv, UNCHANGED host,
         \A h \in Hosts : /\ Unwritten(h)' => Unwritten(h)
                          /\ Undumped(h)' => Undumped(h) /\ wire'[h] = wire[h]
                          /\ (loop.host = h /\ loop.pc = "snapshot")' => loop.host = h /\ loop.pc = "snapshot"
                          /\ hostEnd'[h] = "open" => hostEnd[h] = "open"
  PROVE  GreetInv'
<1> SUFFICES ASSUME NEW h \in Hosts
             PROVE  /\ Unwritten(h)' => wire'[h] = <<>> /\ host'[h] # "dump"
                    /\ Undumped(h)' => host'[h] \notin Given /\ Carried(wire'[h]) = {}
                    /\ (loop'.host = h /\ loop'.pc = "snapshot" /\ hostEnd'[h] = "open") =>
                         \/ host'[h] = "hello" /\ wire'[h] = <<Hello>>
                         \/ host'[h] = "dump" /\ wire'[h] = <<>>
  BY DEF GreetInv, Hello, Frame
<1>1. Unwritten(h)' => wire'[h] = <<>> /\ host'[h] # "dump"
  BY DEF GreetInv, Undumped
<1>2. Undumped(h)' => host'[h] \notin Given /\ Carried(wire'[h]) = {}
  BY DEF GreetInv
<1>3. ASSUME loop'.host = h, loop'.pc = "snapshot", hostEnd'[h] = "open"
      PROVE  \/ host'[h] = "hello" /\ wire'[h] = <<Hello>>
             \/ host'[h] = "dump" /\ wire'[h] = <<>>
  <2>1. Undumped(h)'
    BY <1>3 DEF Undumped
  <2> QED BY <1>3, <2>1, Zenon DEF GreetInv
<1> QED BY <1>1, <1>2, <1>3

\* The accept loop: HELLO goes to a host that has read nothing yet.
LEMMA GreetLoop == ASSUME LoopInv, FrameInv, PlaceInv, GreetInv, LoopStep PROVE GreetInv'
<1>0. /\ host' = host /\ hostEnd' = hostEnd /\ wire \in [Hosts -> Seq(Frames)]
      /\ agentEnd \in [All -> {"none", "backlog", "open", "closed"}] /\ Hosts \subseteq All
  BY DEF LoopStep, Accept, AcceptFails, SendHello, SendRingDump, Handshake, NewConnFails, AdoptConn, CloseOldConn,
     ConnDone, hostVars, connVars, FrameInv, LoopInv, LoopType, All
<1>1. ASSUME NEW h \in Hosts, Accept(h) PROVE GreetInv'
  <2>1. /\ agentEnd' = [agentEnd EXCEPT ![h] = "open"] /\ wire' = wire
        /\ loop' = [pc |-> "hello", host |-> h, old |-> Boot] /\ agentEnd[h] = "backlog" /\ loop.pc = "accept"
    BY <1>1 DEF Accept, Loop, LoopInv
  <2>2. \A g \in Hosts : Unwritten(g)' => Unwritten(g)
    BY <1>0, <2>1 DEF Unwritten
  <2>3. \A g \in Hosts : Undumped(g)' => Undumped(g)
    BY <2>1, <2>2 DEF Undumped
  <2> QED BY <1>0, <2>1, <2>2, <2>3, GreetFrame
<1>2. CASE AcceptFails \/ NewConnFails \/ AdoptConn \/ CloseOldConn \/ ConnDone
  <2>1. wire' = wire /\ loop'.pc \notin {"hello", "snapshot"}
    BY <1>2 DEF AcceptFails, NewConnFails, AdoptConn, CloseOldConn, ConnDone, Loop, markDetached, AtAccept, connVars
  <2>2. \A g \in Hosts : agentEnd'[g] \in {"none", "backlog"} => agentEnd[g] \in {"none", "backlog"}
    BY <1>0, <1>2 DEF AcceptFails, NewConnFails, AdoptConn, CloseOldConn, ConnDone, connVars
  <2> QED BY <1>0, <2>1, <2>2, GreetFrame DEF Unwritten, Undumped
<1>3. ASSUME NEW pc \in {"hello", "snapshot"}, NEW frame, NEW next, Handshake(pc, frame, next),
             hostEnd[loop.host] # "open"
      PROVE  GreetInv'
  <2>1. /\ loop' = [pc |-> "accept", host |-> Boot, old |-> Boot] /\ wire' = wire
        /\ agentEnd' = [agentEnd EXCEPT ![loop.host] = "closed"]
    BY <1>3 DEF Handshake, markDetached, AtAccept, Loop
  <2> QED BY <1>0, <2>1, GreetFrame DEF Unwritten, Undumped
<1>4. CASE SendHello /\ hostEnd[loop.host] = "open"
  <2>1. /\ loop.host \in Hosts /\ agentEnd' = agentEnd /\ loop.pc = "hello"
        /\ loop' = [pc |-> "snapshot", host |-> loop.host, old |-> Boot]
        /\ wire' = [wire EXCEPT ![loop.host] = Append(@, Hello)]
    BY <1>4 DEF SendHello, Handshake, Loop, Hello, LoopInv, LoopType, Serving
  <2>2. /\ agentEnd[loop.host] = "open" /\ wire[loop.host] = <<>> /\ host[loop.host] = "hello"
    BY <1>4, <2>1 DEF LoopInv, Serving, GreetInv, PlaceInv, Unwritten, Undumped
  <2>3. wire'[loop.host] = <<Hello>> /\ \A g \in Hosts : g # loop.host => wire'[g] = wire[g]
    BY <1>0, <2>1, <2>2, HelloAlone
  <2> SUFFICES ASSUME NEW g \in Hosts
               PROVE  /\ Unwritten(g)' => wire'[g] = <<>> /\ host'[g] # "dump"
                      /\ Undumped(g)' => host'[g] \notin Given /\ Carried(wire'[g]) = {}
                      /\ (loop'.host = g /\ loop'.pc = "snapshot" /\ hostEnd'[g] = "open") =>
                           \/ host'[g] = "hello" /\ wire'[g] = <<Hello>>
                           \/ host'[g] = "dump" /\ wire'[g] = <<>>
    BY DEF GreetInv, Hello, Frame
  <2>4. CASE g = loop.host
    BY <1>0, <2>1, <2>2, <2>3, <2>4, HelloAlone DEF Unwritten, Undumped, Given
  <2>5. CASE g # loop.host
    BY <1>0, <2>1, <2>3, <2>5 DEF Unwritten, Undumped, GreetInv
  <2> QED BY <2>4, <2>5
<1>5. CASE SendRingDump /\ hostEnd[loop.host] = "open"
  <2>1. /\ loop.host \in Hosts /\ agentEnd' = agentEnd /\ loop.pc = "snapshot"
        /\ loop' = [pc |-> "adopt", host |-> loop.host, old |-> Boot]
        /\ wire' = [wire EXCEPT ![loop.host] = Append(@, Frame("dump", ring))]
    BY <1>5 DEF SendRingDump, Handshake, Loop, LoopInv, LoopType, Serving
  <2>2. agentEnd[loop.host] = "open"
    BY <2>1 DEF LoopInv, Serving
  <2>3. \A g \in Hosts : g # loop.host => wire'[g] = wire[g]
    BY <1>0, <2>1
  <2> QED BY <1>0, <2>1, <2>2, <2>3, GreetFrame DEF Unwritten, Undumped
<1> QED BY <1>1, <1>2, <1>3, <1>4, <1>5 DEF LoopStep, SendHello, SendRingDump

\* The agent, its pump and the hosts: only HELLO can be read before the dump.
LEMMA GreetRest ==
  ASSUME LoopInv, FrameInv, PlaceInv, AdoptInv, GreetInv, [ReattachNext]_reattachVars, ~LoopStep
  PROVE  GreetInv'
<1>0. /\ wire \in [Hosts -> Seq(Frames)] /\ Hosts \subseteq All
      /\ agentEnd \in [All -> {"none", "backlog", "open", "closed"}]
      /\ hostEnd \in [All -> {"none", "open", "closed"}] /\ host \in [Hosts -> Places]
  BY DEF FrameInv, LoopInv, LoopType, All
<1>1. CASE \/ WritePersistentMeta \/ WritePidFile \/ Bind \/ Listen \/ ChildEnds \/ PumpStep \/ CloseSession
           \/ AgentEnds \/ UNCHANGED reattachVars
  <2>1. UNCHANGED <<host, hostEnd, wire>>
    BY <1>1 DEF WritePersistentMeta, WritePidFile, Bind, Listen, ChildEnds, PumpStep, ReadChunk, SendPTYData, WriteRing,
       CloseSession, AgentEnds, reattachVars, hostVars, connVars
  <2>2. loop' = loop \/ loop' = [pc |-> "ended", host |-> Boot, old |-> Boot]
    BY <1>1 DEF WritePersistentMeta, WritePidFile, Bind, Listen, ChildEnds, PumpStep, ReadChunk, SendPTYData, WriteRing,
       CloseSession, AgentEnds, Loop, reattachVars, agentVars
  <2>3. \A g \in Hosts : agentEnd'[g] \in {"none", "backlog"} => agentEnd[g] \in {"none", "backlog"}
    BY <1>0, <1>1 DEF WritePersistentMeta, WritePidFile, Bind, Listen, ChildEnds, PumpStep, ReadChunk, SendPTYData, WriteRing,
       CloseSession, AgentEnds, reattachVars, connVars
  <2> QED BY <2>1, <2>2, <2>3, GreetFrame DEF Unwritten, Undumped
<1>2. ASSUME NEW h \in Hosts, WriteFrame(h) PROVE GreetInv'
  <2>1. /\ UNCHANGED <<host, hostEnd, agentEnd, loop>> /\ queued[h] # <<>>
        /\ \A g \in Hosts : g # h => wire'[g] = wire[g]
    BY <1>0, <1>2 DEF WriteFrame, agentVars, hostVars
  <2>2. ~Undumped(h)
    BY <2>1 DEF AdoptInv, Unadopted, Undumped, Unwritten
  <2> QED BY <2>1, <2>2, GreetFrame DEF Undumped, Unwritten
<1>3. ASSUME NEW h \in All, Detach(h) PROVE GreetInv'
  <2>1. UNCHANGED <<host, wire, agentEnd, loop>> /\ hostEnd' = [hostEnd EXCEPT ![h] = "closed"]
    BY <1>3 DEF Detach, agentVars, hostVars
  <2> QED BY <1>0, <2>1, GreetFrame DEF Undumped, Unwritten
<1>4. ASSUME NEW h \in Hosts, NEW r, host' = [host EXCEPT ![h] = r], r \notin {"dump"} \cup Given, loop' = loop,
             \/ hostEnd' = hostEnd /\ host[h] \in Early
             \/ hostEnd' = [hostEnd EXCEPT ![h] = "closed"]
             \/ hostEnd' = [hostEnd EXCEPT ![h] = "open"] /\ agentEnd[h] = "none",
             agentEnd' = agentEnd \/ (agentEnd' = [agentEnd EXCEPT ![h] = "backlog"] /\ agentEnd[h] = "none"),
             wire' = wire \/ (wire[h] # <<>> /\ wire' = [wire EXCEPT ![h] = Tail(@)])
      PROVE  GreetInv'
  <2>1. Carried(wire[h]) = {} => Carried(wire'[h]) = {}
    BY ZenonT(30), <1>0, <1>4, QueueTail
  <2>2. ASSUME NEW g \in Hosts
        PROVE  /\ Unwritten(g)' => wire'[g] = <<>> /\ host'[g] # "dump"
               /\ Undumped(g)' => host'[g] \notin Given /\ Carried(wire'[g]) = {}
               /\ (loop'.host = g /\ loop'.pc = "snapshot" /\ hostEnd'[g] = "open") =>
                    \/ host'[g] = "hello" /\ wire'[g] = <<Hello>>
                    \/ host'[g] = "dump" /\ wire'[g] = <<>>
    <3>1. (Unwritten(g)' <=> Unwritten(g)) /\ (Undumped(g)' <=> Undumped(g))
      BY <1>0, <1>4 DEF Unwritten, Undumped
    <3>2. CASE g # h
      <4>1. wire'[g] = wire[g] /\ host'[g] = host[g] /\ hostEnd'[g] = hostEnd[g]
        BY <1>0, <1>4, <3>2
      <4> QED BY <1>4, <3>1, <4>1 DEF GreetInv
    <3>3. CASE g = h
      <4>1. host'[h] = r
        BY <1>0, <1>4
      <4>2. Unwritten(h) => wire'[h] = <<>>
        BY <1>4 DEF GreetInv
      <4>3. loop.host = h /\ loop.pc = "snapshot" => hostEnd'[h] # "open"
        BY <1>0, <1>4 DEF LoopInv, PlaceInv, Serving
      <4> QED BY <1>4, <2>1, <3>1, <3>3, <4>1, <4>2, <4>3 DEF GreetInv
    <3> QED BY <3>2, <3>3
  <2> QED BY <2>2 DEF GreetInv, Hello, Frame
<1>5. ASSUME NEW h \in Hosts, ReadPersistentMeta(h) \/ CheckPid(h) \/ HandshakeFails(h) PROVE GreetInv'
  <2>1. PICK r : host' = [host EXCEPT ![h] = r] /\ r \notin {"dump"} \cup Given
    <3>1. PICK r \in {"ErrSessionNotFound", "pid", "dial", "ErrAgentDead", "ErrIncompatibleAgent"} :
                 host' = [host EXCEPT ![h] = r]
      <4>1. CASE ReadPersistentMeta(h)
        BY <4>1, Zenon DEF ReadPersistentMeta
      <4>2. CASE CheckPid(h)
        BY <4>2 DEF CheckPid
      <4>3. CASE HandshakeFails(h)
        BY <4>3, Zenon DEF HandshakeFails, HangUp
      <4> QED BY <1>5, <4>1, <4>2, <4>3
    <3>2. r \notin {"dump"} \cup Given
      BY DEF Given
    <3> QED BY <3>1, <3>2
  <2>2. UNCHANGED <<loop, agentEnd, wire>>
    BY <1>5, Zenon DEF ReadPersistentMeta, CheckPid, HandshakeFails, agentVars, connVars
  <2>3. (hostEnd' = hostEnd /\ host[h] \in Early) \/ hostEnd' = [hostEnd EXCEPT ![h] = "closed"]
    BY <1>5 DEF ReadPersistentMeta, CheckPid, HandshakeFails, HangUp, connVars, Early
  <2> QED BY Zenon, <1>4, <2>1, <2>2, <2>3
<1>6. ASSUME NEW h \in Hosts, Dial(h) PROVE GreetInv'
  <2>1. PICK r : host' = [host EXCEPT ![h] = r] /\ r \notin {"dump"} \cup Given
    BY <1>6 DEF Dial, DialErrors, Given
  <2>2. UNCHANGED <<loop, wire>> /\ host[h] = "dial"
    BY <1>6, Zenon DEF Dial, agentVars
  <2>3. host[h] \in Early /\ agentEnd[h] = "none"
    BY <2>2 DEF Early, LoopInv
  <2>4. \/ UNCHANGED <<hostEnd, agentEnd>>
        \/ hostEnd' = [hostEnd EXCEPT ![h] = "open"] /\ agentEnd' = [agentEnd EXCEPT ![h] = "backlog"]
    BY <1>6 DEF Dial
  <2> QED BY Zenon, <1>4, <2>1, <2>2, <2>3, <2>4
<1>7. ASSUME NEW h \in Hosts, ReadHello(h) PROVE GreetInv'
  <2>0. /\ host[h] = "hello" /\ wire[h] # <<>> /\ UNCHANGED <<agentEnd, loop>>
        /\ wire' = [wire EXCEPT ![h] = Tail(@)]
    BY <1>7 DEF ReadHello, agentVars
  <2>1. CASE Head(wire[h]).type # "hello" \/ stale[h]
    <3>1. PICK r \in {"ErrAgentDead", "ErrIncompatibleAgent"} :
                 host' = [host EXCEPT ![h] = r] /\ hostEnd' = [hostEnd EXCEPT ![h] = "closed"]
      BY <1>7, <2>1 DEF ReadHello, HangUp
    <3> QED BY Zenon, <1>4, <2>0, <3>1 DEF Given
  <2>2. CASE Head(wire[h]).type = "hello" /\ ~stale[h]
    <3>1. host' = [host EXCEPT ![h] = "dump"] /\ hostEnd' = hostEnd
      BY <1>7, <2>2 DEF ReadHello
    <3>2. ~Unwritten(h) /\ hostEnd[h] = "open"
      BY <2>0 DEF GreetInv, PlaceInv
    <3>3. Undumped(h) => loop.host = h /\ loop.pc = "snapshot" /\ wire[h] = <<Hello>>
      BY <2>0, <3>2 DEF Undumped, GreetInv
    <3>4. Undumped(h) => wire'[h] = <<>>
      BY <1>0, <2>0, <3>3, HelloAlone
    <3>5. ASSUME NEW g \in Hosts
          PROVE  /\ Unwritten(g)' => wire'[g] = <<>> /\ host'[g] # "dump"
                 /\ Undumped(g)' => host'[g] \notin Given /\ Carried(wire'[g]) = {}
                 /\ (loop'.host = g /\ loop'.pc = "snapshot" /\ hostEnd'[g] = "open") =>
                      \/ host'[g] = "hello" /\ wire'[g] = <<Hello>>
                      \/ host'[g] = "dump" /\ wire'[g] = <<>>
      <4>1. (Unwritten(g)' <=> Unwritten(g)) /\ (Undumped(g)' <=> Undumped(g))
        BY <2>0 DEF Unwritten, Undumped
      <4>2. CASE g # h
        <5>1. wire'[g] = wire[g] /\ host'[g] = host[g]
          BY <1>0, <2>0, <3>1, <4>2
        <5> QED BY Zenon, <2>0, <3>1, <4>1, <5>1 DEF GreetInv
      <4>3. CASE g = h
        <5>1. host'[h] = "dump"
          BY <1>0, <3>1
        <5> QED BY Zenon, <2>0, <3>2, <3>4, <4>1, <4>3, <5>1, HelloAlone DEF Undumped, Given
      <4> QED BY <4>2, <4>3
    <3> QED BY <3>5 DEF GreetInv, Hello, Frame
  <2> QED BY <2>1, <2>2
<1>8. ASSUME NEW h \in Hosts, ReadRingDump(h) \/ SetRunning(h) \/ HandleMessage(h) \/ Disconnected(h) PROVE GreetInv'
  <2>1. ~Undumped(h)
    <3>1. CASE ReadRingDump(h)
      <4>1. host[h] = "dump" /\ wire[h] # <<>>
        BY <3>1 DEF ReadRingDump
      <4> QED BY <4>1 DEF Undumped, GreetInv, PlaceInv
    <3>2. CASE ~ReadRingDump(h)
      <4>1. host[h] \in Given
        BY Zenon, <1>8, <3>2 DEF SetRunning, HandleMessage, Disconnected, Attached, Given
      <4> QED BY <4>1 DEF GreetInv
    <3> QED BY <3>1, <3>2
  <2>2. UNCHANGED <<loop, agentEnd>> /\ (hostEnd' = hostEnd \/ hostEnd' = [hostEnd EXCEPT ![h] = "closed"])
    BY <1>8, Zenon DEF ReadRingDump, SetRunning, HandleMessage, Disconnected, agentVars, connVars
  <2>3. \A g \in Hosts : g # h => wire'[g] = wire[g] /\ host'[g] = host[g]
    BY Zenon, <1>0, <1>8 DEF ReadRingDump, SetRunning, HandleMessage, Disconnected, connVars
  <2>4. ASSUME NEW g \in Hosts
        PROVE  /\ Unwritten(g)' => wire'[g] = <<>> /\ host'[g] # "dump"
               /\ Undumped(g)' => host'[g] \notin Given /\ Carried(wire'[g]) = {}
               /\ (loop'.host = g /\ loop'.pc = "snapshot" /\ hostEnd'[g] = "open") =>
                    \/ host'[g] = "hello" /\ wire'[g] = <<Hello>>
                    \/ host'[g] = "dump" /\ wire'[g] = <<>>
    <3>1. (Unwritten(g)' <=> Unwritten(g)) /\ (Undumped(g)' <=> Undumped(g))
      BY <2>2 DEF Unwritten, Undumped
    <3>2. CASE g = h
      BY <2>1, <2>2, <3>1, <3>2 DEF Undumped
    <3>3. CASE g # h
      <4>1. hostEnd'[g] = hostEnd[g]
        BY <1>0, <2>2, <3>3
      <4> QED BY <2>2, <2>3, <3>1, <3>3, <4>1 DEF GreetInv
    <3> QED BY <3>2, <3>3
  <2> QED BY <2>4 DEF GreetInv, Hello, Frame
<1> QED
  BY <1>1, <1>2, <1>3, <1>5, <1>6, <1>7, <1>8 DEF ReattachNext, HostStep

-----------------------------------------------------------------------------
\* The pump and the ring: the ring holds the newest chunks the pump is done
\* with, in order, and is full before it lets one go.
Covers(d, S) == \A n \in 1 .. out : n \in S \/ Expired(d, n)

PumpInv ==
  /\ pump.pc = "idle" => pump.n = 0
  /\ pump.n # 0 => pump.n = out /\ \A x \in Chunks(ring) : x < out
  /\ \A x \in Chunks(ring) : x <= out
  /\ Rising(ring) /\ Len(ring) <= RingCap
  /\ Alive => Covers(ring, Chunks(ring) \cup {pump.n})

\* Keep adds a chunk at the end and expires the oldest of a full ring.
LEMMA KeepNewest ==
  ASSUME NEW q \in Seq(Nat), Rising(q), Len(q) <= RingCap, NEW n \in Nat, \A x \in Chunks(q) : x < n
  PROVE  /\ Rising(Keep(q, n)) /\ Len(Keep(q, n)) <= RingCap
         /\ n \in Chunks(Keep(q, n)) /\ Chunks(Keep(q, n)) \subseteq Chunks(q) \cup {n}
         /\ \A x \in Chunks(q) : x \in Chunks(Keep(q, n)) \/ Expired(Keep(q, n), x)
         /\ \A x \in Nat : Expired(q, x) => Expired(Keep(q, n), x)
<1> DEFINE k == Keep(q, n)
<1>0. RingCap \in Nat \ {0} /\ \A i \in DOMAIN q : q[i] < n
  BY ReattachAssumption DEF Chunks
<1>1. CASE Len(q) # RingCap
  <2>1. k = Append(q, n) /\ ~(Len(q) = RingCap)
    BY <1>1 DEF Keep
  <2>2. /\ DOMAIN k = DOMAIN q \cup {Len(q) + 1} /\ k[Len(q) + 1] = n
        /\ \A i \in DOMAIN q : k[i] = q[i] /\ i < Len(q) + 1
        /\ Len(k) = Len(q) + 1
    BY <2>1
  <2>3. DOMAIN q \subseteq Nat /\ Len(q) \in Nat
    OBVIOUS
  <2> HIDE DEF k
  <2>4. Chunks(k) = Chunks(q) \cup {n}
    BY ZenonT(30), <2>2 DEF Chunks
  <2>5. Rising(k)
    BY <1>0, <2>2, <2>3 DEF Rising
  <2>6. Len(k) <= RingCap
    BY <1>0, <1>1, <2>2, <2>3
  <2>7. \A x \in Nat : ~Expired(q, x)
    BY <1>1 DEF Expired
  <2> QED BY <2>4, <2>5, <2>6, <2>7 DEF k
<1>2. CASE Len(q) = RingCap
  <2>1. k = Append(Tail(q), n)
    BY <1>2 DEF Keep
  <2>2. /\ Len(k) = RingCap /\ DOMAIN k = 1 .. RingCap
        /\ k[RingCap] = n /\ \A i \in 1 .. RingCap - 1 : k[i] = q[i + 1]
        /\ DOMAIN q = 1 .. RingCap /\ Head(q) = q[1] /\ Head(k) = k[1]
    BY <1>0, <1>2, <2>1
  <2> HIDE DEF k
  <2>3. Rising(k)
    <3> SUFFICES ASSUME NEW i \in 1 .. RingCap, NEW j \in 1 .. RingCap, i < j PROVE k[i] < k[j]
      BY <2>2, Zenon DEF Rising
    <3>1. i \in 1 .. RingCap - 1 /\ i + 1 \in 1 .. RingCap /\ k[i] = q[i + 1]
      BY <1>0, <2>2
    <3>2. CASE j = RingCap
      BY Zenon, <1>0, <2>2, <3>1, <3>2
    <3>3. CASE j # RingCap
      <4>1. j + 1 \in 1 .. RingCap /\ k[j] = q[j + 1] /\ i + 1 < j + 1
        BY <1>0, <2>2, <3>1, <3>3
      <4> QED BY Zenon, <2>2, <3>1, <4>1 DEF Rising
    <3> QED BY <3>2, <3>3
  <2>4. n \in Chunks(k) /\ Chunks(k) \subseteq Chunks(q) \cup {n}
    <3>1. n \in Chunks(k)
      BY <1>0, <2>2 DEF Chunks
    <3>2. ASSUME NEW i \in DOMAIN k PROVE k[i] \in Chunks(q) \cup {n}
      <4>1. CASE i = RingCap
        BY <2>2, <4>1
      <4>2. CASE i # RingCap
        <5>1. i + 1 \in DOMAIN q /\ k[i] = q[i + 1]
          <6>1. i \in 1 .. RingCap - 1 /\ i + 1 \in 1 .. RingCap
            <7>1. i \in 1 .. RingCap /\ RingCap \in Nat
              BY <1>0, <2>2
            <7> QED BY ONLY <4>2, <7>1
          <6> QED BY <2>2, <6>1, Zenon
        <5> QED BY <5>1 DEF Chunks
      <4> QED BY <4>1, <4>2
    <3> QED BY <3>1, <3>2 DEF Chunks
  <2>5. q[1] < k[1] /\ k[1] \in Nat /\ q[1] \in Nat
    <3>1. CASE RingCap = 1
      <4>1. 1 \in DOMAIN q /\ k[1] = n
        BY <1>0, <2>2, <3>1
      <4> QED BY <1>0, <4>1
    <3>2. CASE RingCap # 1
      <4>1. k[1] = q[2] /\ 1 \in DOMAIN q /\ 2 \in DOMAIN q /\ q[1] \in Nat /\ q[2] \in Nat
        BY <1>0, <2>2, <3>2
      <4> QED BY <4>1 DEF Rising
    <3> QED BY <3>1, <3>2
  <2>6. \A x \in Nat : Expired(q, x) => Expired(k, x)
    BY <2>2, <2>5 DEF Expired
  <2>7. ASSUME NEW i \in DOMAIN q PROVE q[i] \in Chunks(k) \/ Expired(k, q[i])
    <3>1. CASE i = 1
      BY <2>2, <2>5, <3>1 DEF Expired
    <3>2. CASE i # 1
      <4>1. i - 1 \in DOMAIN k /\ k[i - 1] = q[i]
        BY <1>0, <2>2, <3>2
      <4> QED BY <4>1 DEF Chunks
    <3> QED BY <3>1, <3>2
  <2>8. \A x \in Chunks(q) : x \in Chunks(k) \/ Expired(k, x)
    BY <2>7, Zenon DEF Chunks
  <2>9. Len(k) <= RingCap
    BY <1>0, <2>2
  <2> QED BY <2>3, <2>4, <2>6, <2>8, <2>9 DEF k
<1> QED BY <1>1, <1>2

\* At the start there is no output.
LEMMA PumpInit == ReattachInit => PumpInv
<1> SUFFICES ASSUME ReattachInit PROVE PumpInv
  OBVIOUS
<1>1. pump.pc = "idle" /\ pump.n = 0 /\ ring = <<>> /\ out = 0
  BY DEF ReattachInit, NoChunk
<1>2. Chunks(ring) = {} /\ Rising(ring) /\ Len(ring) = 0
  BY <1>1 DEF Chunks, Rising
<1>3. \A S : Covers(ring, S)
  BY <1>1 DEF Covers
<1> QED BY <1>1, <1>2, <1>3, ReattachAssumption DEF PumpInv

\* The pump takes a chunk, sends it and writes it to the ring.
LEMMA PumpStays == ASSUME VerdictInv, FrameInv, PumpInv, [ReattachNext]_reattachVars PROVE PumpInv'
<1>0. /\ ring \in Seq(Nat) /\ out \in Nat /\ pump \in [pc : {"idle", "send", "ring"}, n : Nat, to : All]
      /\ Chunks(ring) \subseteq Nat
  BY SMTT(30) DEF FrameInv, Chunks
<1>1. CASE ReadChunk
  <2>1. /\ pump'.pc = "send" /\ pump'.n = out + 1 /\ out' = out + 1 /\ ring' = ring /\ pump.n = 0
        /\ phase' = phase
    BY <1>1 DEF ReadChunk, NoChunk, agentVars
  <2>2. ASSUME Alive PROVE Covers(ring, Chunks(ring) \cup {pump.n})'
    <3>1. \A n \in 1 .. out : n \in Chunks(ring) \/ Expired(ring, n)
      BY <1>0, <2>1, <2>2 DEF PumpInv, Covers
    <3>2. \A n \in 1 .. out + 1 : n \in 1 .. out \/ n = out + 1
      BY <1>0
    <3> QED BY <2>1, <3>1, <3>2, Zenon DEF Covers, Expired, Chunks
  <2>3. /\ \A x \in Chunks(ring) : x < out + 1 /\ x <= out + 1
    BY <1>0 DEF PumpInv
  <2> QED BY <2>1, <2>2, <2>3 DEF PumpInv, Alive, Rising, Chunks
<1>2. CASE WriteRing /\ pump.n # 0
  <2>1. /\ ring' = Keep(ring, pump.n) /\ pump'.pc = "idle" /\ pump'.n = 0 /\ out' = out /\ pump.n = out
        /\ phase' = phase
    BY <1>2 DEF WriteRing, NoChunk, PumpInv
  <2>2. /\ Rising(ring') /\ Len(ring') <= RingCap
        /\ out \in Chunks(ring') /\ Chunks(ring') \subseteq Chunks(ring) \cup {out}
        /\ \A x \in Chunks(ring) : x \in Chunks(ring') \/ Expired(ring', x)
        /\ \A x \in Nat : Expired(ring, x) => Expired(ring', x)
    BY <1>0, <1>2, <2>1, KeepNewest DEF PumpInv
  <2>3. \A x \in Chunks(ring') : x <= out
    BY <1>0, <2>2 DEF PumpInv
  <2>4. ASSUME Alive, NEW n \in 1 .. out PROVE n \in Chunks(ring') \/ Expired(ring', n)
    <3>1. n \in Chunks(ring) \/ n = out \/ Expired(ring, n)
      BY <2>1, <2>4 DEF PumpInv, Covers
    <3> QED BY <1>0, <2>2, <2>4, <3>1
  <2>5. Alive => Covers(ring, Chunks(ring) \cup {pump.n})'
    BY <2>1, <2>4, Zenon DEF Covers, Expired, Chunks
  <2> QED BY <2>1, <2>2, <2>3, <2>5, Zenon DEF PumpInv, Alive, Rising, Chunks
<1>3. ASSUME UNCHANGED <<ring, out>>, pump'.n = pump.n \/ (pump'.n = 0 /\ (pump.n = 0 \/ ~Alive')),
             pump'.pc = "idle" => pump'.n = 0, Alive' => Alive
      PROVE  PumpInv'
  <2>1. Alive' => Covers(ring, Chunks(ring) \cup {pump.n})'
    BY <1>3 DEF PumpInv, Covers, Expired, Chunks
  <2> QED BY <1>3, <2>1 DEF PumpInv, Rising, Chunks
<1>4. CASE WriteRing /\ pump.n = 0
  <2>1. /\ pump'.n = 0 /\ pump'.pc = "idle" /\ UNCHANGED <<ring, out>> /\ pump.pc = "ring"
    BY <1>4 DEF WriteRing, NoChunk
  <2>2. Alive
    BY <2>1 DEF VerdictInv, Alive
  <2> QED BY <1>3, <1>4, <2>1, <2>2
<1>5. CASE ChildEnds
  BY <1>3, <1>5 DEF ChildEnds, NoChunk, Alive
<1>6. CASE SendPTYData
  <2>1. pump'.n = pump.n /\ pump'.pc = "ring" /\ UNCHANGED <<ring, out, phase>>
    BY <1>0, <1>6 DEF SendPTYData, agentVars
  <2> QED BY <1>3, <2>1 DEF Alive
<1>7. CASE AgentEnds
  BY <1>3, <1>7 DEF AgentEnds, NoChunk, Alive
<1>8. ASSUME UNCHANGED <<ring, out, pump>>, Alive' => Alive PROVE PumpInv'
  BY <1>3, <1>8 DEF PumpInv
<1>9. CASE WritePersistentMeta \/ WritePidFile \/ Bind \/ Listen \/ CloseSession
  BY <1>8, <1>9 DEF WritePersistentMeta, WritePidFile, Bind, Listen, CloseSession, pumpVars, Alive
<1>10. CASE LoopStep
  BY <1>8, <1>10 DEF LoopStep, Accept, AcceptFails, SendHello, SendRingDump, Handshake, NewConnFails, AdoptConn, CloseOldConn,
     ConnDone, pumpVars, Alive
<1>11. CASE (\E h \in Hosts : WriteFrame(h)) \/ (\E h \in All : Detach(h)) \/ UNCHANGED reattachVars
  BY Zenon, <1>8, <1>11 DEF WriteFrame, Detach, reattachVars, agentVars, pumpVars, Alive
<1>12. CASE \E h \in Hosts : HostStep(h)
  <2>1. UNCHANGED <<phase, ring, out, pump>>
    BY <1>12, HostFrame
  <2> QED BY <1>8, <2>1 DEF Alive
<1> QED
  BY <1>1, <1>2, <1>4, <1>5, <1>6, <1>7, <1>9, <1>10, <1>11, <1>12 DEF ReattachNext, PumpStep

-----------------------------------------------------------------------------
\* What a host has or will have: one rising sequence, and all of it older than
\* the chunk the pump is about to queue.
Held(h) == Chunks(dump[h]) \cup Live(h)

HeldInv ==
  /\ \A h \in Hosts : OneSequence(h)
  /\ \A h \in Hosts : \A x \in Held(h) : x <= out
  /\ pump.pc = "send" /\ pump.n # 0 => \A h \in Hosts : \A x \in Held(h) : x < pump.n

\* A host whose queues and output do not change.
LEMMA HeldFrame ==
  ASSUME NEW g \in Hosts, OneSequence(g),
         dump'[g] = dump[g], recv'[g] = recv[g], wire'[g] = wire[g], queued'[g] = queued[g]
  PROVE  OneSequence(g)' /\ Held(g)' = Held(g)
<1>1. Held(g)' = Held(g)
  BY Zenon DEF Held, Live
<1>2. OneSequence(g)'
  BY Zenon DEF OneSequence, Live
<1> QED BY <1>1, <1>2

\* Nothing has no order to keep.
LEMMA Nothing ==
  /\ Chunks(<<>>) = {} /\ Rising(<<>>) /\ Carried(<<>>) = {} /\ Successive(<<>>)
  /\ \A S : Before(S, {}) /\ Before({}, S)
BY DEF Chunks, Rising, Carried, Successive, Before

\* The outbox is dropped.
LEMMA OutboxDropped ==
  ASSUME NEW g \in Hosts, OneSequence(g),
         dump'[g] = dump[g], recv'[g] = recv[g], wire'[g] = wire[g], queued'[g] = <<>>
  PROVE  OneSequence(g)' /\ Held(g)' \subseteq Held(g)
<1>1. Held(g)' \subseteq Held(g)
  BY Zenon, Nothing DEF Held, Live
<1>2. Live(g)' \subseteq Live(g)
  BY Nothing DEF Live
<1>3. Before(Chunks(dump[g]), Live(g)') /\ Before(Chunks(recv[g]), Carried(wire[g]) \cup {})
  BY <1>2, Zenon DEF OneSequence, Before
<1> QED BY ZenonT(30), <1>1, <1>3, Nothing DEF OneSequence

\* writeLoop takes the first frame of the outbox to the socket, or it is lost.
LEMMA FrameWritten ==
  ASSUME NEW g \in Hosts, OneSequence(g), queued[g] # <<>>,
         wire[g] \in Seq(Frames), queued[g] \in Seq(Frames),
         dump'[g] = dump[g], recv'[g] = recv[g], queued'[g] = Tail(queued[g]),
         wire'[g] = wire[g] \/ wire'[g] = Append(wire[g], Head(queued[g]))
  PROVE  /\ OneSequence(g)' /\ Held(g)' \subseteq Held(g)
         /\ wire'[g] # wire[g] => Held(g)' = Held(g)
<1> DEFINE q == queued[g]
           w == wire[g]
           H == Chunks(Head(q).body)
           T == Carried(Tail(q))
<1>1. /\ Head(q) \in Frames /\ Carried(q) = H \cup T
      /\ Rising(Head(q).body) /\ Successive(Tail(q)) /\ Before(H, T)
  BY QueueTail DEF OneSequence
<1>2. /\ Successive(w) /\ Rising(dump[g]) /\ Rising(recv[g])
      /\ Before(Chunks(dump[g]), Live(g)) /\ Before(Chunks(recv[g]), Carried(w) \cup Carried(q))
      /\ Before(Carried(w), Carried(q))
  BY DEF OneSequence
<1>3. CASE wire'[g] = w
  <2>1. Live(g)' \subseteq Live(g) /\ Carried(queued'[g]) = T /\ Carried(wire'[g]) = Carried(w)
    BY Zenon, <1>1, <1>3 DEF Live
  <2>2. Held(g)' \subseteq Held(g)
    BY Zenon, <2>1 DEF Held
  <2>3. /\ Before(Chunks(dump[g]), Live(g)') /\ Before(Chunks(recv[g]), Carried(w) \cup T)
        /\ Before(Carried(w), T)
    BY <1>1, <1>2, <2>1, Zenon DEF Before
  <2> QED BY ZenonT(30), <1>1, <1>2, <1>3, <2>1, <2>2, <2>3 DEF OneSequence
<1>4. CASE wire'[g] = Append(w, Head(q))
  <2>1. Before(Carried(w), H)
    BY <1>1, <1>2, Zenon DEF Before
  <2>2. Carried(wire'[g]) = Carried(w) \cup H /\ Successive(wire'[g])
    BY Zenon, <1>1, <1>2, <1>4, <2>1, QueueAppend
  <2>3. Live(g)' = Live(g) /\ Carried(queued'[g]) = T
    BY <1>1, <2>2 DEF Live
  <2>4. Held(g)' = Held(g)
    BY Zenon, <2>3 DEF Held
  <2>5. Before(Chunks(recv[g]), (Carried(w) \cup H) \cup T) /\ Before(Carried(w) \cup H, T)
    BY <1>1, <1>2, Zenon DEF Before
  <2> QED BY Zenon, <1>1, <1>2, <2>2, <2>3, <2>4, <2>5 DEF OneSequence
<1> QED BY <1>3, <1>4

\* The host reads a frame: HELLO and the exit carry nothing, the dump is kept
\* and output is added to what was received.
LEMMA FrameRead ==
  ASSUME NEW g \in Hosts, OneSequence(g), wire[g] \in Seq(Frames), wire[g] # <<>>,
         dump[g] \in Seq(Nat), recv[g] \in Seq(Nat),
         wire'[g] = Tail(wire[g]), queued'[g] = queued[g],
         \/ dump'[g] = dump[g] /\ recv'[g] = recv[g]
         \/ dump'[g] = Head(wire[g]).body /\ recv'[g] = recv[g] /\ dump[g] = <<>> /\ recv[g] = <<>>
         \/ dump'[g] = dump[g] /\ recv'[g] = recv[g] \o Head(wire[g]).body
  PROVE  /\ OneSequence(g)' /\ Held(g)' \subseteq Held(g)
         /\ (dump'[g] # dump[g] \/ recv'[g] # recv[g] \/ Head(wire[g]).body = <<>>) => Held(g)' = Held(g)
<1> DEFINE w == wire[g]
           H == Chunks(Head(w).body)
           T == Carried(Tail(w))
           Q == Carried(queued[g])
           D == Chunks(dump[g])
           R == Chunks(recv[g])
<1>1. /\ Head(w) \in Frames /\ Carried(w) = H \cup T
      /\ Rising(Head(w).body) /\ Successive(Tail(w)) /\ Before(H, T)
  BY ZenonT(30), QueueTail DEF OneSequence
<1>2. /\ Rising(dump[g]) /\ Rising(recv[g]) /\ Successive(queued[g])
      /\ Before(D, (R \cup (H \cup T)) \cup Q) /\ Before(R, (H \cup T) \cup Q) /\ Before(H \cup T, Q)
      /\ Held(g) = D \cup ((R \cup (H \cup T)) \cup Q)
  BY Zenon, <1>1 DEF OneSequence, Live, Held
<1>3. Head(w).body \in Seq(Nat)
  BY <1>1 DEF Frames
<1>4. /\ Carried(wire'[g]) = T /\ Carried(queued'[g]) = Q /\ Successive(wire'[g]) /\ Successive(queued'[g])
  BY Zenon, <1>1, <1>2
<1>5. /\ Before(D, (R \cup T) \cup Q) /\ Before(R, T \cup Q) /\ Before(T, Q) /\ Before(D, ((R \cup H) \cup T) \cup Q)
      /\ Before(R \cup H, T \cup Q) /\ Before(R, H) /\ Before(H, T \cup Q)
  BY <1>1, <1>2, Zenon DEF Before
<1>6. CASE dump'[g] = dump[g] /\ recv'[g] = recv[g]
  <2>1. OneSequence(g)'
    BY ZenonT(30), <1>2, <1>4, <1>5, <1>6 DEF OneSequence, Live
  <2>2. Held(g)' = D \cup ((R \cup T) \cup Q)
    BY Zenon, <1>4, <1>6 DEF Held, Live
  <2>3. Head(w).body = <<>> => H = {}
    BY Nothing
  <2> HIDE DEF H, T, Q, D, R
  <2> QED BY ZenonT(30), <1>2, <1>6, <2>1, <2>2, <2>3
<1>7. CASE dump'[g] = Head(w).body /\ recv'[g] = recv[g] /\ dump[g] = <<>> /\ recv[g] = <<>>
  <2>1. D = {} /\ R = {} /\ Chunks(dump'[g]) = H /\ Chunks(recv'[g]) = {}
    BY <1>7, Nothing
  <2>2. Before(H, ({} \cup T) \cup Q) /\ Before({}, T \cup Q)
    BY <1>5, Nothing, Zenon DEF Before
  <2>3. OneSequence(g)'
    BY ZenonT(30), <1>1, <1>2, <1>4, <1>5, <1>7, <2>1, <2>2 DEF OneSequence, Live
  <2>4. Held(g)' = H \cup (({} \cup T) \cup Q)
    BY Zenon, <1>4, <1>7, <2>1 DEF Held, Live
  <2> HIDE DEF H, T, Q, D, R
  <2> QED BY Zenon, <1>2, <2>1, <2>3, <2>4
<1>8. CASE dump'[g] = dump[g] /\ recv'[g] = recv[g] \o Head(w).body
  <2>1. Rising(recv'[g]) /\ Chunks(recv'[g]) = R \cup H
    BY ZenonT(30), <1>1, <1>2, <1>3, <1>5, <1>8, ChunksJoin
  <2>2. OneSequence(g)'
    BY ZenonT(30), <1>2, <1>4, <1>5, <1>8, <2>1 DEF OneSequence, Live
  <2>3. Held(g)' = D \cup (((R \cup H) \cup T) \cup Q)
    BY Zenon, <1>4, <1>8, <2>1 DEF Held, Live
  <2> HIDE DEF H, T, Q, D, R
  <2> QED BY Zenon, <1>2, <2>2, <2>3
<1> QED BY ZenonT(30), <1>6, <1>7, <1>8

\* Chunks are numbers.
LEMMA HeldNumbers == ASSUME FrameInv, PlaceInv, NEW g \in Hosts PROVE Held(g) \subseteq Nat
<1>1. ASSUME NEW q \in Seq(Frames) PROVE Carried(q) \subseteq Nat
  <2> SUFFICES ASSUME NEW i \in DOMAIN q PROVE Chunks(q[i].body) \subseteq Nat
    BY Zenon DEF Carried
  <2>1. q[i] \in Frames
    OBVIOUS
  <2>2. q[i].body \in Seq(Nat)
    BY <2>1 DEF Frames
  <2> QED BY <2>2 DEF Chunks
<1>2. ASSUME NEW s \in Seq(Nat) PROVE Chunks(s) \subseteq Nat
  BY DEF Chunks
<1>3. dump[g] \in Seq(Nat) /\ recv[g] \in Seq(Nat) /\ wire[g] \in Seq(Frames) /\ queued[g] \in Seq(Frames)
  BY DEF FrameInv, PlaceInv
<1> QED BY <1>1, <1>2, <1>3, Zenon DEF Held, Live

\* Nothing is added to what the hosts hold, and the pump takes no chunk but a
\* new one.
LEMMA HeldShrinks ==
  ASSUME FrameInv, PlaceInv, HeldInv, \A g \in Hosts : OneSequence(g)' /\ Held(g)' \subseteq Held(g),
         \/ out' = out /\ (pump' = pump \/ pump'.pc # "send" \/ pump'.n = 0)
         \/ out' = out + 1 /\ pump'.n = out + 1
  PROVE  HeldInv'
<1>1. out \in Nat /\ \A g \in Hosts : Held(g) \subseteq Nat
  BY HeldNumbers DEF FrameInv
<1>2. CASE out' = out /\ (pump' = pump \/ pump'.pc # "send" \/ pump'.n = 0)
  BY <1>2, Zenon DEF HeldInv
<1>3. CASE out' = out + 1 /\ pump'.n = out + 1
  <2>1. \A g \in Hosts : \A x \in Held(g)' : x <= out + 1 /\ x < out + 1
    BY <1>1 DEF HeldInv
  <2> QED BY <1>3, <2>1, Zenon DEF HeldInv
<1> QED BY <1>2, <1>3

\* A frame of the handshake: the host holds nothing yet, so it may get all of
\* the ring.
LEMMA HeldHandshake ==
  ASSUME LoopInv, FrameInv, PlaceInv, AdoptInv, GreetInv, PumpInv, HeldInv,
         NEW h \in Hosts, loop.host = h, NEW pc \in {"hello", "snapshot"}, NEW frame \in Frames, NEW next, Handshake(pc, frame, next),
         UNCHANGED pumpVars, Rising(frame.body), Chunks(frame.body) \subseteq Chunks(ring)
  PROVE  /\ HeldInv'
         /\ hostEnd[h] = "open" => Held(h)' = Chunks(frame.body)
<1>1. /\ Undumped(h) /\ Unadopted(h) /\ UNCHANGED <<dump, recv, queued, out, pump>>
  BY DEF Handshake, LoopInv, LoopType, Serving, Undumped, Unwritten, Unadopted, hostVars, pumpVars
<1>2. /\ dump[h] = <<>> /\ recv[h] = <<>> /\ queued[h] = <<>> /\ Carried(wire[h]) = {}
      /\ wire \in [Hosts -> Seq(Frames)] /\ Successive(wire[h])
  BY ZenonT(30), <1>1 DEF AdoptInv, GreetInv, PlaceInv, FrameInv, HeldInv, OneSequence
<1>3. CASE hostEnd[h] # "open"
  <2>1. wire' = wire
    BY Zenon, <1>3 DEF Handshake
  <2>2. \A g \in Hosts : OneSequence(g)' /\ Held(g)' \subseteq Held(g)
    BY <1>1, <2>1, HeldFrame DEF HeldInv
  <2> QED BY ZenonT(30), <1>1, <1>3, <2>2, HeldShrinks
<1>4. CASE hostEnd[h] = "open"
  <2>1. wire' = [wire EXCEPT ![h] = Append(@, frame)]
    BY <1>4 DEF Handshake
  <2>2. wire'[h] = Append(wire[h], frame) /\ \A g \in Hosts : g # h => wire'[g] = wire[g]
    BY <1>1, <1>2, <2>1
  <2>3. Carried(wire'[h]) = Chunks(frame.body) /\ Successive(wire'[h])
    <3>1. wire[h] \in Seq(Frames) /\ Before(Carried(wire[h]), Chunks(frame.body))
      BY <1>2, Nothing
    <3>2. /\ Carried(Append(wire[h], frame)) = Carried(wire[h]) \cup Chunks(frame.body)
          /\ Successive(Append(wire[h], frame))
      BY Zenon, <1>2, <3>1, QueueAppend
    <3> QED BY <1>2, <2>2, <3>2
  <2>4. OneSequence(h)' /\ Held(h)' = Chunks(frame.body)
    BY ZenonT(30), <1>1, <1>2, <2>3, Nothing DEF OneSequence, Live, Held
  <2>5. \A g \in Hosts : g # h => OneSequence(g)' /\ Held(g)' = Held(g)
    BY <1>1, <2>2, HeldFrame DEF HeldInv
  <2>6. \A x \in Chunks(frame.body) : x <= out /\ (pump.n # 0 => x < pump.n)
    BY DEF PumpInv
  <2>7. \A g \in Hosts : OneSequence(g)'
    BY <2>4, <2>5
  <2>8. \A g \in Hosts : \A x \in Held(g)' : x <= out /\ (pump.pc = "send" /\ pump.n # 0 => x < pump.n)
    BY <2>4, <2>5, <2>6, Zenon DEF HeldInv
  <2> QED BY <1>1, <1>4, <2>4, <2>7, <2>8, Zenon DEF HeldInv
<1> QED BY <1>3, <1>4

\* SendWithNewSeq: the chunk is newer than all its host holds.
LEMMA HeldSend ==
  ASSUME FrameInv, PlaceInv, PumpInv, HeldInv, SendPTYData
  PROVE  /\ HeldInv'
         /\ \A g \in Hosts : Held(g) \subseteq Held(g)'
         /\ \A g \in Hosts : pump.n # 0 /\ pump.to = g /\ agentEnd[g] = "open" => pump.n \in Held(g)' \cup spilled'[g]
<1> DEFINE f == IF pump.n = 0 THEN Frame("exited", <<>>) ELSE Frame("data", <<pump.n>>)
<1>0. /\ pump.pc = "send" /\ pump'.pc = "ring" /\ pump'.n = pump.n /\ UNCHANGED <<dump, recv, wire, out>>
      /\ pump.n \in Nat /\ queued \in [Hosts -> Seq(Frames)] /\ out \in Nat
  BY DEF SendPTYData, hostVars, FrameInv
<1>1. ASSUME NEW g \in Hosts, queued'[g] = queued[g] PROVE OneSequence(g)' /\ Held(g)' = Held(g)
  BY <1>0, <1>1, HeldFrame DEF HeldInv
<1>2. CASE ~(Takes(pump.to) /\ ~Full(pump.to))
  <2>1. \A g \in Hosts : queued'[g] = queued[g]
    BY <1>2 DEF SendPTYData
  <2>2. \A g \in Hosts : OneSequence(g)' /\ Held(g)' = Held(g)
    BY <1>1, <2>1
  <2>4. \A g \in Hosts : pump.to = g /\ agentEnd[g] = "open" => pump.n \in spilled'[g]
    BY <1>2 DEF SendPTYData, Takes
  <2>3. HeldInv'
    BY <1>0, <2>2, HeldShrinks
  <2> QED BY <2>2, <2>3, <2>4
<1>3. ASSUME NEW h \in Hosts, pump.to = h, Takes(h), ~Full(h)
      PROVE  /\ HeldInv'
             /\ \A g \in Hosts : Held(g) \subseteq Held(g)'
             /\ \A g \in Hosts : pump.n # 0 /\ pump.to = g /\ agentEnd[g] = "open" => pump.n \in Held(g)' \cup spilled'[g]
  <2>1. queued'[h] = Append(queued[h], f) /\ \A g \in Hosts : g # h => queued'[g] = queued[g]
    BY <1>3 DEF SendPTYData
  <2>2. /\ f \in Frames /\ Rising(f.body) /\ Chunks(f.body) = IF pump.n = 0 THEN {} ELSE {pump.n}
    <3>1. CASE pump.n = 0
      BY <3>1, Nothing DEF Frame, Frames
    <3>2. CASE pump.n # 0
      <4>1. f = [type |-> "data", body |-> <<pump.n>>] /\ <<pump.n>> \in Seq(Nat)
        BY <1>0, <3>2 DEF Frame
      <4>2. Rising(<<pump.n>>) /\ Chunks(<<pump.n>>) = {pump.n}
        BY DEF Rising, Chunks
      <4>3. f \in Frames /\ f.body = <<pump.n>>
        <5> DEFINE b == <<pump.n>>
        <5>1. f = [type |-> "data", body |-> b] /\ b \in Seq(Nat)
          BY <4>1
        <5> HIDE DEF b, f
        <5>2. f \in Frames /\ f.body = b
          BY <5>1 DEF Frames
        <5> QED BY <5>2 DEF b
      <4> QED BY <3>2, <4>2, <4>3
    <3> QED BY <3>1, <3>2
  <2> HIDE DEF f
  <2>4. Before(Held(h), Chunks(f.body)) /\ OneSequence(h)
    BY <1>0, <1>3, <2>2, Zenon DEF HeldInv, Before
  <2>5. /\ Carried(queued'[h]) = Carried(queued[h]) \cup Chunks(f.body) /\ Successive(queued'[h])
    <3>1. Before(Carried(queued[h]), Chunks(f.body))
      BY <2>4, Zenon DEF Before, Held, Live
    <3>2. queued[h] \in Seq(Frames) /\ Successive(queued[h])
      BY <1>0, <1>3, <2>4, Zenon DEF OneSequence
    <3> QED BY <2>1, <2>2, <3>1, <3>2, QueueAppend, Zenon
  <2>6. Held(h)' = Held(h) \cup Chunks(f.body) /\ Live(h)' = Live(h) \cup Chunks(f.body)
    BY <1>0, <2>5 DEF Held, Live
  <2>7. OneSequence(h)'
    <3>1. /\ Before(Chunks(dump[h]), Live(h) \cup Chunks(f.body))
          /\ Before(Chunks(recv[h]), Carried(wire[h]) \cup (Carried(queued[h]) \cup Chunks(f.body)))
          /\ Before(Carried(wire[h]), Carried(queued[h]) \cup Chunks(f.body))
      BY <2>4, Zenon DEF OneSequence, Before, Held, Live
    <3>2. UNCHANGED <<dump[h], recv[h], wire[h]>>
      BY <1>0
    <3> QED BY <2>4, <2>5, <2>6, <3>1, <3>2, Zenon DEF OneSequence
  <2>8. \A g \in Hosts : g # h => OneSequence(g)' /\ Held(g)' = Held(g)
    BY <1>1, <2>1
  <2>9. \A x \in Held(h)' : x <= out
    BY SMTT(30), <1>0, <1>3, <2>2, <2>6 DEF HeldInv, PumpInv
  <2>10. HeldInv'
    BY <1>0, <2>7, <2>8, <2>9 DEF HeldInv
  <2> QED BY <1>3, <2>2, <2>6, <2>8, <2>10
<1> QED BY <1>2, <1>3, Zenon DEF Takes

\* Every step of the loop.
LEMMA HeldLoop ==
  ASSUME LoopInv, FrameInv, PlaceInv, AdoptInv, GreetInv, PumpInv, HeldInv, LoopStep
  PROVE  HeldInv'
<1>0. UNCHANGED <<pump, out, dump, recv>>
  BY Zenon DEF LoopStep, Accept, AcceptFails, SendHello, SendRingDump, Handshake, NewConnFails, AdoptConn, CloseOldConn,
     ConnDone, pumpVars, hostVars
<1>1. CASE (\E h \in Hosts : Accept(h)) \/ AcceptFails \/ NewConnFails \/ AdoptConn
  <2>1. UNCHANGED <<wire, queued>>
    BY Zenon, <1>1 DEF Accept, AcceptFails, NewConnFails, AdoptConn, LoopInv, connVars
  <2>2. \A g \in Hosts : OneSequence(g)' /\ Held(g)' \subseteq Held(g)
    BY <1>0, <2>1, HeldFrame DEF HeldInv
  <2> QED BY <1>0, <2>2, HeldShrinks
<1>2. CASE CloseOldConn \/ ConnDone
  <2>1. wire' = wire /\ \A g \in Hosts : queued'[g] = queued[g] \/ queued'[g] = <<>>
    BY <1>2 DEF CloseOldConn, ConnDone, FrameInv
  <2>2. \A g \in Hosts : OneSequence(g)' /\ Held(g)' \subseteq Held(g)
    BY <1>0, <2>1, HeldFrame, OutboxDropped DEF HeldInv
  <2> QED BY <1>0, <2>2, HeldShrinks
<1>3. CASE SendHello
  <2>1. PICK h \in Hosts : loop.host = h
    BY <1>3 DEF SendHello, Handshake, LoopInv, LoopType, Serving
  <2>2. Rising(Hello.body) /\ Chunks(Hello.body) \subseteq Chunks(ring) /\ Hello \in Frames
    BY HelloAlone, Nothing
  <2>3. Handshake("hello", Hello, "snapshot") /\ UNCHANGED pumpVars
    BY <1>3 DEF SendHello, Hello
  <2> QED BY <2>1, <2>2, <2>3, HeldHandshake
<1>4. CASE SendRingDump
  <2>1. PICK h \in Hosts : loop.host = h
    BY <1>4 DEF SendRingDump, Handshake, LoopInv, LoopType, Serving
  <2> DEFINE f == Frame("dump", ring)
  <2>2. f \in Frames /\ f.body = ring /\ Rising(ring)
    BY DEF Frame, Frames, FrameInv, PumpInv
  <2>3. Handshake("snapshot", f, "adopt") /\ UNCHANGED pumpVars
    BY <1>4 DEF SendRingDump
  <2> HIDE DEF f
  <2>4. Rising(f.body) /\ Chunks(f.body) \subseteq Chunks(ring)
    BY <2>2
  <2> QED BY <2>1, <2>2, <2>3, <2>4, HeldHandshake
<1> QED BY <1>1, <1>2, <1>3, <1>4 DEF LoopStep

\* A step of host h: what it holds, and what it loses if it hangs up.
LEMMA HeldHost ==
  ASSUME LoopInv, FrameInv, PlaceInv, HeldInv, NEW h \in Hosts, HostStep(h)
  PROVE  /\ \A g \in Hosts : OneSequence(g)' /\ Held(g)' \subseteq Held(g)
         /\ \A g \in Hosts : g # h \/ hostEnd'[g] = "open" => Held(g)' = Held(g)
         /\ \A g \in Hosts : g # h => /\ wire'[g] = wire[g] /\ dump'[g] = dump[g] /\ host'[g] = host[g]
                                      /\ hostEnd'[g] = hostEnd[g]
<1>0. /\ queued' = queued /\ wire \in [Hosts -> Seq(Frames)] /\ dump \in [Hosts -> Seq(Nat)]
      /\ recv \in [Hosts -> Seq(Nat)] /\ host \in [Hosts -> Places] /\ Hosts \subseteq All
      /\ hostEnd \in [All -> {"none", "open", "closed"}]
  BY Zenon, HostFrame DEF FrameInv, PlaceInv, LoopInv, LoopType, All
<1>1. /\ \A g \in Hosts : g # h => wire'[g] = wire[g] /\ dump'[g] = dump[g] /\ recv'[g] = recv[g]
      /\ \A g \in Hosts : g # h => host'[g] = host[g] /\ hostEnd'[g] = hostEnd[g]
  BY Zenon, <1>0 DEF HostStep, ReadPersistentMeta, CheckPid, Dial, ReadHello, ReadRingDump, HandshakeFails, HangUp,
     SetRunning, HandleMessage, Disconnected, connVars
<1>2. \A g \in Hosts : g # h => OneSequence(g)' /\ Held(g)' = Held(g)
  BY Zenon, <1>0, <1>1, HeldFrame DEF HeldInv
<1>3. CASE ReadPersistentMeta(h) \/ CheckPid(h) \/ Dial(h) \/ HandshakeFails(h) \/ SetRunning(h) \/ Disconnected(h)
  <2>1. UNCHANGED <<wire, dump, recv>>
    BY <1>3, Zenon DEF ReadPersistentMeta, CheckPid, Dial, HandshakeFails, SetRunning, Disconnected, connVars
  <2>2. OneSequence(h)' /\ Held(h)' = Held(h)
    BY <1>0, <2>1, HeldFrame DEF HeldInv
  <2> QED BY Zenon, <1>1, <1>2, <2>2
<1>4. ASSUME wire[h] # <<>>, wire' = [wire EXCEPT ![h] = Tail(@)],
         \/ dump'[h] = dump[h] /\ recv'[h] = recv[h]
         \/ dump'[h] = Head(wire[h]).body /\ recv'[h] = recv[h] /\ dump[h] = <<>> /\ recv[h] = <<>>
         \/ dump'[h] = dump[h] /\ recv'[h] = recv[h] \o Head(wire[h]).body
      PROVE  /\ OneSequence(h)' /\ Held(h)' \subseteq Held(h)
             /\ (dump'[h] # dump[h] \/ recv'[h] # recv[h] \/ Head(wire[h]).body = <<>>) => Held(h)' = Held(h)
  <2>1. /\ wire[h] \in Seq(Frames) /\ dump[h] \in Seq(Nat) /\ recv[h] \in Seq(Nat) /\ wire'[h] = Tail(wire[h])
        /\ queued'[h] = queued[h] /\ OneSequence(h)
    BY <1>0, <1>4 DEF HeldInv
  <2> QED BY ZenonT(30), <1>4, <2>1, FrameRead
<1>5. Head(wire[h]).type \in {"hello", "exited"} /\ wire[h] # <<>> => Head(wire[h]).body = <<>>
  <2> SUFFICES ASSUME Head(wire[h]).type \in {"hello", "exited"}, wire[h] # <<>> PROVE Head(wire[h]).body = <<>>
    OBVIOUS
  <2>1. Head(wire[h]) \in Frames
    BY Zenon, <1>0, QueueTail
  <2> QED BY <2>1 DEF Frames
<1>6. CASE ReadHello(h)
  <2>1. /\ wire[h] # <<>> /\ wire' = [wire EXCEPT ![h] = Tail(@)] /\ UNCHANGED <<dump, recv>>
        /\ Head(wire[h]).type # "hello" => hostEnd' = [hostEnd EXCEPT ![h] = "closed"]
    BY <1>6 DEF ReadHello, HangUp
  <2>2. hostEnd'[h] = "open" => Head(wire[h]).type = "hello"
    BY <1>0, <2>1
  <2> QED BY Zenon, <1>1, <1>2, <1>4, <1>5, <2>1, <2>2
<1>7. CASE ReadRingDump(h)
  <2>1. /\ wire[h] # <<>> /\ wire' = [wire EXCEPT ![h] = Tail(@)] /\ dump'[h] = Head(wire[h]).body
        /\ recv' = recv /\ host[h] = "dump"
    BY ZenonT(30), <1>0, <1>7 DEF ReadRingDump
  <2>2. dump[h] = <<>> /\ recv[h] = <<>>
    BY ZenonT(30), <2>1 DEF PlaceInv, Given
  <2>3. dump'[h] = dump[h] => Head(wire[h]).body = <<>>
    BY Zenon, <2>1, <2>2
  <2> QED BY <1>1, <1>2, <1>4, <2>1, <2>2, <2>3
<1>8. CASE HandleMessage(h)
  <2>1. /\ wire[h] # <<>> /\ wire' = [wire EXCEPT ![h] = Tail(@)] /\ dump' = dump
    BY <1>8 DEF HandleMessage
  <2>2. CASE Head(wire[h]).type = "exited"
    <3>1. recv' = recv
      BY <1>8, <2>2 DEF HandleMessage
    <3> QED BY Zenon, <1>1, <1>2, <1>4, <1>5, <2>1, <2>2, <3>1
  <2>3. CASE Head(wire[h]).type # "exited"
    <3>1. recv'[h] = recv[h] \o Head(wire[h]).body
      BY <1>0, <1>8, <2>3 DEF HandleMessage
    <3>2. Head(wire[h]).body \in Seq(Nat) /\ recv[h] \in Seq(Nat)
      <4>1. Head(wire[h]) \in Frames
        BY ZenonT(30), <1>0, <2>1, QueueTail
      <4> QED BY <1>0, <4>1 DEF Frames
    <3>3. recv'[h] = recv[h] => Head(wire[h]).body = <<>>
      <4> DEFINE r == recv[h]
                 b == Head(wire[h]).body
      <4>1. r \in Seq(Nat) /\ b \in Seq(Nat) /\ recv'[h] = r \o b
        BY Zenon, <3>1, <3>2
      <4> HIDE DEF r, b
      <4>2. r \o b = r => b = <<>>
        BY <4>1
      <4> QED BY Zenon, <4>1, <4>2 DEF r, b
    <3> QED BY Zenon, <1>1, <1>2, <1>4, <2>1, <3>1, <3>3
  <2> QED BY Zenon, <2>2, <2>3
<1> QED BY Zenon, <1>3, <1>6, <1>7, <1>8 DEF HostStep

\* HeldInv is kept by every step.
LEMMA HeldStays ==
  ASSUME LoopInv, FrameInv, PlaceInv, AdoptInv, GreetInv, PumpInv, HeldInv, [ReattachNext]_reattachVars
  PROVE  HeldInv'
<1>0. queued \in [Hosts -> Seq(Frames)] /\ wire \in [Hosts -> Seq(Frames)]
  BY DEF FrameInv
<1>1. CASE LoopStep
  BY <1>1, HeldLoop
<1>2. CASE SendPTYData
  BY <1>2, HeldSend
<1>3. CASE \E h \in Hosts : HostStep(h)
  <2>1. UNCHANGED <<pump, out>> /\ \A g \in Hosts : OneSequence(g)' /\ Held(g)' \subseteq Held(g)
    BY <1>3, HostFrame, HeldHost
  <2> QED BY <2>1, HeldShrinks
<1>4. ASSUME NEW h \in Hosts, WriteFrame(h) PROVE HeldInv'
  <2>1. /\ UNCHANGED <<pump, out, dump, recv>> /\ queued[h] # <<>>
        /\ queued' = [queued EXCEPT ![h] = Tail(@)]
        /\ wire' = wire \/ wire' = [wire EXCEPT ![h] = Append(@, Head(queued[h]))]
    BY Zenon, <1>4 DEF WriteFrame, pumpVars, hostVars
  <2>2. /\ queued'[h] = Tail(queued[h]) /\ (wire'[h] = wire[h] \/ wire'[h] = Append(wire[h], Head(queued[h])))
        /\ \A g \in Hosts : g # h => wire'[g] = wire[g] /\ queued'[g] = queued[g]
        /\ wire[h] \in Seq(Frames) /\ queued[h] \in Seq(Frames)
    BY <1>0, <2>1
  <2>3. OneSequence(h)' /\ Held(h)' \subseteq Held(h)
    BY <2>1, <2>2, FrameWritten DEF HeldInv
  <2>4. \A g \in Hosts : g # h => OneSequence(g)' /\ Held(g)' \subseteq Held(g)
    BY Zenon, <2>1, <2>2, HeldFrame DEF HeldInv
  <2> QED BY <2>1, <2>3, <2>4, HeldShrinks
<1>5. CASE AgentEnds
  <2>1. /\ UNCHANGED <<out, dump, recv, wire>> /\ pump'.n = 0 /\ \A g \in Hosts : queued'[g] = <<>>
    BY <1>5 DEF AgentEnds, hostVars, NoChunk
  <2>2. \A g \in Hosts : OneSequence(g)' /\ Held(g)' \subseteq Held(g)
    BY <2>1, OutboxDropped DEF HeldInv
  <2> QED BY <2>1, <2>2, HeldShrinks
<1>6. CASE \/ WritePersistentMeta \/ WritePidFile \/ Bind \/ Listen \/ ChildEnds \/ CloseSession \/ ReadChunk \/ WriteRing
           \/ (\E h \in All : Detach(h)) \/ UNCHANGED reattachVars
  <2>1. UNCHANGED <<dump, recv, wire, queued>>
    BY <1>6, Zenon DEF WritePersistentMeta, WritePidFile, Bind, Listen, ChildEnds, CloseSession, ReadChunk, WriteRing, Detach,
       reattachVars, connVars, hostVars
  <2>2. \/ out' = out /\ (pump' = pump \/ pump'.pc # "send" \/ pump'.n = 0)
        \/ out' = out + 1 /\ pump'.n = out + 1
    <3>1. CASE \/ WritePersistentMeta \/ WritePidFile \/ Bind \/ Listen \/ CloseSession
               \/ (\E h \in All : Detach(h)) \/ UNCHANGED reattachVars
      BY <3>1, Zenon DEF WritePersistentMeta, WritePidFile, Bind, Listen, CloseSession, Detach, reattachVars, pumpVars
    <3>2. CASE ChildEnds \/ ReadChunk \/ WriteRing
      BY <3>2 DEF ChildEnds, ReadChunk, WriteRing, NoChunk
    <3> QED BY <1>6, <3>1, <3>2
  <2>3. \A g \in Hosts : OneSequence(g)' /\ Held(g)' \subseteq Held(g)
    BY Zenon, <2>1, HeldFrame DEF HeldInv
  <2> QED BY <2>2, <2>3, HeldShrinks
<1> QED BY <1>1, <1>2, <1>3, <1>4, <1>5, <1>6 DEF ReattachNext, PumpStep

-----------------------------------------------------------------------------
\* Nothing else is lost.  While a host and its Conn stay, it keeps what it
\* holds.
LEMMA HeldKept ==
  ASSUME LoopInv, FrameInv, PlaceInv, AdoptInv, GreetInv, PumpInv, HeldInv, [ReattachNext]_reattachVars,
         NEW h \in Hosts, agentEnd[h] = "open", agentEnd'[h] = "open", hostEnd[h] = "open", hostEnd'[h] = "open"
  PROVE  Held(h) \subseteq Held(h)'
<1>0. /\ queued \in [Hosts -> Seq(Frames)] /\ wire \in [Hosts -> Seq(Frames)] /\ h \in All
      /\ agentEnd \in [All -> {"none", "backlog", "open", "closed"}] /\ OneSequence(h)
      /\ loop.pc \in Serving /\ loop.host = h
  BY Zenon DEF FrameInv, LoopInv, LoopType, All, HeldInv
<1>1. ASSUME dump'[h] = dump[h], recv'[h] = recv[h], wire'[h] = wire[h], queued'[h] = queued[h]
      PROVE  Held(h) \subseteq Held(h)'
  BY <1>0, <1>1, HeldFrame
<1>2. CASE LoopStep
  <2>1. UNCHANGED <<dump, recv>>
    BY ZenonT(30), <1>2 DEF LoopStep, Accept, AcceptFails, SendHello, SendRingDump, Handshake, NewConnFails, AdoptConn, CloseOldConn,
       ConnDone, hostVars
  <2>2. CASE (\E g \in Hosts : Accept(g)) \/ AcceptFails
    BY ZenonT(30), <1>0, <2>2 DEF Accept, AcceptFails, Serving
  <2>3. CASE NewConnFails \/ AdoptConn
    BY Zenon, <1>1, <2>1, <2>3 DEF NewConnFails, AdoptConn, connVars
  <2>4. CASE CloseOldConn
    <3>1. loop.old # h
      BY ZenonT(30), <1>0, <2>4, ReattachAssumption DEF CloseOldConn, LoopInv, Over
    <3> QED BY <1>1, <2>1, <2>4, <3>1 DEF CloseOldConn
  <2>5. CASE ConnDone
    BY Zenon, <1>0, <2>5 DEF ConnDone
  <2>6. CASE SendHello \/ SendRingDump
    <3>1. Undumped(h) /\ Unadopted(h)
      BY <1>0, <2>6 DEF SendHello, SendRingDump, Handshake, Undumped, Unwritten, Unadopted
    <3>2. dump[h] = <<>> /\ recv[h] = <<>> /\ queued[h] = <<>> /\ Carried(wire[h]) = {}
      BY ZenonT(30), <3>1 DEF AdoptInv, GreetInv, PlaceInv
    <3>3. Held(h) = {}
      BY Zenon, <3>2, Nothing DEF Held, Live
    <3> QED BY <3>3
  <2> QED BY <1>2, <2>2, <2>3, <2>4, <2>5, <2>6 DEF LoopStep
<1>3. CASE SendPTYData
  BY <1>3, HeldSend
<1>4. CASE \E g \in Hosts : HostStep(g)
  BY ZenonT(30), <1>4, HeldHost
<1>5. ASSUME NEW g \in Hosts, WriteFrame(g) PROVE Held(h) \subseteq Held(h)'
  <2>1. /\ UNCHANGED <<dump, recv>> /\ queued[g] # <<>>
        /\ queued' = [queued EXCEPT ![g] = Tail(@)]
        /\ wire' = IF hostEnd[g] = "open" THEN [wire EXCEPT ![g] = Append(@, Head(queued[g]))] ELSE wire
    BY <1>5 DEF WriteFrame, hostVars
  <2>2. CASE g # h
    BY <1>0, <1>1, <2>1, <2>2
  <2>3. CASE g = h
    <3>1. /\ queued'[h] = Tail(queued[h]) /\ wire'[h] = Append(wire[h], Head(queued[h]))
          /\ wire[h] \in Seq(Frames) /\ queued[h] \in Seq(Frames)
      BY Zenon, <1>0, <2>1, <2>3
    <3>2. Append(wire[h], Head(queued[h])) # wire[h]
      <4>1. Head(queued[h]) \in Frames
        BY Zenon, <2>1, <2>3, <3>1, QueueTail
      <4>2. ASSUME NEW s \in Seq(Frames), NEW f \in Frames PROVE Append(s, f) # s
        <5>1. Len(Append(s, f)) = Len(s) + 1 /\ Len(s) \in Nat
          BY ONLY s \in Seq(Frames), f \in Frames
        <5>2. Len(s) + 1 # Len(s)
          BY ONLY <5>1
        <5> QED BY ONLY <5>1, <5>2, Zenon
      <4> QED BY <3>1, <4>1, <4>2, Zenon
    <3> QED BY ZenonT(30), <1>0, <2>1, <2>3, <3>1, <3>2, FrameWritten
  <2> QED BY Zenon, <2>2, <2>3
<1>6. CASE AgentEnds
  BY <1>0, <1>6 DEF AgentEnds
<1>7. CASE \/ WritePersistentMeta \/ WritePidFile \/ Bind \/ Listen \/ ChildEnds \/ CloseSession \/ ReadChunk \/ WriteRing
           \/ (\E g \in All : Detach(g)) \/ UNCHANGED reattachVars
  <2>1. UNCHANGED <<dump, recv, wire, queued>>
    BY <1>7, Zenon DEF WritePersistentMeta, WritePidFile, Bind, Listen, ChildEnds, CloseSession, ReadChunk, WriteRing, Detach,
       reattachVars, connVars, hostVars
  <2> QED BY Zenon, <1>1, <2>1
<1> QED BY Zenon, <1>2, <1>3, <1>4, <1>5, <1>6, <1>7 DEF ReattachNext, PumpStep

\* Of the two ways a handshake ends, one stays with its host.
LEMMA GoesOn ==
  \A l, g, h : (l = Loop("adopt", g, Boot) \/ l = AtAccept) /\ l.host = h /\ l.pc \in {"adopt", "closeold", "wait"} => g = h
BY DEF Loop, AtAccept

\* A host whose Conn the agent has open did not dial in this step.
LEMMA StillOpen ==
  ASSUME LoopInv, [ReattachNext]_reattachVars, NEW h \in Hosts, agentEnd'[h] = "open", hostEnd'[h] = "open"
  PROVE  hostEnd[h] = "open"
<1>0. /\ agentEnd \in [All -> {"none", "backlog", "open", "closed"}] /\ h \in All /\ Hosts \subseteq All
      /\ hostEnd \in [All -> {"none", "open", "closed"}]
  BY DEF LoopInv, LoopType, All
<1>1. CASE \E g \in Hosts : HostStep(g)
  <2>1. PICK g \in Hosts : HostStep(g)
    BY <1>1
  <2>2. \/ hostEnd' = hostEnd \/ hostEnd' = [hostEnd EXCEPT ![g] = "closed"]
        \/ hostEnd' = [hostEnd EXCEPT ![g] = "open"] /\ agentEnd' = [agentEnd EXCEPT ![g] = "backlog"]
    BY <2>1, HostFrame DEF Dial
  <2> QED BY <1>0, <2>2
<1>2. CASE \E g \in All : Detach(g)
  BY <1>0, <1>2 DEF Detach
<1>3. CASE LoopStep \/ PumpStep \/ (\E g \in Hosts : WriteFrame(g)) \/ UNCHANGED reattachVars
  BY <1>3 DEF LoopStep, Accept, AcceptFails, SendHello, SendRingDump, Handshake, NewConnFails, AdoptConn, CloseOldConn,
     ConnDone, WriteFrame, PumpStep, ReadChunk, SendPTYData, WriteRing, connVars, reattachVars
<1>4. CASE WritePersistentMeta \/ WritePidFile \/ Bind \/ Listen \/ ChildEnds \/ CloseSession \/ AgentEnds
  BY <1>4 DEF WritePersistentMeta, WritePidFile, Bind, Listen, ChildEnds, CloseSession, AgentEnds, connVars
<1> QED BY <1>1, <1>2, <1>3, <1>4 DEF ReattachNext

\* A chunk the pump has sent to the Conn of a host is held by the host, or it
\* was spilled.
SentInv ==
  \A h \in Hosts :
    (pump.pc = "ring" /\ pump.n # 0 /\ pump.to = h /\ agentEnd[h] = "open" /\ hostEnd[h] = "open")
      => pump.n \in Held(h) \cup spilled[h]

\* What was spilled stays so.
LEMMA SpillGrows ==
  ASSUME [ReattachNext]_reattachVars, NEW h \in Hosts
  PROVE  spilled[h] \subseteq spilled'[h]
<1>1. CASE SendPTYData
  BY <1>1 DEF SendPTYData
<1>2. CASE LoopStep \/ ReadChunk \/ WriteRing \/ (\E g \in Hosts : WriteFrame(g)) \/ (\E g \in All : Detach(g))
  BY <1>2, Zenon DEF LoopStep, Accept, AcceptFails, SendHello, SendRingDump, NewConnFails, AdoptConn, CloseOldConn,
     ConnDone, ReadChunk, WriteRing, WriteFrame, Detach, pumpVars
<1>3. CASE \/ WritePersistentMeta \/ WritePidFile \/ Bind \/ Listen \/ ChildEnds \/ CloseSession \/ AgentEnds
           \/ UNCHANGED reattachVars
  BY <1>3, Zenon DEF WritePersistentMeta, WritePidFile, Bind, Listen, ChildEnds, CloseSession, AgentEnds,
     reattachVars, pumpVars
<1>4. CASE \E g \in Hosts : HostStep(g)
  BY <1>4, HostFrame
<1> QED BY <1>1, <1>2, <1>3, <1>4 DEF ReattachNext, PumpStep

\* SendWithNewSeq establishes it, and a Conn the pump holds is never opened.
LEMMA SentStays ==
  ASSUME LoopInv, FrameInv, PlaceInv, AdoptInv, GreetInv, PumpInv, HeldInv, SentInv, [ReattachNext]_reattachVars
  PROVE  SentInv'
<1> SUFFICES ASSUME NEW h \in Hosts, pump'.pc = "ring", pump'.n # 0, pump'.to = h, agentEnd'[h] = "open",
                    hostEnd'[h] = "open"
             PROVE  pump'.n \in Held(h)' \cup spilled'[h]
  BY DEF SentInv
<1>0. /\ agentEnd \in [All -> {"none", "backlog", "open", "closed"}] /\ h \in All /\ Hosts \subseteq All
      /\ hostEnd \in [All -> {"none", "open", "closed"}]
      /\ pump \in [pc : {"idle", "send", "ring"}, n : Nat, to : All]
  BY Zenon DEF LoopInv, LoopType, All, FrameInv
<1>1. CASE SendPTYData
  <2>1. pump'.n = pump.n /\ pump'.to = pump.to /\ agentEnd' = agentEnd
    BY <1>0, <1>1 DEF SendPTYData
  <2> QED BY <1>1, <2>1, HeldSend
<1>2. CASE ~SendPTYData
  <2>1. pump' = pump
    <3>1. CASE LoopStep \/ (\E g \in Hosts : WriteFrame(g)) \/ (\E g \in All : Detach(g)) \/ UNCHANGED reattachVars
      BY <3>1, Zenon DEF LoopStep, Accept, AcceptFails, SendHello, SendRingDump, NewConnFails, AdoptConn, CloseOldConn, ConnDone,
         WriteFrame, Detach, pumpVars, reattachVars
    <3>2. CASE WritePersistentMeta \/ WritePidFile \/ Bind \/ Listen \/ ChildEnds \/ CloseSession \/ AgentEnds \/ ReadChunk \/ WriteRing
      <4>1. CASE WritePersistentMeta \/ WritePidFile \/ Bind \/ Listen \/ CloseSession
        BY <4>1, Zenon DEF WritePersistentMeta, WritePidFile, Bind, Listen, CloseSession, pumpVars
      <4>2. CASE ChildEnds \/ AgentEnds
        <5>1. pump'.n = 0
          <6>1. pump' = [pc |-> "send", n |-> 0, to |-> current] \/ pump' = NoChunk
            BY Zenon, <4>2 DEF ChildEnds, AgentEnds
          <6> QED BY ONLY SMTT(30), <6>1 DEF NoChunk
        <5> QED BY <5>1
      <4>3. CASE ReadChunk
        BY <4>3 DEF ReadChunk, pumpVars, NoChunk
      <4>4. CASE WriteRing
        BY <4>4 DEF WriteRing, pumpVars, NoChunk
      <4> QED BY <3>2, <4>1, <4>2, <4>3, <4>4, Zenon
    <3>3. CASE \E g \in Hosts : HostStep(g)
      BY <3>3, HostFrame
    <3> QED BY <1>2, <3>1, <3>2, <3>3 DEF ReattachNext, PumpStep
  <2>2. ~Unadopted(h)
    BY <2>1 DEF AdoptInv
  <2>3. agentEnd[h] = "open"
    <3>1. \A g \in Hosts : Accept(g) => g # h
      BY Zenon, <2>2 DEF Accept, Unadopted
    <3>2. CASE LoopStep
      <4>1. CASE \E g \in Hosts : Accept(g)
        BY <1>0, <3>1, <4>1 DEF Accept
      <4>2. CASE ~(\E g \in Hosts : Accept(g))
        BY Zenon, <1>0, <3>2, <4>2 DEF LoopStep, AcceptFails, SendHello, SendRingDump, Handshake, NewConnFails, AdoptConn,
           CloseOldConn, ConnDone, connVars
      <4> QED BY <4>1, <4>2
    <3>3. CASE (\E g \in Hosts : WriteFrame(g)) \/ (\E g \in All : Detach(g)) \/ UNCHANGED reattachVars
               \/ PumpStep
      BY <3>3 DEF WriteFrame, Detach, PumpStep, ReadChunk, SendPTYData, WriteRing, connVars, reattachVars
    <3>4. CASE WritePersistentMeta \/ WritePidFile \/ Bind \/ Listen \/ ChildEnds \/ CloseSession \/ AgentEnds
      BY <1>0, <3>4 DEF WritePersistentMeta, WritePidFile, Bind, Listen, ChildEnds, CloseSession, AgentEnds, connVars
    <3>5. ASSUME NEW g \in Hosts, HostStep(g) PROVE agentEnd[h] = "open"
      <4>1. agentEnd' = agentEnd \/ agentEnd' = [agentEnd EXCEPT ![g] = "backlog"]
        BY <3>5, HostFrame DEF Dial
      <4> QED BY <1>0, <4>1
    <3> QED BY <3>2, <3>3, <3>4, <3>5 DEF ReattachNext
  <2>4. hostEnd[h] = "open"
    BY StillOpen
  <2>5. pump.n \in Held(h) \cup spilled[h]
    BY <2>1, <2>3, <2>4 DEF SentInv
  <2> QED BY <2>1, <2>3, <2>4, <2>5, HeldKept, SpillGrows
<1> QED BY <1>1, <1>2

\* The snapshot d of h: on its way behind HELLO, next to be read, or read.
DumpOf(h, d) ==
  \/ host[h] \in Given /\ dump[h] = d
  \/ host[h] = "hello" /\ 2 \in DOMAIN wire[h] /\ wire[h][1] = Hello /\ wire[h][2].body = d
  \/ host[h] = "dump" /\ 1 \in DOMAIN wire[h] /\ wire[h][1].body = d

\* The snapshot for h has been sent, and h is there.
Snapshotted(h) == loop.host = h /\ loop.pc \in {"adopt", "closeold", "wait"} /\ hostEnd[h] = "open"

Accounted(h) == Held(h) \cup between[h] \cup spilled[h] \cup {pump.n}

CoverInv == \A h \in Hosts : Snapshotted(h) => \E d : DumpOf(h, d) /\ Covers(d, Accounted(h))

\* The frames at the front of a queue that grows or is read.
LEMMA QueueFront ==
  ASSUME NEW q \in Seq(Frames)
  PROVE  /\ \A f \in Frames, i \in {1, 2} : i \in DOMAIN q => i \in DOMAIN Append(q, f) /\ Append(q, f)[i] = q[i]
         /\ q # <<>> => 1 \in DOMAIN q /\ Head(q) = q[1]
         /\ 2 \in DOMAIN q => q # <<>> /\ 1 \in DOMAIN Tail(q) /\ Tail(q)[1] = q[2]
OBVIOUS

\* The snapshot of a host stays where it is or moves on.
LEMMA DumpMoves ==
  ASSUME LoopInv, FrameInv, PlaceInv, [ReattachNext]_reattachVars, NEW h \in Hosts, NEW d, Snapshotted(h), Snapshotted(h)',
         DumpOf(h, d)
  PROVE  DumpOf(h, d)'
<1>0. /\ wire \in [Hosts -> Seq(Frames)] /\ queued \in [Hosts -> Seq(Frames)] /\ wire[h] \in Seq(Frames)
      /\ host \in [Hosts -> Places] /\ h \in All /\ hostEnd \in [All -> {"none", "open", "closed"}]
      /\ hostEnd[h] = "open" /\ hostEnd'[h] = "open" /\ loop.pc \in {"adopt", "closeold", "wait"}
      /\ Hosts \subseteq All /\ dump \in [Hosts -> Seq(Nat)]
  BY Zenon DEF FrameInv, LoopInv, LoopType, All, Snapshotted, PlaceInv
<1>1. ASSUME UNCHANGED <<host, dump>>, wire'[h] = wire[h] PROVE DumpOf(h, d)'
  BY <1>1, Zenon DEF DumpOf, Hello, Frame
<1>2. CASE LoopStep
  <2>1. UNCHANGED <<host, dump, wire>>
    BY Zenon, <1>0, <1>2 DEF LoopStep, Accept, AcceptFails, SendHello, SendRingDump, Handshake, NewConnFails, AdoptConn, CloseOldConn,
       ConnDone, hostVars, connVars
  <2> QED BY <1>1, <2>1
<1>3. CASE \/ WritePersistentMeta \/ WritePidFile \/ Bind \/ Listen \/ ChildEnds \/ CloseSession \/ AgentEnds \/ PumpStep
           \/ (\E g \in All : Detach(g)) \/ UNCHANGED reattachVars
  <2>1. UNCHANGED <<host, dump, wire>>
    BY <1>3, Zenon DEF WritePersistentMeta, WritePidFile, Bind, Listen, ChildEnds, CloseSession, AgentEnds, PumpStep, ReadChunk,
       SendPTYData, WriteRing, Detach, reattachVars, connVars, hostVars
  <2> QED BY <1>1, <2>1
<1>4. ASSUME NEW g \in Hosts, WriteFrame(g) PROVE DumpOf(h, d)'
  <2>1. /\ UNCHANGED <<host, dump>> /\ queued[g] # <<>>
        /\ wire' = wire \/ wire' = [wire EXCEPT ![g] = Append(@, Head(queued[g]))]
    BY Zenon, <1>4 DEF WriteFrame, hostVars
  <2>2. CASE wire'[h] = wire[h]
    BY <1>1, <2>1, <2>2
  <2>3. CASE wire'[h] # wire[h]
    <3>1. wire'[h] = Append(wire[h], Head(queued[h])) /\ queued[h] # <<>> /\ queued[h] \in Seq(Frames)
      BY <1>0, <2>1, <2>3
    <3>2. Head(queued[h]) \in Frames
      BY Zenon, <3>1, QueueTail
    <3>3. \A i \in {1, 2} : i \in DOMAIN wire[h] => i \in DOMAIN wire'[h] /\ wire'[h][i] = wire[h][i]
      BY SMTT(30), <1>0, <3>1, <3>2, QueueFront
    <3>4. 2 \in DOMAIN wire[h] => 1 \in DOMAIN wire[h]
      BY <1>0
    <3> QED BY Zenon, <2>1, <3>3, <3>4 DEF DumpOf, Hello, Frame
  <2> QED BY ZenonT(30), <2>2, <2>3
<1>5. ASSUME NEW g \in Hosts, HostStep(g), g # h PROVE DumpOf(h, d)'
  <2>1. host'[h] = host[h] /\ dump'[h] = dump[h] /\ wire'[h] = wire[h]
    BY ZenonT(30), <1>0, <1>5 DEF HostStep, ReadPersistentMeta, CheckPid, Dial, ReadHello, ReadRingDump, HandshakeFails, HangUp,
       SetRunning, HandleMessage, Disconnected, connVars
  <2> QED BY <2>1, Zenon DEF DumpOf, Hello, Frame
<1>6. CASE ReadPersistentMeta(h) \/ CheckPid(h) \/ Dial(h)
  BY Zenon, <1>6 DEF ReadPersistentMeta, CheckPid, Dial, DumpOf, Given
<1>7. CASE HandshakeFails(h) \/ Disconnected(h)
  BY <1>0, <1>7 DEF HandshakeFails, HangUp, Disconnected
<1>8. CASE ReadHello(h)
  <2>1. host[h] = "hello" /\ 2 \in DOMAIN wire[h] /\ wire[h][1] = Hello /\ wire[h][2].body = d
    BY Zenon, <1>8 DEF ReadHello, DumpOf, Given
  <2>2. /\ wire[h] # <<>> /\ Head(wire[h]).type = "hello"
        /\ 1 \in DOMAIN Tail(wire[h]) /\ Tail(wire[h])[1].body = d
    BY Zenon, <1>0, <2>1, QueueFront, HelloAlone
  <2>3. host'[h] = "dump" /\ wire'[h] = Tail(wire[h])
    BY <1>0, <1>8, <2>2 DEF ReadHello, HangUp
  <2> QED BY ZenonT(30), <2>2, <2>3 DEF DumpOf
<1>9. CASE ReadRingDump(h)
  <2>1. host[h] = "dump" /\ wire[h] # <<>> /\ wire[h][1].body = d
    BY <1>9 DEF ReadRingDump, DumpOf, Given
  <2>2. Head(wire[h]).body = d
    BY <1>0, <2>1, QueueFront
  <2>3. host'[h] = "start" /\ dump' = [dump EXCEPT ![h] = Head(wire[h]).body]
    BY Zenon, <1>0, <1>9 DEF ReadRingDump
  <2>4. dump'[h] = d
    BY <2>2, <2>3 DEF PlaceInv
  <2> QED BY <2>3, <2>4 DEF DumpOf, Given
<1>10. CASE SetRunning(h) \/ HandleMessage(h)
  <2>1. host[h] \in Given /\ host'[h] \in Given /\ dump' = dump
    BY ZenonT(30), <1>0, <1>10 DEF SetRunning, HandleMessage, Attached, Given
  <2> QED BY <2>1 DEF DumpOf, Given
<1> QED
  BY <1>2, <1>3, <1>4, <1>5, <1>6, <1>7, <1>8, <1>9, <1>10 DEF ReattachNext, HostStep

\* The ring as it is sent covers all output but the chunk in the pump.
LEMMA CoverSnapshot ==
  ASSUME LoopInv, FrameInv, PlaceInv, AdoptInv, GreetInv, PumpInv, HeldInv, NEW h \in Hosts, loop.host = h,
         SendRingDump, hostEnd[h] = "open"
  PROVE  DumpOf(h, ring)' /\ Covers(ring, Accounted(h))'
<1> DEFINE f == Frame("dump", ring)
<1>0. /\ UNCHANGED <<host, pump, ring, out>> /\ Alive /\ loop.pc = "snapshot" /\ h \in All
      /\ f \in Frames /\ f.body = ring /\ Rising(ring) /\ wire \in [Hosts -> Seq(Frames)]
      /\ wire' = [wire EXCEPT ![h] = Append(@, f)]
  BY Zenon DEF SendRingDump, Handshake, hostVars, pumpVars, Frame, Frames, FrameInv, PumpInv, All
<1>1. Held(h)' = Chunks(ring)
  <2>1. Handshake("snapshot", f, "adopt") /\ UNCHANGED pumpVars
    BY DEF SendRingDump
  <2> HIDE DEF f
  <2>2. Rising(f.body) /\ Chunks(f.body) \subseteq Chunks(ring)
    BY <1>0
  <2> QED BY ZenonT(30), <1>0, <2>1, <2>2, HeldHandshake
<1> HIDE DEF f
<1>2. wire'[h] = Append(wire[h], f)
  BY <1>0
<1>3. DumpOf(h, ring)'
  <2>1. CASE host[h] = "hello" /\ wire[h] = <<Hello>>
    <3>1. 2 \in DOMAIN wire'[h] /\ wire'[h][1] = Hello /\ wire'[h][2] = f
      BY <1>2, <2>1
    <3> QED BY Zenon, <1>0, <2>1, <3>1 DEF DumpOf, Hello, Frame
  <2>2. CASE host[h] = "dump" /\ wire[h] = <<>>
    <3>1. 1 \in DOMAIN wire'[h] /\ wire'[h][1] = f
      BY <1>2, <2>2
    <3> QED BY Zenon, <1>0, <2>2, <3>1 DEF DumpOf
  <2> QED BY Zenon, <1>0, <2>1, <2>2 DEF GreetInv
<1>4. Covers(ring, Accounted(h))'
  <2>1. \A n \in 1 .. out : n \in Chunks(ring) \cup {pump.n} \/ Expired(ring, n)
    BY <1>0, Zenon DEF PumpInv, Covers
  <2>2. Chunks(ring) \cup {pump.n} \subseteq Accounted(h)'
    BY Zenon, <1>0, <1>1 DEF Accounted
  <2> QED BY <1>0, <2>1, <2>2, Zenon DEF Covers, Expired
<1> QED BY <1>3, <1>4

\* What a step makes of the account of a host whose snapshot was taken: a
\* chunk leaves the pump for the outbox of its Conn or for the window.
LEMMA CoverKept ==
  ASSUME VerdictInv, LoopInv, FrameInv, PlaceInv, AdoptInv, GreetInv, PumpInv, HeldInv, SentInv,
         [ReattachNext]_reattachVars, NEW h \in Hosts, NEW d, Snapshotted(h), Snapshotted(h)',
         agentEnd'[h] = "open", Covers(d, Accounted(h))
  PROVE  Covers(d, Accounted(h))'
<1>0. /\ out \in Nat /\ pump \in [pc : {"idle", "send", "ring"}, n : Nat, to : All]
      /\ agentEnd[h] = "open" /\ hostEnd[h] = "open" /\ hostEnd'[h] = "open"
      /\ Held(h) \subseteq Held(h)' /\ spilled[h] \subseteq spilled'[h]
  BY Zenon, HeldKept, SpillGrows DEF FrameInv, LoopInv, Snapshotted, Serving
<1>1. CASE ReadChunk
  <2>1. pump.n = 0 /\ out' = out + 1 /\ pump'.n = out + 1 /\ between' = between
    BY <1>1 DEF ReadChunk, NoChunk
  <2> SUFFICES ASSUME NEW n \in 1 .. out + 1 PROVE n \in Accounted(h)' \/ Expired(d, n)
    BY <2>1 DEF Covers, Expired
  <2>2. CASE n = out + 1
    BY <2>1, <2>2 DEF Accounted
  <2>3. CASE n # out + 1
    <3>0. out \in Nat /\ pump.n = 0
      BY Zenon, <1>0, <2>1
    <3>1. n \in 1 .. out /\ n # pump.n
      BY ONLY <3>0, n \in 1 .. out + 1, n # out + 1
    <3> QED BY <1>0, <2>1, <3>1, Zenon DEF Covers, Accounted
  <2> QED BY <2>2, <2>3
<1>2. CASE WriteRing
  <2>1. /\ out' = out /\ pump.pc = "ring" /\ pump'.n = 0
        /\ between'[h] = between[h] \cup IF Snapped(h) /\ pump.to # h THEN {pump.n} ELSE {}
    BY ZenonT(30), <1>2 DEF WriteRing, NoChunk
  <2>2. Snapped(h)
    BY ZenonT(30) DEF Snapped, Snapshotted
  <2>3. pump.n # 0 => pump.n \in Held(h) \cup spilled[h] \cup between'[h]
    BY Zenon, <1>0, <2>1, <2>2 DEF SentInv
  <2> SUFFICES ASSUME NEW n \in 1 .. out PROVE n \in Accounted(h)' \/ Expired(d, n)
    BY <2>1 DEF Covers, Expired
  <2>4. n # 0 /\ (n \in Held(h) \cup between[h] \cup spilled[h] \cup {pump.n} \/ Expired(d, n))
    <3>0. out \in Nat
      BY Zenon, <1>0
    <3>1. n # 0
      BY ONLY <3>0, n \in 1 .. out
    <3> QED BY Zenon, <3>1 DEF Covers, Accounted
  <2>5. between[h] \subseteq between'[h]
    BY <2>1, Zenon
  <2> QED BY <1>0, <2>3, <2>4, <2>5, Zenon DEF Accounted
<1>3. ASSUME out' = out, between' = between, pump'.n = pump.n \/ pump.n = 0 PROVE Covers(d, Accounted(h))'
  <2> SUFFICES ASSUME NEW n \in 1 .. out PROVE n \in Accounted(h)' \/ Expired(d, n)
    BY <1>3 DEF Covers, Expired
  <2>1. n # 0 /\ (n \in Held(h) \cup between[h] \cup spilled[h] \cup {pump.n} \/ Expired(d, n))
    <3>0. out \in Nat
      BY Zenon, <1>0
    <3>1. n # 0
      BY ONLY <3>0, n \in 1 .. out
    <3> QED BY Zenon, <3>1 DEF Covers, Accounted
  <2> QED BY <1>0, <1>3, <2>1 DEF Accounted
<1>4. CASE AgentEnds
  BY Zenon, <1>4 DEF AgentEnds, Loop, Snapshotted
<1>5. CASE ChildEnds
  BY <1>3, <1>5 DEF ChildEnds, NoChunk
<1>6. CASE SendPTYData
  <2>1. out' = out /\ between' = between /\ pump'.n = pump.n
    BY <1>0, <1>6 DEF SendPTYData
  <2> QED BY <1>3, <2>1
<1>7. CASE WritePersistentMeta \/ WritePidFile \/ Bind \/ Listen \/ CloseSession
  BY <1>3, <1>7 DEF WritePersistentMeta, WritePidFile, Bind, Listen, CloseSession, pumpVars
<1>8. CASE LoopStep \/ (\E g \in Hosts : WriteFrame(g)) \/ (\E g \in All : Detach(g)) \/ UNCHANGED reattachVars
  <2>1. UNCHANGED <<out, between, pump>>
    BY <1>8, Zenon DEF LoopStep, Accept, AcceptFails, SendHello, SendRingDump, NewConnFails, AdoptConn, CloseOldConn, ConnDone,
       WriteFrame, Detach, reattachVars, pumpVars
  <2> QED BY <1>3, <2>1
<1>9. CASE \E g \in Hosts : HostStep(g)
  <2>1. UNCHANGED <<out, between, pump>>
    BY <1>9, Zenon DEF HostStep, ReadPersistentMeta, CheckPid, Dial, ReadHello, ReadRingDump, HandshakeFails,
       SetRunning, HandleMessage, Disconnected, pumpVars
  <2> QED BY <1>3, <2>1
<1> QED
  BY <1>1, <1>2, <1>4, <1>5, <1>6, <1>7, <1>8, <1>9 DEF ReattachNext, PumpStep

\* CoverInv is kept: a host gets a snapshot, or its snapshot and its account
\* go on.
LEMMA CoverStays ==
  ASSUME VerdictInv, LoopInv, LoopInv', FrameInv, PlaceInv, AdoptInv, GreetInv, PumpInv, HeldInv, SentInv, CoverInv,
         [ReattachNext]_reattachVars
  PROVE  CoverInv'
<1> SUFFICES ASSUME NEW h \in Hosts, Snapshotted(h)' PROVE \E d : DumpOf(h, d)' /\ Covers(d, Accounted(h))'
  BY DEF CoverInv
<1>1. agentEnd'[h] = "open" /\ hostEnd'[h] = "open"
  BY Zenon DEF LoopInv, Snapshotted, Serving
<1>2. hostEnd[h] = "open"
  BY <1>1, StillOpen
<1>3. \/ loop.host = h /\ loop.pc \in {"adopt", "closeold", "wait"}
      \/ loop.host = h /\ SendRingDump
  <2>1. CASE loop' = loop
    BY <2>1 DEF Snapshotted
  <2>2. CASE loop' # loop
    <3>1. LoopStep \/ AgentEnds
      <4>1. CASE \E g \in Hosts : HostStep(g)
        BY <2>2, <4>1, HostFrame
      <4>2. CASE ~(\E g \in Hosts : HostStep(g))
        BY <2>2, <4>2 DEF ReattachNext, WritePersistentMeta, WritePidFile, Bind, Listen, ChildEnds, CloseSession, PumpStep,
           ReadChunk, SendPTYData, WriteRing, WriteFrame, Detach, reattachVars, agentVars
      <4> QED BY <4>1, <4>2
    <3>2. ~AgentEnds
      BY DEF AgentEnds, Loop, Snapshotted
    <3>3. CASE (\E g \in Hosts : Accept(g)) \/ AcceptFails \/ SendHello \/ NewConnFails \/ ConnDone
      <4>1. loop'.pc \notin {"adopt", "closeold", "wait"}
        BY SMTT(30), <3>3 DEF Accept, AcceptFails, SendHello, Handshake, NewConnFails, ConnDone, Loop, markDetached, AtAccept
      <4> QED BY <4>1 DEF Snapshotted
    <3>4. CASE SendRingDump \/ AdoptConn \/ CloseOldConn
      <4>1. CASE SendRingDump
        <5>1. loop' = Loop("adopt", loop.host, Boot) \/ loop' = AtAccept
          BY <4>1, Zenon DEF SendRingDump, Handshake, markDetached
        <5>2. loop'.host = h /\ loop'.pc \in {"adopt", "closeold", "wait"}
          BY Zenon DEF Snapshotted
        <5>3. loop.host = h
          BY Zenon, <5>1, <5>2, GoesOn
        <5> QED BY <4>1, <5>3, Zenon
      <4>2. CASE AdoptConn
        BY Zenon, <4>2 DEF AdoptConn, Loop, Snapshotted
      <4>3. CASE CloseOldConn
        BY Zenon, <4>3 DEF CloseOldConn, Loop, Snapshotted
      <4> QED BY <3>4, <4>1, <4>2, <4>3, Zenon
    <3> QED BY <3>1, <3>2, <3>3, <3>4, Zenon DEF LoopStep
  <2> QED BY <2>1, <2>2
<1>4. CASE loop.host = h /\ SendRingDump
  <2>1. DumpOf(h, ring)' /\ Covers(ring, Accounted(h))' /\ ring' = ring
    BY Zenon, <1>2, <1>4, CoverSnapshot DEF SendRingDump, pumpVars
  <2> QED BY <2>1
<1>5. CASE loop.host = h /\ loop.pc \in {"adopt", "closeold", "wait"}
  <2>1. Snapshotted(h)
    BY <1>2, <1>5 DEF Snapshotted
  <2>2. PICK d : DumpOf(h, d) /\ Covers(d, Accounted(h))
    BY <2>1 DEF CoverInv
  <2>3. DumpOf(h, d)' /\ Covers(d, Accounted(h))'
    BY Zenon, <1>1, <2>1, <2>2, DumpMoves, CoverKept
  <2> QED BY <2>3
<1> QED BY <1>3, <1>4, <1>5

-----------------------------------------------------------------------------
\* The output of a session, as one invariant.
OutputInv == PlaceInv /\ AdoptInv /\ GreetInv /\ PumpInv /\ HeldInv /\ SentInv /\ CoverInv

\* At the start no host holds anything.
LEMMA OutputInit == ReattachInit => OutputInv
<1> SUFFICES ASSUME ReattachInit PROVE OutputInv
  OBVIOUS
<1>1. /\ \A h \in Hosts : wire[h] = <<>> /\ queued[h] = <<>> /\ dump[h] = <<>> /\ recv[h] = <<>> /\ host[h] = "idle"
      /\ loop.pc = "accept" /\ current = Boot /\ pump.pc = "idle" /\ pump.to = Boot /\ Boot \notin Hosts
  BY ReattachAssumption DEF ReattachInit, AtAccept, Loop, NoChunk
<1>2. AdoptInv
  BY <1>1 DEF AdoptInv
<1>3. GreetInv
  BY ZenonT(30), <1>1, Nothing DEF GreetInv, Given
<1>4. \A h \in Hosts : OneSequence(h) /\ Held(h) = {}
  BY Zenon, <1>1, Nothing DEF OneSequence, Held, Live
<1>5. HeldInv
  BY <1>1, <1>4 DEF HeldInv
<1>6. SentInv /\ CoverInv
  BY <1>1 DEF SentInv, CoverInv, Snapshotted
<1> QED BY <1>2, <1>3, <1>5, <1>6, PlaceInit, PumpInit DEF OutputInv

\* OutputIsSeamless for any number of hosts, any output and any size of the
\* ring and of the outboxes: the pump queues a chunk before it writes it to the ring, and
\* onAttach sends the snapshot before AdoptConn makes the Conn current.
THEOREM ReattachIsSeamless == ReattachSpec => []OutputIsSeamless
<1>1. ASSUME VerdictInv, LoopInv, LoopInv', FrameInv, OutputInv, [ReattachNext]_reattachVars PROVE OutputInv'
  <2>1. AdoptInv'
    BY <1>1, AdoptLoop, AdoptRest DEF OutputInv
  <2>2. GreetInv'
    BY <1>1, GreetLoop, GreetRest DEF OutputInv
  <2>3. PlaceInv' /\ PumpInv' /\ HeldInv'
    BY <1>1, PlaceStays, PumpStays, HeldStays DEF OutputInv
  <2>4. SentInv' /\ CoverInv'
    BY <1>1, SentStays, CoverStays DEF OutputInv
  <2> QED BY <2>1, <2>2, <2>3, <2>4 DEF OutputInv
<1>2. OutputInv => OutputIsSeamless
  <2> SUFFICES ASSUME OutputInv PROVE OutputIsSeamless
    OBVIOUS
  <2>1. NoDuplicateOutput
    BY DEF OutputInv, HeldInv, NoDuplicateOutput
  <2>2. OnlyWindowIsLost
    <3> SUFFICES ASSUME NEW h \in Hosts, loop.pc = "wait", loop.host = h, Attached(h), NEW n \in 1 .. out
                 PROVE  \/ n \in Chunks(dump[h]) \cup Live(h) \cup between[h] \cup spilled[h] \cup {pump.n}
                        \/ Expired(dump[h], n)
      BY Zenon DEF OnlyWindowIsLost
    <3>1. Snapshotted(h) /\ host[h] \in Given
      BY Zenon DEF Snapshotted, Attached, Given
    <3>2. PICK d : DumpOf(h, d) /\ Covers(d, Accounted(h))
      BY Zenon, <3>1 DEF OutputInv, CoverInv
    <3>3. d = dump[h]
      BY <3>1, <3>2 DEF DumpOf, Given
    <3> QED BY Zenon, <3>2, <3>3 DEF Covers, Accounted, Held
  <2> QED BY <2>1, <2>2 DEF OutputIsSeamless
<1> QED BY <1>1, <1>2, OutputInit, VerdictInvariant, LoopInvariant, FrameInvariant, PTL DEF ReattachSpec
=============================================================================
