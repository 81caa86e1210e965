---------------------------- MODULE IpcConnProofs ----------------------------
(***************************************************************************)
(* The type invariant of IpcConn for every set of senders, every capacity  *)
(* and every bound; the order of sequence numbers along the path of a      *)
(* frame, by which the receiver's watermark never mistakes a fresh frame   *)
(* for a duplicate (CW-G5); and what callers may rely on: a disconnect     *)
(* callback means the remote side ended, an ack that the peer's handler    *)
(* has finished.  Last, the delivery of accepted frames: each is in the    *)
(* outbox, in writeLoop's hand, on the socket, with the receiver or in the *)
(* spill log, except one that writeLoop could neither write nor spill; and *)
(* the two connections together implement FrameChannel.                    *)
(***************************************************************************)
EXTENDS IpcConn, FiniteSetTheorems, TLAPS

\* The two ends of a connection are each other's peer.
LEMMA PeerType ==
  ASSUME NEW e \in Ends
  PROVE  Peer(e) \in Ends /\ Peer(e) # e /\ Peer(Peer(e)) = e
  BY Zenon DEF Ends, Peer

\* The goroutines of an end are its senders and its read loop.
LEMMA ThreadType ==
  ASSUME NEW e \in Ends
  PROVE  /\ Senders(e) \subseteq Threads(e)
         /\ ReadLoop \in Threads(e)
         /\ Threads(e) \subseteq HostSenders \cup AgentSenders \cup {ReadLoop}
  BY Zenon DEF Ends, Senders, Threads

\* Queues of frames by end stay within a bound when they grow below it or shrink.
LEMMA BoundedAppend ==
  ASSUME NEW q \in [Ends -> Seq(Frames)], NEW N \in Nat, \A d \in Ends : Len(q[d]) <= N,
         NEW e \in Ends, NEW f \in Frames, Len(q[e]) < N
  PROVE  \A d \in Ends : Len([q EXCEPT ![e] = Append(@, f)][d]) <= N
  <1>1. Len(q[e]) \in Nat /\ Len(Append(q[e], f)) = Len(q[e]) + 1
    OBVIOUS
  <1>2. Len(Append(q[e], f)) <= N
    BY <1>1
  <1> QED
    BY Zenon, <1>2

\* Taking the first frame off a queue keeps every queue within the bound.
LEMMA BoundedTail ==
  ASSUME NEW q \in [Ends -> Seq(Frames)], NEW N \in Nat, \A d \in Ends : Len(q[d]) <= N,
         NEW e \in Ends, q[e] # <<>>
  PROVE  \A d \in Ends : Len([q EXCEPT ![e] = Tail(@)][d]) <= N
  <1>1. Len(q[e]) \in Nat /\ Len(Tail(q[e])) = Len(q[e]) - 1
    OBVIOUS
  <1>2. Len(Tail(q[e])) <= N
    BY <1>1
  <1> QED
    BY Zenon, <1>2

\* A connection NewConn just built has the types of TypeOK.
LEMMA InitType == Init => TypeOK
  BY ConnAssumption DEF Init, NewConn, TypeOK, Idle, Calls, Frames, NoFrame, Ends

\* Taking sendMu and the next sequence number (SendMessage) keeps the types.
LEMMA BeginSendType ==
  ASSUME TypeOK, NEW e \in Ends, NEW t \in Threads(e),
         NEW kind \in {"data", "oversize", "ack"}, NEW wantAck \in BOOLEAN,
         NEW ackedSeq \in Nat, NEW await \in BOOLEAN,
         BeginSend(e, t, kind, wantAck, ackedSeq, await),
         rpc' \in [Ends -> {"new", "read", "handle", "ack", "exiting", "callback", "exited"}]
  PROVE  TypeOK'
  <1>1. t \in HostSenders \cup AgentSenders \cup {ReadLoop}
    BY Zenon, ThreadType
  <1>2. [pc |-> "enqueue", await |-> await,
         frame |-> [seq |-> nextSeq[e] + 1, kind |-> kind,
                    wantAck |-> wantAck, acked |-> ackedSeq]] \in Calls
    BY DEF TypeOK, Calls, Frames
  <1>3. call' \in [Ends -> [HostSenders \cup AgentSenders \cup {ReadLoop} -> Calls]]
    BY Zenon, <1>1, <1>2 DEF TypeOK, BeginSend
  <1>4. nextSeq' \in [Ends -> Nat] /\ pending' \in [Ends -> SUBSET Nat]
    BY DEF TypeOK, BeginSend
  <1> QED
    BY Zenon, <1>3, <1>4 DEF TypeOK, BeginSend, ctlVars, writeVars, fireVars

\* Queueing, spilling or refusing the frame (SendMessage) keeps the types.
LEMMA EnqueueType ==
  ASSUME TypeOK, NEW e \in Ends, NEW t \in Threads(e), Enqueue(e, t)
  PROVE  TypeOK'
  <1>1. t \in HostSenders \cup AgentSenders \cup {ReadLoop}
    BY Zenon, ThreadType
  <1>2. call[e][t] \in Calls /\ call[e][t].frame \in Frames /\ call[e][t].frame.seq \in Nat
    BY <1>1 DEF TypeOK, Calls, Frames
  <1>3. Idle \in Calls /\ [call[e][t] EXCEPT !.pc = "await"] \in Calls
    BY Zenon, <1>2 DEF Idle, Calls, Frames, NoFrame
  <1>4. ASSUME NEW ok \in BOOLEAN, Returned(e, t, ok)
        PROVE  /\ call' \in [Ends -> [HostSenders \cup AgentSenders \cup {ReadLoop} -> Calls]]
               /\ pending' \in [Ends -> SUBSET Nat]
               /\ accepted' \in [Ends -> SUBSET Nat]
    BY Zenon, <1>1, <1>2, <1>3, <1>4 DEF TypeOK, Returned
  <1>5. outbox' \in [Ends -> Seq(Frames)] /\ wal' \in [Ends -> Seq(Frames)]
    <2>1. outbox[e] \in Seq(Frames) /\ wal[e] \in Seq(Frames)
      BY Zenon DEF TypeOK
    <2>2. /\ Append(outbox[e], call[e][t].frame) \in Seq(Frames)
          /\ Append(wal[e], call[e][t].frame) \in Seq(Frames)
      BY <1>2, <2>1
    <2> QED
      BY Zenon, <2>2 DEF TypeOK, Enqueue
  <1>6. \A d \in Ends : Len(outbox'[d]) <= Capacity /\ Len(wal'[d]) <= WALCap
    <2>1. /\ outbox \in [Ends -> Seq(Frames)] /\ wal \in [Ends -> Seq(Frames)]
          /\ \A d \in Ends : Len(outbox[d]) <= Capacity /\ Len(wal[d]) <= WALCap
      BY Zenon DEF TypeOK
    <2>2. /\ \/ outbox' = outbox
             \/ /\ Len(outbox[e]) < Capacity
                /\ outbox' = [outbox EXCEPT ![e] = Append(@, call[e][t].frame)]
          /\ \/ wal' = wal
             \/ /\ Len(wal[e]) < WALCap
                /\ wal' = [wal EXCEPT ![e] = Append(@, call[e][t].frame)]
      BY Zenon DEF Enqueue, WALHasRoom
    <2>3. \A d \in Ends : Len(outbox'[d]) <= Capacity
      BY Zenon, <1>2, <2>1, <2>2, BoundedAppend, ConnAssumption
    <2>4. \A d \in Ends : Len(wal'[d]) <= WALCap
      BY Zenon, <1>2, <2>1, <2>2, BoundedAppend, ConnAssumption
    <2> QED
      BY Zenon, <2>3, <2>4
  <1>7. Returned(e, t, TRUE) \/ Returned(e, t, FALSE)
    BY Zenon DEF Enqueue
  <1> QED
    BY Zenon, <1>4, <1>5, <1>6, <1>7 DEF TypeOK, Enqueue, ctlVars, writeVars, readVars, fireVars

\* Every step of the write loop keeps the types.
LEMMA WriterType ==
  ASSUME TypeOK, NEW e \in Ends, WriterStep(e)
  PROVE  TypeOK'
  <1> USE DEF TypeOK, ctlVars, sendVars, readVars, ackVars, fireVars
  <1>0. outbox[e] \in Seq(Frames) /\ wal[e] \in Seq(Frames) /\ wire[e] \in Seq(Frames)
        /\ hand[e] \in Frames
    OBVIOUS
  <1>1. CASE WriterCheck(e)
    BY Zenon, <1>1 DEF WriterCheck
  <1>2. CASE WriterDequeue(e)
    <2>1. Head(outbox[e]) \in Frames /\ Tail(outbox[e]) \in Seq(Frames)
      BY <1>0, <1>2 DEF WriterDequeue
    <2>2. \A d \in Ends : Len(outbox'[d]) <= Capacity
      <3>1. outbox[e] # <<>> /\ outbox' = [outbox EXCEPT ![e] = Tail(@)]
        BY Zenon, <1>2 DEF WriterDequeue
      <3> QED
        BY Zenon, <3>1, BoundedTail, ConnAssumption
    <2> QED
      BY Zenon, <1>2, <2>1, <2>2 DEF WriterDequeue
  <1>3. CASE WriterDequeueEmpty(e)
    BY Zenon, <1>3 DEF WriterDequeueEmpty
  <1>4. CASE WriteFrame(e)
    <2>1. Append(wire[e], hand[e]) \in Seq(Frames)
      BY <1>0
    <2> QED
      BY Zenon, <1>4, <2>1 DEF WriteFrame
  <1>5. CASE WriteFrameFails(e)
    <2>1. Append(wal[e], hand[e]) \in Seq(Frames)
      BY <1>0
    <2>2. \A d \in Ends : Len(wal'[d]) <= WALCap
      <3>1. wal' = wal \/ (Len(wal[e]) < WALCap /\ wal' = [wal EXCEPT ![e] = Append(@, hand[e])])
        BY Zenon, <1>5 DEF WriteFrameFails, SpillHand, WALHasRoom
      <3> QED
        BY Zenon, <1>0, <3>1, BoundedAppend, ConnAssumption
    <2> QED
      BY Zenon, <1>5, <2>1, <2>2 DEF WriteFrameFails, SpillHand
  <1> QED
    BY Zenon, <1>1, <1>2, <1>3, <1>4, <1>5 DEF WriterStep

\* Every step of the read loop, its dedup check and its ack included, keeps the types.
LEMMA ReaderType ==
  ASSUME TypeOK, NEW e \in Ends, ReaderStep(e)
  PROVE  TypeOK'
  <1>1. CASE ReadFrame(e)
    <2>1. Peer(e) \in Ends /\ wire[Peer(e)] \in Seq(Frames) /\ wire[Peer(e)] # <<>>
      BY Zenon, <1>1, PeerType DEF TypeOK, ReadFrame
    <2>2. Head(wire[Peer(e)]) \in Frames /\ Tail(wire[Peer(e)]) \in Seq(Frames)
      BY <2>1
    <2>3. Head(wire[Peer(e)]).seq \in Nat
      BY Zenon, <2>2 DEF Frames
    <2>4. received[e] \in Seq(Nat) /\ Append(received[e], Head(wire[Peer(e)]).seq) \in Seq(Nat)
      BY <2>3 DEF TypeOK
    <2>5. wire' \in [Ends -> Seq(Frames)]
      BY Zenon, <1>1, <2>1, <2>2 DEF TypeOK, ReadFrame
    <2>6. lastSeen' \in [Ends -> Nat] /\ received' \in [Ends -> Seq(Nat)]
          /\ dropped' \in [Ends -> SUBSET Nat]
      <3>1. \/ /\ dropped' = [dropped EXCEPT ![e] = @ \cup {Head(wire[Peer(e)]).seq}]
               /\ lastSeen' = lastSeen /\ received' = received
            \/ /\ dropped' = dropped
               /\ lastSeen' = [lastSeen EXCEPT ![e] = Head(wire[Peer(e)]).seq]
               /\ received' = [received EXCEPT ![e] = Append(@, Head(wire[Peer(e)]).seq)]
        BY Zenon, <1>1 DEF ReadFrame
      <3>2. lastSeen \in [Ends -> Nat] /\ received \in [Ends -> Seq(Nat)]
            /\ dropped \in [Ends -> SUBSET Nat]
        BY Zenon DEF TypeOK
      <3> QED
        BY Zenon, <2>3, <2>4, <3>1, <3>2
    <2>7. pending' \in [Ends -> SUBSET Nat] /\ inbox' \in [Ends -> Frames]
          /\ rpc' \in [Ends -> {"new", "read", "handle", "ack", "exiting", "callback", "exited"}]
      <3>1. \/ pending' = pending /\ inbox' = inbox /\ rpc' = rpc
            \/ /\ pending' = [pending EXCEPT ![e] = @ \ {Head(wire[Peer(e)]).acked}]
               /\ inbox' = inbox /\ rpc' = rpc
            \/ /\ pending' = pending /\ inbox' = [inbox EXCEPT ![e] = Head(wire[Peer(e)])]
               /\ rpc' = [rpc EXCEPT ![e] = "handle"]
        BY Zenon, <1>1 DEF ReadFrame
      <3>2. pending \in [Ends -> SUBSET Nat] /\ inbox \in [Ends -> Frames]
            /\ rpc \in [Ends -> {"new", "read", "handle", "ack", "exiting", "callback", "exited"}]
        BY Zenon DEF TypeOK
      <3> QED
        BY Zenon, <2>2, <3>1, <3>2
    <2> QED
      BY Zenon, <1>1, <2>5, <2>6, <2>7
      DEF TypeOK, ReadFrame, ctlVars, sendVars, writeVars, fireVars
  <1>2. CASE HandlerReturns(e)
    <2>1. inbox[e].seq \in Nat
      BY Zenon DEF TypeOK, Frames
    <2> QED
      BY Zenon, <1>2, <2>1 DEF TypeOK, HandlerReturns, ctlVars, sendVars, writeVars, ackVars, fireVars
  <1>3. CASE SendAck(e)
    <2>1. inbox[e].seq \in Nat
      BY Zenon DEF TypeOK, Frames
    <2>2. rpc' \in [Ends -> {"new", "read", "handle", "ack", "exiting", "callback", "exited"}]
      BY Zenon, <1>3 DEF TypeOK, SendAck
    <2>3. CASE BeginSend(e, ReadLoop, "ack", FALSE, inbox[e].seq, FALSE)
      BY Zenon, <2>1, <2>2, <2>3, BeginSendType, ThreadType
    <2>4. CASE ~BeginSend(e, ReadLoop, "ack", FALSE, inbox[e].seq, FALSE)
      <3>1. UNCHANGED <<ctlVars, sendVars, outbox, wal, wire, writeVars, inbox, lastSeen,
                        received, dropped, handled, ackVars, fireVars>>
        BY Zenon, <1>3, <2>4 DEF SendAck
      <3> QED
        BY Zenon, <2>2, <3>1 DEF TypeOK, ctlVars, sendVars, writeVars, ackVars, fireVars
    <2> QED
      BY Zenon, <2>3, <2>4
  <1>4. CASE ReadError(e)
    BY Zenon, <1>4 DEF TypeOK, ReadError, ctlVars, sendVars, writeVars, ackVars
  <1>5. CASE FireDisconnectCheck(e)
    BY Zenon, <1>5 DEF TypeOK, FireDisconnectCheck, ctlVars, sendVars, writeVars, ackVars, fireVars
  <1>6. CASE FireDisconnect(e)
    BY Zenon, <1>6 DEF TypeOK, FireDisconnect, sendVars, writeVars, ackVars
  <1> QED
    BY Zenon, <1>1, <1>2, <1>3, <1>4, <1>5, <1>6 DEF ReaderStep

\* Every step of a goroutine that calls SendMessage or SendAwait keeps the types.
LEMMA SenderType ==
  ASSUME TypeOK, NEW e \in Ends, SenderStep(e)
  PROVE  TypeOK'
  <1>1. ASSUME NEW t \in Senders(e), SendWithNewSeq(e, t)
        PROVE  TypeOK'
    <2>1. PICK kind \in {"data", "oversize", "ack"}, wantAck \in BOOLEAN :
            BeginSend(e, t, kind, wantAck, 0, FALSE)
      BY Zenon, <1>1 DEF SendWithNewSeq
    <2>2. rpc' \in [Ends -> {"new", "read", "handle", "ack", "exiting", "callback", "exited"}]
      BY Zenon, <1>1 DEF SendWithNewSeq, TypeOK
    <2> QED
      BY Zenon, <2>1, <2>2, BeginSendType, ThreadType
  <1>2. ASSUME NEW t \in Senders(e), SendAndAwaitAck(e, t)
        PROVE  TypeOK'
    <2>1. rpc' \in [Ends -> {"new", "read", "handle", "ack", "exiting", "callback", "exited"}]
      BY Zenon, <1>2 DEF SendAndAwaitAck, TypeOK
    <2> QED
      BY Zenon, <1>2, <2>1, BeginSendType, ThreadType DEF SendAndAwaitAck
  <1>3. ASSUME NEW t \in Senders(e), AwaitAcked(e, t) \/ AwaitConnClosed(e, t) \/ AwaitCtxDone(e, t)
        PROVE  TypeOK'
    <2>1. t \in HostSenders \cup AgentSenders \cup {ReadLoop} /\ Idle \in Calls
      BY Zenon, ThreadType DEF Idle, Calls, Frames, NoFrame
    <2>2. call[e][t].frame.seq \in Nat
      BY <2>1 DEF TypeOK, Calls, Frames
    <2>3. call' \in [Ends -> [HostSenders \cup AgentSenders \cup {ReadLoop} -> Calls]]
      <3>1. call' = [call EXCEPT ![e][t] = Idle]
        BY Zenon, <1>3 DEF AwaitAcked, AwaitConnClosed, AwaitCtxDone, AwaitAbandoned
      <3>2. call \in [Ends -> [HostSenders \cup AgentSenders \cup {ReadLoop} -> Calls]]
        BY Zenon DEF TypeOK
      <3> QED
        BY Zenon, <2>1, <3>1, <3>2
    <2>4. pending' \in [Ends -> SUBSET Nat] /\ confirmed' \in [Ends -> SUBSET Nat]
      <3>1. \/ pending' = pending /\ confirmed' = [confirmed EXCEPT ![e] = @ \cup {call[e][t].frame.seq}]
            \/ confirmed' = confirmed /\ pending' = [pending EXCEPT ![e] = @ \ {call[e][t].frame.seq}]
        BY Zenon, <1>3 DEF AwaitAcked, AwaitConnClosed, AwaitCtxDone, AwaitAbandoned
      <3>2. pending \in [Ends -> SUBSET Nat] /\ confirmed \in [Ends -> SUBSET Nat]
        BY Zenon DEF TypeOK
      <3> QED
        BY Zenon, <2>2, <3>1, <3>2
    <2>5. UNCHANGED <<ctlVars, nextSeq, accepted, outbox, wal, wire, writeVars, readVars, fireVars>>
      BY Zenon, <1>3 DEF AwaitAcked, AwaitConnClosed, AwaitCtxDone, AwaitAbandoned
    <2> QED
      BY Zenon, <2>3, <2>4, <2>5 DEF TypeOK, ctlVars, writeVars, readVars, fireVars
  <1>4. ASSUME NEW t \in Threads(e), Enqueue(e, t)
        PROVE  TypeOK'
    BY Zenon, <1>4, EnqueueType
  <1> QED
    BY Zenon, <1>1, <1>2, <1>3, <1>4 DEF SenderStep

\* Start, every step of Close and the death of a process keep the types.
LEMMA CloseType ==
  ASSUME TypeOK, NEW e \in Ends, CloseStep(e) \/ Die(e) \/ Start(e)
  PROVE  TypeOK'
  <1>1. ASSUME CloseStep(e)
        PROVE  /\ closed' \in [Ends -> BOOLEAN] /\ cancelled' \in [Ends -> BOOLEAN]
               /\ rwcOpen' \in [Ends -> BOOLEAN] /\ obDone' \in [Ends -> BOOLEAN]
               /\ walOpen' \in [Ends -> BOOLEAN] /\ alive' = alive
               /\ cpc' \in [Ends -> {"no", "closed", "cancelled", "rwc", "outbox", "joined", "done"}]
    <2>1. CASE CloseSetClosed(e)
      BY Zenon, <2>1 DEF TypeOK, CloseSetClosed
    <2>2. CASE CloseCancel(e)
      BY Zenon, <2>2 DEF TypeOK, CloseCancel
    <2>3. CASE CloseRWC(e)
      BY Zenon, <2>3 DEF TypeOK, CloseRWC
    <2>4. CASE CloseOutbox(e)
      BY Zenon, <2>4 DEF TypeOK, CloseOutbox
    <2>5. CASE CloseWait(e)
      BY Zenon, <2>5 DEF TypeOK, CloseWait
    <2>6. CASE CloseSpiller(e)
      BY Zenon, <2>6 DEF TypeOK, CloseSpiller
    <2> QED
      BY Zenon, <1>1, <2>1, <2>2, <2>3, <2>4, <2>5, <2>6 DEF CloseStep
  <1>2. CASE CloseStep(e)
    <2>1. UNCHANGED <<sendVars, outbox, wal, wire, writeVars, readVars, ackVars, fireVars>>
      BY Zenon, <1>2 DEF CloseStep
    <2> QED
      BY Zenon, <1>1, <1>2, <2>1 DEF TypeOK, sendVars, writeVars, readVars, ackVars, fireVars
  <1>3. CASE Die(e)
    BY Zenon, <1>3 DEF TypeOK, Die, sendVars, writeVars, readVars, ackVars, fireVars
  <1>4. CASE Start(e)
    BY Zenon, <1>4 DEF TypeOK, Start, ctlVars, sendVars, ackVars, fireVars
  <1> QED
    BY Zenon, <1>2, <1>3, <1>4

\* A step that changes nothing keeps the types.
LEMMA StutterType == TypeOK /\ UNCHANGED vars => TypeOK'
  BY Zenon DEF TypeOK, vars, ctlVars, sendVars, writeVars, readVars, ackVars, fireVars

\* Every variable of both Conns keeps its type.
THEOREM TypeCorrect == Spec => []TypeOK
  <1>1. TypeOK /\ [Next]_vars => TypeOK'
    BY Zenon, SenderType, WriterType, ReaderType, CloseType, StutterType DEF Next
  <1> QED
    BY InitType, <1>1, PTL DEF Spec

-----------------------------------------------------------------------------
(* What appending to and removing from a queue of frames does to order.    *)

\* The sequence numbers of a queue of frames are natural numbers.
LEMMA SeqNosNat ==
  ASSUME NEW s \in Seq(Frames)
  PROVE  SeqNos(s) \subseteq Nat
  <1>1. \A i \in DOMAIN s : s[i] \in Frames
    OBVIOUS
  <1>2. \A f \in Frames : f.seq \in Nat
    BY Zenon DEF Frames
  <1> QED
    BY Zenon, <1>1, <1>2 DEF SeqNos

\* Appending a frame to a queue adds its sequence number and no other.
LEMMA AppendSeqNos ==
  ASSUME NEW s \in Seq(Frames), NEW f \in Frames
  PROVE  SeqNos(Append(s, f)) = SeqNos(s) \cup {f.seq}
  <1>1. Len(s) \in Nat /\ DOMAIN s = 1..Len(s)
    OBVIOUS
  <1>2. DOMAIN Append(s, f) = 1..(Len(s) + 1)
    OBVIOUS
  <1>3. \A i \in 1..Len(s) : Append(s, f)[i] = s[i]
    OBVIOUS
  <1>4. Append(s, f)[Len(s) + 1] = f
    OBVIOUS
  <1>5. \A i \in 1..(Len(s) + 1) : i \in 1..Len(s) \/ i = Len(s) + 1
    BY <1>1
  <1> QED
    BY <1>1, <1>2, <1>3, <1>4, <1>5 DEF SeqNos

\* A queue in increasing order stays so when a newer frame is appended.
LEMMA AppendIncreasing ==
  ASSUME NEW s \in Seq(Frames), NEW f \in Frames, Increasing(s),
         \A n \in SeqNos(s) : n < f.seq
  PROVE  Increasing(Append(s, f))
  <1>1. \A i \in DOMAIN s : s[i].seq < f.seq
    BY Zenon DEF SeqNos
  <1>2. \A i \in DOMAIN Append(s, f) :
          \/ i \in DOMAIN s /\ Append(s, f)[i] = s[i]
          \/ i = Len(s) + 1 /\ Append(s, f)[i] = f
    OBVIOUS
  <1>3. \A i \in DOMAIN s : i < Len(s) + 1
    OBVIOUS
  <1>4. DOMAIN s \subseteq Nat /\ Len(s) \in Nat
    OBVIOUS
  <1> QED
    BY <1>1, <1>2, <1>3, <1>4 DEF Increasing

\* The first frame of a queue in increasing order is older than all the others.
LEMMA HeadAndTail ==
  ASSUME NEW s \in Seq(Frames), s # <<>>, Increasing(s)
  PROVE  /\ Head(s) \in Frames /\ Tail(s) \in Seq(Frames)
         /\ Head(s).seq \in SeqNos(s)
         /\ SeqNos(Tail(s)) \subseteq SeqNos(s)
         /\ \A n \in SeqNos(Tail(s)) : Head(s).seq < n
         /\ Increasing(Tail(s))
  <1>1. Len(s) \in Nat \ {0} /\ DOMAIN s = 1..Len(s) /\ Head(s) = s[1]
    OBVIOUS
  <1>2. DOMAIN Tail(s) = 1..(Len(s) - 1)
    BY <1>1
  <1>3. \A i \in DOMAIN Tail(s) : i + 1 \in DOMAIN s /\ 1 < i + 1 /\ Tail(s)[i] = s[i + 1]
    BY <1>1, <1>2
  <1>4. Head(s) \in Frames /\ Tail(s) \in Seq(Frames)
    OBVIOUS
  <1>5. Head(s).seq \in SeqNos(s)
    BY <1>1 DEF SeqNos
  <1>6. SeqNos(Tail(s)) \subseteq SeqNos(s)
    BY Zenon, <1>3 DEF SeqNos
  <1>7. \A n \in SeqNos(Tail(s)) : Head(s).seq < n
    BY <1>1, <1>3 DEF SeqNos, Increasing
  <1>8. Increasing(Tail(s))
    <2> SUFFICES ASSUME NEW i \in DOMAIN Tail(s), NEW j \in DOMAIN Tail(s), i < j
                 PROVE  Tail(s)[i].seq < Tail(s)[j].seq
      BY Zenon DEF Increasing
    <2>1. i + 1 < j + 1
      BY <1>2
    <2> QED
      BY Zenon, <1>3, <2>1 DEF Increasing
  <1> QED
    BY Zenon, <1>4, <1>5, <1>6, <1>7, <1>8

-----------------------------------------------------------------------------
(* The order invariant, one lemma per step that touches the path of a      *)
(* frame, and one for all the steps that do not.                           *)

\* The path of end e's frames is untouched, except that writeLoop may let go of
\* its frame and goroutines may leave sendMu.
PathUnchanged(e) ==
  /\ outbox'[e] = outbox[e]
  /\ wire'[e] = wire[e]
  /\ hand'[e] = hand[e]
  /\ nextSeq'[e] = nextSeq[e]
  /\ lastSeen'[Peer(e)] = lastSeen[Peer(e)]
  /\ wpc'[e] = "write" => wpc[e] = "write"
  /\ \A t \in Threads(e) : call'[e][t].pc = "enqueue" => call'[e][t] = call[e][t]

\* A step that leaves the path of a frame alone keeps the order along it.
LEMMA PathFrame ==
  ASSUME NEW e \in Ends, InOrder(e), HolderNewest(e), PathUnchanged(e)
  PROVE  InOrder(e)' /\ HolderNewest(e)'
  BY Zenon DEF InOrder, HolderNewest, PathUnchanged

\* The number SendMessage draws under sendMu is newer than every number on the path.
LEMMA BeginSendOrder ==
  ASSUME TypeOK, OrderInv, NEW d \in Ends, NEW t \in Threads(d),
         NEW kind, NEW wantAck, NEW ackedSeq, NEW await,
         BeginSend(d, t, kind, wantAck, ackedSeq, await)
  PROVE  OrderInv'
  <1> SUFFICES ASSUME NEW e \in Ends PROVE InOrder(e)' /\ HolderNewest(e)'
    BY Zenon DEF OrderInv
  <1>0. InOrder(e) /\ HolderNewest(e) /\ Peer(e) \in Ends
    BY Zenon, PeerType DEF OrderInv
  <1>1. CASE e # d
    <2>1. call'[e] = call[e] /\ nextSeq'[e] = nextSeq[e]
      BY Zenon, <1>1 DEF BeginSend, TypeOK
    <2>2. PathUnchanged(e)
      BY Zenon, <2>1 DEF BeginSend, PathUnchanged, writeVars
    <2> QED
      BY Zenon, <1>0, <2>2, PathFrame
  <1>2. CASE e = d
    <2>1. /\ outbox' = outbox /\ wire' = wire /\ wpc' = wpc /\ hand' = hand
          /\ lastSeen' = lastSeen
      BY Zenon DEF BeginSend, writeVars
    <2>2. nextSeq'[e] = nextSeq[e] + 1
      BY Zenon, <1>2 DEF BeginSend, TypeOK
    <2>3. nextSeq[e] \in Nat /\ lastSeen[Peer(e)] \in Nat /\ hand[e].seq \in Nat
      BY Zenon, <1>0 DEF TypeOK, Frames
    <2>4. \A n \in SeqNos(wire[e]) \cup SeqNos(outbox[e]) : n \in Nat
      BY Zenon, SeqNosNat DEF TypeOK
    <2>5. \A n \in Nat : n <= nextSeq[e] => n < nextSeq'[e] /\ n <= nextSeq'[e]
      <3>1. nextSeq[e] \in Nat
        BY Zenon, <2>3
      <3> QED
        BY <2>2, <3>1
    <2>6. /\ \A n \in SeqNos(wire[e]) \cup SeqNos(outbox[e]) : n < nextSeq'[e] /\ n <= nextSeq'[e]
          /\ wpc[e] = "write" => hand[e].seq < nextSeq'[e] /\ hand[e].seq <= nextSeq'[e]
          /\ lastSeen[Peer(e)] < nextSeq'[e] /\ lastSeen[Peer(e)] <= nextSeq'[e]
      <3>1. /\ \A n \in SeqNos(wire[e]) \cup SeqNos(outbox[e]) : n <= nextSeq[e]
            /\ wpc[e] = "write" => hand[e].seq <= nextSeq[e]
            /\ lastSeen[Peer(e)] <= nextSeq[e]
        BY Zenon, <1>0 DEF InOrder
      <3> QED
        BY Zenon, <2>3, <2>4, <2>5, <3>1
    <2>7. InOrder(e)'
      BY Zenon, <1>0, <2>1, <2>6 DEF InOrder
    <2>8. \A u \in Threads(e) : call[e][u].pc # "enqueue"
      BY Zenon, <1>2 DEF BeginSend, SendMuFree
    <2>9. t \in HostSenders \cup AgentSenders \cup {ReadLoop}
          /\ Threads(e) \subseteq HostSenders \cup AgentSenders \cup {ReadLoop}
      BY Zenon, <1>2, ThreadType
    <2>10. /\ call'[e][t].pc = "enqueue" /\ call'[e][t].frame.seq = nextSeq[e] + 1
           /\ \A u \in Threads(e) : u # t => call'[e][u] = call[e][u]
      BY Zenon, <1>2, <2>9 DEF BeginSend, TypeOK
    <2>11. \A u \in Threads(e) : call'[e][u].pc = "enqueue" => u = t
      BY Zenon, <2>8, <2>10
    <2>12. call'[e][t].frame.seq = nextSeq'[e]
      BY Zenon, <2>2, <2>10
    <2>13. HolderNewest(e)'
      BY Zenon, <2>1, <2>6, <2>11, <2>12 DEF HolderNewest
    <2> QED
      BY Zenon, <2>7, <2>13
  <1> QED
    BY Zenon, <1>1, <1>2

\* The frame SendMessage queues or spills, still under sendMu, goes behind every older one.
LEMMA EnqueueOrder ==
  ASSUME TypeOK, OrderInv, NEW d \in Ends, NEW t \in Threads(d), Enqueue(d, t)
  PROVE  OrderInv'
  <1> SUFFICES ASSUME NEW e \in Ends PROVE InOrder(e)' /\ HolderNewest(e)'
    BY Zenon DEF OrderInv
  <1>0. InOrder(e) /\ HolderNewest(e) /\ Peer(e) \in Ends
    BY Zenon, PeerType DEF OrderInv
  <1>1. /\ wire' = wire /\ wpc' = wpc /\ hand' = hand /\ lastSeen' = lastSeen
        /\ nextSeq' = nextSeq
    BY Zenon DEF Enqueue, writeVars, readVars
  <1>2. t \in HostSenders \cup AgentSenders \cup {ReadLoop}
        /\ Threads(e) \subseteq HostSenders \cup AgentSenders \cup {ReadLoop}
    BY Zenon, ThreadType
  <1>3. /\ e # d => call'[e] = call[e]
        /\ \A u \in Threads(e) : u # t => call'[e][u] = call[e][u]
        /\ e = d => call'[e][t].pc # "enqueue"
    <2>1. call \in [Ends -> [HostSenders \cup AgentSenders \cup {ReadLoop} -> Calls]]
      BY Zenon DEF TypeOK
    <2>2. \E ok \in BOOLEAN : Returned(d, t, ok)
      BY Zenon DEF Enqueue
    <2>3. PICK ok \in BOOLEAN : Returned(d, t, ok)
      BY Zenon, <2>2
    <2> DEFINE c == IF ok /\ call[d][t].await THEN [call[d][t] EXCEPT !.pc = "await"] ELSE Idle
    <2>4. t \in HostSenders \cup AgentSenders \cup {ReadLoop}
      BY Zenon, <1>2
    <2>5. call' = [call EXCEPT ![d][t] = c]
      BY Zenon, <2>1, <2>3, <2>4 DEF Returned
    <2>6. c.pc # "enqueue"
      <3>1. call[d][t] \in Calls
        BY Zenon, <2>1, <2>4
      <3> QED
        BY Zenon, <3>1 DEF Calls, Idle
    <2> HIDE DEF c
    <2>7. call'[d][t] = c /\ \A u : u # t => call'[d][u] = call[d][u]
      BY <2>1, <2>4, <2>5
    <2>8. e # d => call'[e] = call[e]
      BY Zenon, <2>1, <2>5
    <2>9. \A u \in Threads(e) : u # t => call'[e][u] = call[e][u]
      BY <2>7, <2>8
    <2> QED
      BY Zenon, <2>6, <2>7, <2>8, <2>9
  <1>4. CASE outbox'[e] = outbox[e]
    <2>1. PathUnchanged(e)
      BY Zenon, <1>1, <1>3, <1>4 DEF PathUnchanged
    <2> QED
      BY Zenon, <1>0, <2>1, PathFrame
  <1>5. CASE outbox'[e] # outbox[e]
    <2> DEFINE f == call[e][t].frame
    <2>1. e = d /\ outbox'[e] = Append(outbox[e], f)
      <3>1. outbox' = [outbox EXCEPT ![d] = Append(@, call[d][t].frame)]
        BY Zenon, <1>5 DEF Enqueue
      <3>2. outbox \in [Ends -> Seq(Frames)]
        BY Zenon DEF TypeOK
      <3> QED
        BY Zenon, <1>5, <3>1, <3>2
    <2>2. f \in Frames /\ f.seq \in Nat
      <3>1. call[e] \in [HostSenders \cup AgentSenders \cup {ReadLoop} -> Calls]
        BY Zenon DEF TypeOK
      <3>2. call[e][t] \in Calls
        BY Zenon, <1>2, <3>1
      <3>3. f \in Frames
        BY Zenon, <3>2 DEF Calls
      <3> QED
        BY Zenon, <3>3 DEF Frames
    <2>3. outbox[e] \in Seq(Frames) /\ wire[e] \in Seq(Frames)
      BY Zenon DEF TypeOK
    <2>4. f.seq = nextSeq[e] /\ \A n \in SeqNos(wire[e]) \cup SeqNos(outbox[e]) : n < f.seq
      BY Zenon, <1>0, <2>1 DEF Enqueue, HolderNewest
    <2>5. (wpc[e] = "write" => hand[e].seq < f.seq) /\ lastSeen[Peer(e)] < f.seq
      BY Zenon, <1>0, <2>1 DEF Enqueue, HolderNewest
    <2>6. SeqNos(outbox'[e]) = SeqNos(outbox[e]) \cup {f.seq} /\ Increasing(outbox'[e])
      BY <1>0, <2>1, <2>2, <2>3, <2>4, AppendSeqNos, AppendIncreasing DEF InOrder
    <2>7. \A u \in Threads(e) : call'[e][u].pc # "enqueue"
      BY Zenon, <1>0, <1>3, <2>1 DEF Enqueue, HolderNewest
    <2>8. nextSeq[e] \in Nat
      BY Zenon DEF TypeOK
    <2>9. InOrder(e)'
      <3>1. f.seq <= nextSeq[e]
        BY <2>4, <2>8
      <3>2. \A n \in SeqNos(wire[e]), m \in SeqNos(outbox'[e]) : n < m
        BY Zenon, <1>0, <2>4, <2>6 DEF InOrder
      <3>3. wpc[e] = "write" => \A m \in SeqNos(outbox'[e]) : hand[e].seq < m
        BY Zenon, <1>0, <2>5, <2>6 DEF InOrder
      <3>4. \A n \in SeqNos(wire[e]) \cup SeqNos(outbox'[e]) :
              lastSeen[Peer(e)] < n /\ n <= nextSeq[e]
        BY Zenon, <1>0, <2>5, <2>6, <3>1 DEF InOrder
      <3> QED
        BY Zenon, <1>0, <1>1, <2>6, <3>2, <3>3, <3>4 DEF InOrder
    <2> QED
      BY Zenon, <2>7, <2>9 DEF HolderNewest
  <1> QED
    BY Zenon, <1>4, <1>5

-----------------------------------------------------------------------------
(* The loops, Close and Start.                                             *)

\* The write loop moves frames from queue to wire without changing their order.
LEMMA WriterOrder ==
  ASSUME TypeOK, OrderInv, NEW d \in Ends, WriterStep(d)
  PROVE  OrderInv'
  <1> SUFFICES ASSUME NEW e \in Ends PROVE InOrder(e)' /\ HolderNewest(e)'
    BY Zenon DEF OrderInv
  <1>0. InOrder(e) /\ HolderNewest(e) /\ Peer(e) \in Ends
    BY Zenon, PeerType DEF OrderInv
  <1>1. call' = call /\ nextSeq' = nextSeq /\ lastSeen' = lastSeen
    BY Zenon DEF WriterStep, WriterCheck, WriterDequeue, WriterDequeueEmpty, WriteFrame,
           WriteFrameFails, sendVars, readVars
  <1>2. /\ outbox[e] \in Seq(Frames) /\ wire[e] \in Seq(Frames) /\ hand[e] \in Frames
        /\ nextSeq[e] \in Nat /\ lastSeen[Peer(e)] \in Nat
    BY Zenon, <1>0 DEF TypeOK
  <1>3. hand[e].seq \in Nat
    BY Zenon, <1>2 DEF Frames
  <1>4. SeqNos(wire[e]) \subseteq Nat /\ SeqNos(outbox[e]) \subseteq Nat
    BY Zenon, <1>2, SeqNosNat
  <1>5. CASE e = d /\ WriterDequeue(d)
    <2> DEFINE h == Head(outbox[e])
    <2>1. outbox[e] # <<>> /\ Increasing(outbox[e])
      BY Zenon, <1>0, <1>5 DEF WriterDequeue, InOrder
    <2>2. /\ h.seq \in SeqNos(outbox[e])
          /\ SeqNos(Tail(outbox[e])) \subseteq SeqNos(outbox[e])
          /\ \A n \in SeqNos(Tail(outbox[e])) : h.seq < n
          /\ Increasing(Tail(outbox[e]))
      BY Zenon, <1>2, <2>1, HeadAndTail
    <2>3. /\ hand'[e] = h /\ outbox'[e] = Tail(outbox[e]) /\ wire' = wire
          /\ wpc'[e] = "write"
      BY Zenon, <1>5 DEF WriterDequeue, TypeOK
    <2>4. InOrder(e)'
      BY Zenon, <1>0, <1>1, <2>2, <2>3 DEF InOrder
    <2>5. HolderNewest(e)'
      BY Zenon, <1>0, <1>1, <2>2, <2>3 DEF HolderNewest
    <2> QED
      BY Zenon, <2>4, <2>5
  <1>6. CASE e = d /\ WriteFrame(d)
    <2>1. /\ wpc[e] = "write" /\ wpc'[e] = "check" /\ outbox' = outbox
          /\ wire'[e] = Append(wire[e], hand[e])
      BY Zenon, <1>6 DEF WriteFrame, TypeOK
    <2>2. \A n \in SeqNos(wire[e]) : n < hand[e].seq
      BY Zenon, <1>0, <2>1 DEF InOrder
    <2>3. SeqNos(wire'[e]) = SeqNos(wire[e]) \cup {hand[e].seq}
      BY Zenon, <1>2, <2>1, AppendSeqNos
    <2>4. Increasing(wire'[e])
      BY Zenon, <1>0, <1>2, <2>1, <2>2, AppendIncreasing DEF InOrder
    <2>5. InOrder(e)'
      BY Zenon, <1>0, <1>1, <2>1, <2>3, <2>4 DEF InOrder
    <2>6. HolderNewest(e)'
      BY Zenon, <1>0, <1>1, <2>1, <2>3 DEF HolderNewest
    <2> QED
      BY Zenon, <2>5, <2>6
  <1>7. CASE e # d \/ ~(WriterDequeue(d) \/ WriteFrame(d))
    <2>1. outbox'[e] = outbox[e] /\ wire'[e] = wire[e] /\ hand'[e] = hand[e]
      <3>1. CASE WriterDequeue(d)
        BY Zenon, <1>7, <3>1 DEF WriterDequeue, TypeOK
      <3>2. CASE WriteFrame(d)
        BY Zenon, <1>7, <3>2 DEF WriteFrame, TypeOK
      <3>3. CASE WriterCheck(d) \/ WriterDequeueEmpty(d) \/ WriteFrameFails(d)
        BY Zenon, <3>3 DEF WriterCheck, WriterDequeueEmpty, WriteFrameFails
      <3> QED
        BY Zenon, <3>1, <3>2, <3>3 DEF WriterStep
    <2>2. wpc'[e] = "write" => wpc[e] = "write"
      <3>1. CASE WriterDequeue(d)
        BY Zenon, <1>7, <3>1 DEF WriterDequeue, TypeOK
      <3>2. CASE WriteFrame(d)
        BY Zenon, <3>2 DEF WriteFrame, TypeOK
      <3>3. CASE WriterCheck(d) \/ WriterDequeueEmpty(d) \/ WriteFrameFails(d)
        BY Zenon, <3>3 DEF WriterCheck, WriterDequeueEmpty, WriteFrameFails, TypeOK
      <3> QED
        BY Zenon, <3>1, <3>2, <3>3 DEF WriterStep
    <2>3. PathUnchanged(e)
      BY Zenon, <1>1, <2>1, <2>2 DEF PathUnchanged
    <2> QED
      BY Zenon, <1>0, <2>3, PathFrame
  <1> QED
    BY Zenon, <1>5, <1>6, <1>7

\* A frame the read loop takes is newer than every frame it took before, so dedup drops none.
LEMMA ReadFrameOrder ==
  ASSUME TypeOK, OrderInv, NEW d \in Ends, ReadFrame(d)
  PROVE  OrderInv' /\ dropped' = dropped
  <1> DEFINE p == Peer(d)
             f == Head(wire[p])
  <1>0. p \in Ends /\ p # d /\ Peer(p) = d
    BY Zenon DEF Peer, Ends
  <1>1. InOrder(p) /\ HolderNewest(p)
    BY Zenon, <1>0 DEF OrderInv
  <1>2. /\ outbox[p] \in Seq(Frames) /\ wire[p] \in Seq(Frames) /\ hand[p] \in Frames
        /\ nextSeq[p] \in Nat /\ lastSeen[d] \in Nat
    BY Zenon, <1>0 DEF TypeOK
  <1>3. SeqNos(wire[p]) \subseteq Nat /\ SeqNos(outbox[p]) \subseteq Nat
    BY Zenon, <1>2, SeqNosNat
  <1>4. wire[p] # <<>> /\ Increasing(wire[p])
    BY Zenon, <1>1 DEF ReadFrame, InOrder
  <1>5. /\ f.seq \in SeqNos(wire[p])
        /\ SeqNos(Tail(wire[p])) \subseteq SeqNos(wire[p])
        /\ \A n \in SeqNos(Tail(wire[p])) : f.seq < n
        /\ Increasing(Tail(wire[p]))
    BY Zenon, <1>2, <1>4, HeadAndTail
  <1>6. lastSeen[d] < f.seq /\ f.seq \in Nat
    BY Zenon, <1>0, <1>1, <1>3, <1>5 DEF InOrder
  <1>7. ~Seen(d, f.seq)
    BY <1>2, <1>6 DEF Seen
  <1>8. /\ wire' = [wire EXCEPT ![p] = Tail(@)]
        /\ lastSeen' = [lastSeen EXCEPT ![d] = f.seq]
        /\ dropped' = dropped
    BY Zenon, <1>7 DEF ReadFrame
  <1>9. outbox' = outbox /\ call' = call /\ nextSeq' = nextSeq /\ wpc' = wpc /\ hand' = hand
    BY Zenon DEF ReadFrame, sendVars, writeVars
  <1>10. wire'[p] = Tail(wire[p]) /\ wire'[d] = wire[d] /\ lastSeen'[d] = f.seq
         /\ lastSeen'[p] = lastSeen[p]
    BY Zenon, <1>0, <1>8 DEF TypeOK
  <1>11. InOrder(p)'
    BY Zenon, <1>0, <1>1, <1>5, <1>6, <1>9, <1>10 DEF InOrder
  <1>12. HolderNewest(p)'
    BY Zenon, <1>0, <1>1, <1>5, <1>6, <1>9, <1>10 DEF HolderNewest
  <1>13. InOrder(d)' /\ HolderNewest(d)'
    <2>1. PathUnchanged(d)
      BY Zenon, <1>0, <1>9, <1>10 DEF PathUnchanged
    <2> QED
      BY Zenon, <2>1, PathFrame DEF OrderInv
  <1>14. \A e \in Ends : e = d \/ e = p
    BY DEF Ends, Peer
  <1> QED
    BY Zenon, <1>8, <1>11, <1>12, <1>13, <1>14 DEF OrderInv

\* The steps that leave the path of every frame alone.
LEMMA OtherOrder ==
  ASSUME TypeOK, OrderInv,
         \/ UNCHANGED vars
         \/ \E d \in Ends :
              \/ Start(d) \/ CloseStep(d) \/ Die(d) \/ HandlerReturns(d)
              \/ ReadError(d) \/ FireDisconnectCheck(d) \/ FireDisconnect(d)
              \/ \E t \in Senders(d) :
                   AwaitAcked(d, t) \/ AwaitConnClosed(d, t) \/ AwaitCtxDone(d, t)
  PROVE  OrderInv' /\ dropped' = dropped
  <1> DEFINE
        SamePath == /\ outbox' = outbox /\ wire' = wire /\ hand' = hand /\ nextSeq' = nextSeq
                    /\ lastSeen' = lastSeen /\ dropped' = dropped
        SameWriter == wpc' = wpc \/ \E d \in Ends : wpc' = [wpc EXCEPT ![d] = "check"]
        SameCalls ==
          call' = call \/ \E d \in Ends : \E u \in Senders(d) : call' = [call EXCEPT ![d][u] = Idle]
        Same == SamePath /\ SameWriter /\ SameCalls
  <1>0. Same
    <2>1. CASE UNCHANGED vars
      BY Zenon, <2>1 DEF vars, sendVars, writeVars, readVars
    <2>2. ASSUME NEW d \in Ends, Start(d) PROVE Same
      BY Zenon, <2>2 DEF Start, sendVars, readVars
    <2>3. ASSUME NEW d \in Ends, CloseStep(d) \/ Die(d) PROVE Same
      BY Zenon, <2>3 DEF CloseStep, Die, sendVars, writeVars, readVars
    <2>4. ASSUME NEW d \in Ends, HandlerReturns(d) \/ ReadError(d) PROVE Same
      BY Zenon, <2>4 DEF HandlerReturns, ReadError, sendVars, writeVars
    <2>5. ASSUME NEW d \in Ends, FireDisconnectCheck(d) \/ FireDisconnect(d) PROVE Same
      BY Zenon, <2>5 DEF FireDisconnectCheck, FireDisconnect, sendVars, writeVars
    <2>6. ASSUME NEW d \in Ends, NEW t \in Senders(d),
                 AwaitAcked(d, t) \/ AwaitConnClosed(d, t) \/ AwaitCtxDone(d, t)
          PROVE  Same
      BY Zenon, <2>6 DEF AwaitAcked, AwaitConnClosed, AwaitCtxDone, AwaitAbandoned, writeVars, readVars
    <2> HIDE DEF Same
    <2> QED
      BY Zenon, <2>1, <2>2, <2>3, <2>4, <2>5, <2>6
  <1>1. SamePath
    BY Zenon, <1>0
  <1>2. \A e \in Ends : wpc'[e] = "write" => wpc[e] = "write"
    <2>1. SameWriter
      BY Zenon, <1>0
    <2>2. DOMAIN wpc = Ends
      BY Zenon DEF TypeOK
    <2> QED
      BY Zenon, <2>1, <2>2
  <1>3. ASSUME NEW e \in Ends, NEW t \in Threads(e), call'[e][t].pc = "enqueue"
        PROVE  call'[e][t] = call[e][t]
    <2>1. SameCalls
      BY Zenon, <1>0
    <2>2. ASSUME NEW d \in Ends, NEW u \in Senders(d), call' = [call EXCEPT ![d][u] = Idle]
          PROVE  call'[e][t] = call[e][t]
      <3>1. t \in HostSenders \cup AgentSenders \cup {ReadLoop}
        BY Zenon, ThreadType
      <3>2. call \in [Ends -> [HostSenders \cup AgentSenders \cup {ReadLoop} -> Calls]]
        BY Zenon DEF TypeOK
      <3>3. Idle.pc # "enqueue"
        BY Zenon DEF Idle
      <3> QED
        BY Zenon, <1>3, <2>2, <3>1, <3>2, <3>3
    <2> QED
      BY Zenon, <2>1, <2>2
  <1>4. \A e \in Ends : PathUnchanged(e)
    BY Zenon, <1>1, <1>2, <1>3 DEF PathUnchanged
  <1>5. \A e \in Ends : InOrder(e)' /\ HolderNewest(e)'
    BY Zenon, <1>4, PathFrame DEF OrderInv
  <1> QED
    BY Zenon, <1>1, <1>5 DEF OrderInv

\* The ack that the read loop sends takes a new number like any other send.
LEMMA SendAckOrder ==
  ASSUME TypeOK, OrderInv, NEW d \in Ends, SendAck(d)
  PROVE  OrderInv' /\ dropped' = dropped
  <1>1. CASE BeginSend(d, ReadLoop, "ack", FALSE, inbox[d].seq, FALSE)
    <2>1. ReadLoop \in Threads(d)
      BY Zenon DEF Threads
    <2>2. OrderInv'
      BY Zenon, <1>1, <2>1, BeginSendOrder
    <2>3. dropped' = dropped
      BY Zenon, <1>1 DEF BeginSend
    <2> QED
      BY Zenon, <2>2, <2>3
  <1>2. CASE ~BeginSend(d, ReadLoop, "ack", FALSE, inbox[d].seq, FALSE)
    <2>1. /\ outbox' = outbox /\ wire' = wire /\ hand' = hand /\ nextSeq' = nextSeq
          /\ lastSeen' = lastSeen /\ dropped' = dropped /\ wpc' = wpc /\ call' = call
      BY Zenon, <1>2 DEF SendAck, sendVars, writeVars
    <2>2. \A e \in Ends : PathUnchanged(e)
      BY Zenon, <2>1 DEF PathUnchanged
    <2>3. \A e \in Ends : InOrder(e)' /\ HolderNewest(e)'
      BY Zenon, <2>2, PathFrame DEF OrderInv
    <2> QED
      BY Zenon, <2>1, <2>3 DEF OrderInv
  <1> QED
    BY Zenon, <1>1, <1>2

\* Every step of a sending goroutine keeps the order of sequence numbers.
LEMMA SenderOrder ==
  ASSUME TypeOK, OrderInv, NEW d \in Ends, SenderStep(d)
  PROVE  OrderInv' /\ dropped' = dropped
  <1>1. CASE \E t \in Senders(d) : SendWithNewSeq(d, t) \/ SendAndAwaitAck(d, t)
    <2>1. PICK t \in Senders(d) : SendWithNewSeq(d, t) \/ SendAndAwaitAck(d, t)
      BY Zenon, <1>1
    <2>2. t \in Threads(d)
      BY Zenon DEF Threads
    <2>3. \E kind, wantAck, await : BeginSend(d, t, kind, wantAck, 0, await)
      BY Zenon, <2>1 DEF SendWithNewSeq, SendAndAwaitAck
    <2>4. PICK kind, wantAck, await : BeginSend(d, t, kind, wantAck, 0, await)
      BY Zenon, <2>3
    <2>5. OrderInv'
      BY Zenon, <2>2, <2>4, BeginSendOrder
    <2>6. dropped' = dropped
      BY Zenon, <2>4 DEF BeginSend
    <2> QED
      BY Zenon, <2>5, <2>6
  <1>2. CASE \E t \in Threads(d) : Enqueue(d, t)
    <2>1. PICK t \in Threads(d) : Enqueue(d, t)
      BY Zenon, <1>2
    <2>2. OrderInv'
      BY Zenon, <2>1, EnqueueOrder
    <2>3. dropped' = dropped
      BY Zenon, <2>1 DEF Enqueue, readVars
    <2> QED
      BY Zenon, <2>2, <2>3
  <1>3. CASE \E t \in Senders(d) :
               AwaitAcked(d, t) \/ AwaitConnClosed(d, t) \/ AwaitCtxDone(d, t)
    BY Zenon, <1>3, OtherOrder
  <1> QED
    BY Zenon, <1>1, <1>2, <1>3 DEF SenderStep

\* Every step of the connection keeps the order of sequence numbers and drops no frame as a duplicate.
LEMMA NextOrder ==
  ASSUME TypeOK, OrderInv, [Next]_vars
  PROVE  OrderInv' /\ dropped' = dropped
  <1>1. ASSUME NEW d \in Ends, WriterStep(d)
        PROVE  OrderInv' /\ dropped' = dropped
    <2>1. OrderInv'
      BY Zenon, <1>1, WriterOrder
    <2>2. dropped' = dropped
      BY Zenon, <1>1 DEF WriterStep, WriterCheck, WriterDequeue, WriterDequeueEmpty, WriteFrame,
                         WriteFrameFails, readVars
    <2> QED
      BY Zenon, <2>1, <2>2
  <1>2. ASSUME NEW d \in Ends, ReaderStep(d)
        PROVE  OrderInv' /\ dropped' = dropped
    BY Zenon, <1>2, ReadFrameOrder, SendAckOrder, OtherOrder DEF ReaderStep
  <1>3. ASSUME NEW d \in Ends, Start(d) \/ CloseStep(d) \/ Die(d)
        PROVE  OrderInv' /\ dropped' = dropped
    BY Zenon, <1>3, OtherOrder
  <1>4. CASE UNCHANGED vars
    BY Zenon, <1>4, OtherOrder
  <1> QED
    BY Zenon, <1>1, <1>2, <1>3, <1>4, SenderOrder DEF Next

\* On a new connection there is no frame to be out of order.
LEMMA InitOrder == Init => OrderInv /\ NoFalseDuplicate
  <1> SUFFICES ASSUME Init PROVE OrderInv /\ NoFalseDuplicate
    OBVIOUS
  <1>1. ASSUME NEW e \in Ends PROVE InOrder(e) /\ HolderNewest(e)
    <2>1. /\ outbox[e] = <<>> /\ wire[e] = <<>> /\ wpc[e] = "new"
          /\ lastSeen[Peer(e)] = 0 /\ nextSeq[e] = 0
      BY Zenon, PeerType DEF Init, NewConn
    <2>2. \A t \in Threads(e) : call[e][t].pc = "idle"
      BY Zenon, ThreadType DEF Init, NewConn, Idle
    <2>3. SeqNos(<<>>) = {} /\ Increasing(<<>>)
      BY DEF SeqNos, Increasing
    <2>4. SeqNos(wire[e]) = {} /\ SeqNos(outbox[e]) = {}
      BY Zenon, <2>1, <2>3
    <2>5. InOrder(e)
      <3>1. Increasing(outbox[e]) /\ Increasing(wire[e])
        BY Zenon, <2>1, <2>3
      <3>2. wpc[e] # "write" /\ lastSeen[Peer(e)] <= nextSeq[e]
        BY <2>1
      <3> QED
        BY Zenon, <2>4, <3>1, <3>2 DEF InOrder
    <2>6. HolderNewest(e)
      BY Zenon, <2>2 DEF HolderNewest
    <2> QED
      BY Zenon, <2>5, <2>6
  <1>2. NoFalseDuplicate
    BY Zenon DEF Init, NewConn, NoFalseDuplicate
  <1> QED
    BY Zenon, <1>1, <1>2 DEF OrderInv

\* The numbers on the path of a frame always grow from the receiver's watermark
\* to the sender's counter (the sendMu of SendWithNewSeq and SendAndAwaitAck).
THEOREM OrderHolds == Spec => []OrderInv
  <1>1. TypeOK /\ OrderInv /\ [Next]_vars => OrderInv'
    BY Zenon, NextOrder
  <1> QED
    BY InitOrder, TypeCorrect, <1>1, PTL DEF Spec

\* For any number of sending goroutines, any capacities and any crash or close,
\* DedupTracker.Seen never drops a frame that was not seen before.
THEOREM NeverFalseDuplicate == Spec => []NoFalseDuplicate
  <1>1. TypeOK /\ OrderInv /\ NoFalseDuplicate /\ [Next]_vars => NoFalseDuplicate'
    BY Zenon, NextOrder DEF NoFalseDuplicate
  <1> QED
    BY InitOrder, TypeCorrect, OrderHolds, <1>1, PTL DEF Spec

-----------------------------------------------------------------------------
(* The disconnect callback.                                                *)

\* A socket closed on this side of a living process was closed by Close, which
\* sets closed first; readLoop's way to the callback therefore means that the
\* remote side had gone.
LinkInv ==
  \A e \in Ends :
    /\ alive[e] /\ ~rwcOpen[e] => closed[e]
    /\ cpc[e] # "no" => closed[e]
    /\ rpc[e] = "exiting" => peerGone[e] \/ closed[e]
    /\ rpc[e] = "callback" => peerGone[e]
    /\ fired[e] => peerGone[e] /\ rpc[e] = "exited"

\* Every step of readLoop keeps what its exit knows about the remote side.
LEMMA ReaderLink ==
  ASSUME TypeOK, LinkInv, NEW d \in Ends, ReaderStep(d)
  PROVE  LinkInv'
  <1> USE DEF TypeOK, LinkInv
  <1>1. CASE ReadFrame(d)
    <2>1. /\ UNCHANGED <<ctlVars, fireVars>>
          /\ rpc' = rpc \/ rpc' = [rpc EXCEPT ![d] = "handle"]
          /\ rpc[d] = "read"
      BY Zenon, <1>1 DEF ReadFrame, Reading
    <2> QED
      BY <2>1 DEF ctlVars, fireVars
  <1>2. CASE HandlerReturns(d)
    BY <1>2 DEF HandlerReturns, ctlVars, fireVars
  <1>3. CASE SendAck(d)
    <2>1. /\ UNCHANGED <<ctlVars, fireVars>>
          /\ rpc' = [rpc EXCEPT ![d] = "read"]
          /\ rpc[d] = "ack"
      BY Zenon, <1>3 DEF SendAck, BeginSend
    <2> QED
      BY <2>1 DEF ctlVars, fireVars
  <1>4. CASE ReadError(d)
    BY <1>4 DEF ReadError, Reading, ctlVars
  <1>5. CASE FireDisconnectCheck(d)
    BY <1>5 DEF FireDisconnectCheck, ctlVars, fireVars
  <1>6. CASE FireDisconnect(d)
    BY <1>6 DEF FireDisconnect
  <1> QED
    BY Zenon, <1>1, <1>2, <1>3, <1>4, <1>5, <1>6 DEF ReaderStep

\* Start, every statement of Close and the death of a process keep it too.
LEMMA CloseLink ==
  ASSUME TypeOK, LinkInv, NEW d \in Ends, Start(d) \/ CloseStep(d) \/ Die(d)
  PROVE  LinkInv'
  <1> USE DEF TypeOK, LinkInv
  <1>1. CASE Start(d)
    BY <1>1 DEF Start, ctlVars, fireVars
  <1>2. CASE CloseStep(d)
    <2>1. rpc' = rpc /\ peerGone' = peerGone /\ fired' = fired
      BY Zenon, <1>2 DEF CloseStep, readVars, fireVars
    <2>2. CASE CloseSetClosed(d)
      BY Zenon, <2>1, <2>2 DEF CloseSetClosed
    <2>3. CASE CloseCancel(d)
      BY <2>1, <2>3 DEF CloseCancel
    <2>4. CASE CloseRWC(d)
      BY <2>1, <2>4 DEF CloseRWC
    <2>5. CASE CloseOutbox(d)
      BY <2>1, <2>5 DEF CloseOutbox
    <2>6. CASE CloseWait(d)
      BY <2>1, <2>6 DEF CloseWait
    <2>7. CASE CloseSpiller(d)
      BY <2>1, <2>7 DEF CloseSpiller
    <2> QED
      BY Zenon, <1>2, <2>2, <2>3, <2>4, <2>5, <2>6, <2>7 DEF CloseStep
  <1>3. CASE Die(d)
    BY Zenon, <1>3 DEF Die, readVars, fireVars
  <1> QED
    BY Zenon, <1>1, <1>2, <1>3

\* Sending and writing touch neither readLoop's exit nor the socket.
LEMMA SendLink ==
  ASSUME TypeOK, LinkInv,
         UNCHANGED vars \/ \E d \in Ends : SenderStep(d) \/ WriterStep(d)
  PROVE  LinkInv'
  <1> DEFINE Same == UNCHANGED <<ctlVars, rpc, fireVars>>
  <1>1. CASE UNCHANGED vars
    BY Zenon, <1>1 DEF vars, readVars, ctlVars, fireVars, LinkInv
  <1>2. ASSUME NEW d \in Ends, SenderStep(d)
        PROVE  Same
    BY Zenon, <1>2 DEF SenderStep, SendWithNewSeq, SendAndAwaitAck, BeginSend, Enqueue, AwaitAcked,
                AwaitConnClosed, AwaitCtxDone, AwaitAbandoned, readVars
  <1>3. ASSUME NEW d \in Ends, WriterStep(d)
        PROVE  Same
    BY Zenon, <1>3 DEF WriterStep, WriterCheck, WriterDequeue, WriterDequeueEmpty, WriteFrame,
                WriteFrameFails, readVars
  <1>4. Same => LinkInv'
    BY Zenon DEF ctlVars, fireVars, LinkInv
  <1> QED
    BY Zenon, <1>1, <1>2, <1>3, <1>4

\* The disconnect callback runs only for a connection the remote side ended,
\* whenever Close, the error and the check of closed in fireDisconnect fall.
THEOREM DisconnectTold == Spec => []DisconnectIsRemote
  <1>1. Init => LinkInv
    BY Zenon DEF Init, NewConn, LinkInv
  <1>2. TypeOK /\ LinkInv /\ [Next]_vars => LinkInv'
    BY Zenon, ReaderLink, CloseLink, SendLink DEF Next
  <1>3. LinkInv => DisconnectIsRemote
    BY Zenon DEF LinkInv, DisconnectIsRemote
  <1> QED
    BY TypeCorrect, <1>1, <1>2, <1>3, PTL DEF Spec

-----------------------------------------------------------------------------
(* Acks.                                                                   *)

\* The frames end e may send: an ack among them answers a frame its handler has
\* finished with.
TrueFrames(e) == {f \in Frames : f.kind = "ack" => f.acked \in handled[e]}

\* Every ack on its way from e is true, and so is the one readLoop is about to send.
AcksTrue(e) ==
  /\ outbox[e] \in Seq(TrueFrames(e))
  /\ wire[e] \in Seq(TrueFrames(e))
  /\ hand[e] \in TrueFrames(e)
  /\ \A t \in Threads(e) : call[e][t].frame \in TrueFrames(e)
  /\ rpc[e] = "ack" => inbox[e].seq \in handled[e]

\* Calls in progress have numbers of their own, a waiter whose entry is gone
\* although it did not remove it was woken by a true ack, and no entry is left
\* without its call.
WaitersKnown(e) ==
  /\ \A t \in Threads(e) : call[e][t].pc = "await" => call[e][t].await
  /\ \A t \in Threads(e) : call[e][t].pc # "idle" => call[e][t].frame.seq <= nextSeq[e]
  /\ \A t, u \in Threads(e) :
       /\ call[e][t].pc # "idle" /\ call[e][u].pc # "idle"
       /\ call[e][t].frame.seq = call[e][u].frame.seq
       => t = u
  /\ \A t \in Threads(e) :
       /\ call[e][t].pc # "idle" /\ call[e][t].await
       /\ call[e][t].frame.seq \notin pending[e]
       => call[e][t].frame.seq \in handled[Peer(e)]
  /\ \A n \in pending[e] :
       \E t \in Senders(e) :
         call[e][t].pc # "idle" /\ call[e][t].await /\ call[e][t].frame.seq = n
  /\ confirmed[e] \subseteq handled[Peer(e)]

AckInv == \A e \in Ends : AcksTrue(e) /\ WaitersKnown(e)

\* A queue of frames that may be sent stays one when the handler finishes more.
LEMMA TrueFramesGrow ==
  ASSUME NEW e \in Ends, handled[e] \subseteq handled'[e]
  PROVE  /\ TrueFrames(e) \subseteq TrueFrames(e)'
         /\ \A s \in Seq(TrueFrames(e)) : s \in Seq(TrueFrames(e)')
  <1>1. TrueFrames(e) \subseteq TrueFrames(e)'
    BY Zenon DEF TrueFrames
  <1>2. ASSUME NEW S, NEW T, S \subseteq T, NEW s \in Seq(S)
        PROVE  s \in Seq(T)
    BY <1>2
  <1> QED
    BY Zenon, <1>1, <1>2

\* Taking the head off a queue leaves head and rest in the queue's set.
LEMMA HeadTailIn ==
  ASSUME NEW S, NEW s \in Seq(S), s # <<>>
  PROVE  Head(s) \in S /\ Tail(s) \in Seq(S)
  OBVIOUS

\* Adding an element of the set at the end keeps a queue in the set.
LEMMA AppendIn ==
  ASSUME NEW S, NEW s \in Seq(S), NEW x \in S
  PROVE  Append(s, x) \in Seq(S)
  OBVIOUS

\* A step that leaves e's frames alone keeps its acks true.
LEMMA AcksSame ==
  ASSUME NEW e \in Ends, AcksTrue(e), handled[e] \subseteq handled'[e],
         outbox'[e] = outbox[e], wire'[e] = wire[e], hand'[e] = hand[e],
         \A t \in Threads(e) : call'[e][t] = call[e][t],
         rpc'[e] = "ack" => inbox'[e].seq \in handled'[e]
  PROVE  AcksTrue(e)'
  BY Zenon, TrueFramesGrow DEF AcksTrue

\* A step that leaves e's calls and their entries alone keeps its waiters known.
LEMMA WaitersSame ==
  ASSUME NEW e \in Ends, WaitersKnown(e), handled[Peer(e)] \subseteq handled'[Peer(e)],
         \A t \in Threads(e) : call'[e][t] = call[e][t],
         nextSeq'[e] = nextSeq[e], pending'[e] = pending[e], confirmed'[e] = confirmed[e]
  PROVE  WaitersKnown(e)'
  <1>1. Senders(e) \subseteq Threads(e)
    BY Zenon DEF Threads
  <1> QED
    BY SMTT(30), Z3T(30), <1>1 DEF WaitersKnown

\* A call that ends takes its own entry with it and no other.
LEMMA WaiterLeaves ==
  ASSUME TypeOK, NEW e \in Ends, WaitersKnown(e), NEW t \in Threads(e),
         call[e][t].pc # "idle", call'[e][t] = Idle,
         \A u \in Threads(e) : u # t => call'[e][u] = call[e][u],
         nextSeq'[e] = nextSeq[e], handled' = handled,
         \/ pending'[e] = pending[e] \ {call[e][t].frame.seq}
         \/ pending'[e] = pending[e] /\ ~call[e][t].await,
         confirmed'[e] \subseteq handled[Peer(e)]
  PROVE  WaitersKnown(e)'
  <1>0. Senders(e) \subseteq Threads(e) /\ Idle.pc = "idle"
    BY Zenon DEF Threads, Idle
  <1>1. \A u \in Threads(e) : call'[e][u].pc # "idle" => u # t /\ call'[e][u] = call[e][u]
    BY Zenon, <1>0
  <1>2. \A u \in Threads(e) : call'[e][u].pc # "idle" => call'[e][u].frame.seq <= nextSeq'[e]
    BY Zenon, <1>1 DEF WaitersKnown
  <1>6. \A u \in Threads(e) : call'[e][u].pc = "await" => call'[e][u].await
    BY Zenon, <1>1 DEF WaitersKnown
  <1>3. \A u, v \in Threads(e) :
          /\ call'[e][u].pc # "idle" /\ call'[e][v].pc # "idle"
          /\ call'[e][u].frame.seq = call'[e][v].frame.seq
          => u = v
    BY <1>1 DEF WaitersKnown
  <1>4. ASSUME NEW u \in Threads(e), call'[e][u].pc # "idle", call'[e][u].await,
               call'[e][u].frame.seq \notin pending'[e]
        PROVE  call'[e][u].frame.seq \in handled'[Peer(e)]
    <2>1. call'[e][u] = call[e][u] /\ u # t
      BY Zenon, <1>1, <1>4
    <2>2. call[e][u].frame.seq # call[e][t].frame.seq
      BY Zenon, <1>4, <2>1 DEF WaitersKnown
    <2>3. call[e][u].frame.seq \notin pending[e]
      BY Zenon, <1>4, <2>1, <2>2
    <2> QED
      BY Zenon, <1>4, <2>1, <2>3 DEF WaitersKnown
  <1>5. ASSUME NEW n \in pending'[e]
        PROVE  \E u \in Senders(e) :
                 call'[e][u].pc # "idle" /\ call'[e][u].await /\ call'[e][u].frame.seq = n
    <2>1. PICK u \in Senders(e) :
            call[e][u].pc # "idle" /\ call[e][u].await /\ call[e][u].frame.seq = n
      BY Zenon, <1>5 DEF WaitersKnown
    <2>2. u # t
      BY Zenon, <1>5, <2>1
    <2> QED
      BY Zenon, <1>0, <2>1, <2>2
  <1> QED
    BY Zenon, <1>2, <1>3, <1>4, <1>5, <1>6 DEF WaitersKnown

\* BeginSend, whoever calls it: the number is new, the entry belongs to the call,
\* and an ack is only ever numbered for a frame that has been handled.
LEMMA BeginSendAcks ==
  ASSUME TypeOK, AckInv, NEW d \in Ends, NEW t \in Threads(d),
         NEW kind \in {"data", "oversize", "ack"}, NEW wantAck \in BOOLEAN,
         NEW ackedSeq \in Nat, NEW await \in BOOLEAN,
         BeginSend(d, t, kind, wantAck, ackedSeq, await),
         kind = "ack" => ackedSeq \in handled[d],
         await => t \in Senders(d),
         rpc' = rpc \/ rpc' = [rpc EXCEPT ![d] = "read"]
  PROVE  AckInv'
  <1> SUFFICES ASSUME NEW e \in Ends PROVE AcksTrue(e)' /\ WaitersKnown(e)'
    BY Zenon DEF AckInv
  <1> DEFINE c == [pc |-> "enqueue", await |-> await,
                   frame |-> [seq |-> nextSeq[d] + 1, kind |-> kind,
                              wantAck |-> wantAck, acked |-> ackedSeq]]
  <1>0. AcksTrue(e) /\ WaitersKnown(e)
    BY Zenon DEF AckInv
  <1>1. /\ outbox' = outbox /\ wire' = wire /\ hand' = hand /\ handled' = handled
        /\ inbox' = inbox /\ confirmed' = confirmed
    BY Zenon DEF BeginSend, writeVars
  <1>2. /\ call \in [Ends -> [HostSenders \cup AgentSenders \cup {ReadLoop} -> Calls]]
        /\ nextSeq \in [Ends -> Nat] /\ pending \in [Ends -> SUBSET Nat]
        /\ rpc \in [Ends -> {"new", "read", "handle", "ack", "exiting", "callback", "exited"}]
    BY Zenon DEF TypeOK
  <1>3. t \in HostSenders \cup AgentSenders \cup {ReadLoop}
    BY Zenon, ThreadType
  <1>4. call' = [call EXCEPT ![d][t] = c]
    BY Zenon DEF BeginSend
  <1>5. c.pc = "enqueue" /\ c.await = await /\ c.frame.seq = nextSeq[d] + 1 /\ c.frame.kind = kind
        /\ c.frame.acked = ackedSeq
    OBVIOUS
  <1>6. c.frame \in TrueFrames(d)
    BY <1>2 DEF TrueFrames, Frames
  <1> HIDE DEF c
  <1>7. call'[d][t] = c /\ \A u : u # t => call'[d][u] = call[d][u]
    BY <1>2, <1>3, <1>4
  <1>8. e # d => call'[e] = call[e]
    BY Zenon, <1>2, <1>4
  <1>9. /\ e # d => nextSeq'[e] = nextSeq[e] /\ pending'[e] = pending[e]
        /\ nextSeq'[d] = nextSeq[d] + 1
        /\ pending'[d] = IF await THEN pending[d] \cup {nextSeq[d] + 1} ELSE pending[d]
    BY Zenon, <1>2 DEF BeginSend
  <1>10. rpc'[e] = "ack" => rpc[e] = "ack"
    BY Zenon, <1>2
  <1>11. AcksTrue(e)'
    <2>1. \A u \in Threads(e) : call'[e][u].frame \in TrueFrames(e)
      BY Zenon, <1>0, <1>6, <1>7, <1>8 DEF AcksTrue
    <2>2. TrueFrames(e)' = TrueFrames(e)
      BY Zenon, <1>1 DEF TrueFrames
    <2> QED
      BY Zenon, <1>0, <1>1, <1>10, <2>1, <2>2 DEF AcksTrue
  <1>12. WaitersKnown(e)'
    <2>1. CASE e # d
      BY Zenon, <1>0, <1>1, <1>8, <1>9, <2>1, WaitersSame
    <2>2. CASE e = d
      <3>1. call[e][t].pc = "idle" /\ nextSeq[e] \in Nat
        BY Zenon, <1>2, <2>2 DEF BeginSend
      <3>2. \A u \in Threads(e) :
              call'[e][u].pc # "idle" =>
                \/ u = t /\ call'[e][u] = c
                \/ u # t /\ call'[e][u] = call[e][u] /\ call[e][u].pc # "idle"
        BY Zenon, <1>7, <2>2
      <3>3. \A u \in Threads(e) : call[e][u].frame.seq \in Nat
        BY <1>2, ThreadType DEF Calls, Frames
      <3>4. \A u \in Threads(e) : call[e][u].pc # "idle" => call[e][u].frame.seq < nextSeq[e] + 1
        BY <1>0, <3>1, <3>3 DEF WaitersKnown
      <3>5. \A u \in Threads(e) : call'[e][u].pc # "idle" => call'[e][u].frame.seq <= nextSeq'[e]
        BY <1>5, <1>9, <2>2, <3>1, <3>2, <3>3, <3>4
      <3>6. \A u, v \in Threads(e) :
              /\ call'[e][u].pc # "idle" /\ call'[e][v].pc # "idle"
              /\ call'[e][u].frame.seq = call'[e][v].frame.seq
              => u = v
        BY <1>0, <1>5, <2>2, <3>1, <3>2, <3>3, <3>4 DEF WaitersKnown
      <3>7. \A u \in Threads(e) :
              /\ call'[e][u].pc # "idle" /\ call'[e][u].await
              /\ call'[e][u].frame.seq \notin pending'[e]
              => call'[e][u].frame.seq \in handled'[Peer(e)]
        BY SMTT(30), Z3T(30), <1>0, <1>1, <1>5, <1>9, <2>2, <3>2 DEF WaitersKnown
      <3>8. \A n \in pending'[e] :
              \E u \in Senders(e) :
                call'[e][u].pc # "idle" /\ call'[e][u].await /\ call'[e][u].frame.seq = n
        BY SMTT(30), Z3T(30), <1>0, <1>5, <1>7, <1>9, <2>2, <3>1 DEF WaitersKnown
      <3>9. \A u \in Threads(e) : call'[e][u].pc = "await" => call'[e][u].await
        BY Zenon, <1>0, <1>5, <3>2 DEF WaitersKnown
      <3> QED
        BY Zenon, <1>0, <1>1, <3>5, <3>6, <3>7, <3>8, <3>9 DEF WaitersKnown
    <2> QED
      BY Zenon, <2>1, <2>2
  <1> QED
    BY Zenon, <1>11, <1>12

\* Enqueue moves a call's frame to the outbox, or ends the call with its entry.
LEMMA EnqueueAcks ==
  ASSUME TypeOK, AckInv, NEW d \in Ends, NEW t \in Threads(d), Enqueue(d, t)
  PROVE  AckInv'
  <1> SUFFICES ASSUME NEW e \in Ends PROVE AcksTrue(e)' /\ WaitersKnown(e)'
    BY Zenon DEF AckInv
  <1>0. AcksTrue(e) /\ WaitersKnown(e)
    BY Zenon DEF AckInv
  <1>1. /\ wire' = wire /\ hand' = hand /\ handled' = handled /\ rpc' = rpc
        /\ inbox' = inbox /\ confirmed' = confirmed /\ nextSeq' = nextSeq
    BY Zenon DEF Enqueue, writeVars, readVars
  <1>2. /\ call \in [Ends -> [HostSenders \cup AgentSenders \cup {ReadLoop} -> Calls]]
        /\ outbox \in [Ends -> Seq(Frames)] /\ pending \in [Ends -> SUBSET Nat]
    BY Zenon DEF TypeOK
  <1>3. t \in HostSenders \cup AgentSenders \cup {ReadLoop}
    BY Zenon, ThreadType
  <1>4. PICK ok \in BOOLEAN : Returned(d, t, ok)
    BY Zenon DEF Enqueue
  <1> DEFINE c == IF ok /\ call[d][t].await THEN [call[d][t] EXCEPT !.pc = "await"] ELSE Idle
  <1>5. call' = [call EXCEPT ![d][t] = c]
    BY Zenon, <1>2, <1>3, <1>4 DEF Returned
  <1>6. call[d][t] \in Calls /\ call[d][t].pc = "enqueue"
    BY Zenon, <1>2, <1>3 DEF Enqueue
  <1>7. IF ok /\ call[d][t].await
        THEN c.pc = "await" /\ c.await = call[d][t].await /\ c.frame = call[d][t].frame
        ELSE c = Idle
    BY Zenon, <1>6 DEF Calls
  <1> HIDE DEF c
  <1>8. call'[d][t] = c /\ \A u : u # t => call'[d][u] = call[d][u]
    BY <1>2, <1>3, <1>5
  <1>9. e # d => call'[e] = call[e]
    BY Zenon, <1>2, <1>5
  <1>10. /\ e # d => pending'[e] = pending[e]
         /\ pending'[d] = IF ~ok /\ call[d][t].await THEN pending[d] \ {call[d][t].frame.seq}
                          ELSE pending[d]
    BY Zenon, <1>2, <1>4 DEF Returned
  <1>11. AcksTrue(e)'
    <2>1. TrueFrames(e)' = TrueFrames(e)
      BY Zenon, <1>1 DEF TrueFrames
    <2>2. Idle.frame \in TrueFrames(e)
      BY Zenon DEF Idle, NoFrame, TrueFrames, Frames
    <2>3. \A u \in Threads(e) : call'[e][u].frame \in TrueFrames(e)
      BY Zenon, <1>0, <1>7, <1>8, <1>9, <2>2 DEF AcksTrue
    <2>4. \/ outbox'[e] = outbox[e]
          \/ e = d /\ outbox'[e] = Append(outbox[e], call[e][t].frame)
      BY Zenon, <1>2 DEF Enqueue
    <2>5. outbox'[e] \in Seq(TrueFrames(e))
      BY <1>0, <2>4 DEF AcksTrue
    <2> QED
      BY Zenon, <1>0, <1>1, <2>1, <2>3, <2>5 DEF AcksTrue
  <1>12. WaitersKnown(e)'
    <2>1. CASE e # d
      BY Zenon, <1>0, <1>1, <1>9, <1>10, <2>1, WaitersSame
    <2>2. CASE e = d /\ c = Idle
      <3>1. ~(ok /\ call[d][t].await)
        BY Zenon, <1>7, <2>2 DEF Idle
      <3>2. \/ pending'[e] = pending[e] \ {call[e][t].frame.seq}
            \/ pending'[e] = pending[e] /\ ~call[e][t].await
        BY Zenon, <1>10, <2>2, <3>1
      <3>3. confirmed'[e] \subseteq handled[Peer(e)]
        BY Zenon, <1>0, <1>1 DEF WaitersKnown
      <3> QED
        BY Zenon, <1>0, <1>1, <1>6, <1>8, <2>2, <3>2, <3>3, WaiterLeaves
    <2>3. CASE e = d /\ c # Idle
      <3>1. /\ \A u \in Threads(e) :
                  call'[e][u].frame = call[e][u].frame /\ call'[e][u].await = call[e][u].await
                  /\ (call'[e][u].pc = "idle" <=> call[e][u].pc = "idle")
                  /\ (call'[e][u].pc = "await" => call[e][u].pc = "await" \/ call[e][u].await)
            /\ pending'[e] = pending[e]
        BY Zenon, <1>6, <1>7, <1>8, <1>10, <2>3
      <3>2. Senders(e) \subseteq Threads(e)
        BY Zenon DEF Threads
      <3> QED
        BY SMTT(30), Z3T(30), <1>0, <1>1, <3>1, <3>2 DEF WaitersKnown
    <2> QED
      BY Zenon, <2>1, <2>2, <2>3
  <1> QED
    BY Zenon, <1>11, <1>12

\* However SendAndAwaitAck's select ends, its entry is gone and a nil is true.
LEMMA AwaitAcks ==
  ASSUME TypeOK, AckInv, NEW d \in Ends, NEW t \in Senders(d),
         AwaitAcked(d, t) \/ AwaitConnClosed(d, t) \/ AwaitCtxDone(d, t)
  PROVE  AckInv'
  <1> SUFFICES ASSUME NEW e \in Ends PROVE AcksTrue(e)' /\ WaitersKnown(e)'
    BY Zenon DEF AckInv
  <1>0. AcksTrue(e) /\ WaitersKnown(e) /\ t \in Threads(d)
    BY Zenon, ThreadType DEF AckInv
  <1>1. /\ outbox' = outbox /\ wire' = wire /\ hand' = hand /\ handled' = handled
        /\ rpc' = rpc /\ inbox' = inbox /\ nextSeq' = nextSeq
        /\ call' = [call EXCEPT ![d][t] = Idle] /\ call[d][t].pc = "await"
    BY Zenon DEF AwaitAcked, AwaitConnClosed, AwaitCtxDone, AwaitAbandoned, writeVars, readVars
  <1>2. /\ call \in [Ends -> [HostSenders \cup AgentSenders \cup {ReadLoop} -> Calls]]
        /\ pending \in [Ends -> SUBSET Nat] /\ confirmed \in [Ends -> SUBSET Nat]
        /\ t \in HostSenders \cup AgentSenders \cup {ReadLoop}
    BY Zenon, <1>0, ThreadType DEF TypeOK
  <1>3. call'[d][t] = Idle /\ (\A u : u # t => call'[d][u] = call[d][u])
        /\ (e # d => call'[e] = call[e])
    BY <1>1, <1>2
  <1>4. \/ AwaitAcked(d, t)
        \/ /\ pending' = [pending EXCEPT ![d] = @ \ {call[d][t].frame.seq}]
           /\ confirmed' = confirmed
    BY Zenon DEF AwaitConnClosed, AwaitCtxDone, AwaitAbandoned
  <1>5. AcksTrue(e)'
    <2>1. TrueFrames(e)' = TrueFrames(e)
      BY Zenon, <1>1 DEF TrueFrames
    <2>2. Idle.frame \in TrueFrames(e)
      BY Zenon DEF Idle, NoFrame, TrueFrames, Frames
    <2>3. \A u \in Threads(e) : call'[e][u].frame \in TrueFrames(e)
      BY Zenon, <1>0, <1>3, <2>2 DEF AcksTrue
    <2> QED
      BY Zenon, <1>0, <1>1, <2>1, <2>3 DEF AcksTrue
  <1>6. CASE e # d
    <2>1. pending'[e] = pending[e] /\ confirmed'[e] = confirmed[e]
      BY Zenon, <1>2, <1>4, <1>6 DEF AwaitAcked
    <2>2. WaitersKnown(e)'
      BY Zenon, <1>0, <1>1, <1>3, <1>6, <2>1, WaitersSame
    <2> QED
      BY Zenon, <1>5, <2>2
  <1>7. CASE e = d
    <2>1. /\ pending'[e] = pending[e] \ {call[e][t].frame.seq}
          /\ confirmed'[e] \subseteq handled[Peer(e)]
      <3>1. CASE AwaitAcked(d, t)
        <4>1. call[e][t].frame.seq \in handled[Peer(e)] /\ call[e][t].frame.seq \notin pending[e]
          BY Zenon, <1>0, <1>7, <3>1 DEF AwaitAcked, WaitersKnown
        <4>2. pending'[e] = pending[e]
              /\ confirmed'[e] = confirmed[e] \cup {call[e][t].frame.seq}
          BY Zenon, <1>2, <1>7, <3>1 DEF AwaitAcked
        <4> QED
          BY Zenon, <1>0, <4>1, <4>2 DEF WaitersKnown
      <3>2. CASE ~AwaitAcked(d, t)
        <4>1. pending'[e] = pending[e] \ {call[e][t].frame.seq} /\ confirmed' = confirmed
          BY Zenon, <1>2, <1>4, <1>7, <3>2
        <4> QED
          BY Zenon, <1>0, <4>1 DEF WaitersKnown
      <3> QED
        BY Zenon, <3>1, <3>2
    <2>2. WaitersKnown(e)'
      BY Zenon, <1>0, <1>1, <1>3, <1>7, <2>1, WaiterLeaves
    <2> QED
      BY Zenon, <1>5, <2>2
  <1> QED
    BY Zenon, <1>6, <1>7

\* writeLoop passes frames on as they are.
LEMMA WriterAcks ==
  ASSUME TypeOK, AckInv, NEW d \in Ends, WriterStep(d)
  PROVE  AckInv'
  <1> SUFFICES ASSUME NEW e \in Ends PROVE AcksTrue(e)' /\ WaitersKnown(e)'
    BY Zenon DEF AckInv
  <1>0. AcksTrue(e) /\ WaitersKnown(e)
    BY Zenon DEF AckInv
  <1>1. /\ call' = call /\ nextSeq' = nextSeq /\ pending' = pending /\ confirmed' = confirmed
        /\ handled' = handled /\ rpc' = rpc /\ inbox' = inbox
    BY Zenon DEF WriterStep, WriterCheck, WriterDequeue, WriterDequeueEmpty, WriteFrame,
           WriteFrameFails, sendVars, readVars, ackVars
  <1>2. WaitersKnown(e)'
    BY Zenon, <1>0, <1>1, WaitersSame
  <1>3. /\ outbox'[e] \in Seq(TrueFrames(e)) /\ wire'[e] \in Seq(TrueFrames(e))
        /\ hand'[e] \in TrueFrames(e)
    <2>1. /\ outbox[e] \in Seq(TrueFrames(e)) /\ wire[e] \in Seq(TrueFrames(e))
          /\ hand[e] \in TrueFrames(e)
      BY Zenon, <1>0 DEF AcksTrue
    <2>2. CASE WriterDequeue(d)
      <3>1. \/ outbox'[e] = outbox[e] /\ hand'[e] = hand[e]
            \/ /\ outbox[e] # <<>> /\ outbox'[e] = Tail(outbox[e])
               /\ hand'[e] = Head(outbox[e])
        BY Zenon, <2>2 DEF WriterDequeue, TypeOK
      <3>2. wire' = wire
        BY Zenon, <2>2 DEF WriterDequeue
      <3> QED
        BY Zenon, <2>1, <3>1, <3>2, HeadTailIn
    <2>3. CASE WriteFrame(d)
      <3>1. wire'[e] = wire[e] \/ wire'[e] = Append(wire[e], hand[e])
        BY Zenon, <2>3 DEF WriteFrame, TypeOK
      <3>2. outbox' = outbox /\ hand' = hand
        BY Zenon, <2>3 DEF WriteFrame
      <3> QED
        BY Zenon, <2>1, <3>1, <3>2, AppendIn
    <2>4. CASE WriterCheck(d) \/ WriterDequeueEmpty(d) \/ WriteFrameFails(d)
      BY Zenon, <2>1, <2>4 DEF WriterCheck, WriterDequeueEmpty, WriteFrameFails
    <2> QED
      BY Zenon, <2>2, <2>3, <2>4 DEF WriterStep
  <1>4. TrueFrames(e)' = TrueFrames(e)
    BY Zenon, <1>1 DEF TrueFrames
  <1>5. AcksTrue(e)'
    BY Zenon, <1>0, <1>1, <1>3, <1>4 DEF AcksTrue
  <1> QED
    BY Zenon, <1>2, <1>5

\* deliverAck wakes a waiter only for work that is done, and the handler's end is
\* what an ack will stand for.
LEMMA ReaderAcks ==
  ASSUME TypeOK, AckInv, NEW d \in Ends, ReadFrame(d) \/ HandlerReturns(d)
  PROVE  AckInv'
  <1> SUFFICES ASSUME NEW e \in Ends PROVE AcksTrue(e)' /\ WaitersKnown(e)'
    BY Zenon DEF AckInv
  <1>0. AcksTrue(e) /\ WaitersKnown(e) /\ Peer(e) \in Ends /\ Peer(d) \in Ends
    BY Zenon, PeerType DEF AckInv
  <1>1. CASE HandlerReturns(d)
    <2>1. /\ call' = call /\ nextSeq' = nextSeq /\ pending' = pending /\ confirmed' = confirmed
          /\ outbox' = outbox /\ wire' = wire /\ hand' = hand /\ inbox' = inbox
      BY Zenon, <1>1 DEF HandlerReturns, sendVars, writeVars, ackVars
    <2>2. \A x \in Ends : handled[x] \subseteq handled'[x]
      BY Zenon, <1>1 DEF HandlerReturns, TypeOK
    <2>3. rpc'[e] = "ack" => inbox'[e].seq \in handled'[e]
      BY Zenon, <1>0, <1>1 DEF HandlerReturns, TypeOK, AcksTrue
    <2> QED
      BY Zenon, <1>0, <2>1, <2>2, <2>3, AcksSame, WaitersSame
  <1>2. CASE ReadFrame(d)
    <2> DEFINE f == Head(wire[Peer(d)])
    <2>1. /\ call' = call /\ nextSeq' = nextSeq /\ confirmed' = confirmed
          /\ outbox' = outbox /\ hand' = hand /\ handled' = handled
          /\ wire[Peer(d)] # <<>> /\ wire' = [wire EXCEPT ![Peer(d)] = Tail(@)]
      BY Zenon, <1>2 DEF ReadFrame, sendVars, writeVars
    <2>2. wire[Peer(d)] \in Seq(TrueFrames(Peer(d)))
      BY Zenon, <1>0 DEF AckInv, AcksTrue
    <2>3. f \in TrueFrames(Peer(d))
      BY <2>1, <2>2
    <2>4. wire'[e] = wire[e] \/ (e = Peer(d) /\ wire'[e] = Tail(wire[e]))
      BY Zenon, <2>1 DEF TypeOK
    <2>5. wire'[e] \in Seq(TrueFrames(e))
      BY <1>0, <2>1, <2>2, <2>4 DEF AcksTrue
    <2>6. rpc'[e] = "ack" => rpc[e] = "ack" /\ inbox'[e] = inbox[e]
      <3>1. \/ rpc' = rpc /\ inbox' = inbox
            \/ rpc' = [rpc EXCEPT ![d] = "handle"] /\ inbox' = [inbox EXCEPT ![d] = f]
        BY Zenon, <1>2 DEF ReadFrame
      <3> QED
        BY Zenon, <3>1 DEF TypeOK
    <2>7. TrueFrames(e)' = TrueFrames(e)
      BY Zenon, <2>1 DEF TrueFrames
    <2>8. AcksTrue(e)'
      BY Zenon, <1>0, <2>1, <2>5, <2>6, <2>7 DEF AcksTrue
    <2>9. \/ pending'[e] = pending[e]
          \/ /\ pending'[e] = pending[e] \ {f.acked}
             /\ f.acked \in handled[Peer(e)]
      <3>1. \/ pending' = pending
            \/ f.kind = "ack" /\ pending' = [pending EXCEPT ![d] = @ \ {f.acked}]
        BY Zenon, <1>2 DEF ReadFrame
      <3>2. f.kind = "ack" => f.acked \in handled[Peer(d)]
        BY Zenon, <2>3 DEF TrueFrames
      <3>3. pending \in [Ends -> SUBSET Nat]
        BY Zenon DEF TypeOK
      <3> HIDE DEF f
      <3> QED
        BY Zenon, <3>1, <3>2, <3>3
    <2>10. WaitersKnown(e)'
      <3> HIDE DEF f
      <3> QED
        BY Zenon, <1>0, <2>1, <2>9 DEF WaitersKnown
    <2> QED
      BY Zenon, <2>8, <2>10
  <1> QED
    BY Zenon, <1>1, <1>2

\* The steps that neither send, read nor handle a frame.
LEMMA OtherAcks ==
  ASSUME TypeOK, AckInv,
         \/ UNCHANGED vars
         \/ \E d \in Ends :
              \/ Start(d) \/ CloseStep(d) \/ Die(d)
              \/ ReadError(d) \/ FireDisconnectCheck(d) \/ FireDisconnect(d)
  PROVE  AckInv'
  <1> DEFINE
        Same == UNCHANGED <<outbox, wire, hand, call, handled, inbox, nextSeq, pending, confirmed>>
        NoNewAck == \A e \in Ends : rpc'[e] = "ack" => rpc[e] = "ack"
  <1>1. CASE UNCHANGED vars
    <2>1. Same /\ NoNewAck
      BY Zenon, <1>1 DEF vars, sendVars, writeVars, readVars, ackVars
    <2> QED
      BY Zenon, <2>1, AcksSame, WaitersSame DEF AckInv, AcksTrue
  <1>2. ASSUME NEW d \in Ends,
               \/ Start(d) \/ CloseStep(d) \/ Die(d)
               \/ ReadError(d) \/ FireDisconnectCheck(d) \/ FireDisconnect(d)
        PROVE  AckInv'
    <2>1. Same
      BY Zenon, <1>2 DEF Start, CloseStep, Die, ReadError, FireDisconnectCheck, FireDisconnect,
                         sendVars, writeVars, readVars, ackVars
    <2>2. rpc' = rpc \/ \E v \in {"read", "exiting", "exited", "callback"} :
                         rpc' = [rpc EXCEPT ![d] = v]
      BY Zenon, <1>2 DEF Start, CloseStep, Die, ReadError, FireDisconnectCheck, FireDisconnect, readVars
    <2>3. NoNewAck
      BY Zenon, <2>2 DEF TypeOK
    <2> QED
      BY Zenon, <2>1, <2>3, AcksSame, WaitersSame DEF AckInv, AcksTrue
  <1> QED
    BY Zenon, <1>1, <1>2

\* A connection NewConn just built has no ack and no waiter.
LEMMA InitAcks == Init => AckInv
  <1> SUFFICES ASSUME Init, NEW e \in Ends PROVE AcksTrue(e) /\ WaitersKnown(e)
    BY Zenon DEF AckInv
  <1>1. /\ outbox[e] = <<>> /\ wire[e] = <<>> /\ hand[e] = NoFrame /\ rpc[e] = "new"
        /\ pending[e] = {} /\ confirmed[e] = {} /\ \A t \in Threads(e) : call[e][t] = Idle
    BY Zenon, ThreadType DEF Init, NewConn
  <1>2. NoFrame \in TrueFrames(e) /\ Idle.frame = NoFrame /\ Idle.pc = "idle"
    BY Zenon DEF NoFrame, TrueFrames, Frames, Idle
  <1>3. AcksTrue(e)
    BY <1>1, <1>2 DEF AcksTrue
  <1>4. WaitersKnown(e)
    BY Zenon, <1>1, <1>2 DEF WaitersKnown
  <1> QED
    BY Zenon, <1>3, <1>4

\* Every step of both Conns keeps acks true and waiters known.
LEMMA NextAcks ==
  ASSUME TypeOK, AckInv, [Next]_vars
  PROVE  AckInv'
  <1>1. ASSUME NEW d \in Ends, NEW t \in Senders(d), SendWithNewSeq(d, t) \/ SendAndAwaitAck(d, t)
        PROVE  AckInv'
    <2>1. PICK kind \in {"data", "oversize"}, wantAck \in BOOLEAN, await \in BOOLEAN :
            BeginSend(d, t, kind, wantAck, 0, await)
      BY Zenon, <1>1 DEF SendWithNewSeq, SendAndAwaitAck
    <2>2. rpc' = rpc /\ t \in Threads(d)
      BY Zenon, <1>1, ThreadType DEF SendWithNewSeq, SendAndAwaitAck
    <2> QED
      BY Zenon, <1>1, <2>1, <2>2, BeginSendAcks
  <1>2. ASSUME NEW d \in Ends, SendAck(d)
        PROVE  AckInv'
    <2>1. CASE BeginSend(d, ReadLoop, "ack", FALSE, inbox[d].seq, FALSE)
      <3>1. inbox[d].seq \in Nat /\ inbox[d].seq \in handled[d] /\ ReadLoop \in Threads(d)
        BY Zenon, <1>2, ThreadType DEF AckInv, AcksTrue, SendAck, TypeOK, Frames
      <3>2. rpc' = [rpc EXCEPT ![d] = "read"]
        BY Zenon, <1>2 DEF SendAck
      <3> QED
        BY Zenon, <2>1, <3>1, <3>2, BeginSendAcks
    <2>2. CASE ~BeginSend(d, ReadLoop, "ack", FALSE, inbox[d].seq, FALSE)
      <3>1. UNCHANGED <<outbox, wire, hand, call, handled, inbox, nextSeq, pending, confirmed>>
        BY Zenon, <1>2, <2>2 DEF SendAck, sendVars, writeVars, ackVars
      <3>2. \A e \in Ends : rpc'[e] = "ack" => rpc[e] = "ack"
        BY Zenon, <1>2 DEF SendAck, TypeOK
      <3> QED
        BY Zenon, <3>1, <3>2, AcksSame, WaitersSame DEF AckInv, AcksTrue
    <2> QED
      BY Zenon, <2>1, <2>2
  <1>3. ASSUME NEW d \in Ends, SenderStep(d)
        PROVE  AckInv'
    BY Zenon, <1>1, <1>3, EnqueueAcks, AwaitAcks DEF SenderStep
  <1>4. ASSUME NEW d \in Ends, ReaderStep(d)
        PROVE  AckInv'
    BY Zenon, <1>2, <1>4, ReaderAcks, OtherAcks DEF ReaderStep
  <1> QED
    BY Zenon, <1>3, <1>4, WriterAcks, OtherAcks DEF Next

\* A nil from SendAndAwaitAck means that the peer's handler has finished with
\* that frame, and pendingAcks never keeps an entry whose call is over, whatever
\* becomes of the ack, the caller and the connection.
THEOREM AcksTold == Spec => []AcksAreSound
  <1>1. AckInv => AcksAreSound
    BY Zenon DEF AckInv, WaitersKnown, AcksAreSound, AckMeansHandled, NoStalePending
  <1>2. TypeOK /\ AckInv /\ [Next]_vars => AckInv'
    BY Zenon, NextAcks
  <1> QED
    BY InitAcks, TypeCorrect, <1>1, <1>2, PTL DEF Spec

-----------------------------------------------------------------------------
(* The delivery of accepted frames.                                       *)

\* The loops start together, Close joins writeLoop before it shuts the log.
WriterInv ==
  \A e \in Ends :
    /\ rpc[e] = "new" => wpc[e] = "new"
    /\ cpc[e] \in {"joined", "done"} => wpc[e] \in {"new", "exited"}
    /\ ~walOpen[e] => WALCap = 0 \/ cpc[e] = "done"

\* Accepted frames have numbers up to the counter, the one a goroutine holds
\* under sendMu is not among them yet, every frame on the path is, and the
\* watermark is the last number taken in.
PathInv(e) ==
  /\ nextSeq[e] <= MaxSeq
  /\ \A n \in accepted[e] : 0 < n /\ n <= nextSeq[e]
  /\ \A t \in Threads(e) : call[e][t].pc = "enqueue" => 0 < nextSeq[e] /\ nextSeq[e] \notin accepted[e]
  /\ SeqNos(outbox[e]) \subseteq accepted[e]
  /\ SeqNos(wire[e]) \subseteq accepted[e]
  /\ wpc[e] = "write" => hand[e].seq \in accepted[e]
  /\ received[e] # <<>> => received[e][Len(received[e])] = lastSeen[e]

\* Whatever is missing is the frame writeLoop still held when it gave up.
LostInv(e) ==
  \A n \in accepted[e] \ Located(e) :
    n = hand[e].seq /\ wpc[e] = "exited" /\ Len(wal[e]) = WALCap

DeliveryInv == \A e \in Ends : PathInv(e) /\ LostInv(e)

\* Start, writeLoop's steps and the statements of Close keep writeLoop's place
\* and the log's state in step.
LEMMA NextWriter ==
  ASSUME TypeOK, WriterInv, [Next]_vars
  PROVE  WriterInv'
  <1> USE DEF TypeOK, WriterInv
  <1>1. CASE UNCHANGED vars
    BY Zenon, <1>1 DEF vars, ctlVars, writeVars, readVars
  <1>2. ASSUME NEW d \in Ends, Start(d)
        PROVE  WriterInv'
    BY Zenon, <1>2 DEF Start, ctlVars
  <1>3. ASSUME NEW d \in Ends, SenderStep(d)
        PROVE  WriterInv'
    <2>1. UNCHANGED <<ctlVars, rpc, wpc>>
      BY Zenon, <1>3 DEF SenderStep, SendWithNewSeq, SendAndAwaitAck, BeginSend, Enqueue,
             AwaitAcked, AwaitConnClosed, AwaitCtxDone, AwaitAbandoned, writeVars, readVars
    <2> QED
      BY Zenon, <2>1 DEF ctlVars
  <1>4. ASSUME NEW d \in Ends, WriterStep(d)
        PROVE  WriterInv'
    <2>1. UNCHANGED <<ctlVars, rpc>> /\ wpc[d] \in {"check", "dequeue", "write"}
          /\ \E v \in {"check", "dequeue", "write", "exited"} : wpc' = [wpc EXCEPT ![d] = v]
      BY Zenon, <1>4 DEF WriterStep, WriterCheck, WriterDequeue, WriterDequeueEmpty, WriteFrame,
                  WriteFrameFails, readVars
    <2> QED
      BY Zenon, <2>1 DEF ctlVars
  <1>5. ASSUME NEW d \in Ends, ReaderStep(d)
        PROVE  WriterInv'
    <2>1. UNCHANGED <<cpc, walOpen, wpc>>
      BY Zenon, <1>5 DEF ReaderStep, ReadFrame, HandlerReturns, SendAck, BeginSend, ReadError,
             FireDisconnectCheck, FireDisconnect, ctlVars, writeVars
    <2>2. /\ rpc[d] # "new"
          /\ rpc' = rpc \/ \E v \in {"read", "handle", "ack", "exiting", "callback", "exited"} :
                             rpc' = [rpc EXCEPT ![d] = v]
      BY Zenon, <1>5 DEF ReaderStep, ReadFrame, Reading, HandlerReturns, SendAck, ReadError,
                  FireDisconnectCheck, FireDisconnect
    <2> QED
      BY Zenon, <2>1, <2>2
  <1>6. ASSUME NEW d \in Ends, CloseStep(d)
        PROVE  WriterInv'
    <2>1. rpc' = rpc /\ wpc' = wpc
      BY Zenon, <1>6 DEF CloseStep, readVars, writeVars
    <2>2. CASE CloseWait(d)
      BY Zenon, <2>1, <2>2 DEF CloseWait, LoopsJoined
    <2>3. CASE CloseSpiller(d)
      BY Zenon, <2>1, <2>3 DEF CloseSpiller
    <2>4. CASE CloseSetClosed(d) \/ CloseCancel(d) \/ CloseRWC(d) \/ CloseOutbox(d)
      BY <2>1, <2>4 DEF CloseSetClosed, CloseCancel, CloseRWC, CloseOutbox
    <2> QED
      BY Zenon, <1>6, <2>2, <2>3, <2>4 DEF CloseStep
  <1>7. ASSUME NEW d \in Ends, Die(d)
        PROVE  WriterInv'
    BY Zenon, <1>7 DEF Die, readVars, writeVars
  <1> QED
    BY Zenon, <1>1, <1>2, <1>3, <1>4, <1>5, <1>6, <1>7 DEF Next

\* The numbers of a queue are those of its first frame and of the rest.
LEMMA HeadTailSeqNos ==
  ASSUME NEW s \in Seq(Frames), s # <<>>
  PROVE  SeqNos(s) = SeqNos(Tail(s)) \cup {Head(s).seq}
  <1>1. Len(s) \in Nat \ {0} /\ DOMAIN s = 1..Len(s) /\ Head(s) = s[1]
    OBVIOUS
  <1>2. DOMAIN Tail(s) = 1..(Len(s) - 1)
    BY <1>1
  <1>3. \A i \in DOMAIN Tail(s) : i + 1 \in DOMAIN s /\ Tail(s)[i] = s[i + 1]
    BY <1>1, <1>2
  <1>4. \A i \in DOMAIN s : i = 1 \/ (i - 1 \in DOMAIN Tail(s) /\ Tail(s)[i - 1] = s[i])
    BY <1>1, <1>2, <1>3
  <1>5. 1 \in DOMAIN s
    BY <1>1
  <1>6. SeqNos(s) \subseteq SeqNos(Tail(s)) \cup {Head(s).seq}
    <2>1. SUFFICES ASSUME NEW i \in DOMAIN s
                   PROVE  s[i].seq = Head(s).seq \/ \E j \in DOMAIN Tail(s) : s[i].seq = Tail(s)[j].seq
      BY Zenon DEF SeqNos
    <2>2. CASE i = 1
      BY Zenon, <1>1, <2>2
    <2>3. CASE i - 1 \in DOMAIN Tail(s) /\ Tail(s)[i - 1] = s[i]
      BY Zenon, <2>3
    <2> QED
      BY Zenon, <1>4, <2>2, <2>3
  <1>7. SeqNos(Tail(s)) \cup {Head(s).seq} \subseteq SeqNos(s)
    BY <1>1, <1>3, <1>5 DEF SeqNos
  <1> QED
    BY Zenon, <1>6, <1>7

\* Nothing moves on the path of e's frames, nor into the hands of e.
Unmoved(e) ==
  /\ outbox'[e] = outbox[e] /\ wire'[e] = wire[e] /\ wal'[e] = wal[e] /\ hand'[e] = hand[e]
  /\ accepted'[e] = accepted[e] /\ nextSeq'[e] = nextSeq[e] /\ lastSeen'[e] = lastSeen[e]
  /\ received'[e] = received[e] /\ received'[Peer(e)] = received[Peer(e)]
  /\ \A t \in Threads(e) : call'[e][t].pc = "enqueue" => call[e][t].pc = "enqueue"
  /\ wpc'[e] = "write" <=> wpc[e] = "write"
  /\ wpc[e] = "exited" => wpc'[e] = "exited"

\* When nothing moves, nothing is lost.
LEMMA UnmovedDelivery ==
  ASSUME NEW e \in Ends, PathInv(e), LostInv(e), Unmoved(e)
  PROVE  PathInv(e)' /\ LostInv(e)'
  <1>1. Located(e)' = Located(e)
    BY Zenon DEF Unmoved, Located
  <1> QED
    BY Zenon, <1>1 DEF Unmoved, PathInv, LostInv

\* The counter moves on; the number it gave to the call is not accepted yet.
LEMMA BeginSendDelivery ==
  ASSUME TypeOK, DeliveryInv, NEW d \in Ends, NEW t \in Threads(d),
         NEW kind, NEW wantAck, NEW ackedSeq, NEW await,
         BeginSend(d, t, kind, wantAck, ackedSeq, await)
  PROVE  DeliveryInv' /\ UNCHANGED Channel!chanVars
  <1>1. /\ outbox' = outbox /\ wire' = wire /\ wal' = wal /\ hand' = hand /\ wpc' = wpc
        /\ accepted' = accepted /\ lastSeen' = lastSeen /\ received' = received
    BY Zenon DEF BeginSend, writeVars
  <1>2. UNCHANGED Channel!chanVars
    BY Zenon, <1>1 DEF Channel!chanVars
  <1>3. ASSUME NEW e \in Ends, e # d
        PROVE  PathInv(e)' /\ LostInv(e)'
    <2>1. call'[e] = call[e] /\ nextSeq'[e] = nextSeq[e]
      BY Zenon, <1>3 DEF BeginSend, TypeOK
    <2>2. Unmoved(e)
      BY Zenon, <1>1, <2>1 DEF Unmoved
    <2> QED
      BY Zenon, <2>2, UnmovedDelivery DEF DeliveryInv
  <1>4. PathInv(d)' /\ LostInv(d)'
    <2>1. PathInv(d) /\ LostInv(d) /\ nextSeq[d] \in Nat /\ accepted[d] \subseteq Nat /\ MaxSeq \in Nat
      BY Zenon, ConnAssumption DEF DeliveryInv, TypeOK
    <2>2. nextSeq'[d] = nextSeq[d] + 1 /\ nextSeq[d] < MaxSeq
      BY Zenon DEF BeginSend, TypeOK
    <2>3. LostInv(d)'
      <3>1. Located(d)' = Located(d)
        BY Zenon, <1>1 DEF Located
      <3> QED
        BY Zenon, <1>1, <2>1, <3>1 DEF LostInv
    <2>4. nextSeq'[d] <= MaxSeq /\ 0 < nextSeq'[d]
          /\ \A n \in accepted[d] : 0 < n /\ n <= nextSeq'[d] /\ n # nextSeq'[d]
      BY SMTT(30), Z3T(30), <2>1, <2>2 DEF PathInv
    <2>5. PathInv(d)'
      BY Zenon, <1>1, <2>1, <2>4 DEF PathInv
    <2> QED
      BY Zenon, <2>3, <2>5
  <1> QED
    BY Zenon, <1>2, <1>3, <1>4 DEF DeliveryInv

\* Enqueue accepts a frame exactly when it has put it into the outbox or the log,
\* which is an Accept of the channel; a refusal changes nothing there.
LEMMA EnqueueDelivery ==
  ASSUME TypeOK, OrderInv, DeliveryInv, NEW d \in Ends, NEW t \in Threads(d), Enqueue(d, t)
  PROVE  DeliveryInv' /\ [Channel!Next]_Channel!chanVars
  <1> DEFINE f == call[d][t].frame
  <1>0. PathInv(d) /\ LostInv(d) /\ HolderNewest(d)
    BY Zenon DEF DeliveryInv, OrderInv
  <1>1. /\ wire' = wire /\ hand' = hand /\ wpc' = wpc /\ nextSeq' = nextSeq
        /\ lastSeen' = lastSeen /\ received' = received
    BY Zenon DEF Enqueue, writeVars, readVars
  <1>2. /\ call \in [Ends -> [HostSenders \cup AgentSenders \cup {ReadLoop} -> Calls]]
        /\ outbox \in [Ends -> Seq(Frames)] /\ wal \in [Ends -> Seq(Frames)]
        /\ accepted \in [Ends -> SUBSET Nat] /\ nextSeq[d] \in Nat /\ MaxSeq \in Nat
        /\ t \in HostSenders \cup AgentSenders \cup {ReadLoop}
    BY Zenon, ConnAssumption, ThreadType DEF TypeOK
  <1>3. f \in Frames /\ f.seq = nextSeq[d] /\ 0 < nextSeq[d] /\ nextSeq[d] \notin accepted[d]
        /\ nextSeq[d] <= MaxSeq
    <2>1. call[d][t].pc = "enqueue" /\ call[d][t] \in Calls
      BY Zenon, <1>2 DEF Enqueue
    <2>2. f \in Frames
      BY Zenon, <2>1 DEF Calls
    <2>3. f.seq = nextSeq[d]
      BY Zenon, <1>0, <2>1 DEF HolderNewest
    <2> QED
      BY Zenon, <1>0, <2>1, <2>2, <2>3 DEF PathInv
  <1>4. /\ \A e \in Ends : e # d => call'[e] = call[e] /\ accepted'[e] = accepted[e]
        /\ \A e \in Ends : e # d => outbox'[e] = outbox[e] /\ wal'[e] = wal[e]
    BY Zenon, <1>2 DEF Enqueue, Returned
  <1>5. \A u \in Threads(d) : call'[d][u].pc # "enqueue"
    <2>1. PICK ok \in BOOLEAN : Returned(d, t, ok)
      BY Zenon DEF Enqueue
    <2>2. call[d][t] \in Calls
      BY Zenon, <1>2
    <2>3. call'[d][t].pc # "enqueue"
      BY Zenon, <1>2, <2>1, <2>2 DEF Returned, Calls, Idle
    <2>4. \A u : u # t => call'[d][u] = call[d][u]
      BY <1>2, <2>1 DEF Returned
    <2> QED
      BY Zenon, <1>0, <2>3, <2>4 DEF Enqueue, HolderNewest
  <1>6. ASSUME NEW e \in Ends, e # d
        PROVE  PathInv(e)' /\ LostInv(e)'
    <2>1. Unmoved(e)
      BY Zenon, <1>1, <1>4, <1>6 DEF Unmoved
    <2> QED
      BY Zenon, <2>1, UnmovedDelivery DEF DeliveryInv
  <1>7. CASE Returned(d, t, FALSE) /\ outbox' = outbox /\ wal' = wal
    <2>1. accepted' = accepted
      BY Zenon, <1>2, <1>7 DEF Returned
    <2>2. Unmoved(d)
      BY Zenon, <1>1, <1>5, <1>7, <2>1 DEF Unmoved
    <2>3. PathInv(d)' /\ LostInv(d)'
      BY Zenon, <1>0, <2>2, UnmovedDelivery
    <2>4. UNCHANGED Channel!chanVars
      BY Zenon, <1>1, <2>1 DEF Channel!chanVars
    <2> QED
      BY Zenon, <1>6, <2>3, <2>4 DEF DeliveryInv
  <1>8. CASE /\ Returned(d, t, TRUE)
             /\ \/ outbox' = [outbox EXCEPT ![d] = Append(@, f)] /\ wal' = wal
                \/ wal' = [wal EXCEPT ![d] = Append(@, f)] /\ outbox' = outbox /\ WALHasRoom(d)
    <2>1. accepted' = [accepted EXCEPT ![d] = @ \cup {f.seq}]
      BY Zenon, <1>8 DEF Returned
    <2>2. accepted'[d] = accepted[d] \cup {nextSeq[d]}
      BY Zenon, <1>2, <1>3, <2>1
    <2>3. \/ /\ SeqNos(outbox'[d]) = SeqNos(outbox[d]) \cup {f.seq}
             /\ wal'[d] = wal[d]
          \/ /\ outbox'[d] = outbox[d]
             /\ SeqNos(wal'[d]) = SeqNos(wal[d]) \cup {f.seq} /\ Len(wal[d]) < WALCap
      <3>1. SeqNos(Append(outbox[d], f)) = SeqNos(outbox[d]) \cup {f.seq}
        BY Zenon, <1>2, <1>3, AppendSeqNos
      <3>2. SeqNos(Append(wal[d], f)) = SeqNos(wal[d]) \cup {f.seq}
        BY Zenon, <1>2, <1>3, AppendSeqNos
      <3> HIDE DEF f
      <3> QED
        BY Zenon, <1>2, <1>8, <3>1, <3>2 DEF WALHasRoom
    <2>4. PathInv(d)'
      BY SMTT(30), Z3T(30), <1>0, <1>1, <1>2, <1>3, <1>5, <2>2, <2>3 DEF PathInv
    <2>5. Located(d)' = Located(d) \cup {f.seq}
      BY Zenon, <1>1, <2>3 DEF Located
    <2>6. LostInv(d)'
      <3>1. accepted'[d] \ Located(d)' \subseteq accepted[d] \ Located(d)
        BY Zenon, <1>3, <2>2, <2>5
      <3>2. Len(wal[d]) \in Nat /\ WALCap \in Nat
        BY <1>2, ConnAssumption
      <3>3. Len(wal[d]) < WALCap => accepted[d] \ Located(d) = {}
        BY SMTT(30), Z3T(30), <1>0, <3>2 DEF LostInv
      <3> QED
        BY Zenon, <1>0, <1>1, <2>3, <3>1, <3>3 DEF LostInv
    <2>7. Channel!Accept(d, nextSeq[d])
      <3>1. \A m \in accepted[d] : m < nextSeq[d]
        BY SMTT(30), Z3T(30), <1>0, <1>2, <1>3 DEF PathInv
      <3> QED
        BY Zenon, <1>1, <1>3, <2>1, <3>1 DEF Channel!Accept
    <2>8. Channel!Next
      <3>1. nextSeq[d] \in 1..MaxSeq /\ d \in Channel!Ends
        BY <1>2, <1>3 DEF Channel!Ends, Ends
      <3> QED
        BY Zenon, <2>7, <3>1 DEF Channel!Next
    <2> QED
      BY Zenon, <1>6, <2>4, <2>6, <2>8 DEF DeliveryInv
  <1> QED
    BY Zenon, <1>7, <1>8 DEF Enqueue

\* writeLoop takes a frame from the outbox into its hand and from there to the
\* socket or, when the write fails and there is room, to the log.
LEMMA WriterDelivery ==
  ASSUME TypeOK, WriterInv, DeliveryInv, NEW d \in Ends, WriterStep(d)
  PROVE  DeliveryInv' /\ UNCHANGED Channel!chanVars
  <1>0. PathInv(d) /\ LostInv(d)
    BY Zenon DEF DeliveryInv
  <1>1. /\ call' = call /\ nextSeq' = nextSeq /\ accepted' = accepted
        /\ lastSeen' = lastSeen /\ received' = received
    BY Zenon DEF WriterStep, WriterCheck, WriterDequeue, WriterDequeueEmpty, WriteFrame,
           WriteFrameFails, sendVars, readVars
  <1>2. UNCHANGED Channel!chanVars
    BY Zenon, <1>1 DEF Channel!chanVars
  <1>3. /\ outbox[d] \in Seq(Frames) /\ wal[d] \in Seq(Frames) /\ wire[d] \in Seq(Frames)
        /\ hand[d] \in Frames
    BY Zenon DEF TypeOK
  <1>4. ASSUME NEW e \in Ends, e # d
        PROVE  PathInv(e)' /\ LostInv(e)'
    <2>1. /\ outbox'[e] = outbox[e] /\ wire'[e] = wire[e] /\ wal'[e] = wal[e]
          /\ hand'[e] = hand[e] /\ wpc'[e] = wpc[e]
      <3>1. CASE WriterCheck(d) \/ WriterDequeueEmpty(d)
        BY Zenon, <1>4, <3>1 DEF WriterCheck, WriterDequeueEmpty, TypeOK
      <3>2. CASE WriterDequeue(d)
        BY Zenon, <1>4, <3>2 DEF WriterDequeue, TypeOK
      <3>3. CASE WriteFrame(d)
        BY Zenon, <1>4, <3>3 DEF WriteFrame, TypeOK
      <3>4. CASE WriteFrameFails(d)
        BY Zenon, <1>4, <3>4 DEF WriteFrameFails, SpillHand, TypeOK
      <3> QED
        BY Zenon, <3>1, <3>2, <3>3, <3>4 DEF WriterStep
    <2>2. Unmoved(e)
      BY Zenon, <1>1, <2>1 DEF Unmoved
    <2> QED
      BY Zenon, <2>2, UnmovedDelivery DEF DeliveryInv
  <1>5. CASE WriterCheck(d) \/ WriterDequeueEmpty(d)
    <2>1. Unmoved(d)
      BY Zenon, <1>1, <1>5 DEF WriterCheck, WriterDequeueEmpty, Unmoved, TypeOK
    <2>2. PathInv(d)' /\ LostInv(d)'
      BY Zenon, <1>0, <2>1, UnmovedDelivery
    <2> QED
      BY Zenon, <1>2, <1>4, <2>2 DEF DeliveryInv
  <1>6. CASE WriterDequeue(d)
    <2>1. /\ outbox[d] # <<>> /\ outbox'[d] = Tail(outbox[d]) /\ hand'[d] = Head(outbox[d])
          /\ wire' = wire /\ wal' = wal /\ wpc[d] = "dequeue" /\ wpc'[d] = "write"
      BY Zenon, <1>6 DEF WriterDequeue, TypeOK
    <2>2. SeqNos(outbox[d]) = SeqNos(outbox'[d]) \cup {hand'[d].seq}
      BY Zenon, <1>3, <2>1, HeadTailSeqNos
    <2>3. PathInv(d)'
      BY Zenon, <1>0, <1>1, <2>1, <2>2 DEF PathInv
    <2>4. Located(d)' = Located(d)
      BY Zenon, <1>1, <2>1, <2>2 DEF Located
    <2>5. LostInv(d)'
      BY Zenon, <1>0, <1>1, <2>1, <2>4 DEF LostInv
    <2> QED
      BY Zenon, <1>2, <1>4, <2>3, <2>5 DEF DeliveryInv
  <1>7. CASE WriteFrame(d)
    <2>1. /\ wire'[d] = Append(wire[d], hand[d]) /\ hand' = hand
          /\ outbox' = outbox /\ wal' = wal /\ wpc[d] = "write" /\ wpc'[d] = "check"
      BY Zenon, <1>7 DEF WriteFrame, TypeOK
    <2>2. SeqNos(wire'[d]) = SeqNos(wire[d]) \cup {hand[d].seq}
      BY Zenon, <1>3, <2>1, AppendSeqNos
    <2>3. PathInv(d)'
      BY Zenon, <1>0, <1>1, <2>1, <2>2 DEF PathInv
    <2>4. Located(d)' = Located(d)
      BY Zenon, <1>1, <2>1, <2>2 DEF Located
    <2>5. LostInv(d)'
      BY Zenon, <1>0, <1>1, <2>1, <2>4 DEF LostInv
    <2> QED
      BY Zenon, <1>2, <1>4, <2>3, <2>5 DEF DeliveryInv
  <1>8. CASE WriteFrameFails(d)
    <2>1. /\ hand' = hand /\ outbox' = outbox /\ wire' = wire
          /\ wpc[d] = "write" /\ wpc'[d] = "exited"
      BY Zenon, <1>8 DEF WriteFrameFails, TypeOK
    <2>2. PathInv(d)'
      BY Zenon, <1>0, <1>1, <2>1 DEF PathInv
    <2>3. CASE WALHasRoom(d)
      <3>1. wal'[d] = Append(wal[d], hand[d])
        BY Zenon, <1>8, <2>3 DEF WriteFrameFails, SpillHand, TypeOK
      <3>2. SeqNos(wal'[d]) = SeqNos(wal[d]) \cup {hand[d].seq}
        BY Zenon, <1>3, <3>1, AppendSeqNos
      <3>3. Located(d)' = Located(d)
        BY Zenon, <1>1, <2>1, <3>2 DEF Located
      <3>4. LostInv(d)'
        BY Zenon, <1>0, <1>1, <2>1, <3>3 DEF LostInv
      <3> QED
        BY Zenon, <1>2, <1>4, <2>2, <3>4 DEF DeliveryInv
    <2>4. CASE ~WALHasRoom(d)
      <3>1. wal' = wal
        BY Zenon, <1>8, <2>4 DEF WriteFrameFails, SpillHand
      <3>2. Len(wal[d]) = WALCap
        <4>1. Len(wal[d]) <= WALCap /\ Len(wal[d]) \in Nat /\ WALCap \in Nat
          BY <1>3, ConnAssumption DEF TypeOK
        <4>2. ~walOpen[d] => WALCap = 0
          BY Zenon, <2>1 DEF WriterInv
        <4> QED
          BY <2>4, <4>1, <4>2 DEF WALHasRoom
      <3>3. Located(d) = Located(d)' \cup {hand[d].seq}
        BY Zenon, <1>1, <2>1, <3>1 DEF Located
      <3>4. LostInv(d)'
        BY Zenon, <1>0, <1>1, <2>1, <3>1, <3>2, <3>3 DEF LostInv
      <3> QED
        BY Zenon, <1>2, <1>4, <2>2, <3>4 DEF DeliveryInv
    <2> QED
      BY Zenon, <2>3, <2>4
  <1> QED
    BY Zenon, <1>5, <1>6, <1>7, <1>8 DEF WriterStep

\* readLoop takes in the frame it reads, which is a Receive of the channel.
LEMMA ReadFrameDelivery ==
  ASSUME TypeOK, OrderInv, DeliveryInv, NEW d \in Ends, ReadFrame(d)
  PROVE  DeliveryInv' /\ Channel!Next
  <1> DEFINE p == Peer(d)
             n == Head(wire[p]).seq
  <1>0. p \in Ends /\ p # d /\ Peer(p) = d /\ \A e \in Ends : e = d \/ e = p
    BY Zenon DEF Peer, Ends
  <1>1. PathInv(d) /\ LostInv(d) /\ PathInv(p) /\ LostInv(p) /\ InOrder(p)
    BY Zenon, <1>0 DEF DeliveryInv, OrderInv
  <1>2. /\ wire[p] \in Seq(Frames) /\ received[d] \in Seq(Nat) /\ lastSeen[d] \in Nat
    BY Zenon, <1>0 DEF TypeOK
  <1>3. wire[p] # <<>>
    BY Zenon DEF ReadFrame
  <1>4. SeqNos(wire[p]) = SeqNos(Tail(wire[p])) \cup {n} /\ SeqNos(wire[p]) \subseteq Nat
    BY Zenon, <1>2, <1>3, HeadTailSeqNos, SeqNosNat
  <1>5. n \in Nat /\ lastSeen[d] < n /\ n \in accepted[p]
    BY Zenon, <1>0, <1>1, <1>4 DEF InOrder, PathInv
  <1>6. ~Seen(d, n)
    BY SMTT(30), Z3T(30), <1>2, <1>5 DEF Seen
  <1>7. /\ wire' = [wire EXCEPT ![p] = Tail(@)]
        /\ lastSeen' = [lastSeen EXCEPT ![d] = n]
        /\ received' = [received EXCEPT ![d] = Append(@, n)]
        /\ outbox' = outbox /\ wal' = wal /\ hand' = hand /\ wpc' = wpc
        /\ call' = call /\ nextSeq' = nextSeq /\ accepted' = accepted
    BY Zenon, <1>6 DEF ReadFrame, sendVars, writeVars
  <1> HIDE DEF n
  <1>8. /\ wire'[p] = Tail(wire[p]) /\ wire'[d] = wire[d]
        /\ lastSeen'[d] = n /\ lastSeen'[p] = lastSeen[p]
        /\ received'[d] = Append(received[d], n) /\ received'[p] = received[p]
    BY Zenon, <1>0, <1>7 DEF TypeOK
  <1>9. /\ received'[d] # <<>> /\ received'[d][Len(received'[d])] = n
        /\ {received'[d][i] : i \in DOMAIN received'[d]}
             = {received[d][i] : i \in DOMAIN received[d]} \cup {n}
    <2>1. Len(received[d]) \in Nat /\ DOMAIN received[d] = 1..Len(received[d])
      BY <1>2
    <2>2. /\ Len(received'[d]) = Len(received[d]) + 1
          /\ DOMAIN received'[d] = 1..(Len(received[d]) + 1)
          /\ received'[d][Len(received[d]) + 1] = n
          /\ \A i \in 1..Len(received[d]) : received'[d][i] = received[d][i]
      BY <1>2, <1>5, <1>8
    <2>3. \A i \in 1..(Len(received[d]) + 1) : i \in 1..Len(received[d]) \/ i = Len(received[d]) + 1
      BY <2>1
    <2>4. received'[d] # <<>>
      BY <2>1, <2>2
    <2> QED
      BY <2>1, <2>2, <2>3, <2>4
  <1>10. PathInv(d)'
    BY Zenon, <1>1, <1>7, <1>8, <1>9 DEF PathInv
  <1>11. LostInv(d)'
    <2>1. Located(d)' = Located(d)
      BY Zenon, <1>0, <1>7, <1>8 DEF Located
    <2> QED
      BY Zenon, <1>1, <1>7, <2>1 DEF LostInv
  <1>12. PathInv(p)'
    BY Zenon, <1>1, <1>4, <1>7, <1>8 DEF PathInv
  <1>13. LostInv(p)'
    <2>1. Located(p)' = Located(p)
      <3>1. SeqNos(wire'[p]) \cup {received'[d][i] : i \in DOMAIN received'[d]}
              = SeqNos(wire[p]) \cup {received[d][i] : i \in DOMAIN received[d]}
        BY Zenon, <1>4, <1>8, <1>9
      <3>2. Peer(p) = d /\ outbox'[p] = outbox[p] /\ wal'[p] = wal[p]
            /\ wpc'[p] = wpc[p] /\ hand'[p] = hand[p]
        BY Zenon, <1>0, <1>7
      <3> QED
        BY SMTT(30), Z3T(30), <3>1, <3>2 DEF Located
    <2> QED
      BY Zenon, <1>1, <1>7, <2>1 DEF LostInv
  <1>14. Channel!Receive(d, n)
    <2>1. Channel!Peer(d) = p
      BY Zenon DEF Channel!Peer, Peer
    <2>2. n > Channel!LastReceived(d)
      BY Zenon, <1>1, <1>2, <1>5 DEF Channel!LastReceived, PathInv
    <2> QED
      BY Zenon, <1>5, <1>7, <2>1, <2>2 DEF Channel!Receive
  <1>15. Channel!Next
    <2>1. d \in Channel!Ends /\ n \in accepted[Channel!Peer(d)]
      BY Zenon, <1>5 DEF Channel!Ends, Ends, Channel!Peer, Peer
    <2> QED
      BY Zenon, <1>14, <2>1 DEF Channel!Next
  <1> QED
    BY Zenon, <1>0, <1>10, <1>11, <1>12, <1>13, <1>15 DEF DeliveryInv

\* The steps that neither send, write nor read a frame.
LEMMA OtherDelivery ==
  ASSUME TypeOK, WriterInv, DeliveryInv,
         \/ UNCHANGED vars
         \/ \E d \in Ends :
              \/ Start(d) \/ CloseStep(d) \/ Die(d) \/ HandlerReturns(d)
              \/ ReadError(d) \/ FireDisconnectCheck(d) \/ FireDisconnect(d)
              \/ \E t \in Senders(d) :
                   AwaitAcked(d, t) \/ AwaitConnClosed(d, t) \/ AwaitCtxDone(d, t)
  PROVE  DeliveryInv' /\ UNCHANGED Channel!chanVars
  <1> DEFINE
        Same == UNCHANGED <<outbox, wire, wal, hand, accepted, nextSeq, lastSeen, received>>
        SameWriter ==
          wpc' = wpc \/ \E d \in Ends : wpc[d] = "new" /\ wpc' = [wpc EXCEPT ![d] = "check"]
        SameCalls ==
          call' = call \/ \E d \in Ends : \E u \in Senders(d) : call' = [call EXCEPT ![d][u] = Idle]
        AllSame == Same /\ SameWriter /\ SameCalls
  <1>0. AllSame
    <2>1. CASE UNCHANGED vars
      BY Zenon, <2>1 DEF vars, sendVars, writeVars, readVars
    <2>2. ASSUME NEW d \in Ends, Start(d) PROVE AllSame
      BY Zenon, <2>2 DEF Start, sendVars, WriterInv
    <2>3. ASSUME NEW d \in Ends, CloseStep(d) \/ Die(d) PROVE AllSame
      BY Zenon, <2>3 DEF CloseStep, Die, sendVars, writeVars, readVars
    <2>4. ASSUME NEW d \in Ends, HandlerReturns(d) \/ ReadError(d) PROVE AllSame
      BY Zenon, <2>4 DEF HandlerReturns, ReadError, sendVars, writeVars
    <2>5. ASSUME NEW d \in Ends, FireDisconnectCheck(d) \/ FireDisconnect(d) PROVE AllSame
      BY Zenon, <2>5 DEF FireDisconnectCheck, FireDisconnect, sendVars, writeVars
    <2>6. ASSUME NEW d \in Ends, NEW t \in Senders(d),
                 AwaitAcked(d, t) \/ AwaitConnClosed(d, t) \/ AwaitCtxDone(d, t)
          PROVE  AllSame
      BY Zenon, <2>6 DEF AwaitAcked, AwaitConnClosed, AwaitCtxDone, AwaitAbandoned, writeVars, readVars
    <2> HIDE DEF AllSame
    <2> QED
      BY Zenon, <2>1, <2>2, <2>3, <2>4, <2>5, <2>6
  <1>1. ASSUME NEW e \in Ends PROVE Unmoved(e)
    <2>1. (wpc'[e] = "write" <=> wpc[e] = "write") /\ (wpc[e] = "exited" => wpc'[e] = "exited")
      <3>1. SameWriter /\ DOMAIN wpc = Ends
        BY Zenon, <1>0 DEF TypeOK
      <3> QED
        BY Zenon, <3>1
    <2>2. \A t \in Threads(e) : call'[e][t].pc = "enqueue" => call[e][t].pc = "enqueue"
      <3>1. SameCalls
        BY Zenon, <1>0
      <3>2. ASSUME NEW d \in Ends, NEW u \in Senders(d), call' = [call EXCEPT ![d][u] = Idle],
                   NEW t \in Threads(e), call'[e][t].pc = "enqueue"
            PROVE  call[e][t].pc = "enqueue"
        <4>1. t \in HostSenders \cup AgentSenders \cup {ReadLoop}
          BY Zenon, ThreadType
        <4>2. call \in [Ends -> [HostSenders \cup AgentSenders \cup {ReadLoop} -> Calls]]
          BY Zenon DEF TypeOK
        <4>3. Idle.pc # "enqueue"
          BY Zenon DEF Idle
        <4> QED
          BY Zenon, <3>2, <4>1, <4>2, <4>3
      <3> QED
        BY Zenon, <3>1, <3>2
    <2>3. Same
      BY Zenon, <1>0
    <2> QED
      BY Zenon, <2>1, <2>2, <2>3 DEF Unmoved
  <1>2. UNCHANGED Channel!chanVars
    BY Zenon, <1>0 DEF Channel!chanVars
  <1> QED
    BY Zenon, <1>1, <1>2, UnmovedDelivery DEF DeliveryInv

\* A connection NewConn just built has accepted nothing, like the channel.
LEMMA InitDelivery == Init => WriterInv /\ DeliveryInv /\ Channel!Init
  <1> SUFFICES ASSUME Init PROVE WriterInv /\ DeliveryInv /\ Channel!Init
    OBVIOUS
  <1>1. WriterInv
    <2>1. \A e \in Ends : wpc[e] = "new" /\ cpc[e] = "no"
      BY Zenon DEF Init, NewConn
    <2>2. \A e \in Ends : walOpen[e] = (WALCap > 0)
      BY Zenon DEF Init, NewConn
    <2>3. ~(WALCap > 0) => WALCap = 0
      BY ConnAssumption
    <2> QED
      BY Zenon, <2>1, <2>2, <2>3 DEF WriterInv
  <1>2. Channel!Init
    BY Zenon DEF Init, NewConn, Channel!Init, Channel!Ends, Ends
  <1>3. ASSUME NEW e \in Ends PROVE PathInv(e) /\ LostInv(e)
    <2>1. /\ outbox[e] = <<>> /\ wire[e] = <<>> /\ wpc[e] = "new" /\ nextSeq[e] = 0
          /\ accepted[e] = {} /\ received[e] = <<>>
      BY Zenon DEF Init, NewConn
    <2>2. \A t \in Threads(e) : call[e][t].pc = "idle"
      BY Zenon, ThreadType DEF Init, NewConn, Idle
    <2>3. SeqNos(outbox[e]) = {} /\ SeqNos(wire[e]) = {}
      BY <2>1 DEF SeqNos
    <2>4. 0 <= MaxSeq
      BY ConnAssumption
    <2>5. PathInv(e)
      BY Zenon, <2>1, <2>2, <2>3, <2>4 DEF PathInv
    <2>6. LostInv(e)
      BY Zenon, <2>1 DEF LostInv
    <2> QED
      BY Zenon, <2>5, <2>6
  <1> QED
    BY Zenon, <1>1, <1>2, <1>3 DEF DeliveryInv

\* Every step of both Conns keeps accepted frames where they can be found, and is
\* a step of the channel or leaves it alone.
LEMMA NextDelivery ==
  ASSUME TypeOK, OrderInv, WriterInv, DeliveryInv, [Next]_vars
  PROVE  DeliveryInv' /\ [Channel!Next]_Channel!chanVars
  <1> DEFINE Goal == DeliveryInv' /\ [Channel!Next]_Channel!chanVars
  <1>1. ASSUME NEW d \in Ends, NEW t \in Senders(d), SendWithNewSeq(d, t) \/ SendAndAwaitAck(d, t)
        PROVE  Goal
    <2>1. PICK kind, wantAck, await : BeginSend(d, t, kind, wantAck, 0, await)
      BY Zenon, <1>1 DEF SendWithNewSeq, SendAndAwaitAck
    <2> QED
      BY Zenon, <2>1, ThreadType, BeginSendDelivery
  <1>2. ASSUME NEW d \in Ends, SendAck(d)
        PROVE  Goal
    <2>1. CASE BeginSend(d, ReadLoop, "ack", FALSE, inbox[d].seq, FALSE)
      BY Zenon, <2>1, ThreadType, BeginSendDelivery
    <2>2. CASE ~BeginSend(d, ReadLoop, "ack", FALSE, inbox[d].seq, FALSE)
      <3>1. UNCHANGED <<outbox, wire, wal, hand, wpc, call, accepted, nextSeq, lastSeen, received>>
        BY Zenon, <1>2, <2>2 DEF SendAck, sendVars, writeVars
      <3>2. \A e \in Ends : Unmoved(e)
        BY Zenon, <3>1 DEF Unmoved
      <3>3. UNCHANGED Channel!chanVars
        BY Zenon, <3>1 DEF Channel!chanVars
      <3> QED
        BY Zenon, <3>2, <3>3, UnmovedDelivery DEF DeliveryInv
    <2> QED
      BY Zenon, <2>1, <2>2
  <1> HIDE DEF Goal
  <1>3. ASSUME NEW d \in Ends, NEW t \in Threads(d), Enqueue(d, t)
        PROVE  Goal
    BY Zenon, <1>3, EnqueueDelivery DEF Goal
  <1>4. ASSUME NEW d \in Ends, WriterStep(d)
        PROVE  Goal
    BY Zenon, <1>4, WriterDelivery DEF Goal
  <1>5. ASSUME NEW d \in Ends, ReadFrame(d)
        PROVE  Goal
    BY Zenon, <1>5, ReadFrameDelivery DEF Goal
  <1>6. ASSUME \/ UNCHANGED vars
               \/ \E d \in Ends :
                    \/ Start(d) \/ CloseStep(d) \/ Die(d) \/ HandlerReturns(d)
                    \/ ReadError(d) \/ FireDisconnectCheck(d) \/ FireDisconnect(d)
                    \/ \E t \in Senders(d) :
                         AwaitAcked(d, t) \/ AwaitConnClosed(d, t) \/ AwaitCtxDone(d, t)
        PROVE  Goal
    BY Zenon, <1>6, OtherDelivery DEF Goal
  <1>7. ASSUME NEW d \in Ends, SenderStep(d)
        PROVE  Goal
    BY Zenon, <1>1, <1>3, <1>6, <1>7 DEF SenderStep
  <1>8. ASSUME NEW d \in Ends, ReaderStep(d)
        PROVE  Goal
    BY Zenon, <1>2, <1>5, <1>6, <1>8 DEF ReaderStep
  <1>9. Goal
    BY Zenon, <1>4, <1>6, <1>7, <1>8 DEF Next
  <1> QED
    BY Zenon, <1>9 DEF Goal

\* writeLoop's place and the log's state are in step, and nothing is lost, in
\* every state of both Conns.
LEMMA DeliveryHolds == Spec => [](WriterInv /\ DeliveryInv)
  <1>1. TypeOK /\ OrderInv /\ WriterInv /\ DeliveryInv /\ [Next]_vars => WriterInv' /\ DeliveryInv'
    BY Zenon, NextWriter, NextDelivery
  <1> QED
    BY InitDelivery, TypeCorrect, OrderHolds, <1>1, PTL DEF Spec

\* For any number of senders and any capacities: of the frames whose send call
\* reported success at most one is nowhere to be found, the one in writeLoop's
\* hand when a write failed and the log was full.
THEOREM NothingElseLost == Spec => []AcceptedIsSomewhere
  <1>1. TypeOK /\ DeliveryInv => AcceptedIsSomewhere
    <2> SUFFICES ASSUME TypeOK, DeliveryInv, NEW e \in Ends
                 PROVE  /\ Cardinality(accepted[e] \ Located(e)) <= 1
                        /\ accepted[e] \ Located(e) # {} =>
                             wpc[e] = "exited" /\ Len(wal[e]) = WALCap
      BY Zenon DEF AcceptedIsSomewhere
    <2>1. LostInv(e)
      BY Zenon DEF DeliveryInv
    <2>2. accepted[e] \ Located(e) = {} \/ accepted[e] \ Located(e) = {hand[e].seq}
      BY Zenon, <2>1 DEF LostInv
    <2>3. Cardinality({}) = 0 /\ Cardinality({hand[e].seq}) = 1
      BY Zenon, FS_EmptySet, FS_Singleton
    <2>4. Cardinality(accepted[e] \ Located(e)) \in {0, 1}
      BY Zenon, <2>2, <2>3
    <2>5. Cardinality(accepted[e] \ Located(e)) <= 1
      BY <2>4
    <2> QED
      BY Zenon, <2>1, <2>5 DEF LostInv
  <1> QED
    BY TypeCorrect, DeliveryHolds, <1>1, PTL

\* The pair of Conns implements FrameChannel in both directions: what is taken
\* in was accepted, in increasing order and at most once, for any number of
\* senders, any capacities and any crash or close.
THEOREM ConnIsChannel == Spec => ImplementsChannel
  <1>1. TypeOK /\ OrderInv /\ WriterInv /\ DeliveryInv /\ [Next]_vars
          => [Channel!Next]_Channel!chanVars
    BY Zenon, NextDelivery
  <1>2. Spec => Channel!Spec
    BY InitDelivery, TypeCorrect, OrderHolds, DeliveryHolds, <1>1, PTL DEF Spec, Channel!Spec
  <1> QED
    BY Zenon, <1>2 DEF ImplementsChannel
=============================================================================
