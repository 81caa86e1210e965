------------------------------- MODULE IpcConn -------------------------------
(***************************************************************************)
(* A pair of ipc.Conn joined by a stream socket (internal/ipc: conn.go,    *)
(* outbox.go, spiller.go, seq.go).  Each end has application goroutines    *)
(* that send, a writeLoop that moves frames from the bounded outbox to the *)
(* socket, a readLoop that deduplicates by a watermark, routes acks and    *)
(* runs the handler, and a closer.  A frame that finds the outbox full, or *)
(* whose write fails, is spilled to the write-ahead log.                   *)
(*                                                                         *)
(* Abstracted: payloads (a frame is its number, its kind and its ack       *)
(* fields), the byte size of a WAL record (every record has size one), the *)
(* 64-bit width of sequence numbers (2^64 sends are out of reach).         *)
(***************************************************************************)
EXTENDS Naturals, Sequences, FiniteSets

CONSTANTS
  HostSenders,  \* goroutines that send on the host's Conn
  AgentSenders, \* goroutines that send on the agent's Conn
  ReadLoop,     \* the readLoop goroutine in its role of sender of acks
  Capacity,     \* ConnConfig.Capacity, the size of the outbox
  WALCap,       \* ConnConfig.WALBytes, in records; 0 stands for DisableWAL
  WireCap,      \* bound: frames the socket buffers
  MaxSeq,       \* bound: frames an end numbers
  Oversize,     \* whether callers may pass payloads above MaxPayloadSize
  Closers,      \* ends whose owner may call Close
  Mortal        \* ends whose process may die

ASSUME ConnAssumption ==
  /\ ReadLoop \notin HostSenders \cup AgentSenders
  /\ Capacity \in Nat \ {0}
  /\ WALCap \in Nat
  /\ WireCap \in Nat \ {0}
  /\ MaxSeq \in Nat
  /\ Oversize \in BOOLEAN
  /\ Closers \subseteq {"host", "agent"}
  /\ Mortal \subseteq {"host", "agent"}

Ends == {"host", "agent"}

Peer(e) == IF e = "host" THEN "agent" ELSE "host"

Senders(e) == IF e = "host" THEN HostSenders ELSE AgentSenders

Threads(e) == Senders(e) \cup {ReadLoop}

Frames ==
  [seq : Nat, kind : {"data", "oversize", "ack"}, wantAck : BOOLEAN, acked : Nat]

NoFrame == [seq |-> 0, kind |-> "data", wantAck |-> FALSE, acked |-> 0]

Idle == [pc |-> "idle", await |-> FALSE, frame |-> NoFrame]

Calls == [pc : {"idle", "enqueue", "await"}, await : BOOLEAN, frame : Frames]

VARIABLES
  alive,     \* the process that owns the end runs
  closed,    \* Conn.closed
  cancelled, \* Conn.cancelCtx is done
  rwcOpen,   \* the end's socket descriptor is open
  obDone,    \* Outbox.done is closed
  walOpen,   \* WAL.f is not nil
  nextSeq,   \* SeqGenerator.n: the last number handed out
  call,      \* what each goroutine is doing inside a send call
  outbox,    \* Outbox.ch
  wal,       \* records of the write-ahead log
  wpc,       \* where writeLoop is
  hand,      \* the frame writeLoop has dequeued
  wire,      \* frames written by the end and not yet read by its peer
  rpc,       \* where readLoop is
  inbox,     \* the frame readLoop has read
  lastSeen,  \* DedupTracker.lastSeen
  pending,   \* keys of Conn.pendingAcks
  cpc        \* where Close is

\* What happened so far; no step of the program reads these.
VARIABLES
  accepted,  \* numbers of the frames whose Enqueue returned true
  received,  \* numbers taken in from the peer, in order
  dropped,   \* numbers thrown away as duplicates
  handled,   \* numbers whose handler call has returned
  confirmed, \* numbers whose SendAndAwaitAck returned nil
  peerGone,  \* the peer's socket was closed when readLoop saw its error
  fired      \* the disconnect callback ran

ctlVars == <<alive, closed, cancelled, rwcOpen, obDone, walOpen, cpc>>
sendVars == <<nextSeq, call, accepted>>
writeVars == <<wpc, hand>>
readVars == <<rpc, inbox, lastSeen, received, dropped, handled>>
ackVars == <<pending, confirmed>>
fireVars == <<peerGone, fired>>
vars == <<ctlVars, sendVars, outbox, wal, wire, writeVars, readVars, ackVars, fireVars>>

\* Every variable has its type, and neither queue outgrows its configured size.
TypeOK ==
  /\ alive \in [Ends -> BOOLEAN]
  /\ closed \in [Ends -> BOOLEAN]
  /\ cancelled \in [Ends -> BOOLEAN]
  /\ rwcOpen \in [Ends -> BOOLEAN]
  /\ obDone \in [Ends -> BOOLEAN]
  /\ walOpen \in [Ends -> BOOLEAN]
  /\ nextSeq \in [Ends -> Nat]
  /\ call \in [Ends -> [HostSenders \cup AgentSenders \cup {ReadLoop} -> Calls]]
  /\ outbox \in [Ends -> Seq(Frames)]
  /\ wal \in [Ends -> Seq(Frames)]
  /\ wpc \in [Ends -> {"new", "check", "dequeue", "write", "exited"}]
  /\ hand \in [Ends -> Frames]
  /\ wire \in [Ends -> Seq(Frames)]
  /\ rpc \in [Ends -> {"new", "read", "handle", "ack", "exiting", "callback", "exited"}]
  /\ inbox \in [Ends -> Frames]
  /\ lastSeen \in [Ends -> Nat]
  /\ pending \in [Ends -> SUBSET Nat]
  /\ cpc \in [Ends -> {"no", "closed", "cancelled", "rwc", "outbox", "joined", "done"}]
  /\ accepted \in [Ends -> SUBSET Nat]
  /\ received \in [Ends -> Seq(Nat)]
  /\ dropped \in [Ends -> SUBSET Nat]
  /\ handled \in [Ends -> SUBSET Nat]
  /\ confirmed \in [Ends -> SUBSET Nat]
  /\ peerGone \in [Ends -> BOOLEAN]
  /\ fired \in [Ends -> BOOLEAN]
  /\ \A e \in Ends : Len(outbox[e]) <= Capacity /\ Len(wal[e]) <= WALCap

NewConn ==
  /\ alive = [e \in Ends |-> TRUE]
  /\ closed = [e \in Ends |-> FALSE]
  /\ cancelled = [e \in Ends |-> FALSE]
  /\ rwcOpen = [e \in Ends |-> TRUE]
  /\ obDone = [e \in Ends |-> FALSE]
  /\ walOpen = [e \in Ends |-> WALCap > 0]
  /\ nextSeq = [e \in Ends |-> 0]
  /\ call = [e \in Ends |-> [t \in HostSenders \cup AgentSenders \cup {ReadLoop} |-> Idle]]
  /\ outbox = [e \in Ends |-> <<>>]
  /\ wal = [e \in Ends |-> <<>>]
  /\ wpc = [e \in Ends |-> "new"]
  /\ hand = [e \in Ends |-> NoFrame]
  /\ wire = [e \in Ends |-> <<>>]
  /\ rpc = [e \in Ends |-> "new"]
  /\ inbox = [e \in Ends |-> NoFrame]
  /\ lastSeen = [e \in Ends |-> 0]
  /\ pending = [e \in Ends |-> {}]
  /\ cpc = [e \in Ends |-> "no"]
  /\ accepted = [e \in Ends |-> {}]
  /\ received = [e \in Ends |-> <<>>]
  /\ dropped = [e \in Ends |-> {}]
  /\ handled = [e \in Ends |-> {}]
  /\ confirmed = [e \in Ends |-> {}]
  /\ peerGone = [e \in Ends |-> FALSE]
  /\ fired = [e \in Ends |-> FALSE]

Init == NewConn

-----------------------------------------------------------------------------
(* Conn.Start launches both loops, once; every caller starts a Conn before  *)
(* it can close it.                                                        *)
Start(e) ==
  /\ alive[e] /\ rpc[e] = "new" /\ cpc[e] = "no"
  /\ rpc' = [rpc EXCEPT ![e] = "read"]
  /\ wpc' = [wpc EXCEPT ![e] = "check"]
  /\ UNCHANGED <<ctlVars, sendVars, outbox, wal, wire, hand, inbox, lastSeen,
                 received, dropped, handled, ackVars, fireVars>>

-----------------------------------------------------------------------------
(* Sending.  sendMu is held from the closed check to the end of Enqueue,   *)
(* that is, by the goroutine whose call is at "enqueue".                   *)

\* Mutant: the number is taken and the frame queued without a common lock.
BugNoSendMu(e) == TRUE

SendMuFree(e) == \A t \in Threads(e) : call[e][t].pc # "enqueue"

\* Mutant: the cap is compared before the new record is counted.
BugWALOffByOne(e) == walOpen[e] /\ Len(wal[e]) <= WALCap

\* WAL.Append refuses a record that would exceed the cap, and fails once closed.
WALHasRoom(e) == walOpen[e] /\ Len(wal[e]) < WALCap

\* Both entry points refuse a closed Conn, which changes nothing; otherwise they
\* take the next number, and SendAndAwaitAck registers its waiter under it.
BeginSend(e, t, kind, wantAck, ackedSeq, await) ==
  /\ alive[e] /\ call[e][t].pc = "idle"
  /\ SendMuFree(e)
  /\ ~closed[e]
  /\ nextSeq[e] < MaxSeq
  /\ nextSeq' = [nextSeq EXCEPT ![e] = @ + 1]
  /\ call' = [call EXCEPT ![e][t] =
       [pc |-> "enqueue", await |-> await,
        frame |-> [seq |-> nextSeq[e] + 1, kind |-> kind,
                   wantAck |-> wantAck, acked |-> ackedSeq]]]
  /\ pending' = IF await THEN [pending EXCEPT ![e] = @ \cup {nextSeq[e] + 1}] ELSE pending
  /\ UNCHANGED <<ctlVars, accepted, outbox, wal, wire, writeVars, inbox, lastSeen,
                 received, dropped, handled, confirmed, fireVars>>

SendWithNewSeq(e, t) ==
  /\ \E kind \in {"data"} \cup (IF Oversize THEN {"oversize"} ELSE {}), wantAck \in BOOLEAN :
       BeginSend(e, t, kind, wantAck, 0, FALSE)
  /\ UNCHANGED rpc

SendAndAwaitAck(e, t) == BeginSend(e, t, "data", TRUE, 0, TRUE) /\ UNCHANGED rpc

\* The call is over, unless it has an ack to wait for.
Returned(e, t, ok) ==
  /\ call' = [call EXCEPT ![e][t] =
       IF ok /\ @.await THEN [@ EXCEPT !.pc = "await"] ELSE Idle]
  /\ pending' = [pending EXCEPT ![e] =
       IF ~ok /\ call[e][t].await THEN @ \ {call[e][t].frame.seq} ELSE @]
  /\ accepted' = [accepted EXCEPT ![e] = IF ok THEN @ \cup {call[e][t].frame.seq} ELSE @]

\* Outbox.Enqueue: refused when done, queued when there is room, else spilled.
Enqueue(e, t) ==
  /\ alive[e] /\ call[e][t].pc = "enqueue"
  /\ \/ /\ obDone[e]
        /\ Returned(e, t, FALSE)
        /\ UNCHANGED <<outbox, wal>>
     \/ /\ ~obDone[e] /\ Len(outbox[e]) < Capacity
        /\ outbox' = [outbox EXCEPT ![e] = Append(@, call[e][t].frame)]
        /\ Returned(e, t, TRUE)
        /\ UNCHANGED wal
     \/ /\ ~obDone[e] /\ Len(outbox[e]) >= Capacity /\ WALHasRoom(e)
        /\ wal' = [wal EXCEPT ![e] = Append(@, call[e][t].frame)]
        /\ Returned(e, t, TRUE)
        /\ UNCHANGED outbox
     \/ /\ ~obDone[e] /\ Len(outbox[e]) >= Capacity /\ ~WALHasRoom(e)
        /\ Returned(e, t, FALSE)
        /\ UNCHANGED <<outbox, wal>>
  /\ UNCHANGED <<ctlVars, nextSeq, wire, writeVars, readVars, confirmed, fireVars>>

\* The three arms of SendAndAwaitAck's select.  deliverAck has closed the
\* waiter's channel exactly when its entry is gone.
AwaitAcked(e, t) ==
  /\ alive[e] /\ call[e][t].pc = "await" /\ call[e][t].frame.seq \notin pending[e]
  /\ confirmed' = [confirmed EXCEPT ![e] = @ \cup {call[e][t].frame.seq}]
  /\ call' = [call EXCEPT ![e][t] = Idle]
  /\ UNCHANGED <<ctlVars, nextSeq, accepted, outbox, wal, wire, writeVars, readVars,
                 pending, fireVars>>

AwaitAbandoned(e, t) ==
  /\ pending' = [pending EXCEPT ![e] = @ \ {call[e][t].frame.seq}]
  /\ call' = [call EXCEPT ![e][t] = Idle]
  /\ UNCHANGED <<ctlVars, nextSeq, accepted, outbox, wal, wire, writeVars, readVars,
                 confirmed, fireVars>>

\* Mutant: the select has no arm for the connection's end.
BugNoConnArm(e, t) == FALSE

AwaitConnClosed(e, t) ==
  /\ alive[e] /\ call[e][t].pc = "await" /\ cancelled[e]
  /\ AwaitAbandoned(e, t)

AwaitCtxDone(e, t) ==
  /\ alive[e] /\ call[e][t].pc = "await"
  /\ AwaitAbandoned(e, t)

-----------------------------------------------------------------------------
(* writeLoop *)

Linked(e) == rwcOpen[e] /\ rwcOpen[Peer(e)]

WriterCheck(e) ==
  /\ alive[e] /\ wpc[e] = "check"
  /\ wpc' = [wpc EXCEPT ![e] = IF cancelled[e] THEN "exited" ELSE "dequeue"]
  /\ UNCHANGED <<ctlVars, sendVars, outbox, wal, wire, hand, readVars, ackVars, fireVars>>

WriterDequeue(e) ==
  /\ alive[e] /\ wpc[e] = "dequeue" /\ outbox[e] # <<>>
  /\ hand' = [hand EXCEPT ![e] = Head(outbox[e])]
  /\ outbox' = [outbox EXCEPT ![e] = Tail(@)]
  /\ wpc' = [wpc EXCEPT ![e] = "write"]
  /\ UNCHANGED <<ctlVars, sendVars, wal, wire, readVars, ackVars, fireVars>>

\* Dequeue gave up: the outbox is done and drained, or the timer fired, which it
\* may do just before a frame arrives.
WriterDequeueEmpty(e) ==
  /\ alive[e] /\ wpc[e] = "dequeue"
  /\ wpc' = [wpc EXCEPT ![e] = IF cancelled[e] \/ closed[e] THEN "exited" ELSE "check"]
  /\ UNCHANGED <<ctlVars, sendVars, outbox, wal, wire, hand, readVars, ackVars, fireVars>>

WriteFrame(e) ==
  /\ alive[e] /\ wpc[e] = "write" /\ hand[e].kind # "oversize"
  /\ Linked(e) /\ Len(wire[e]) < WireCap
  /\ wire' = [wire EXCEPT ![e] = Append(@, hand[e])]
  /\ wpc' = [wpc EXCEPT ![e] = "check"]
  /\ UNCHANGED <<ctlVars, sendVars, outbox, wal, hand, readVars, ackVars, fireVars>>

\* Mutant: a frame whose write failed is forgotten.
BugNoSpill(e) == wal' = wal

\* Spiller.spill on behalf of writeLoop, whose error is ignored.
SpillHand(e) ==
  wal' = IF WALHasRoom(e) THEN [wal EXCEPT ![e] = Append(@, hand[e])] ELSE wal

WriteFrameFails(e) ==
  /\ alive[e] /\ wpc[e] = "write"
  /\ hand[e].kind = "oversize" \/ ~Linked(e)
  /\ SpillHand(e)
  /\ wpc' = [wpc EXCEPT ![e] = "exited"]
  /\ UNCHANGED <<ctlVars, sendVars, outbox, wire, hand, readVars, ackVars, fireVars>>

-----------------------------------------------------------------------------
(* readLoop *)

Reading(e) == alive[e] /\ rpc[e] = "read" /\ call[e][ReadLoop].pc = "idle"

\* Mutant: the watermark is compared with the wrong neighbour.
BugSeenOffByOne(e, n) == n <= lastSeen[e] + 1

Seen(e, n) == n <= lastSeen[e]

\* A frame at or below the watermark is thrown away.  A fresh one advances it;
\* an ack then wakes its waiter if there still is one (deliverAck), anything
\* else goes to the handler.
ReadFrame(e) ==
  LET f == Head(wire[Peer(e)]) IN
  /\ Reading(e) /\ rwcOpen[e] /\ wire[Peer(e)] # <<>>
  /\ wire' = [wire EXCEPT ![Peer(e)] = Tail(@)]
  /\ IF Seen(e, f.seq)
     THEN /\ dropped' = [dropped EXCEPT ![e] = @ \cup {f.seq}]
          /\ UNCHANGED <<rpc, inbox, lastSeen, received, pending>>
     ELSE /\ lastSeen' = [lastSeen EXCEPT ![e] = f.seq]
          /\ received' = [received EXCEPT ![e] = Append(@, f.seq)]
          /\ IF f.kind = "ack"
             THEN /\ pending' = [pending EXCEPT ![e] = @ \ {f.acked}]
                  /\ UNCHANGED <<rpc, inbox>>
             ELSE /\ rpc' = [rpc EXCEPT ![e] = "handle"]
                  /\ inbox' = [inbox EXCEPT ![e] = f]
                  /\ UNCHANGED pending
          /\ UNCHANGED dropped
  /\ UNCHANGED <<ctlVars, sendVars, outbox, wal, writeVars, handled, confirmed, fireVars>>

\* Mutant: the handler's work goes to another goroutine and the ack overtakes it.
BugAckOnReceipt(e) ==
  /\ alive[e] /\ rpc[e] = "handle"
  /\ rpc' = [rpc EXCEPT ![e] = IF e = "agent" /\ inbox[e].wantAck THEN "ack" ELSE "read"]
  /\ UNCHANGED <<ctlVars, sendVars, outbox, wal, wire, writeVars, inbox, lastSeen,
                 received, dropped, handled, ackVars, fireVars>>

\* The handler's end.  The agent's (Dispatcher.Handle) then owes an ack to a
\* frame that asked for one; the host's (Controller.handleMessage) never acks.
HandlerReturns(e) ==
  /\ alive[e] /\ rpc[e] = "handle"
  /\ handled' = [handled EXCEPT ![e] = @ \cup {inbox[e].seq}]
  /\ rpc' = [rpc EXCEPT ![e] = IF e = "agent" /\ inbox[e].wantAck THEN "ack" ELSE "read"]
  /\ UNCHANGED <<ctlVars, sendVars, outbox, wal, wire, writeVars, inbox, lastSeen,
                 received, dropped, ackVars, fireVars>>

SendAck(e) ==
  /\ alive[e] /\ rpc[e] = "ack"
  /\ rpc' = [rpc EXCEPT ![e] = "read"]
  /\ \/ BeginSend(e, ReadLoop, "ack", FALSE, inbox[e].seq, FALSE)
     \/ /\ closed[e] /\ SendMuFree(e)
        /\ UNCHANGED <<ctlVars, sendVars, outbox, wal, wire, writeVars, inbox, lastSeen,
                       received, dropped, handled, ackVars, fireVars>>

\* The socket is gone on this side, or the peer's side is and all it wrote is read.
ReadError(e) ==
  /\ Reading(e)
  /\ ~rwcOpen[e] \/ (~rwcOpen[Peer(e)] /\ wire[Peer(e)] = <<>>)
  /\ rpc' = [rpc EXCEPT ![e] = "exiting"]
  /\ peerGone' = [peerGone EXCEPT ![e] = ~rwcOpen[Peer(e)]]
  /\ UNCHANGED <<ctlVars, sendVars, outbox, wal, wire, writeVars, inbox, lastSeen,
                 received, dropped, handled, ackVars, fired>>

\* Mutant: fireDisconnect does not look at closed.
BugAlwaysFire(e) ==
  /\ alive[e] /\ rpc[e] = "exiting"
  /\ rpc' = [rpc EXCEPT ![e] = "callback"]
  /\ UNCHANGED <<ctlVars, sendVars, outbox, wal, wire, writeVars, inbox, lastSeen,
                 received, dropped, handled, ackVars, fireVars>>

\* fireDisconnect does nothing once Close has set closed.
FireDisconnectCheck(e) ==
  /\ alive[e] /\ rpc[e] = "exiting"
  /\ rpc' = [rpc EXCEPT ![e] = IF closed[e] THEN "exited" ELSE "callback"]
  /\ UNCHANGED <<ctlVars, sendVars, outbox, wal, wire, writeVars, inbox, lastSeen,
                 received, dropped, handled, ackVars, fireVars>>

\* Mutant: the context is not cancelled after the callback.
BugNoCancel(e) ==
  /\ alive[e] /\ rpc[e] = "callback"
  /\ fired' = [fired EXCEPT ![e] = TRUE]
  /\ rpc' = [rpc EXCEPT ![e] = "exited"]
  /\ UNCHANGED <<ctlVars, sendVars, outbox, wal, wire, writeVars, inbox, lastSeen,
                 received, dropped, handled, ackVars, peerGone>>

FireDisconnect(e) ==
  /\ alive[e] /\ rpc[e] = "callback"
  /\ fired' = [fired EXCEPT ![e] = TRUE]
  /\ cancelled' = [cancelled EXCEPT ![e] = TRUE]
  /\ rpc' = [rpc EXCEPT ![e] = "exited"]
  /\ UNCHANGED <<alive, closed, rwcOpen, obDone, walOpen, cpc, sendVars, outbox, wal, wire,
                 writeVars, inbox, lastSeen, received, dropped, handled, ackVars, peerGone>>

-----------------------------------------------------------------------------
(* Conn.Close, in the order of its statements *)

CloseSetClosed(e) ==
  /\ alive[e] /\ e \in Closers /\ cpc[e] = "no"
  /\ cpc' = [cpc EXCEPT ![e] = "closed"]
  /\ closed' = [closed EXCEPT ![e] = TRUE]
  /\ UNCHANGED <<alive, cancelled, rwcOpen, obDone, walOpen>>

CloseCancel(e) ==
  /\ alive[e] /\ cpc[e] = "closed"
  /\ cpc' = [cpc EXCEPT ![e] = "cancelled"]
  /\ cancelled' = [cancelled EXCEPT ![e] = TRUE]
  /\ UNCHANGED <<alive, closed, rwcOpen, obDone, walOpen>>

CloseRWC(e) ==
  /\ alive[e] /\ cpc[e] = "cancelled"
  /\ cpc' = [cpc EXCEPT ![e] = "rwc"]
  /\ rwcOpen' = [rwcOpen EXCEPT ![e] = FALSE]
  /\ UNCHANGED <<alive, closed, cancelled, obDone, walOpen>>

CloseOutbox(e) ==
  /\ alive[e] /\ cpc[e] = "rwc"
  /\ cpc' = [cpc EXCEPT ![e] = "outbox"]
  /\ obDone' = [obDone EXCEPT ![e] = TRUE]
  /\ UNCHANGED <<alive, closed, cancelled, rwcOpen, walOpen>>

LoopsJoined(e) == rpc[e] \in {"new", "exited"} /\ wpc[e] \in {"new", "exited"}

CloseWait(e) ==
  /\ alive[e] /\ cpc[e] = "outbox" /\ LoopsJoined(e)
  /\ cpc' = [cpc EXCEPT ![e] = "joined"]
  /\ UNCHANGED <<alive, closed, cancelled, rwcOpen, obDone, walOpen>>

CloseSpiller(e) ==
  /\ alive[e] /\ cpc[e] = "joined"
  /\ cpc' = [cpc EXCEPT ![e] = "done"]
  /\ walOpen' = [walOpen EXCEPT ![e] = FALSE]
  /\ UNCHANGED <<alive, closed, cancelled, rwcOpen, obDone>>

CloseStep(e) ==
  /\ \/ CloseSetClosed(e) \/ CloseCancel(e) \/ CloseRWC(e)
     \/ CloseOutbox(e) \/ CloseWait(e) \/ CloseSpiller(e)
  /\ UNCHANGED <<sendVars, outbox, wal, wire, writeVars, readVars, ackVars, fireVars>>

\* The process that owns the end dies; the kernel closes its socket.
Die(e) ==
  /\ alive[e] /\ e \in Mortal
  /\ alive' = [alive EXCEPT ![e] = FALSE]
  /\ rwcOpen' = [rwcOpen EXCEPT ![e] = FALSE]
  /\ UNCHANGED <<closed, cancelled, obDone, walOpen, cpc, sendVars, outbox, wal, wire,
                 writeVars, readVars, ackVars, fireVars>>

-----------------------------------------------------------------------------

SenderStep(e) ==
  \/ \E t \in Senders(e) :
       \/ SendWithNewSeq(e, t) \/ SendAndAwaitAck(e, t)
       \/ AwaitAcked(e, t) \/ AwaitConnClosed(e, t) \/ AwaitCtxDone(e, t)
  \/ \E t \in Threads(e) : Enqueue(e, t)

WriterStep(e) ==
  \/ WriterCheck(e) \/ WriterDequeue(e) \/ WriterDequeueEmpty(e)
  \/ WriteFrame(e) \/ WriteFrameFails(e)

ReaderStep(e) ==
  \/ ReadFrame(e) \/ HandlerReturns(e) \/ SendAck(e)
  \/ ReadError(e) \/ FireDisconnectCheck(e) \/ FireDisconnect(e)

Next ==
  \E e \in Ends :
    Start(e) \/ SenderStep(e) \/ WriterStep(e) \/ ReaderStep(e) \/ CloseStep(e) \/ Die(e)

Spec == Init /\ [][Next]_vars

-----------------------------------------------------------------------------
(* Properties *)

SeqNos(frames) == {frames[i].seq : i \in DOMAIN frames}

Increasing(frames) ==
  \A i, j \in DOMAIN frames : i < j => frames[i].seq < frames[j].seq

\* CW-G5: the watermark never takes a frame for a duplicate, however many
\* goroutines send on the same Conn.
NoFalseDuplicate == \A e \in Ends : dropped[e] = {}

\* The strengthening that makes NoFalseDuplicate inductive: numbers grow along
\* the path outbox, writeLoop, socket, and everything still on it lies between
\* the receiver's watermark and the sender's counter.
InOrder(e) ==
  /\ Increasing(outbox[e])
  /\ Increasing(wire[e])
  /\ \A n \in SeqNos(wire[e]), m \in SeqNos(outbox[e]) : n < m
  /\ wpc[e] = "write" =>
       /\ \A n \in SeqNos(wire[e]) : n < hand[e].seq
       /\ \A m \in SeqNos(outbox[e]) : hand[e].seq < m
       /\ lastSeen[Peer(e)] < hand[e].seq
       /\ hand[e].seq <= nextSeq[e]
  /\ \A n \in SeqNos(wire[e]) \cup SeqNos(outbox[e]) :
       lastSeen[Peer(e)] < n /\ n <= nextSeq[e]
  /\ lastSeen[Peer(e)] <= nextSeq[e]

\* The goroutine inside sendMu holds the newest number, which is nowhere yet.
HolderNewest(e) ==
  \A t \in Threads(e) : call[e][t].pc = "enqueue" =>
    /\ call[e][t].frame.seq = nextSeq[e]
    /\ \A n \in SeqNos(wire[e]) \cup SeqNos(outbox[e]) : n < nextSeq[e]
    /\ wpc[e] = "write" => hand[e].seq < nextSeq[e]
    /\ lastSeen[Peer(e)] < nextSeq[e]
    /\ \A u \in Threads(e) : call[e][u].pc = "enqueue" => u = t

OrderInv == \A e \in Ends : InOrder(e) /\ HolderNewest(e)

Located(e) ==
  SeqNos(outbox[e]) \cup SeqNos(wire[e]) \cup SeqNos(wal[e])
    \cup {received[Peer(e)][i] : i \in DOMAIN received[Peer(e)]}
    \cup (IF wpc[e] = "write" THEN {hand[e].seq} ELSE {})

\* A frame whose send call reported success stays somewhere: in the outbox, in
\* writeLoop's hand, on the socket, with the receiver or in the log.  The only
\* one that can vanish is the frame in hand when a write fails and the log has
\* no room for it.
AcceptedIsSomewhere ==
  \A e \in Ends :
    /\ Cardinality(accepted[e] \ Located(e)) <= 1
    /\ accepted[e] \ Located(e) # {} => wpc[e] = "exited" /\ Len(wal[e]) = WALCap

\* A nil from SendAndAwaitAck means the peer's handler has finished with that
\* very frame (Controller.Stop relies on it).
AckMeansHandled == \A e \in Ends : confirmed[e] \subseteq handled[Peer(e)]

\* pendingAcks has an entry only while the call that registered it is running,
\* whichever way that call ends.
NoStalePending ==
  \A e \in Ends : \A n \in pending[e] :
    \E t \in Senders(e) : call[e][t].pc # "idle" /\ call[e][t].await /\ call[e][t].frame.seq = n

\* Acks can be trusted whatever becomes of their waiters: one that is reported
\* stands for work done (Controller.Stop), one that comes late, twice or never
\* leaves nothing behind in pendingAcks.
AcksAreSound == AckMeansHandled /\ NoStalePending

\* The disconnect callback runs only for a connection the remote side ended:
\* an error caused by the local Close never reaches it.
DisconnectIsRemote == \A e \in Ends : fired[e] => peerGone[e]

-----------------------------------------------------------------------------
(* Liveness.  The Go runtime schedules every runnable goroutine, and a     *)
(* handler is assumed to return; nothing makes an application send, call   *)
(* Close, give up on an ack or die.  A frame that is there when Dequeue is  *)
(* entered is taken, so the timer cannot pass it over for ever.            *)

CloseProgress(e) == CloseStep(e) /\ cpc[e] # "no"

SendProgress(e, t) == Enqueue(e, t) \/ AwaitAcked(e, t) \/ AwaitConnClosed(e, t)

\* One condition for each goroutine; readLoop sends the acks itself.
Fairness ==
  /\ \A e \in Ends :
       /\ WF_vars(Start(e) \/ ReaderStep(e) \/ Enqueue(e, ReadLoop))
       /\ WF_vars(WriterStep(e))
       /\ SF_vars(WriterDequeue(e))
       /\ \A t \in Senders(e) : WF_vars(SendProgress(e, t))
  /\ \A e \in Closers : WF_vars(CloseProgress(e))

FairSpec == Spec /\ Fairness

Healthy == \A e \in Ends : alive[e] /\ ~closed[e] /\ wpc[e] # "exited"

Taken(e) == {received[e][i] : i \in DOMAIN received[e]}

\* Each of the following says that nobody is stuck: what must end is, again and
\* again, not under way, and it cannot begin anew without having ended.

\* Close always returns: both loops notice it, whatever they were doing.
CloseReturns == \A e \in Closers : []<>(cpc[e] \in {"no", "done"} \/ ~alive[e])

\* When the remote side is gone, both loops of a started Conn end by themselves:
\* no writeLoop keeps polling a dead socket.
LoopsEndWhenPeerGone ==
  \A e \in Ends : []<>(rwcOpen[Peer(e)] \/ rpc[e] = "new" \/ LoopsJoined(e) \/ ~alive[e])

\* readLoop and writeLoop end, and with them the Conn, whichever side ends it:
\* a local Close joins them without a time limit, and after a remote end they
\* leave by themselves.
LoopsEnd == CloseReturns /\ LoopsEndWhenPeerGone

\* No SendAndAwaitAck outlives its connection.
WaitersReleased ==
  \A e \in Ends : \A t \in Senders(e) :
    []<>(call[e][t].pc # "await" \/ ~cancelled[e] \/ ~alive[e])

\* An accepted frame that did not go to the log, which means that it made it
\* into the in-memory queue, reaches the peer unless the connection ends first.
QueuedIsReceived ==
  \A e \in Ends : \A n \in 1..MaxSeq :
    []<>(n \in accepted[e] \ SeqNos(wal[e]) => n \in Taken(Peer(e)) \/ ~Healthy)

\* "producers never block and messages are never lost": every accepted frame
\* reaches the peer unless the connection ends first.
NeverLost ==
  \A e \in Ends : \A n \in 1..MaxSeq :
    []<>(n \in accepted[e] => n \in Taken(Peer(e)) \/ ~Healthy)

-----------------------------------------------------------------------------
Channel == INSTANCE FrameChannel WITH SeqNo <- 1..MaxSeq

\* The pair of Conns implements the channel both directions promise.
ImplementsChannel == Channel!Spec
=============================================================================
