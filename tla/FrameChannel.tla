---------------------------- MODULE FrameChannel ----------------------------
(***************************************************************************)
(* What a pair of ipc.Conn promises the layers above it, one channel per   *)
(* direction: a frame whose send call reported success carries a sequence  *)
(* number above every earlier one, and the peer takes in accepted frames   *)
(* in that order, each at most once.  Nothing is promised about arrival:   *)
(* a frame may be skipped when a later one is taken in first.              *)
(***************************************************************************)
EXTENDS Naturals, Sequences

CONSTANT SeqNo \* the sequence numbers frames may carry

VARIABLES
  accepted, \* accepted[e]: numbers of the frames end e has accepted
  received  \* received[e]: numbers end e has taken in from its peer, in order

chanVars == <<accepted, received>>

Ends == {"host", "agent"}

Peer(e) == IF e = "host" THEN "agent" ELSE "host"

LastReceived(e) == IF received[e] = <<>> THEN 0 ELSE received[e][Len(received[e])]

Init ==
  /\ accepted = [e \in Ends |-> {}]
  /\ received = [e \in Ends |-> <<>>]

Accept(e, n) ==
  /\ \A m \in accepted[e] : m < n
  /\ accepted' = [accepted EXCEPT ![e] = @ \cup {n}]
  /\ UNCHANGED received

Receive(e, n) ==
  /\ n \in accepted[Peer(e)]
  /\ n > LastReceived(e)
  /\ received' = [received EXCEPT ![e] = Append(@, n)]
  /\ UNCHANGED accepted

Next ==
  \E e \in Ends :
    \/ \E n \in SeqNo : Accept(e, n)
    \/ \E n \in accepted[Peer(e)] : Receive(e, n)

Spec == Init /\ [][Next]_chanVars
=============================================================================
