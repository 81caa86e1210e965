------------------------------ MODULE MCIpcConn ------------------------------
(* An instance of IpcConn for TLC. *)
EXTENDS IpcConn

CONSTANTS h1, h2

\* Bound on the second of two sending goroutines: it begins while both ends are
\* up.  What is in flight then meets every later close and death.
SecondSender ==
  \A t \in HostSenders \ {h1} :
    call["host"][t].pc # "idle" => alive["agent"] /\ ~closed["host"]
=============================================================================
