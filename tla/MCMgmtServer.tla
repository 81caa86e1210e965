---------------------------- MODULE MCMgmtServer ----------------------------
(* Instances of MgmtServer for TLC. *)
EXTENDS MgmtServer, TLC

CONSTANTS p1

\* An event of one process; EventBus is checked with more of them on its own.
Lifecycle == {[id |-> p1, type |-> t] : t \in {"stopped"}}
AnyFilter == {AnyEvent}

\* Server.Close waits for handlers, whatever they forward: one chunk is enough
\* to have a busy one.
CloseEarly == closer.first # "idle" => \A p \in Processes : emitted[p] <= 1
=============================================================================
