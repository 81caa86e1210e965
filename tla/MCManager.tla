------------------------------ MODULE MCManager ------------------------------
(* A process or persistent session p1, started and restarted, and beside it  *)
(* a process p2 whose Start takes its time.                                  *)
EXTENDS Manager

CONSTANTS p1, p2

Unclosed(p) == closing[p] = "nil" /\ last[p] = "Pending"

\* Beside p2, p1 is a plain process that ends at most once, not during
\* Shutdown, and that nobody but Shutdown stops or closes; neither is started
\* after Shutdown has closed it.
Beside ==
  /\ p1 \in handles /\ persistent = {} /\ late = {} /\ was[p2] = {}
  /\ was[p1] # Ended /\ (closed => was[p1] = {})
  /\ ctrl[p2] \in {"nil", "Starting", "Stopping"}
  /\ ~closed => \A p \in Ids : Unclosed(p) /\ ctrl[p] # "Stopping"

\* Bounds on the instance: alone, p1 does all a handle can do, but comes to
\* both ends only before Shutdown.
SmallManager ==
  /\ p2 \notin persistent
  /\ was[p1] = Ended => ~closed
  /\ p2 \in handles => Beside
=============================================================================
