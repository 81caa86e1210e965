----------------------------- MODULE StopCascade -----------------------------
(***************************************************************************)
(* The three nested deadlines of a shutdown (CW-G3), on a common clock.    *)
(* The runner gives the child StopTimeout between SIGTERM and SIGKILL;     *)
(* agent.Run, once it has its own SIGTERM, gives the runner DrainBudget;   *)
(* AgentHandle.Close gives the agent Grace before it kills it.  A timer    *)
(* fires no earlier than its deadline and, the clock being coarse against  *)
(* scheduling, the clock does not pass a deadline before it is acted on.   *)
(***************************************************************************)
EXTENDS Naturals

CONSTANTS
  StopTimeout, \* RunSpec.StopTimeout, or defaultStopTimeout
  DrainBudget, \* the timeout of drainCtx
  Grace,       \* the time.After of AgentHandle.Close
  MaxTime      \* bound: how long the clock runs

ASSUME CascadeAssumption ==
  /\ StopTimeout \in Nat /\ DrainBudget \in Nat /\ Grace \in Nat /\ MaxTime \in Nat
  /\ DrainBudget < Grace

VARIABLES
  now,
  child,     \* "running", or "dead" once the runner has reaped it
  cancelled, \* stopChild has cancelled the runner, which has sent SIGTERM
  cancelAt,  \* when
  agent,     \* where agent.Run is, or how the process ended
  closing,   \* AgentHandle.Close is waiting for the agent
  termAt     \* when it sent SIGTERM to the agent

vars == <<now, child, cancelled, cancelAt, agent, closing, termAt>>

\* Every variable has its type.
TypeOK ==
  /\ now \in Nat /\ cancelAt \in Nat /\ termAt \in Nat
  /\ child \in {"running", "dead"}
  /\ cancelled \in BOOLEAN /\ closing \in BOOLEAN
  /\ agent \in {"run", "drain", "join", "returned", "killed"}

Init ==
  /\ now = 0 /\ cancelAt = 0 /\ termAt = 0
  /\ child = "running" /\ cancelled = FALSE
  /\ agent = "run" /\ closing = FALSE

Up == agent \in {"run", "drain", "join"}

\* Handle runs until Conn.Close has joined readLoop.
StopChild ==
  /\ agent \in {"run", "drain"} /\ ~cancelled
  /\ cancelled' = TRUE
  /\ cancelAt' = now
  /\ UNCHANGED <<now, child, agent, closing, termAt>>

ChildExits ==
  /\ child = "running"
  /\ child' = "dead"
  /\ UNCHANGED <<now, cancelled, cancelAt, agent, closing, termAt>>

\* Mutant: SIGTERM is not followed by SIGKILL.
BugNoEscalation == FALSE

KillDue == Up /\ child = "running" /\ cancelled /\ now >= cancelAt + StopTimeout

RunnerKill ==
  /\ KillDue
  /\ child' = "dead"
  /\ UNCHANGED <<now, cancelled, cancelAt, agent, closing, termAt>>

HandleClose ==
  /\ ~closing
  /\ closing' = TRUE
  /\ termAt' = now
  /\ agent' = "drain"
  /\ UNCHANGED <<now, child, cancelled, cancelAt>>

\* Drain returns when the runner is done or its context is.
DrainDue == agent = "drain" /\ (child = "dead" \/ now >= termAt + DrainBudget)

DrainReturns ==
  /\ DrainDue
  /\ agent' = "join"
  /\ UNCHANGED <<now, child, cancelled, cancelAt, closing, termAt>>

\* Conn.Close joins readLoop, which may be inside stopChild.
ReturnDue == agent = "join" /\ (cancelled => child = "dead")

AgentReturns ==
  /\ ReturnDue
  /\ agent' = "returned"
  /\ UNCHANGED <<now, child, cancelled, cancelAt, closing, termAt>>

GraceDue == closing /\ Up /\ now >= termAt + Grace

HandleKill ==
  /\ GraceDue
  /\ agent' = "killed"
  /\ UNCHANGED <<now, child, cancelled, cancelAt, closing, termAt>>

Tick ==
  /\ now < MaxTime
  /\ ~KillDue /\ ~DrainDue /\ ~ReturnDue /\ ~GraceDue
  /\ now' = now + 1
  /\ UNCHANGED <<child, cancelled, cancelAt, agent, closing, termAt>>

Next ==
  \/ StopChild \/ ChildExits \/ RunnerKill \/ HandleClose \/ DrainReturns \/ AgentReturns
  \/ HandleKill \/ Tick

Spec == Init /\ [][Next]_vars

-----------------------------------------------------------------------------
(* Properties *)

\* The stop request reached the runner early enough for its deadline to fall
\* within the agent's drain.  With StopTimeout < DrainBudget that is every stop
\* handled before the agent got its SIGTERM.
InTime == cancelled /\ cancelAt + StopTimeout < termAt + DrainBudget

\* The cascade keeps children from being orphaned: whichever way the agent ends,
\* a child that was asked to stop in time is dead by then.
NoOrphan == ~Up /\ InTime => child = "dead"

\* The strengthening that makes it inductive: no deadline is ever overrun, and
\* the agent leaves its drain on time or with the child reaped.
CascadeInv ==
  /\ Up /\ child = "running" /\ cancelled => now <= cancelAt + StopTimeout
  /\ agent # "run" => closing
  /\ agent \in {"join", "returned"} =>
       \/ child = "dead"
       \/ now >= termAt + DrainBudget
  /\ agent = "killed" => child = "dead" \/ ~InTime
  /\ agent = "returned" => child = "dead" \/ ~cancelled
=============================================================================
