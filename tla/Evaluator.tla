----------------------------- MODULE Evaluator -----------------------------
(***************************************************************************)
(* internal/resource: the Monitor's loop samples the processes one by one  *)
(* and hands every sample to Evaluator.Evaluate, while other goroutines    *)
(* register and unregister limits and stop the monitor.  A limit is set or *)
(* not, a sample is over the limit or not.                                 *)
(***************************************************************************)
EXTENDS Naturals, Sequences

CONSTANTS
  Sampled,     \* ids of PIDSource.ChildPIDs
  Threshold,   \* breach threshold of each kind: 3 for rss, 10 for cpu
  MaxSamples   \* bound on the samples

Kinds == {"rss", "cpu"}

ASSUME EvaluatorAssumption == Threshold \in [Kinds -> Nat \ {0}] /\ MaxSamples \in Nat

VARIABLES
  limits,   \* Evaluator.limits: the kinds that have a limit, where registered
  breaches, \* Evaluator.rssCount and cpuCount
  mon,      \* where Monitor.loop is
  unsampled,\* ids the running tick has still to sample
  fired,    \* actions Evaluate has decided on and not yet called OnAction for
  monStop,  \* where Monitor.Stop is
  samples,  \* history: samples taken
  seen      \* history: what Evaluate made of each kind's samples, since Unregister

evVars == <<limits, breaches, mon, unsampled, fired, monStop, samples, seen>>

EvaluatorInit ==
  /\ limits = [p \in {} |-> {}]
  /\ breaches = [k \in Kinds |-> [p \in Sampled |-> 0]]
  /\ mon = "none" /\ unsampled = {} /\ fired = {} /\ monStop = "none"
  /\ samples = 0
  /\ seen = [k \in Kinds |-> [p \in Sampled |-> <<>>]]

\* The counts of an earlier registration stay.
RegisterLimits(p, kinds) ==
  /\ limits' = [q \in DOMAIN limits \cup {p} |-> IF q = p THEN kinds ELSE limits[q]]
  /\ UNCHANGED <<breaches, mon, unsampled, fired, monStop, samples, seen>>

\* Mutant: the counts stay too.
BugKeepCounts(p) ==
  /\ p \in DOMAIN limits
  /\ limits' = [q \in DOMAIN limits \ {p} |-> limits[q]]
  /\ seen' = [k \in Kinds |-> [seen[k] EXCEPT ![p] = <<>>]]
  /\ UNCHANGED <<breaches, mon, unsampled, fired, monStop, samples>>

Unregister(p) ==
  /\ p \in DOMAIN limits
  /\ limits' = [q \in DOMAIN limits \ {p} |-> limits[q]]
  /\ breaches' = [k \in Kinds |-> [breaches[k] EXCEPT ![p] = 0]]
  /\ seen' = [k \in Kinds |-> [seen[k] EXCEPT ![p] = <<>>]]
  /\ UNCHANGED <<mon, unsampled, fired, monStop, samples>>

StartMonitor ==
  /\ mon = "none"
  /\ mon' = "select"
  /\ UNCHANGED <<limits, breaches, unsampled, fired, monStop, samples, seen>>

\* case <-t.C: the pids of the moment.
MonitorTick ==
  /\ mon = "select"
  /\ mon' = "sampling"
  /\ unsampled' = Sampled
  /\ UNCHANGED <<limits, breaches, fired, monStop, samples, seen>>

\* Collect fails, or there is no pid.
CollectFails(p) ==
  /\ mon = "sampling" /\ fired = {} /\ p \in unsampled
  /\ unsampled' = unsampled \ {p}
  /\ UNCHANGED <<limits, breaches, mon, fired, monStop, samples, seen>>

Sustained(k, n) == n >= Threshold[k]

\* OnSample and Evaluate up to the unlock; over is what exceeds its limit.
Evaluate(p, over) ==
  LET checked == IF p \in DOMAIN limits THEN limits[p] ELSE {}
      count(k) == IF k \in over THEN breaches[k][p] + 1 ELSE 0
      acts == {k \in checked \cap over : Sustained(k, count(k))}
      verdict(k) == IF k \in acts THEN "fired" ELSE IF k \in over THEN "over" ELSE "under"
  IN
  /\ mon = "sampling" /\ fired = {} /\ p \in unsampled /\ samples < MaxSamples
  /\ samples' = samples + 1
  /\ unsampled' = unsampled \ {p}
  /\ breaches' = [k \in Kinds |-> IF k \notin checked THEN breaches[k]
                   ELSE [breaches[k] EXCEPT ![p] = IF k \in acts THEN 0 ELSE count(k)]]
  /\ seen' = [k \in Kinds |-> IF k \notin checked THEN seen[k]
               ELSE [seen[k] EXCEPT ![p] = Append(@, verdict(k))]]
  /\ fired' = {<<p, k>> : k \in acts}
  /\ UNCHANGED <<limits, mon, monStop>>

\* OnAction, outside the lock.
CallOnAction ==
  /\ fired # {}
  /\ fired' = {}
  /\ UNCHANGED <<limits, breaches, mon, unsampled, monStop, samples, seen>>

TickEnds ==
  /\ mon = "sampling" /\ fired = {} /\ unsampled = {}
  /\ mon' = "select"
  /\ UNCHANGED <<limits, breaches, unsampled, fired, monStop, samples, seen>>

\* case <-m.stop
MonitorEnds ==
  /\ mon = "select" /\ monStop # "none"
  /\ mon' = "ended"
  /\ UNCHANGED <<limits, breaches, unsampled, fired, monStop, samples, seen>>

CloseStop ==
  /\ mon # "none" /\ monStop = "none"
  /\ monStop' = "wait"
  /\ UNCHANGED <<limits, breaches, mon, unsampled, fired, samples, seen>>

LoopJoined == monStop = "wait" /\ mon = "ended"

StopMonitorReturns ==
  /\ LoopJoined
  /\ monStop' = "returned"
  /\ UNCHANGED <<limits, breaches, mon, unsampled, fired, samples, seen>>

EvaluatorNext ==
  \/ \E p \in Sampled :
       \/ \E kinds \in SUBSET Kinds : RegisterLimits(p, kinds) \/ Evaluate(p, kinds)
       \/ Unregister(p) \/ CollectFails(p)
  \/ StartMonitor \/ MonitorTick \/ CallOnAction \/ TickEnds \/ MonitorEnds
  \/ CloseStop \/ StopMonitorReturns

EvaluatorSpec == EvaluatorInit /\ [][EvaluatorNext]_evVars

-----------------------------------------------------------------------------
\* An action needs a sustained breach: the samples of that kind that were held
\* against a limit end with as many breaches as the threshold asks, none of
\* them from before an UnregisterLimits or spent on an earlier action.  (A second
\* RegisterLimits without one goes on with the breaches counted so far.)
ActionIsSustained ==
  \A k \in Kinds, p \in Sampled : \A i \in DOMAIN seen[k][p] :
    seen[k][p][i] = "fired" =>
      /\ i >= Threshold[k]
      /\ \A j \in i - Threshold[k] + 1 .. i - 1 : seen[k][p][j] = "over"

\* A sustained breach is acted on: nowhere do threshold many breaches stand in
\* a row without an action.
BreachIsActedOn ==
  \A k \in Kinds, p \in Sampled : \A i \in DOMAIN seen[k][p] :
    i >= Threshold[k] => \E j \in i - Threshold[k] + 1 .. i : seen[k][p][j] # "over"

\* When Stop has returned no sample and no action is under way or to come.
QuietAfterStop == monStop = "returned" => mon = "ended" /\ fired = {}

\* OnAction is called for the sustained breaches of a registration, for each of
\* them, and never after Stop.
ActionsAreDue == ActionIsSustained /\ BreachIsActedOn /\ QuietAfterStop
=============================================================================
