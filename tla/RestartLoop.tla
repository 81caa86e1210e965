---------------------------- MODULE RestartLoop ----------------------------
(***************************************************************************)
(* internal/supervise/restart_loop.go with the backoff of restart.go: Run  *)
(* calls Starter.Start until it succeeds, the policy or MaxRestarts ends   *)
(* it, or the context is cancelled, which may happen at any step.          *)
(***************************************************************************)
EXTENDS Naturals, Sequences

CONSTANTS
  MaxRestartsValues, \* values of RestartLoopOptions.MaxRestarts, 0 for no limit
  Backoffs,          \* the ExponentialBackoffs it may be given: fields initial and max in
                     \* seconds, multiplier in whole numbers, jitter in tenths
  MaxAttempts        \* bound on the calls of Start

\* Nothing relates the fields of a backoff to one another.
ASSUME RestartAssumption ==
  /\ MaxRestartsValues \subseteq Nat /\ MaxAttempts \in Nat
  /\ Backoffs \subseteq [initial : Nat, max : Nat, multiplier : Nat, jitter : Nat]

VARIABLES
  rlOpts,    \* RestartLoop.opts
  rl,        \* where Run is
  rlDone,    \* the context is cancelled
  attempts,  \* Run's count of failures
  power,     \* math.Pow(Multiplier, n) for the n of the next call of Next
  slept,     \* the delays Run has waited for, in order
  begun,     \* history: calls of Start
  begunDone, \* history: those begun after the cancellation
  rlResult   \* what Run returned

rlVars == <<rlOpts, rl, rlDone, attempts, power, slept, begun, begunDone, rlResult>>

\* What NewRestartLoop takes when it is given none.
DefaultBackoff == [initial |-> 0, max |-> 0, multiplier |-> 0, jitter |-> 0]

RestartInit ==
  /\ rlOpts = [policy |-> "Never", max |-> 0, backoff |-> DefaultBackoff]
  /\ rl = "none" /\ rlDone = FALSE /\ attempts = 0 /\ power = 1 /\ slept = <<>>
  /\ begun = 0 /\ begunDone = 0 /\ rlResult = "none"

NewRestartLoop(p, m, b) ==
  /\ rl = "none"
  /\ rl' = "check"
  /\ rlOpts' = [policy |-> p, max |-> m, backoff |-> b]
  /\ UNCHANGED <<rlDone, attempts, power, slept, begun, begunDone, rlResult>>

CancelRun ==
  /\ rl \notin {"none", "returned"} /\ ~rlDone
  /\ rlDone' = TRUE
  /\ UNCHANGED <<rlOpts, rl, attempts, power, slept, begun, begunDone, rlResult>>

RunReturns(r) == rl' = "returned" /\ rlResult' = r

\* ctx.Err() at the top of the loop; lastErr is set after the first failure.
CheckContext ==
  /\ rl = "check"
  /\ IF rlDone THEN RunReturns(IF begun = 0 THEN "ctx" ELSE "lastErr")
     ELSE rl' = "start" /\ UNCHANGED rlResult
  /\ UNCHANGED <<rlOpts, rlDone, attempts, power, slept, begun, begunDone>>

CallStart ==
  /\ rl = "start" /\ begun < MaxAttempts
  /\ begun' = begun + 1
  /\ begunDone' = IF rlDone THEN begunDone + 1 ELSE begunDone
  /\ rl' = "starting"
  /\ UNCHANGED <<rlOpts, rlDone, attempts, power, slept, rlResult>>

StartSucceeds ==
  /\ rl = "starting"
  /\ RunReturns("nil")
  /\ UNCHANGED <<rlOpts, rlDone, attempts, power, slept, begun, begunDone>>

\* Mutant: the attempt is counted after the comparison.
BugExhaustedLate(n) == rlOpts.max > 0 /\ n - 1 > rlOpts.max

Exhausted(n) == rlOpts.max > 0 /\ n > rlOpts.max

StartFails ==
  /\ rl = "starting"
  /\ IF rlOpts.policy = "Never"
       THEN RunReturns("lastErr") /\ UNCHANGED attempts
       ELSE /\ attempts' = attempts + 1
            /\ IF Exhausted(attempts + 1) THEN RunReturns("exhausted")
               ELSE rl' = "backoff" /\ UNCHANGED rlResult
  /\ UNCHANGED <<rlOpts, rlDone, power, slept, begun, begunDone>>

\* ExponentialBackoff's fields, where zero and less stand for a default.
InitialDelay == IF rlOpts.backoff.initial = 0 THEN 1 ELSE rlOpts.backoff.initial
MaxDelay == IF rlOpts.backoff.max = 0 THEN 60 ELSE rlOpts.backoff.max
Multiplier == IF rlOpts.backoff.multiplier <= 1 THEN 2 ELSE rlOpts.backoff.multiplier
Jitter == rlOpts.backoff.jitter

Clamped(d) == IF d > MaxDelay THEN MaxDelay ELSE d

\* d moved by less than the jitter's share of it either way, in whole seconds,
\* and never below zero.  The jitter comes after the cut at Max.
Jittered(d) ==
  {w \in 0 .. d * (10 + Jitter) :
     w = d \/ (10 * w < d * (10 + Jitter) /\ 10 * (w + 1) + d * Jitter > d * 10)}

\* ExponentialBackoff.Next(attempts - 1)
NextDelay == Jittered(Clamped(InitialDelay * power))

TimerFires ==
  /\ rl = "backoff"
  /\ \E w \in NextDelay : slept' = Append(slept, w)
  /\ power' = power * Multiplier
  /\ rl' = "check"
  /\ UNCHANGED <<rlOpts, rlDone, attempts, begun, begunDone, rlResult>>

BackoffCancelled ==
  /\ rl = "backoff" /\ rlDone
  /\ RunReturns("ctx")
  /\ UNCHANGED <<rlOpts, rlDone, attempts, power, slept, begun, begunDone>>

RestartNext ==
  \/ \E p \in {"Never", "OnFailure", "Always"}, m \in MaxRestartsValues, b \in Backoffs :
       NewRestartLoop(p, m, b)
  \/ CancelRun \/ CheckContext \/ CallStart \/ StartSucceeds \/ StartFails
  \/ TimerFires \/ BackoffCancelled

RestartSpec == RestartInit /\ [][RestartNext]_rlVars

-----------------------------------------------------------------------------
\* A cancelled Run begins at most one more attempt, the one whose look at the
\* context came just before, though timer and cancellation may be ready
\* together.
CancelStopsStarts == begunDone <= 1

\* MaxRestarts is the number of attempts after the first, and giving up means
\* that all of them were made.
RestartsCounted ==
  /\ rlOpts.max > 0 => begun <= rlOpts.max + 1
  /\ rlResult = "exhausted" => begun = rlOpts.max + 1
  /\ rlOpts.policy = "Never" => begun <= 1

\* There is a wait between any two attempts.  It exceeds Max by no more than
\* the jitter's share, since the jitter is added after the cut, and without
\* jitter the waits start at Initial, or at Max where that is less, and never
\* shrink.
BackoffGrows ==
  /\ begun > 1 => Len(slept) >= begun - 1
  /\ \A i \in DOMAIN slept : 10 * slept[i] <= MaxDelay * (10 + Jitter)
  /\ Jitter = 0 =>
       /\ slept # <<>> => slept[1] = Clamped(InitialDelay)
       /\ \A i, j \in DOMAIN slept : i < j => slept[i] <= slept[j]

\* Run keeps to its options: no more attempts than MaxRestarts and the context
\* allow, spaced by the backoff.
RetriesAreBounded == CancelStopsStarts /\ RestartsCounted /\ BackoffGrows
=============================================================================
