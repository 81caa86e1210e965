----------------------------- MODULE Heartbeat -----------------------------
(***************************************************************************)
(* internal/controller/heartbeat.go on a clock of whole units.  The loop   *)
(* pings on every tick, waits for the timeout and looks at the age of the  *)
(* last pong.  The ticker's channel holds one tick and drops the rest.     *)
(* Pongs come when they like.  Timers are acted on before the clock moves. *)
(***************************************************************************)
EXTENDS Naturals

CONSTANTS
  Intervals,       \* values of HeartbeatOptions.Interval
  Timeouts,        \* ... of Timeout
  MissThresholds,  \* ... of MissThreshold
  MaxBeats         \* bound: how long the clock runs

ASSUME HeartbeatAssumption ==
  /\ Intervals \subseteq Nat \ {0} /\ Timeouts \subseteq Nat \ {0}
  /\ MissThresholds \subseteq Nat \ {0} /\ MaxBeats \in Nat

VARIABLES
  hbOpts,    \* Heartbeat.opts
  hb,        \* where the loop is
  clock,
  pending,   \* a tick waits in the ticker's channel
  deadline,  \* when the timer of the running ping fires
  misses,    \* the loop's count
  lastPong,  \* Heartbeat.lastPong
  onMiss     \* the latest OnMiss call: when, and how long after the last pong

hbVars == <<hbOpts, hb, clock, pending, deadline, misses, lastPong, onMiss>>

HeartbeatInit ==
  /\ hbOpts = [interval |-> 1, timeout |-> 1, threshold |-> 1]
  /\ hb = "none" /\ clock = 0 /\ pending = FALSE /\ deadline = 0
  /\ misses = 0 /\ lastPong = 0 /\ onMiss = [at |-> 0, silence |-> 0]

\* NewHeartbeat and Start.  The defaults for options left at zero are among
\* the values.
StartHeartbeat(i, t, m) ==
  /\ hb = "none"
  /\ hb' = "select"
  /\ hbOpts' = [interval |-> i, timeout |-> t, threshold |-> m]
  /\ UNCHANGED <<clock, pending, deadline, misses, lastPong, onMiss>>

RecordPong ==
  /\ hb \in {"select", "wait"} /\ lastPong < clock
  /\ lastPong' = clock
  /\ UNCHANGED <<hbOpts, hb, clock, pending, deadline, misses, onMiss>>

\* case <-ticker.C: the ping is sent, whatever comes of it.
TickArrives ==
  /\ hb = "select" /\ pending
  /\ hb' = "wait"
  /\ pending' = FALSE
  /\ deadline' = clock + hbOpts.timeout
  /\ UNCHANGED <<hbOpts, clock, misses, lastPong, onMiss>>

Window == hbOpts.interval + hbOpts.timeout

\* Mutant: a pong that came in time does not end the row of misses.
BugNoReset(m, late) == IF late THEN m + 1 ELSE m

\* misses after a look at the last pong.
Misses(m, late) == IF late THEN m + 1 ELSE 0

Alarm(m) == m >= hbOpts.threshold

\* Whether the look finds the last pong too old.  The timers of the code fire
\* a little after their time, so that an age of just the window may be more.
TooOld == {late \in BOOLEAN : /\ clock - lastPong > Window => late
                              /\ clock - lastPong < Window => ~late}

\* case <-deadline.C
CheckPong ==
  /\ hb = "wait" /\ clock = deadline
  /\ hb' = "select"
  /\ \E late \in TooOld :
       LET m == Misses(misses, late) IN
       IF Alarm(m)
         THEN misses' = 0 /\ onMiss' = [at |-> clock, silence |-> clock - lastPong]
         ELSE misses' = m /\ UNCHANGED onMiss
  /\ UNCHANGED <<hbOpts, clock, pending, deadline, lastPong>>

\* case <-ctx.Done(), in either select.
HeartbeatCancelled ==
  /\ hb \in {"select", "wait"}
  /\ hb' = "ended"
  /\ UNCHANGED <<hbOpts, clock, pending, deadline, misses, lastPong, onMiss>>

\* The clock and the ticker.
ClockTicks ==
  /\ hb \in {"select", "wait"} /\ clock < MaxBeats
  /\ ~(hb = "select" /\ pending) /\ ~(hb = "wait" /\ clock = deadline)
  /\ clock' = clock + 1
  /\ pending' = (pending \/ (clock + 1) % hbOpts.interval = 0)
  /\ UNCHANGED <<hbOpts, hb, deadline, misses, lastPong, onMiss>>

HeartbeatNext ==
  \/ \E i \in Intervals, t \in Timeouts, m \in MissThresholds : StartHeartbeat(i, t, m)
  \/ RecordPong \/ TickArrives \/ CheckPong \/ HeartbeatCancelled \/ ClockTicks

HeartbeatSpec == HeartbeatInit /\ [][HeartbeatNext]_hbVars

-----------------------------------------------------------------------------
\* The time from one look to the next: a tick that came during the wait is
\* taken at once.
Period == IF hbOpts.interval >= hbOpts.timeout THEN hbOpts.interval ELSE hbOpts.timeout

\* No false alarm: OnMiss is called only after a silence that covers the
\* window and every further look that counted as a miss.
AlarmMeansSilence ==
  onMiss.at > 0 => onMiss.silence >= Window + (hbOpts.threshold - 1) * Period

\* A dead peer is noticed in time: a silence does not outlast the window, one
\* period to the next look and threshold - 1 more without OnMiss.
SilenceIsNoticed ==
  (hb \in {"select", "wait"} /\ clock - lastPong > Window + hbOpts.threshold * Period) =>
    onMiss.at > lastPong

\* OnMiss means a dead peer and a dead peer means OnMiss, within the times that
\* interval, timeout and threshold give.
AlarmIsTimely == AlarmMeansSilence /\ SilenceIsNoticed
=============================================================================
