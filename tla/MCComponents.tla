---------------------------- MODULE MCComponents ----------------------------
(* The components that share no state, side by side.  One of them, chosen at *)
(* the start, moves: the state space is the sum of theirs.  StopCascade is   *)
(* in half seconds: StopTimeout 2 s, DrainBudget 2.5 s, Grace 3 s.           *)
EXTENDS Wal, StopCascade, EventBus, PtySubs, Heartbeat, RestartLoop, Evaluator, Buffers, Rotator

CONSTANTS p1, p2

VARIABLE focus

\* Events of two processes; a subscriber with and without a filter.
BusEvents == [id : {p1, p2}, type : {"started", "stopped"}]
BusFilters == {AnyEvent, [types |-> {"started"}, ids |-> {}]}

BreachThreshold == [rss |-> 2, cpu |-> 3]

\* Backoffs: the default, one whose delays reach Max, one above its Max from the
\* start, and one with jitter.
RestartBackoffs ==
  {DefaultBackoff,
   [initial |-> 1, max |-> 5, multiplier |-> 2, jitter |-> 0],
   [initial |-> 4, max |-> 3, multiplier |-> 3, jitter |-> 0],
   [initial |-> 1, max |-> 3, multiplier |-> 3, jitter |-> 5]}

ComponentsInit ==
  /\ focus \in {"wal", "cascade", "bus", "pty", "heartbeat", "restart", "evaluator", "buffers", "rotator"}
  /\ WalInit /\ Init /\ New /\ PtyInit /\ HeartbeatInit /\ RestartInit /\ EvaluatorInit
  /\ BuffersInit /\ RotatorInit

ComponentsNext ==
  /\ UNCHANGED focus
  /\ IF focus = "wal" THEN WalNext ELSE UNCHANGED walVars
  /\ IF focus = "cascade" THEN Next ELSE UNCHANGED vars
  /\ IF focus = "bus" THEN BusNext ELSE UNCHANGED busVars
  /\ IF focus = "pty" THEN PtyNext ELSE UNCHANGED ptyVars
  /\ IF focus = "heartbeat" THEN HeartbeatNext ELSE UNCHANGED hbVars
  /\ IF focus = "restart" THEN RestartNext ELSE UNCHANGED rlVars
  /\ IF focus = "evaluator" THEN EvaluatorNext ELSE UNCHANGED evVars
  /\ IF focus = "buffers" THEN BuffersNext ELSE UNCHANGED bufVars
  /\ IF focus = "rotator" THEN RotatorNext ELSE UNCHANGED rotVars

ComponentsSpec ==
  /\ ComponentsInit
  /\ [][ComponentsNext]_<<walVars, vars, busVars, ptyVars, hbVars, rlVars, evVars, bufVars, rotVars, focus>>
=============================================================================
