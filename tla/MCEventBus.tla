---------------------------- MODULE MCEventBus ----------------------------
(* The bus by itself: a publisher and a subscriber that comes and goes.     *)
EXTENDS EventBus

CONSTANTS p1

OneEvent == {[id |-> p1, type |-> "started"]}
NoFilter == {AnyEvent}
=============================================================================
