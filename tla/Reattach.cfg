SPECIFICATION ReattachFairSpec
CONSTANTS
  h1 = h1
  h2 = h2
  b = b
  Boot = b
  Hosts = {h1, h2}
  MaxOut = 3
  RingCap = 2
  OutboxCap = 1
INVARIANTS
  OutputIsSeamless
PROPERTIES
  DeadVerdictIsTrue
  NoTakeover
  BacklogIsServed
  EndIsNoticed
CONSTRAINT
  InTurn
CHECK_DEADLOCK FALSE
