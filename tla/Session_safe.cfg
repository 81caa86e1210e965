SPECIFICATION Spec
CONSTANTS
  s1 = s1
  s2 = s2
  Stoppers = {s1, s2}
  Specs <- AllSpecs
  Mortal = {"host", "agent"}
  Overflow = TRUE
  MaxRequests = 1
INVARIANTS
  StopAckedMeansOver
  TerminalMeansDead
  NoResurrection
  PersistentOutlives
CONSTRAINT
  SecondStop
CHECK_DEADLOCK FALSE
