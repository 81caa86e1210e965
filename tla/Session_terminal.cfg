SPECIFICATION Spec
CONSTANTS
  s1 = s1
  s2 = s2
  Stoppers = {s1}
  Specs <- PipeOnly
  Mortal = {}
  Overflow = FALSE
  MaxRequests = 0
INVARIANT
  StopAckedMeansTerminal
CHECK_DEADLOCK FALSE
