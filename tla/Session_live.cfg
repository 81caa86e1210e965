SPECIFICATION FairSpec
CONSTANTS
  s1 = s1
  s2 = s2
  Stoppers = {s1}
  Specs <- Piped
  Mortal = {"host", "agent"}
  Overflow = FALSE
  MaxRequests = 0
PROPERTIES
  StopReturns
  ExitReported
  PersistentAgentLeaves
CHECK_DEADLOCK FALSE
