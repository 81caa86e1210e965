SPECIFICATION FairSpec
CONSTANTS
  s1 = s1
  s2 = s2
  Stoppers = {}
  Specs <- PipeOnly
  Mortal = {"host"}
  Overflow = FALSE
  MaxRequests = 0
PROPERTY
  AgentLeavesWithConn
CHECK_DEADLOCK FALSE
