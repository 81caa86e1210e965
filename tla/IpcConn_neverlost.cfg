SPECIFICATION FairSpec
CONSTANTS
  HostSenders = {h1}
  AgentSenders = {}
  ReadLoop = rl
  Capacity = 1
  WALCap = 1
  WireCap = 1
  MaxSeq = 3
  Oversize = FALSE
  Closers = {}
  Mortal = {}
PROPERTY
  NeverLost
CHECK_DEADLOCK FALSE
