SPECIFICATION FairSpec
CONSTANTS
  h1 = h1
  h2 = h2
  HostSenders = {h1, h2}
  AgentSenders = {}
  ReadLoop = rl
  Capacity = 1
  WALCap = 1
  WireCap = 1
  MaxSeq = 2
  Oversize = TRUE
  Closers = {"host"}
  Mortal = {"agent"}
INVARIANTS
  TypeOK
  NoFalseDuplicate
  AcceptedIsSomewhere
  AcksAreSound
  DisconnectIsRemote
PROPERTIES
  ImplementsChannel
  LoopsEnd
  WaitersReleased
  QueuedIsReceived
CONSTRAINT
  SecondSender
CHECK_DEADLOCK FALSE
