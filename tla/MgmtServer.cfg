SPECIFICATION MgmtFairSpec
CONSTANTS
  p1 = p1
  Publishers = {watch}
  Subscriptions = {c1}
  Watchers = {c1}
  Clients = {c1}
  Processes = {p1}
  Events <- Lifecycle
  Filters <- AnyFilter
  ChCap = 1
  DropThreshold = 1
  WatchCap = 1
  RingChunks = 2
  MaxChunks = 3
CONSTRAINT CloseEarly
INVARIANTS
  FollowIsFaithful
  CloseNilMeansQuiet
  ShutdownNeverPanics
PROPERTY
  StreamsEndAtShutdown
CHECK_DEADLOCK FALSE
