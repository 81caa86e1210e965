SPECIFICATION ManagerFairSpec
CONSTANTS
  p1 = p1
  p2 = p2
  Ids = {p1, p2}
  MaxStarts = 1
INVARIANTS
  EventsAreTrue
  ShutdownReleasesAll
PROPERTIES
  NoEventAfterShutdown
  EndIsAnnounced
  ShutdownReturns
CONSTRAINT
  SmallManager
CHECK_DEADLOCK FALSE
