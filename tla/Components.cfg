SPECIFICATION ComponentsSpec
CONSTANTS
  SizeCap = 7
  MaxSeq = 4
  MaxOpens = 3
  MaxFaults = 2
  StopTimeout = 4
  DrainBudget = 5
  Grace = 6
  MaxTime = 14
  p1 = p1
  p2 = p2
  Publishers = {watch, caller}
  Subscriptions = {s1}
  Events <- BusEvents
  Filters <- BusFilters
  ChCap = 1
  DropThreshold = 2
  PtyReaders = {r1, r2}
  PtyCap = 2
  MaxLive = 2
  MaxDumps = 2
  Intervals = {1, 2}
  Timeouts = {1, 3}
  MissThresholds = {1, 2, 3}
  MaxBeats = 18
  MaxRestartsValues = {0, 1, 3}
  Backoffs <- RestartBackoffs
  MaxAttempts = 5
  Sampled = {p1}
  Threshold <- BreachThreshold
  MaxSamples = 4
  Capacities = {1, 2, 3, 4}
  MaxBytes = 5
  MaxWrites = 3
  FileCounts = {1, 2, 4}
  MaxFileSize = 2
  MaxEntries = 5
  MaxFileFaults = 2
INVARIANTS
  StoredSurvives
  CapHolds
  NoOrphan
  DeliveredOrCounted
  PtyFanOutIsSound
  AlarmIsTimely
  RetriesAreBounded
  ActionsAreDue
  BuffersKeepLatest
  FilesAreSound
CHECK_DEADLOCK FALSE
