SPECIFICATION BusSpec
CONSTANTS
  p1 = p1
  Publishers = {watch}
  Subscriptions = {s1}
  Events <- OneEvent
  Filters <- NoFilter
  ChCap = 1
  DropThreshold = 1
INVARIANT
  NoSendOnClosed
CHECK_DEADLOCK FALSE
