SPECIFICATION PtySpec
CONSTANTS
  PtyReaders = {r1}
  PtyCap = 2
  MaxLive = 1
  MaxDumps = 1
INVARIANT
  DumpComesFirst
CHECK_DEADLOCK FALSE
