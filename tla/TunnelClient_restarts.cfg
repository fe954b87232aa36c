SPECIFICATION FairSpec
CONSTANTS
  Node = {n1}
  MaxRuns = 3
  Slow = FALSE
  MaxEdits = 1
  MaxFaults = 1
  None = None
INVARIANTS
  OneRun
PROPERTIES
  StopCloses
  ClientFollows
CHECK_DEADLOCK FALSE
