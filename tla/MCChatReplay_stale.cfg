\* The first run is still writing when the second has reset the replay.
SPECIFICATION Spec
CONSTANTS
  MaxRuns = 2
  MaxTokens = 2
  MaxPending = 2
  ReadCount = 2
  MaxDrops = 0
INVARIANTS
  ResetDropsOldRun
CHECK_DEADLOCK FALSE
