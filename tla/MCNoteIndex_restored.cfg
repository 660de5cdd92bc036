SPECIFICATION IndexSpec
CONSTANTS
  Worker = {w1}
  Request = {r1, r2}
  MaxContent = 1
  Undo = FALSE
  Restorable = TRUE
  MaxWrites = 3
  MaxSets = 3
  Batch = 0
  Faults = {}
  MaxFaults = 0
INVARIANTS RestoredIsSearched
CHECK_DEADLOCK FALSE
