SPECIFICATION IndexSpec
CONSTANTS
  Worker = {w1}
  Request = {r1}
  MaxContent = 1
  Undo = TRUE
  Restorable = FALSE
  MaxWrites = 3
  MaxSets = 3
  Batch = 0
  Faults = {}
  MaxFaults = 0
INVARIANTS IndexIsCurrent
CHECK_DEADLOCK FALSE
