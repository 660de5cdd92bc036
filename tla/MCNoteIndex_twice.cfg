SPECIFICATION IndexSpec
CONSTANTS
  Worker = {w1, w2}
  Request = {r1}
  MaxContent = 2
  Undo = FALSE
  Restorable = FALSE
  MaxWrites = 3
  MaxSets = 3
  Batch = 0
  Faults = {"stall"}
  MaxFaults = 1
INVARIANTS IndexIsCurrent
CHECK_DEADLOCK FALSE
