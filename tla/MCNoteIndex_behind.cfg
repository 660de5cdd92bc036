\* A batch of one set, and one of another note that may come before this note's.
SPECIFICATION IndexFairSpec
CONSTANTS
  Worker = {w1}
  Request = {r1}
  MaxContent = 1
  Undo = FALSE
  Restorable = FALSE
  MaxWrites = 2
  MaxSets = 1
  Batch = 1
  Faults = {"qdrant"}
  MaxFaults = 1
PROPERTIES TrashedIsHidden
CHECK_DEADLOCK FALSE
