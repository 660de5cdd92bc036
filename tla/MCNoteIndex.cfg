\* Two reindex workers and one request; a body that changes and changes back; each kind of
\* fault can happen, one of them does.
SPECIFICATION IndexFairSpec
CONSTANTS
  Worker = {w1, w2}
  Request = {r1}
  MaxContent = 1
  Undo = TRUE
  Restorable = TRUE
  MaxWrites = 3
  MaxSets = 3
  Batch = 2
  Faults = {"qdrant", "database", "embedding", "queue", "stall", "death"}
  MaxFaults = 1
INVARIANTS
  VectorsAreAccountedFor
PROPERTIES
  FencedFromTrash
  ReachedIsHidden
  GoneLeavesNothing
CHECK_DEADLOCK FALSE
