\* The completion check of one file overtaken by the discovery of another.
SPECIFICATION Spec
CONSTANTS
  File = {f1, f2}
  Worker = {w1, w2}
  None = None
  MaxJobs = 1
  MaxExecutions = 1
  MaxRetries = 1
  Recovery = TRUE
  MaxFaults = 1
SYMMETRY Symmetry
INVARIANTS
  CompleteHasNoWork
CHECK_DEADLOCK FALSE
