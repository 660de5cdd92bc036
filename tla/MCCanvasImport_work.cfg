\* One run of one file: reclaims, retries and requeues, two workers, one fault.
SPECIFICATION Spec
CONSTANTS
  File = {f1}
  Worker = {w1, w2}
  None = None
  MaxJobs = 1
  MaxExecutions = 2
  MaxRetries = 2
  Recovery = TRUE
  MaxFaults = 1
SYMMETRY Symmetry
INVARIANT
  StoppedHasNoWork
PROPERTY
  LateWorkersPublishNothing
CHECK_DEADLOCK FALSE
