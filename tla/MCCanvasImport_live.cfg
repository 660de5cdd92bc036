\* Two runs of one file, stopped, replaced and retried, by one worker that may always die.
SPECIFICATION FairSpec
CONSTANTS
  File = {f1}
  Worker = {w1}
  None = None
  MaxJobs = 2
  MaxExecutions = 1
  MaxRetries = 1
  Recovery = TRUE
  MaxFaults = 1
PROPERTIES
  EventuallyOver
CHECK_DEADLOCK FALSE
