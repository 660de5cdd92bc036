\* One generation, two job slots, two deliveries per job, one fault: a run outlives its
\* lease, or dies, or its settling statement commits unseen, while another takes over.
SPECIFICATION FairSpec
CONSTANTS
  Gen = {g1}
  Worker = {w1, w2}
  MaxAttempts = 2
  MaxFaults = 1
INVARIANTS
  AnswerFromLastRun
  StopOutlivesRuns
PROPERTIES
  NoRetryAfterOutput
  ImplementsFairOutcome
CHECK_DEADLOCK FALSE
