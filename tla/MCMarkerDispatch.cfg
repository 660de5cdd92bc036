\* Either provider, one queue consumer next to the sweep and a webhook, one fault.
SPECIFICATION FairSpec
CONSTANTS
  Provider = {"vast", "runpod"}
  Consumer = {c}
  Sweep = {s}
  Request = {r}
  MaxCompletions = 1
  MaxFaults = 1
INVARIANTS
  PaidOnce
  ImportFollowsRow
PROPERTIES
  ResultIsNotDropped
  SentIsSettled
CHECK_DEADLOCK FALSE
