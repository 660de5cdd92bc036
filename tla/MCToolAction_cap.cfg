\* A closed account with nothing left to expire has no next step.
CHECK_DEADLOCK FALSE
SPECIFICATION Spec
CONSTANTS
  Proposer = {p1}
  Decider = {d1}
  Connection = {c1}
  None = None
  MaxActions = 1
  MaxProposals = 2
  MaxVersion = 1
PROPERTY RefusedForPending
