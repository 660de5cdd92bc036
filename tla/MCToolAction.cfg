\* One proposal at a time, two requests that decide it, one connection that may be replaced.
SPECIFICATION FairSpec
CONSTANTS
  Proposer = {p1}
  Decider = {d1, d2}
  Connection = {c1, c2}
  None = None
  MaxActions = 1
  MaxProposals = 1
  MaxVersion = 1
INVARIANTS
  AtMostOnce
  WritesWhereShown
PROPERTIES
  RevokedStaysUndecided
  EventuallyCleared
  ImplementsApproval
CHECK_DEADLOCK FALSE
