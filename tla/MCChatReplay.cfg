\* A first run and one rerun of two events each into a buffer of one, so that a token may
\* overflow it; an XREAD of two, one lost connection; every append and read may fail.
SPECIFICATION FairSpec
CONSTANTS
  MaxRuns = 2
  MaxTokens = 2
  MaxPending = 1
  ReadCount = 2
  MaxDrops = 1
INVARIANTS
  EndIsDurable
  NoGaps
  OneRunShown
PROPERTIES
  EventuallyTold
CHECK_DEADLOCK FALSE
