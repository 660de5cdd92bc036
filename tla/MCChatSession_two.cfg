\* Two background generations of one session at once, no failures of any kind.
SPECIFICATION SessionSpec
CONSTANTS
  Gen = {g1, g2}
  Inline = {}
  MaxActive = 2
  MayDie = FALSE
INVARIANT SettledWithSession
CHECK_DEADLOCK FALSE
