\* One inline exchange in an API process that does not die.
SPECIFICATION SessionSpec
CONSTANTS
  Gen = {g1}
  Inline = {i1}
  MaxActive = 1
  MayDie = FALSE
INVARIANT StuckPointsAtBackground
CHECK_DEADLOCK FALSE
