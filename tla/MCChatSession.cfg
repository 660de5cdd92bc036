\* A client that sends one message at a time: three background generations and
\* two inline exchanges after one another, statements overlapping freely.
SPECIFICATION SessionSpec
CONSTANTS
  Gen = {g1, g2, g3}
  Inline = {i1, i2}
  MaxActive = 1
  MayDie = TRUE
INVARIANTS
  SessionShowsWork
  SessionShowsOutcome
CHECK_DEADLOCK FALSE
