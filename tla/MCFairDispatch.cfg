\* A user of the heaviest class with two old files against one of the lightest with one,
\* two dispatchers, one slot, one mark a user, one fault; the latter's file is tried twice.
SPECIFICATION FairSpec
CONSTANTS
  User = {"a", "c"}
  File = {1, 2, 3}
  ClassOf <- TwoClass
  Owner <- TwoOwner
  Dispatcher = {d1, d2}
  Slots = 1
  MaxInFlight = 1
  MaxDownstream = 1
  MaxTries = 1
  Retried = {3}
  MaxFaults = 1
INVARIANTS
  InFlightCapped
  Balanced
PROPERTIES
  EventuallyDownloaded
CHECK_DEADLOCK FALSE
