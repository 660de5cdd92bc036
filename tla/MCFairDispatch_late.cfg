\* One user, more files than the caps, two dispatchers, a mark that is taken back early.
SPECIFICATION DispatchSpec
CONSTANTS
  User = {"a"}
  File = {1, 2, 3}
  ClassOf <- OneClass
  Owner <- OneOwner
  Dispatcher = {d1, d2}
  Slots = 2
  MaxInFlight = 2
  MaxDownstream = 2
  MaxTries = 1
  Retried = {1, 2, 3}
  MaxFaults = 1
SYMMETRY Symmetry
INVARIANTS
  DownloadsCapped
CHECK_DEADLOCK FALSE
