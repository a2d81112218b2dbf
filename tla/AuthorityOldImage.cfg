SPECIFICATION Spec
CONSTANTS
  Process = {p}
  Client = {c}
  None = None
  OldImages = TRUE
  ServeUnpersisted = FALSE
  Anchored = TRUE
  MaxTransitions = 3
  MaxEvents = 2
  MaxHandlers = 1
  MaxRestores = 1
CHECK_DEADLOCK FALSE
INVARIANTS
  EpochNamesOneHistory
