SPECIFICATION Spec
CONSTANTS
  Process = {p, q}
  Client = {c}
  None = None
  OldImages = FALSE
  ServeUnpersisted = FALSE
  Anchored = TRUE
  MaxTransitions = 3
  MaxEvents = 2
  MaxHandlers = 1
  MaxRestores = 1
SYMMETRY Symmetry
CHECK_DEADLOCK FALSE
INVARIANTS
  TypeOK
  EpochNamesOneHistory
  
  CommitsVerified
PROPERTIES
  
  TransitionsFenced
