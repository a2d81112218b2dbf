SPECIFICATION Spec
CONSTANTS
  Op = {o1}
  Entity = {e1}
  None = None
  MaxBase = 1
  BatchLimit = 1
  PassLimit = 1
  Shapes = {"update"}
  Dependencies = FALSE
  o1 = o1
  e1 = e1
SYMMETRY Symmetry
CHECK_DEADLOCK FALSE
INVARIANT TransmittedOnce
