SPECIFICATION Spec
CONSTANTS
  Op = {o1, o2}
  Entity = {e1, e2}
  None = None
  MaxBase = 1
  BatchLimit = 2
  PassLimit = 2
  Shapes = {"update"}
  Dependencies = TRUE
  o1 = o1
  o2 = o2
  e1 = e1
  e2 = e2
SYMMETRY Symmetry
CHECK_DEADLOCK FALSE
INVARIANT TypeOK
INVARIANT SealedUnchanged
INVARIANT DeliveredKept
 
 
