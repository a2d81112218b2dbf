SPECIFICATION Spec
CONSTANTS
  Client = {c1, c2}
  Op = {o1, o2}
  Entity = {e1, e2}
  Handler = {h1}
  None = None
  Policy = {"manual"}
  Dependencies = FALSE
  BatchLimit = 1
  PageLimit = 1
  SnapshotPages = 1
  MaxFaults = 0
  MaxSnapshots = 1
  MaxFloor = 1
  CompactDuringExchange = TRUE
  HostDriven = FALSE
INVARIANT CursorSafety
SYMMETRY Symmetry
