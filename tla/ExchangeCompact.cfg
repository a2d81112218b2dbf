SPECIFICATION Spec
CONSTANTS
  Client = {c1, c2}
  Op = {o1, o2}
  Entity = {e1, e2}
  Handler = {h1, h2}
  None = None
  Policy = {"manual"}
  Dependencies = FALSE
  BatchLimit = 1
  PageLimit = 2
  SnapshotPages = 2
  MaxFaults = 1
  MaxSnapshots = 1
  MaxFloor = 2
  CompactDuringExchange = FALSE
  HostDriven = FALSE
INVARIANTS
  CursorSafety
PROPERTIES
  CursorNeverRegresses
SYMMETRY Symmetry
