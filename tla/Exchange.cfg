SPECIFICATION Spec
CONSTANTS
  Client = {c1, c2}
  Op = {o1, o2}
  Entity = {e1}
  Handler = {h1, h2}
  None = None
  Policy = {"merge"}
  Dependencies = TRUE
  BatchLimit = 2
  PageLimit = 2
  SnapshotPages = 1
  MaxFaults = 1
  MaxSnapshots = 0
  MaxFloor = 0
  CompactDuringExchange = FALSE
  HostDriven = FALSE
INVARIANTS
  TypeOK
  OperationOnce
  VersionsConsecutive
  AcknowledgedCommitted
  DependenciesFirst

  
SYMMETRY Symmetry
