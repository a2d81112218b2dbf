SPECIFICATION Spec
CONSTANTS
  Device = {d1}
  Compaction = {c1, c2}
  None = None
  PolicyFromStart = TRUE
  LeasesAnyTime = FALSE
  MaxHead = 2
  MaxTime = 1
INVARIANTS TypeOK JournalCompleteAboveFloor BootstrapPath
PROPERTIES  PolicyKeepsJournal
