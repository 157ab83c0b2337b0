SPECIFICATION SessionFairSpec
CONSTANTS
  Tool = {"monitor"}
  Mon = "monitor"
  TrayEnabled = TRUE
  MaxInput = 2
  MaxPaths = 2
INVARIANTS
  TypeOK
  WindowIsComplete
  NothingLeft
  BlocksOnlyInRuns
PROPERTIES
  BlockEnds
  CancelUnblocks
CHECK_DEADLOCK FALSE
