SPECIFICATION FairSpec
CONSTANTS
  TrayEnabled = TRUE
  MaxInput = 3
INVARIANTS
  TypeOK
  GuardNeverBites
  RunsNeedTriggers
  ExitRemovesIcon
  CancelReleasesHotkey
PROPERTIES
  ServesAsPromised
  TriggerServed
  CancelStops
  ExitStops
CHECK_DEADLOCK FALSE
