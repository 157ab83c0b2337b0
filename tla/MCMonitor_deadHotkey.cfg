SPECIFICATION FairSpec
CONSTANTS
  TrayEnabled = FALSE
  MaxInput = 2
PROPERTY ListenSends
CHECK_DEADLOCK FALSE
