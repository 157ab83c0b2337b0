SPECIFICATION LaunchFairSpec
CONSTANTS
  Proc = {1, 2, 3}
  Release = {1, 2, 3}
  Oversize = {3}
  Tries = 1
  MaxStarts = 1
  Requests <- Every
INVARIANTS
  LaunchTypeOK
  OneHeir
PROPERTIES
  RequestServed
  ChainsEnd
CHECK_DEADLOCK FALSE
