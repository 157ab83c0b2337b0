SPECIFICATION LaunchSpec
CONSTANTS
  Proc = {1, 2}
  Release = {1, 2}
  Oversize = {}
  Tries = 1
  MaxStarts = 1
  Requests <- Mixed
INVARIANT SkipsRecheck
CHECK_DEADLOCK FALSE
