SPECIFICATION Spec
CONSTANTS
  Proc = {1, 2, 3}
  Release = {1, 2, 3}
  Oversize = {3}
  Tries = 2
INVARIANTS
  TypeOK
  Recoverable
  Verified
  OneSwap
PROPERTY NeverDowngrades
CHECK_DEADLOCK FALSE
