SPECIFICATION FairSpec
CONSTANTS
  a = a
  b = b
  x = x
  p = p
  q = q
  Other = other
  Conn = {a, x}
  V6 = {x}
  Pid = {p}
  Exe = {"TslGame.exe"}
  ExeOf <- OneExe
  Rounds = 2
  BlockEnabled = TRUE
INVARIANTS
  TypeOK
  SuccessIsReal
  BlockIsLastResort
  BlockedMeansAll
  NothingToCloseIsTrue
PROPERTIES
  CallReturns
  CallRunsOut
