SPECIFICATION Spec
CONSTANTS
  a = a
  b = b
  x = x
  p = p
  q = q
  Other = other
  Conn = {a, b}
  V6 = {}
  Pid = {p}
  Exe = {"TslGame.exe"}
  ExeOf <- OneExe
  Rounds = 3
  BlockEnabled = TRUE
INVARIANTS
  SparesReconnected
  StopsWithinRound
PROPERTY KeepsPromise
SYMMETRY V4Symmetry
