SPECIFICATION Spec
CONSTANTS
  a = a
  b = b
  x = x
  p = p
  q = q
  Other = other
  Conn = {a}
  V6 = {}
  Pid = {p}
  Exe = {"TslGame.exe"}
  ExeOf <- OneExe
  Rounds = 2
  BlockEnabled = TRUE
INVARIANT VerificationCatchesFailures
