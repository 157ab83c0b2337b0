SPECIFICATION Spec
CONSTANTS
  a = a
  b = b
  x = x
  p = p
  q = q
  Other = other
  Conn = {x}
  V6 = {x}
  Pid = {p}
  Exe = {"TslGame.exe"}
  ExeOf <- OneExe
  Rounds = 2
  BlockEnabled = TRUE
INVARIANT CancelledRunIsSilent
