---------------------------- MODULE MCCloseLobby ----------------------------
(* Instances of CloseLobby for TLC: the connections a, b (IPv4) and x      *)
(* (IPv6), the game processes p and q, one game executable.                *)
EXTENDS CloseLobby, TLC

CONSTANTS a, b, x, p, q

OneExe == [i \in Pid |-> "TslGame.exe"]
OwnExe == [i \in Pid |-> i]
V4Symmetry == Permutations({a, b})
=============================================================================
