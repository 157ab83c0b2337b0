----------------------------- MODULE Installing -----------------------------
(***************************************************************************)
(* What the self-update promises, with nothing of how: one version of the  *)
(* tool is installed, and a step only ever replaces it by a newer one.     *)
(***************************************************************************)
EXTENDS Naturals

CONSTANT Release     \* the versions that may ever be published, by number

VARIABLE installed   \* the version on the disk

Init == installed \in Release \cup {0}

Upgrade == installed' \in Release /\ installed' > installed

Spec == Init /\ [][Upgrade]_installed
=============================================================================
