------------------------------ MODULE Closing -------------------------------
(***************************************************************************)
(* What a request to close the lobby connections promises its user, with   *)
(* nothing of tables, reads and errors: the connections to close are fixed *)
(* once, a few attempts delete only those of them that are still left, one *)
(* that was seen to be gone is never touched again, whoever has opened it  *)
(* anew, and the report does not deny what is left.                        *)
(***************************************************************************)
EXTENDS Naturals

CONSTANTS
  Conn,
  Limit  \* attempts of a request

VARIABLES
  phase,     \* "idle", "looking", "closing" or "done"
  left,      \* connections still to be closed
  due,       \* those of them the attempt under way has yet to delete
  attempts,  \* attempts begun
  report     \* the title of the balloon, "silent" for none

vars == <<phase, left, due, attempts, report>>

Init ==
  /\ phase = "idle" /\ report = "none"
  /\ left = {} /\ due = {} /\ attempts = 0

\* Nothing is left of an earlier request.
Clear == left' = {} /\ due' = {} /\ attempts' = 0

Begin ==
  /\ phase \in {"idle", "done"}
  /\ phase' = "looking" /\ report' = "none"
  /\ Clear

\* A request that ends before any connection was listed.
Refuse ==
  /\ phase \in {"idle", "done", "looking"}
  /\ phase' = "done" /\ report' \in {"Nothing to close", "Close failed"}
  /\ Clear

Aim ==
  /\ phase = "looking"
  /\ phase' = "closing" /\ left' \in (SUBSET Conn) \ {{}}
  /\ UNCHANGED <<due, attempts, report>>

Attempt ==
  /\ phase = "closing" /\ due = {} /\ attempts < Limit
  /\ attempts' = attempts + 1
  /\ due' \in SUBSET left
  /\ UNCHANGED <<phase, left, report>>

Delete ==
  /\ \E c \in due : due' = due \ {c}
  /\ UNCHANGED <<phase, left, attempts, report>>

\* A look at what an attempt has done.
Confirm ==
  /\ phase = "closing" /\ due = {}
  /\ left' \in SUBSET left
  /\ UNCHANGED <<phase, due, attempts, report>>

\* The end may come with a last confirmation.  "Nothing to close" denies that
\* anything is left.
Finish ==
  /\ phase = "closing" /\ due = {}
  /\ phase' = "done" /\ left' \in SUBSET left
  /\ report' \in {"Sockets closed", "Close failed", "silent", "Nothing to close"}
  /\ report' = "Nothing to close" => left' = {}
  /\ attempts' = 0 /\ UNCHANGED due

Next == Begin \/ Refuse \/ Aim \/ Attempt \/ Delete \/ Confirm \/ Finish

Spec == Init /\ [][Next]_vars
=============================================================================
