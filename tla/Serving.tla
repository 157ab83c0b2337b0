------------------------------- MODULE Serving -------------------------------
(***************************************************************************)
(* What monitor mode promises its user, without the how.  Requests wait to *)
(* be served one at a time, and a request is dropped only while another one *)
(* goes on waiting, so that some run starts after each of them.  The       *)
(* hotkey and the icon are taken once and given back: both ends of the     *)
(* monitor have given back what they answer for.                           *)
(***************************************************************************)
EXTENDS Naturals

VARIABLES
  asked,    \* requests that wait
  serving,  \* a run is in progress
  hotkey,   \* "new", "held" or "free"
  icon,     \* likewise
  ended     \* "none", "nil" after Exit, "ctx" or "fatal"

vars == <<asked, serving, hotkey, icon, ended>>

Init ==
  /\ asked = 0 /\ serving = FALSE /\ hotkey = "new" /\ icon = "new" /\ ended = "none"

\* Another request.
Ask == asked' = asked + 1 /\ UNCHANGED <<serving, hotkey, icon, ended>>

\* A request counts as served by the run of another one that still waits.
Merge == asked > 1 /\ asked' = asked - 1 /\ UNCHANGED <<serving, hotkey, icon, ended>>

\* A run serves one request, and no other run is in progress.
Begin ==
  /\ ~serving /\ asked > 0
  /\ serving' = TRUE /\ asked' = asked - 1
  /\ UNCHANGED <<hotkey, icon, ended>>

\* The run is over, with its balloon.
Finish == serving /\ serving' = FALSE /\ UNCHANGED <<asked, hotkey, icon, ended>>

\* Taken, given back, or not to be had.
Turns(old, new) ==
  <<old, new>> \in {<<"new", "held">>, <<"held", "free">>, <<"new", "free">>}

TurnHotkey == Turns(hotkey, hotkey') /\ UNCHANGED <<asked, serving, icon, ended>>
TurnIcon == Turns(icon, icon') /\ UNCHANGED <<asked, serving, hotkey, ended>>

\* The menu's Exit is only there with an icon, and the others come from Listen
\* or wait for it.
End ==
  /\ ~serving
  /\ \/ ended' = "nil" /\ icon = "free"
     \/ ended' \in {"ctx", "fatal"} /\ hotkey = "free"
  /\ UNCHANGED <<asked, serving, hotkey, icon>>

Next ==
  /\ ended = "none"
  /\ Ask \/ Merge \/ Begin \/ Finish \/ TurnHotkey \/ TurnIcon \/ End

Spec == Init /\ [][Next]_vars
=============================================================================
