------------------------------ MODULE MCLaunch ------------------------------
(* Command lines for the model checker.                                     *)
EXTENDS Launch

Mixed == {<<>>, <<"-once">>}
Every == {<<>>, <<"-once">>, <<"-list">>, <<"-no-update">>, <<"-no-elevate">>}
=============================================================================
