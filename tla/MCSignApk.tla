------------------------------ MODULE MCSignApk ------------------------------
(* The switches of the runs of SignApk: one for "MIO", -h, and two of the   *)
(* four key options.                                                        *)
EXTENDS SignApk

Terminating == step = "done" /\ UNCHANGED vars

MCSpec == Init /\ [][Next \/ Terminating]_vars
==============================================================================
