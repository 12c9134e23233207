---------------------------- MODULE MCAaptBridge ----------------------------
(* The calls and bounds of the runs of AaptBridge.                          *)
EXTENDS AaptBridge, TLC

CONSTANTS a, b

Symmetry == Permutations(Calls)

(* Every call ends.                                                         *)
Finished == \A d \in Calls : call[d].pc = "done"
Terminating == Finished /\ UNCHANGED vars

MCSpec == Init /\ [][Next \/ Terminating]_vars
==============================================================================
