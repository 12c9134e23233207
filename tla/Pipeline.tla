------------------------------- MODULE Pipeline -------------------------------
(***************************************************************************)
(* What a build promises: its steps succeed one after the other, each only *)
(* after all those before it have, and it is built when all have.          *)
(***************************************************************************)
EXTENDS Integers

CONSTANT Last   \* the number of the last step

VARIABLES
  done,     \* the steps of the current build that have succeeded
  status    \* of the current build, or of the last one

Init == done = {} /\ status = "none"

Start ==
  /\ status # "building"
  /\ done' = {}
  /\ status' = "building"

Succeed(n) ==
  /\ status = "building"
  /\ done = 1..n - 1
  /\ done' = 1..n
  /\ UNCHANGED status

Fail ==
  /\ status = "building"
  /\ status' = "failed"
  /\ UNCHANGED done

Complete ==
  /\ status = "building"
  /\ done = 1..Last
  /\ status' = "built"
  /\ UNCHANGED done

Next == Start \/ (\E n \in 1..Last : Succeed(n)) \/ Fail \/ Complete

Spec == Init /\ [][Next]_<<done, status>>

==============================================================================
