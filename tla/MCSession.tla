------------------------------ MODULE MCSession ------------------------------
(* Instances of Session for TLC.                                           *)
EXTENDS Session, TLC

Idle     == PlainIntent
Batch    == [autoRun |-> TRUE, autoExit |-> TRUE, wantText |-> TRUE]
Quiet    == [autoRun |-> TRUE, autoExit |-> TRUE, wantText |-> FALSE]

IdleOnly    == {Idle}
IdleOrBatch == {Idle, Batch}
AnyIntent   == {Idle, Batch, Quiet}
BatchOnly   == {Batch}

Symmetry == Permutations(Mains) \cup Permutations(BshTasks)
              \cup Permutations(ToolTasks)
==============================================================================
