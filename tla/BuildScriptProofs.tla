-------------------------- MODULE BuildScriptProofs --------------------------
(* Theorems about BuildScript for all source files and any number of builds.*)
EXTENDS BuildScript, TLAPS

Steps == aapt..sign

LEMMA StepNumbers ==
  /\ Steps = {aapt, compile, dx, apkbuilder, sign}
  /\ Steps \subseteq 1..5
  BY DEF Steps, aapt, compile, dx, apkbuilder, sign

LEMMA Nothing == NoClasses \in Classes /\ NoPackage \in Package
  BY DEF NoClasses, NoPackage, Classes, Package

LEMMA InitInv == Init => TypeOK /\ InOrder /\ Fresh
  <1> SUFFICES ASSUME Init PROVE TypeOK /\ InOrder /\ Fresh
    OBVIOUS
  <1>1. bin \in Outputs
    BY Nothing DEF Init, Outputs
  <1>2. MaxBuilds \in Nat
    BY BuildAssumption
  <1>3. build \in 0..MaxBuilds
    BY <1>2 DEF Init
  <1>4. step \in aapt..sign /\ succeeded \in SUBSET (aapt..sign)
    BY DEF Init, aapt, sign
  <1>5. TypeOK
    BY <1>1, <1>3, <1>4 DEF Init, TypeOK
  <1> QED BY <1>5 DEF Init, InOrder, Fresh

(* What changes one output leaves outputs.                                  *)
LEMMA OutputsType ==
  ASSUME NEW b \in Outputs, NEW n \in Nat, NEW c \in Classes, NEW p \in Package
  PROVE  /\ [b EXCEPT !.res = n] \in Outputs
         /\ [b EXCEPT !.classes = c] \in Outputs
         /\ [b EXCEPT !.dex = c] \in Outputs
         /\ [b EXCEPT !.unsigned = p] \in Outputs
         /\ [b EXCEPT !.apk = p] \in Outputs
  BY DEF Outputs

LEMMA BinType ==
  ASSUME TypeOK, step \in Steps, Writes \/ Breaks
  PROVE  bin' \in Outputs
  <1>1. build \in Nat /\ bin \in Outputs /\ sources \in SUBSET Units
    BY BuildAssumption DEF TypeOK
  <1>2. bin.classes \in Classes /\ bin.unsigned \in Package
        /\ [res |-> bin.res, dex |-> bin.dex] \in Package
    BY <1>1 DEF Outputs, Package
  <1>3. ASSUME NEW units \in SUBSET sources PROVE Compiled(units) \in Classes
    BY <1>1, <1>2 DEF Compiled, Classes
  <1>4. PICK zero \in Nat : zero = 0
    OBVIOUS
  <1>5. CASE Writes
    BY <1>1, <1>2, <1>3, <1>5, OutputsType, Nothing DEF Writes
  <1>6. CASE Breaks
    BY <1>1, <1>3, <1>4, <1>6, OutputsType, Nothing DEF Breaks
  <1> QED BY <1>5, <1>6

LEMMA ExitValuesType ==
  ASSUME NEW ok \in BOOLEAN
  PROVE  ExitValues(ok) \subseteq {0, 1, 2, 3, 99}
  BY DEF ExitValues, fnCompile

LEMMA StepType == TypeOK /\ [Next]_vars => TypeOK'
  <1> SUFFICES ASSUME TypeOK, [Next]_vars PROVE TypeOK'
    OBVIOUS
  <1>1. step \in Steps
    BY DEF TypeOK, Steps
  <1>2. CASE Begin
    <2>1. MaxBuilds \in Nat
      BY BuildAssumption
    <2>2. build' \in 0..MaxBuilds
      BY <1>2, <2>1 DEF Begin, TypeOK
    <2>3. step' \in aapt..sign
      BY <1>2 DEF Begin, aapt, sign
    <2> QED BY <1>2, <2>2, <2>3 DEF Begin, TypeOK
  <1>3. CASE ChecksFail \/ ChecksPass
    BY <1>3 DEF ChecksFail, ChecksPass, TypeOK
  <1>4. CASE RunSucceeds
    <2>1. bin' \in Outputs
      BY <1>1, <1>4, BinType DEF RunSucceeds
    <2>2. code' \in {0, 1, 2, 3, 99}
      BY <1>4, ExitValuesType DEF RunSucceeds
    <2> QED BY <1>4, <2>1, <2>2 DEF RunSucceeds, TypeOK
  <1>9. CASE RunMisleads
    <2>1. PICK n \in Nat : bin' = [bin EXCEPT !.res = n]
      BY <1>9 DEF RunMisleads, TypeOK, Outputs
    <2>2. bin' \in Outputs
      BY <2>1 DEF TypeOK, Outputs
    <2> QED BY <1>1, <1>9, <2>2 DEF RunMisleads, TypeOK, Steps
  <1>5. CASE RunFails
    <2>1. bin' \in Outputs
      BY <1>1, <1>5, BinType DEF RunFails
    <2>2. code' \in {0, 1, 2, 3, 99}
      BY <1>5, ExitValuesType DEF RunFails
    <2> QED BY <1>5, <2>1, <2>2 DEF RunFails, TypeOK
  <1>6. CASE Stops \/ Completes \/ fnInit
    BY <1>6 DEF Stops, Completes, fnInit, TypeOK
  <1>7. CASE NextStep
    <2>1. step' \in aapt..sign
      BY <1>1, <1>7 DEF NextStep, Steps, aapt, sign
    <2> QED BY <1>7, <2>1 DEF NextStep, TypeOK
  <1>8. CASE UNCHANGED vars
    BY <1>8 DEF vars, TypeOK
  <1> QED BY <1>2, <1>3, <1>4, <1>5, <1>6, <1>7, <1>8, <1>9 DEF Next

(* A tool that has failed returns a code that stops the script.             *)
LEMMA FailureStops ==
  ASSUME code' \in ExitValues(FALSE), UNCHANGED step
  PROVE  ~GoesOn'
  <1>1. CASE step = compile
    <2>1. \A v \in Verdict : ~v.ok => fnCompile(v) \in {2, 3}
      BY DEF Verdict, fnCompile
    <2>2. code' \in {2, 3, 99}
      BY <1>1, <2>1 DEF ExitValues
    <2> QED BY <1>1, <2>2 DEF GoesOn
  <1>2. CASE step # compile
    <2>1. code' \in {1, 2, 99}
      BY <1>2 DEF ExitValues
    <2> QED BY <1>2, <2>1 DEF GoesOn
  <1> QED BY <1>1, <1>2

LEMMA StepInOrder == TypeOK /\ InOrder /\ [Next]_vars => InOrder'
  <1> SUFFICES ASSUME TypeOK, InOrder, [Next]_vars PROVE InOrder'
    OBVIOUS
  <1>1. step \in Steps /\ step \in Int
    BY StepNumbers DEF TypeOK, Steps
  <1>2. CASE Begin
    BY <1>2 DEF Begin, InOrder
  <1>3. CASE ChecksFail
    BY <1>3 DEF ChecksFail, InOrder
  <1>4. CASE ChecksPass
    BY <1>4 DEF ChecksPass, InOrder, aapt
  <1>5. CASE RunSucceeds
    <2>1. succeeded' = 1..step
      BY <1>1, <1>5, StepNumbers DEF RunSucceeds, InOrder
    <2> QED BY <1>5, <2>1 DEF RunSucceeds, InOrder
  <1>12. CASE RunMisleads
    BY <1>1, <1>12, StepNumbers DEF RunMisleads, InOrder, aapt
  <1>6. CASE RunFails
    <2>1. ~GoesOn'
      BY <1>6, FailureStops DEF RunFails
    <2> QED BY <1>6, <2>1 DEF RunFails, InOrder
  <1>7. CASE Stops
    BY <1>7 DEF Stops, InOrder
  <1>8. CASE NextStep
    BY <1>1, <1>8 DEF NextStep, InOrder
  <1>9. CASE Completes
    BY <1>9 DEF Completes, InOrder, aapt
  <1>10. CASE fnInit
    BY <1>10 DEF fnInit, InOrder, GoesOn
  <1>11. CASE UNCHANGED vars
    BY <1>11 DEF vars, InOrder, GoesOn
  <1> QED BY <1>2, <1>3, <1>4, <1>5, <1>6, <1>7, <1>8, <1>9, <1>10, <1>11, <1>12 DEF Next

(* What a tool writes or breaks is of its own step, and what it writes is   *)
(* fresh if its inputs are.                                                 *)
LEMMA RunFresh ==
  ASSUME TypeOK, InOrder, Fresh, RunSucceeds \/ RunMisleads \/ RunFails
  PROVE  Fresh'
  <1>1. step \in Steps /\ succeeded = 1..step - 1 /\ UNCHANGED <<build, sources>>
    BY DEF TypeOK, InOrder, Steps, RunSucceeds, RunMisleads, RunFails
  <1>2. bin \in Outputs /\ sources \in SUBSET Units
    BY DEF TypeOK
  <1>3. \A n \in Steps : n \in succeeded <=> n < step
    BY <1>1, StepNumbers
  <1>4. CASE RunSucceeds
    <2>1. succeeded' = succeeded \cup {step} /\ Writes /\ UNCHANGED misled
      BY <1>4 DEF RunSucceeds
    <2>2. CASE step = aapt
      BY <1>1, <1>2, <1>3, <2>1, <2>2, StepNumbers
         DEF Writes, Fresh, UpToDate, Outputs, aapt, compile, dx, apkbuilder, sign
    <2>3. CASE step = compile
      BY <1>1, <1>2, <1>3, <2>1, <2>3, StepNumbers
         DEF Writes, Compiled, Fresh, UpToDate, Outputs, aapt, compile, dx, apkbuilder, sign
    <2>4. CASE step = dx
      BY <1>1, <1>2, <1>3, <2>1, <2>4, StepNumbers
         DEF Writes, Fresh, UpToDate, Outputs, aapt, compile, dx, apkbuilder, sign
    <2>5. CASE step = apkbuilder
      BY <1>1, <1>2, <1>3, <2>1, <2>5, StepNumbers
         DEF Writes, Fresh, UpToDate, Outputs, Package, aapt, compile, dx, apkbuilder, sign
    <2>6. CASE step = sign
      BY <1>1, <1>2, <1>3, <2>1, <2>6, StepNumbers
         DEF Writes, Fresh, UpToDate, Outputs, aapt, compile, dx, apkbuilder, sign
    <2> QED BY <1>1, <2>2, <2>3, <2>4, <2>5, <2>6, StepNumbers
  <1>5. CASE RunFails
    <2>1. UNCHANGED <<succeeded, misled>> /\ Breaks
      BY <1>5 DEF RunFails
    <2> QED BY <1>1, <1>2, <1>3, <2>1, StepNumbers
            DEF Breaks, Fresh, UpToDate, Outputs, aapt, compile, dx, apkbuilder, sign
  <1>6. CASE RunMisleads
    <2>1. step = aapt /\ misled' /\ succeeded' = succeeded \cup {aapt}
      BY <1>6 DEF RunMisleads
    <2> QED BY <1>1, <1>3, <2>1, StepNumbers
            DEF Fresh, aapt, compile, dx, apkbuilder, sign
  <1> QED BY <1>4, <1>5, <1>6

LEMMA StepFresh == TypeOK /\ InOrder /\ Fresh /\ [Next]_vars => Fresh'
  <1> SUFFICES ASSUME TypeOK, InOrder, Fresh, [Next]_vars PROVE Fresh'
    OBVIOUS
  <1>1. CASE Begin
    BY <1>1 DEF Begin, Fresh
  <1>2. CASE RunSucceeds \/ RunMisleads \/ RunFails
    BY <1>2, RunFresh
  <1>3. CASE UNCHANGED <<build, sources, bin, succeeded, misled>>
    BY <1>3 DEF Fresh, UpToDate
  <1> QED BY <1>1, <1>2, <1>3
          DEF Next, vars, ChecksFail, ChecksPass, Stops, NextStep, Completes, fnInit

LEMMA Invariance == Spec => [](TypeOK /\ InOrder /\ Fresh)
  BY InitInv, StepType, StepInOrder, StepFresh, PTL DEF Spec

(* Every reachable state of a build is well typed.                          *)
THEOREM TypeCorrect == Spec => []TypeOK
  BY Invariance, PTL

(* A build is only said to be completed when it is: every step succeeded,   *)
(* and the package holds what this build made of its sources.               *)
THEOREM CompletedBuildsAreFresh == Spec => []CompletedIsBuilt
  <1>1. InOrder /\ Fresh => CompletedIsBuilt
    BY StepNumbers DEF InOrder, Fresh, CompletedIsBuilt, Steps
  <1> QED BY Invariance, <1>1, PTL

(* The result code of a script nobody disturbed is 0 exactly on success.    *)
THEOREM CodeTellsTheOutcome == Spec => []CodeTellsOutcome
  <1>1. Init => CodeTellsOutcome
    BY DEF Init, CodeTellsOutcome
  <1>2. TypeOK /\ CodeTellsOutcome /\ [Next]_vars => CodeTellsOutcome'
    <2> SUFFICES ASSUME TypeOK, CodeTellsOutcome, [Next]_vars PROVE CodeTellsOutcome'
      OBVIOUS
    <2>1. code \in {0, 1, 2, 3, 99}
      BY DEF TypeOK
    <2>2. CASE Begin \/ ChecksPass \/ RunSucceeds \/ RunMisleads \/ RunFails
               \/ NextStep
      BY <2>2 DEF Begin, ChecksPass, RunSucceeds, RunMisleads, RunFails, NextStep,
                  CodeTellsOutcome
    <2>3. CASE ChecksFail
      BY <2>3 DEF ChecksFail, CodeTellsOutcome
    <2>4. CASE Stops
      BY <2>1, <2>4 DEF Stops, GoesOn, CodeTellsOutcome
    <2>5. CASE Completes
      BY <2>1, <2>5 DEF Completes, GoesOn, CodeTellsOutcome, sign, compile
    <2>6. CASE fnInit \/ UNCHANGED vars
      BY <2>6 DEF fnInit, vars, CodeTellsOutcome
    <2> QED BY <2>2, <2>3, <2>4, <2>5, <2>6 DEF Next
  <1> QED BY Invariance, <1>1, <1>2, PTL DEF Spec

(* The script implements Pipeline: every step of it is a step of the        *)
(* promise or none.                                                         *)
THEOREM KeepsThePromise == Spec => KeepsPromise
  <1>1. Init => Promise!Init
    BY DEF Init, Promise!Init, Status
  <1>2. TypeOK /\ InOrder /\ [Next]_vars => [Promise!Next]_<<succeeded, Status>>
    <2> SUFFICES ASSUME TypeOK, InOrder, [Next]_vars
                 PROVE  Promise!Next \/ UNCHANGED <<succeeded, Status>>
      OBVIOUS
    <2>1. CASE Begin
      BY <2>1 DEF Begin, Status, Promise!Next, Promise!Start
    <2>2. CASE ChecksFail \/ Stops
      BY <2>2 DEF ChecksFail, Stops, Status, Promise!Next, Promise!Fail
    <2>3. CASE ChecksPass \/ NextStep \/ RunFails
      BY <2>3 DEF ChecksPass, NextStep, RunFails, Status
    <2>4. CASE RunSucceeds \/ RunMisleads
      <3>1. step \in 1..sign /\ succeeded = 1..step - 1
        BY <2>4 DEF RunSucceeds, RunMisleads, TypeOK, InOrder, aapt, sign
      <3>2. succeeded' = 1..step
        <4>1. succeeded' = succeeded \cup {step}
          BY <2>4 DEF RunSucceeds, RunMisleads
        <4> QED BY <3>1, <4>1 DEF sign
      <3>3. Status = "building" /\ Status' = "building"
        BY <2>4 DEF RunSucceeds, RunMisleads, Status
      <3>4. Promise!Succeed(step)
        BY <3>1, <3>2, <3>3 DEF Promise!Succeed
      <3> QED BY <3>1, <3>4 DEF Promise!Next
    <2>5. CASE Completes
      BY <2>5 DEF Completes, InOrder, Status, Promise!Next, Promise!Complete
    <2>6. CASE fnInit \/ UNCHANGED vars
      BY <2>6 DEF fnInit, vars, Status
    <2> QED BY <2>1, <2>2, <2>3, <2>4, <2>5, <2>6 DEF Next
  <1> QED BY Invariance, <1>1, <1>2, PTL DEF Spec, KeepsPromise, Promise!Spec
==============================================================================
