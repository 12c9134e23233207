----------------------------- MODULE BuildScript -----------------------------
(***************************************************************************)
(* The script build.bsh and the tools it calls through class IDE.  Every   *)
(* tool's exit value goes into the static field G.iScriptResultCode and is *)
(* tested there, so that an onCreate of any instance may change it in      *)
(* between.  The tools find their inputs in bin/, which is never emptied:  *)
(* what an earlier build left there is taken for an output of this one.    *)
(*                                                                         *)
(* Abstractions.  An output is the number of the build that wrote it, 0 if *)
(* it is missing; a class or dex file is one such number for every source  *)
(* file.  The tools are external: a tool that succeeds has written its     *)
(* output from its inputs (module Package says when aapt only says so); one*)
(* that fails leaves the old output, none, or some of the new class files. *)
(* One script builds at a time.                                            *)
(***************************************************************************)
EXTENDS Integers

CONSTANTS
  Units,      \* the source files that can exist
  MaxBuilds   \* bound: the builds

ASSUME BuildAssumption == MaxBuilds \in Nat

VARIABLES
  build,      \* the number of the current build
  phase,      \* where its script is
  step,       \* the tool to run or to look at next
  code,       \* G.iScriptResultCode
  sources,    \* the source files of the project
  bin,        \* what is in the directory of the outputs
  succeeded,  \* history: the steps of this build whose tool succeeded
  disturbed,  \* history: code was assigned by someone else meanwhile
  misled      \* history: aapt said 0 in this build and wrote no package

vars == <<build, phase, step, code, sources, bin, succeeded, disturbed, misled>>

(* The steps.                                                              *)
aapt == 1
compile == 2
dx == 3
apkbuilder == 4
sign == 5

Classes == [Units -> Nat]
Package == [res : Nat, dex : Classes]
Outputs == [res : Nat, classes : Classes, dex : Classes, unsigned : Package, apk : Package]

TypeOK ==
  /\ build \in 0..MaxBuilds
  /\ phase \in {"none", "checks", "run", "test", "failed", "completed"}
  /\ step \in aapt..sign
  /\ code \in {0, 1, 2, 3, 99}
  /\ sources \in SUBSET Units
  /\ bin \in Outputs
  /\ succeeded \in SUBSET (aapt..sign)
  /\ disturbed \in BOOLEAN /\ misled \in BOOLEAN

NoClasses == [u \in Units |-> 0]
NoPackage == [res |-> 0, dex |-> NoClasses]

Init ==
  /\ build = 0
  /\ phase = "none"
  /\ step = aapt
  /\ code = 99
  /\ sources = Units
  /\ bin = [res |-> 0, classes |-> NoClasses, dex |-> NoClasses,
            unsigned |-> NoPackage, apk |-> NoPackage]
  /\ succeeded = {}
  /\ disturbed = FALSE /\ misled = FALSE

Begin ==
  /\ phase \in {"none", "failed", "completed"}
  /\ build < MaxBuilds
  /\ build' = build + 1
  /\ phase' = "checks"
  /\ step' = aapt
  /\ code' = 0
  /\ sources' \in SUBSET Units
  /\ succeeded' = {}
  /\ disturbed' = FALSE /\ misled' = FALSE
  /\ UNCHANGED bin

(* Not the PRO version, no open project, or no directory for the outputs.  *)
ChecksFail ==
  /\ phase = "checks"
  /\ code' \in {99, 2}
  /\ phase' = "failed"
  /\ UNCHANGED <<build, step, sources, bin, succeeded, disturbed, misled>>

ChecksPass ==
  /\ phase = "checks"
  /\ phase' = "run"
  /\ UNCHANGED <<build, step, code, sources, bin, succeeded, disturbed, misled>>

(* What the tool of the step needs in order to succeed.                    *)
Exists(classes) == \E u \in Units : classes[u] # 0
Inputs ==
  /\ step = compile => sources # {}
  /\ step = dx => Exists(bin.classes)
  /\ step = apkbuilder => bin.res # 0 /\ Exists(bin.dex)
  /\ step = sign => Exists(bin.unsigned.dex)

Compiled(units) == [u \in Units |-> IF u \in units THEN build ELSE bin.classes[u]]

(* What it writes then.                                                    *)
Writes ==
  \/ step = aapt /\ bin' = [bin EXCEPT !.res = build]
  \/ step = compile /\ bin' = [bin EXCEPT !.classes = Compiled(sources)]
  \/ step = dx /\ bin' = [bin EXCEPT !.dex = bin.classes]
  \/ /\ step = apkbuilder
     /\ bin' = [bin EXCEPT !.unsigned = [res |-> bin.res, dex |-> bin.dex]]
  \/ step = sign /\ bin' = [bin EXCEPT !.apk = bin.unsigned]

(* What it leaves when it fails.                                           *)
Breaks ==
  \/ bin' = bin
  \/ step = aapt /\ bin' = [bin EXCEPT !.res = 0]
  \/ /\ step = compile
     /\ \E units \in SUBSET sources : bin' = [bin EXCEPT !.classes = Compiled(units)]
  \/ step = dx /\ bin' = [bin EXCEPT !.dex = NoClasses]
  \/ step = apkbuilder /\ bin' = [bin EXCEPT !.unsigned = NoPackage]
  \/ step = sign /\ bin' = [bin EXCEPT !.apk = NoPackage]

(* IDE.fnCompile, of what the compiler says: it has counted an error, or   *)
(* not compiled at all, when it is not ok.  A variant that looks at the    *)
(* warnings last.                                                          *)
Verdict == {v \in [ok : BOOLEAN, warnings : BOOLEAN, errors : BOOLEAN] :
              IF v.ok THEN ~v.errors ELSE v.warnings => v.errors}
fnCompile_warnings_last(v) ==
  IF v.warnings THEN 1 ELSE IF v.errors THEN 2 ELSE IF v.ok THEN 0 ELSE 3
fnCompile(v) ==
  IF v.errors THEN 2 ELSE IF v.warnings THEN 1 ELSE IF v.ok THEN 0 ELSE 3

(* The exit values of a tool that has succeeded, or failed.                *)
ExitValues(ok) ==
  IF step = compile
  THEN {fnCompile(v) : v \in {w \in Verdict : w.ok = ok}} \cup (IF ok THEN {} ELSE {99})
  ELSE IF ok THEN {0} ELSE {1, 2, 99}

RunSucceeds ==
  /\ phase = "run"
  /\ Inputs
  /\ Writes
  /\ code' \in ExitValues(TRUE)
  /\ succeeded' = succeeded \cup {step}
  /\ phase' = "test"
  /\ UNCHANGED <<build, step, sources, disturbed, misled>>

(* writeAPK cannot remove or open the old package and says so, but neither *)
(* to doPackage nor to the script (Package.cpp:73): aapt exits with 0.     *)
RunMisleads ==
  /\ phase = "run" /\ step = aapt
  /\ \E res \in {bin.res, 0} : bin' = [bin EXCEPT !.res = res]
  /\ code' = 0
  /\ succeeded' = succeeded \cup {step} /\ misled' = TRUE
  /\ phase' = "test"
  /\ UNCHANGED <<build, step, sources, disturbed>>

RunFails ==
  /\ phase = "run"
  /\ Breaks
  /\ code' \in ExitValues(FALSE)
  /\ phase' = "test"
  /\ UNCHANGED <<build, step, sources, succeeded, disturbed, misled>>

(* Whether the script goes on; a variant that lets every step warn.        *)
GoesOn_warned == code < 2
GoesOn == IF step = compile THEN code < 2 ELSE code <= 0

(* A step has failed.                                                      *)
Stops ==
  /\ phase = "test"
  /\ ~GoesOn
  /\ phase' = "failed"
  /\ UNCHANGED <<build, step, code, sources, bin, succeeded, disturbed, misled>>

NextStep ==
  /\ phase = "test"
  /\ GoesOn
  /\ step < sign
  /\ step' = step + 1
  /\ phase' = "run"
  /\ UNCHANGED <<build, code, sources, bin, succeeded, disturbed, misled>>

(* "Build completed successfully!"                                         *)
Completes ==
  /\ phase = "test"
  /\ GoesOn
  /\ step = sign
  /\ phase' = "completed"
  /\ UNCHANGED <<build, step, code, sources, bin, succeeded, disturbed, misled>>

(* fnInit of an instance that is created meanwhile; a variant with the     *)
(* value callers take for no result.                                       *)
fnInit_minus ==
  /\ code' = -1
  /\ disturbed' = TRUE
  /\ UNCHANGED <<build, phase, step, sources, bin, succeeded, misled>>
fnInit ==
  /\ code' = 99
  /\ disturbed' = TRUE
  /\ UNCHANGED <<build, phase, step, sources, bin, succeeded, misled>>

Next ==
  \/ Begin \/ ChecksFail \/ ChecksPass
  \/ RunSucceeds \/ RunMisleads \/ RunFails
  \/ Stops \/ NextStep \/ Completes
  \/ fnInit

Spec == Init /\ [][Next]_vars

------------------------------------------------------------------------------
(* Why CompletedIsBuilt is kept: the steps succeed in their order, a code  *)
(* that lets the script go on says that its step has, and what a step has  *)
(* written stays as it is until the end of the build.                      *)
InOrder ==
  /\ phase \in {"none", "checks"} => succeeded = {} /\ step = aapt
  /\ phase = "run" => succeeded = 1..step - 1
  /\ phase = "test" => \/ succeeded = 1..step
                       \/ succeeded = 1..step - 1 /\ ~GoesOn
  /\ phase = "completed" => succeeded = aapt..sign

UpToDate(classes) == \A u \in sources : classes[u] = build
Fresh ==
  /\ aapt \in succeeded /\ ~misled => bin.res = build
  /\ compile \in succeeded => UpToDate(bin.classes)
  /\ dx \in succeeded => UpToDate(bin.dex)
  /\ apkbuilder \in succeeded =>
       (~misled => bin.unsigned.res = build) /\ UpToDate(bin.unsigned.dex)
  /\ sign \in succeeded =>
       (~misled => bin.apk.res = build) /\ UpToDate(bin.apk.dex)

(* CompletedIsBuilt ("Build completed successfully!"): when the script says*)
(* so, every step of this build has succeeded, and the signed package holds*)
(* the resources and every source file as of this build, whatever earlier  *)
(* builds left in bin/ and although the code tested may have been assigned *)
(* by another instance: 99 can stop a build, never carry it past a step    *)
(* that has failed.  The resources may be old only if aapt said 0 although *)
(* it had given the package up.                                            *)
CompletedIsBuilt == phase = "completed" =>
  /\ succeeded = aapt..sign
  /\ ~misled => bin.apk.res = build
  /\ UpToDate(bin.apk.dex)

(* CodeTellsOutcome (the help: "0: OK"): a script nobody disturbed returns *)
(* 0 if and only if its build was completed.                               *)
CodeTellsOutcome == phase \in {"failed", "completed"} /\ ~disturbed =>
  (code = 0 <=> phase = "completed")

(* The build as Pipeline sees it.                                          *)
Status ==
  IF phase \in {"none", "failed"} THEN phase
  ELSE IF phase = "completed" THEN "built" ELSE "building"

Promise == INSTANCE Pipeline WITH Last <- sign, done <- succeeded, status <- Status

(* KeepsPromise (the chain of `if (ok)'): no step succeeds before all those*)
(* before it have, and nothing is completed before all have.               *)
KeepsPromise == Promise!Spec

==============================================================================
