---------------------------- MODULE SignApkProofs ----------------------------
(* Theorems about SignApk for all lists of switches and all command lines.  *)
EXTENDS SignApk, GetOptProofs, FiniteSetTheorems

SignInv == Inv /\ SignTypeOK /\ SignsWithAllKeys

(* The keys are given together or not at all.                               *)
LEMMA AllKeysOrNone ==
  ASSUME fnCheckParams
  PROVE  KeysGiven = {} \/ KeysGiven = KeyOptions
  <1>1. KeysGiven \subseteq KeyOptions /\ IsFiniteSet(KeyOptions)
    BY SignApkAssumption DEF KeysGiven
  <1>2. IsFiniteSet(KeysGiven)
    BY <1>1, FS_Subset
  <1>3. CASE Cardinality(KeysGiven) = 0
    BY <1>2, <1>3, FS_EmptySet
  <1>4. CASE Cardinality(KeysGiven) = Cardinality(KeyOptions)
    BY <1>1, <1>4, FS_Subset
  <1> QED BY <1>3, <1>4 DEF fnCheckParams

LEMMA CheckPassesStep ==
  ASSUME SignInv, CheckPasses
  PROVE  SignsWithAllKeys'
  <1>1. UNCHANGED parser /\ Parsed /\ fnCheckParams /\ UNCHANGED aOptions
    BY DEF CheckPasses, parser
  <1>2. \A s \in Known \cap Capital : aOptions[s] # Given
    BY <1>1, AcceptedAreComplete DEF SignInv, fnCheckParams, ArgumentsPresent, getOption
  <1>3. KeyFile \in KeyOptions
    BY SignApkAssumption
  <1>4. custom' = (aOptions[KeyFile] # Null)
    BY DEF CheckPasses, getOption
  <1>5. \/ \A s \in KeyOptions : aOptions[s] # Null
        \/ \A s \in KeyOptions : aOptions[s] = Null
    BY <1>1, AllKeysOrNone DEF KeysGiven, getOption
  <1> QED BY <1>1, <1>2, <1>3, <1>4, <1>5 DEF SignsWithAllKeys, getOption

LEMMA SignStep == SignInv /\ [Next]_vars => SignInv'
  <1> SUFFICES ASSUME SignInv, [Next]_vars PROVE SignInv'
    OBVIOUS
  <1>1. [fnParseOptions]_parser
    BY DEF Next, vars, Parse, Throws, CheckFails, CheckPasses, fnSignApk
  <1>2. Inv'
    BY <1>1, StepInv DEF SignInv
  <1>3. SignTypeOK'
    BY DEF SignInv, SignTypeOK, Next, vars, Parse, Throws, CheckFails, CheckPasses, fnSignApk
  <1>4. SignsWithAllKeys'
    <2>1. CASE CheckPasses
      BY <2>1, CheckPassesStep
    <2>2. CASE Parse
      BY <2>2 DEF Parse, SignsWithAllKeys
    <2>3. CASE Throws \/ CheckFails \/ fnSignApk
      BY <2>3 DEF Throws, CheckFails, fnSignApk, SignsWithAllKeys
    <2>4. CASE UNCHANGED vars
      BY <2>4 DEF vars, parser, SignInv, SignsWithAllKeys, getOption
    <2> QED BY <2>1, <2>2, <2>3, <2>4 DEF Next
  <1> QED BY <1>2, <1>3, <1>4 DEF SignInv

(* An APK is signed with all the keys of the command line or with none of   *)
(* them, and never with a name that was not given.                          *)
THEOREM SignsOnlyWithAllKeys == Spec => []SignsWithAllKeys
  <1>1. Init => SignInv
    BY InitInv DEF Init, SignInv, SignTypeOK, SignsWithAllKeys
  <1> QED BY <1>1, SignStep, PTL DEF Spec, SignInv

(* fnSignApk returns one of its four values.                                *)
THEOREM SignTypeCorrect == Spec => []SignTypeOK
  <1>1. Init => SignInv
    BY InitInv DEF Init, SignInv, SignTypeOK, SignsWithAllKeys
  <1> QED BY <1>1, SignStep, PTL DEF Spec, SignInv
================================================================================
