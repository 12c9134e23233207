-------------------------------- MODULE SignApk --------------------------------
(***************************************************************************)
(* IDE.fnSignApk and class SignApk on top of taGetOpt: parse the command   *)
(* line, check the parameters, sign.                                       *)
(*                                                                         *)
(* Abstractions.  The signing itself is the external library: it succeeds  *)
(* or throws.  The switches are constants, so that a run may use fewer     *)
(* than "MIO" and "hPKWCT".                                                *)
(***************************************************************************)
EXTENDS GetOpt

CONSTANTS
  Help,        \* the switch -h
  KeyFile,     \* the switch -K
  KeyOptions   \* -K, -W, -C and -T

ASSUME SignApkAssumption ==
  /\ Help \in Optional \ Capital /\ KeyOptions \subseteq Optional \ {Help}
  /\ KeyFile \in KeyOptions /\ IsFiniteSet(KeyOptions)

VARIABLES
  step,       \* where SignApk.main is
  ExitValue,  \* what fnSignApk returns
  custom      \* history: it signed with the keys of the command line

vars == <<parser, step, ExitValue, custom>>

SignTypeOK ==
  /\ step \in {"parsing", "signing", "done"}
  /\ ExitValue \in {0, 1, 2, 99}
  /\ custom \in BOOLEAN

Init == InitParser /\ step = "parsing" /\ ExitValue = 99 /\ custom = FALSE

Parse == step = "parsing" /\ fnParseOptions /\ UNCHANGED <<step, ExitValue, custom>>

(* The parser has thrown: fnSignApk catches it and returns 99.             *)
Throws ==
  /\ step = "parsing" /\ thrown
  /\ step' = "done"
  /\ UNCHANGED <<parser, ExitValue, custom>>

KeysGiven == {s \in KeyOptions : getOption(s) # Null}

(* A variant that asks for the key file only.                              *)
fnCheckParams_someKeys == paramsOK /\ getOption(Help) = Null
fnCheckParams ==
  /\ paramsOK
  /\ getOption(Help) = Null
  /\ Cardinality(KeysGiven) \in {0, Cardinality(KeyOptions)}

CheckFails ==
  /\ step = "parsing" /\ Parsed /\ ~fnCheckParams
  /\ step' = "done"
  /\ ExitValue' = 1
  /\ UNCHANGED <<parser, custom>>

CheckPasses ==
  /\ step = "parsing" /\ Parsed /\ fnCheckParams
  /\ step' = "signing"
  /\ custom' = (getOption(KeyFile) # Null)
  /\ UNCHANGED <<parser, ExitValue>>

(* A variant that returns the value it began with when signing has thrown. *)
fnSignApk_undefined ==
  /\ step = "signing"
  /\ step' = "done"
  /\ ExitValue' \in {0, 255}
  /\ UNCHANGED <<parser, custom>>
fnSignApk ==
  /\ step = "signing"
  /\ step' = "done"
  /\ ExitValue' \in {0, 2}
  /\ UNCHANGED <<parser, custom>>

Next == Parse \/ Throws \/ CheckFails \/ CheckPasses \/ fnSignApk

Spec == Init /\ [][Next]_vars

------------------------------------------------------------------------------
(* SignsWithAllKeys (fnCheckParams: "Options -K, -W, -C and -T must always *)
(* be used together"): an APK is signed with keys of the command line only *)
(* if each of them was given, with an argument; so readPrivateKey and      *)
(* setKeys never get a null or an empty name.                              *)
SignsWithAllKeys == step = "signing" =>
  /\ \A s \in Known \cap Capital : getOption(s) # Given
  /\ custom => \A s \in KeyOptions : getOption(s) # Null
  /\ ~custom => \A s \in KeyOptions : getOption(s) = Null

==============================================================================
