-------------------------------- MODULE GetOpt --------------------------------
(***************************************************************************)
(* taGetOpt, the parser of the command line of SignApk: one step for every *)
(* argument of fnParseOptions.                                             *)
(*                                                                         *)
(* Abstractions.  An argument is a switch ('-' and a character), some other*)
(* word, or the empty string, and the word kept for a switch is where it   *)
(* stands in the command line.  No switch is in both lists.                *)
(***************************************************************************)
EXTENDS Integers, Sequences, FiniteSets

CONSTANTS
  Mandatory,  \* the switches of stMandatory
  Optional,   \* the switches of stOptional
  Unknown,    \* other characters
  Capital,    \* the characters between A and Z
  Others,     \* arguments that are no switches: "word", "" or both
  MaxArgs     \* bound: the arguments of a command line

Known == Mandatory \cup Optional
Switch == Known \cup Unknown

NoSwitch == "none"

ASSUME GetOptAssumption ==
  /\ Mandatory \cap Optional = {} /\ Known \cap Unknown = {}
  /\ Others \subseteq {"word", ""} /\ Switch \cap {"word", "", NoSwitch} = {}
  /\ IsFiniteSet(Mandatory)
  /\ MaxArgs \in Nat

Null == -2   \* the switch was not found
Given == 0   \* the empty string: found, and no argument

VARIABLES
  aArgs,           \* the command line
  i,               \* the loop index: the argument to look at next
  aOptions,        \* for each known switch: Null, Given or its argument
  vArgs,           \* the standalone arguments
  iMandatory, iOptional, iUnknown, iReqArgMissing,  \* counters
  lastIdx,         \* the switch that may take the next argument
  bNeedsArg,       \* whether it takes it
  thrown           \* charAt(0) of an empty argument has thrown

parser == <<aArgs, i, aOptions, vArgs, iMandatory, iOptional, iUnknown,
            iReqArgMissing, lastIdx, bNeedsArg, thrown>>

CommandLine == UNION {[1..n -> Switch \cup Others] : n \in 0..MaxArgs}

TypeOK ==
  /\ aArgs \in Seq(Switch \cup Others)
  /\ i \in 1..Len(aArgs) + 1
  /\ aOptions \in [Known -> {Null, Given} \cup 1..Len(aArgs)]
  /\ vArgs \in Seq(1..Len(aArgs))
  /\ iMandatory \in Nat /\ iOptional \in Nat /\ iUnknown \in Nat
  /\ iReqArgMissing \in Nat
  /\ lastIdx \in Known \cup {NoSwitch}
  /\ bNeedsArg \in BOOLEAN /\ thrown \in BOOLEAN

InitParser ==
  /\ aArgs \in CommandLine
  /\ i = 1
  /\ aOptions = [s \in Known |-> Null]
  /\ vArgs = <<>>
  /\ iMandatory = 0 /\ iOptional = 0 /\ iUnknown = 0 /\ iReqArgMissing = 0
  /\ lastIdx = NoSwitch
  /\ bNeedsArg = FALSE
  /\ thrown = FALSE

requiresArg(s) == s \in Capital

Looking == i <= Len(aArgs) /\ ~thrown
arg == aArgs[i]

(* A switch of either list is found.  A variant in which a known switch    *)
(* after a capital one makes up for its missing argument.                  *)
KnownSwitch_forgives ==
  /\ aOptions' = [aOptions EXCEPT ![arg] = Given]
  /\ lastIdx' = arg
  /\ bNeedsArg' = requiresArg(arg)
  /\ iReqArgMissing' = IF requiresArg(arg) THEN 1 ELSE 0
  /\ UNCHANGED <<vArgs, iUnknown, thrown>>
KnownSwitch ==
  /\ aOptions' = [aOptions EXCEPT ![arg] = Given]
  /\ lastIdx' = arg
  /\ bNeedsArg' = requiresArg(arg)
  /\ iReqArgMissing' = iReqArgMissing + (IF requiresArg(arg) THEN 1 ELSE 0)
  /\ UNCHANGED <<vArgs, iUnknown, thrown>>

MandatorySwitch ==
  /\ Looking /\ arg \in Mandatory
  /\ iMandatory' = iMandatory + 1
  /\ KnownSwitch
  /\ UNCHANGED iOptional

OptionalSwitch ==
  /\ Looking /\ arg \in Optional
  /\ iOptional' = iOptional + 1
  /\ KnownSwitch
  /\ UNCHANGED iMandatory

(* A word or an unknown switch is the argument of the capital switch before*)
(* it.  A variant that does not forget the switch.                         *)
SwitchArgument_again ==
  /\ Looking /\ arg \in Unknown \cup {"word"} /\ bNeedsArg
  /\ aOptions' = [aOptions EXCEPT ![lastIdx] = i]
  /\ iReqArgMissing' = iReqArgMissing - 1
  /\ UNCHANGED <<vArgs, iMandatory, iOptional, iUnknown, thrown, lastIdx, bNeedsArg>>
SwitchArgument ==
  /\ Looking /\ arg \in Unknown \cup {"word"} /\ bNeedsArg
  /\ aOptions' = [aOptions EXCEPT ![lastIdx] = i]
  /\ iReqArgMissing' = iReqArgMissing - 1
  /\ lastIdx' = NoSwitch
  /\ bNeedsArg' = FALSE
  /\ UNCHANGED <<vArgs, iMandatory, iOptional, iUnknown, thrown>>

UnknownSwitch ==
  /\ Looking /\ arg \in Unknown /\ ~bNeedsArg
  /\ lastIdx' = NoSwitch
  /\ iUnknown' = iUnknown + 1
  /\ UNCHANGED <<aOptions, vArgs, iMandatory, iOptional, iReqArgMissing, thrown, bNeedsArg>>

Standalone ==
  /\ Looking /\ arg = "word" /\ ~bNeedsArg
  /\ vArgs' = Append(vArgs, i)
  /\ UNCHANGED <<aOptions, iMandatory, iOptional, iUnknown, iReqArgMissing, thrown,
                 lastIdx, bNeedsArg>>

EmptyArgument ==
  /\ Looking /\ arg = ""
  /\ thrown' = TRUE
  /\ UNCHANGED <<aArgs, i, aOptions, vArgs, iMandatory, iOptional, iUnknown,
                 iReqArgMissing, lastIdx, bNeedsArg>>

fnParseOptions ==
  \/ /\ \/ MandatorySwitch \/ OptionalSwitch \/ SwitchArgument
        \/ UnknownSwitch \/ Standalone
     /\ i' = i + 1
     /\ UNCHANGED aArgs
  \/ EmptyArgument

Parsed == i > Len(aArgs) /\ ~thrown

getOption(s) == aOptions[s]
getArguments == vArgs

paramsOK ==
  /\ iUnknown = 0
  /\ iMandatory = Cardinality(Mandatory)
  /\ iReqArgMissing = 0

ParserSpec == InitParser /\ [][fnParseOptions]_parser

------------------------------------------------------------------------------
(* What a command line means, read off the conventions of the class and    *)
(* without a loop: an argument belongs to the capital switch just before   *)
(* it, unless it is a switch of the program itself.                        *)
SwitchAt(n) == aArgs[n] \in Known
BelongsTo(n) == n \in 2..Len(aArgs) /\ ~SwitchAt(n)
                /\ SwitchAt(n - 1) /\ aArgs[n - 1] \in Capital

Places(s) == {n \in 1..Len(aArgs) : aArgs[n] = s}
Last(s) == CHOOSE n \in Places(s) : \A k \in Places(s) : k <= n

Meant(s) ==
  IF Places(s) = {} THEN Null
  ELSE IF BelongsTo(Last(s) + 1) THEN Last(s) + 1 ELSE Given

(* OptionsAsMeant (taGetOpt: "If the character is capital, then the switch *)
(* requires a following switch argument", "If an unknown switch follows a  *)
(* capital switch, then the switch is treated as an argument"): the loop   *)
(* gives every switch the argument that its last use is followed by, and   *)
(* the arguments that belong to no switch are the standalone ones, in      *)
(* their order.                                                            *)
OptionsAsMeant == Parsed =>
  /\ \A s \in Known : getOption(s) = Meant(s)
  /\ \A n \in 1..Len(aArgs) :
       (\E k \in 1..Len(getArguments) : getArguments[k] = n)
         <=> aArgs[n] = "word" /\ ~BelongsTo(n)
  /\ \A k \in 1..Len(getArguments) - 1 : getArguments[k] < getArguments[k + 1]

(* CountersAsMeant (iUnknown, iReqArgMissing): they count the unknown      *)
(* switches that are no argument and the capital switches without one; a   *)
(* second use of a switch with its argument does not make up for a first   *)
(* one without.                                                            *)
CountersAsMeant == Parsed =>
  /\ iUnknown = Cardinality({n \in 1..Len(aArgs) : aArgs[n] \in Unknown /\ ~BelongsTo(n)})
  /\ iReqArgMissing =
       Cardinality({n \in 1..Len(aArgs) :
                     SwitchAt(n) /\ aArgs[n] \in Capital /\ ~BelongsTo(n + 1)})

(* ArgumentsPresent (paramsOK: "all capital switches have an argument"):   *)
(* when the parameters are accepted, no capital switch that was found is   *)
(* without its argument: SignApk never opens the file "".                  *)
ArgumentsPresent == Parsed /\ paramsOK =>
  \A s \in Known \cap Capital : getOption(s) # Given

(* IndexInRange (aOptions[lastIdx]): an argument is stored only for a      *)
(* switch that was found before, never at index -1.                        *)
IndexInRange == bNeedsArg =>
  lastIdx \in Known \cap Capital /\ aOptions[lastIdx] = Given

(* Why ArgumentsPresent is kept: when no argument is missing but the one   *)
(* the loop is waiting for, only that switch is without its own.           *)
Settled == iReqArgMissing - (IF bNeedsArg THEN 1 ELSE 0)
OnlyLastWaits ==
  /\ Settled >= 0
  /\ Settled = 0 => \A s \in Known \cap Capital :
                       aOptions[s] = Given => bNeedsArg /\ lastIdx = s

==============================================================================
