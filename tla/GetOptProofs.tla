----------------------------- MODULE GetOptProofs -----------------------------
(* Theorems about GetOpt for all lists of switches and all command lines.   *)
EXTENDS GetOpt, SequenceTheorems, FiniteSetTheorems, TLAPS

Inv == TypeOK /\ IndexInRange /\ OnlyLastWaits

LEMMA InitInv == InitParser => Inv
  <1> SUFFICES ASSUME InitParser PROVE Inv
    OBVIOUS
  <1>1. PICK n \in 0..MaxArgs : aArgs \in [1..n -> Switch \cup Others]
    BY DEF InitParser, CommandLine
  <1>2. n \in Nat /\ aArgs \in Seq(Switch \cup Others) /\ Len(aArgs) = n
    <2>1. n \in Nat
      <3>1. MaxArgs \in Nat
        BY GetOptAssumption
      <3> QED BY <3>1
    <2>2. aArgs \in Seq(Switch \cup Others)
      BY <1>1, <2>1
    <2> QED BY <1>1, <2>1, <2>2, LenProperties
  <1>3. aOptions \in [Known -> {Null, Given} \cup 1..Len(aArgs)]
    BY DEF InitParser
  <1>4. vArgs \in Seq(1..Len(aArgs))
    BY DEF InitParser
  <1>5. TypeOK
    <2>1. i \in 1..Len(aArgs) + 1
      BY <1>2 DEF InitParser
    <2>2. /\ iMandatory \in Nat /\ iOptional \in Nat /\ iUnknown \in Nat
          /\ iReqArgMissing \in Nat /\ lastIdx \in Known \cup {NoSwitch}
          /\ bNeedsArg \in BOOLEAN /\ thrown \in BOOLEAN
      BY DEF InitParser
    <2> QED BY <1>2, <1>3, <1>4, <2>1, <2>2 DEF TypeOK
  <1> QED BY <1>5 DEF InitParser, Inv, IndexInRange, OnlyLastWaits, Settled, Null, Given

(* A known switch: it waits for its argument or needs none.                 *)
LEMMA KnownStep ==
  ASSUME Inv, Looking, arg \in Known, KnownSwitch, i' = i + 1, aArgs' = aArgs,
         iMandatory' \in Nat, iOptional' \in Nat
  PROVE  Inv'
  <1>1. /\ i \in 1..Len(aArgs) /\ Len(aArgs) \in Nat
        /\ iReqArgMissing \in Nat /\ bNeedsArg \in BOOLEAN
    BY DEF Inv, TypeOK, Looking
  <1>2. aOptions' \in [Known -> {Null, Given} \cup 1..Len(aArgs)]
    BY DEF KnownSwitch, Inv, TypeOK
  <1>3. iReqArgMissing' \in Nat /\ bNeedsArg' \in BOOLEAN
    BY <1>1 DEF KnownSwitch, requiresArg
  <1>4. TypeOK'
    BY <1>1, <1>2, <1>3 DEF KnownSwitch, Inv, TypeOK
  <1>5. IndexInRange'
    BY DEF KnownSwitch, Inv, TypeOK, IndexInRange, requiresArg
  <1>6. Settled' = iReqArgMissing
    <2>1. CASE arg \in Capital
      <3>1. bNeedsArg' /\ iReqArgMissing' = iReqArgMissing + 1
        BY <2>1 DEF KnownSwitch, requiresArg
      <3>2. Settled' = iReqArgMissing' - 1
        BY <3>1 DEF Settled
      <3> QED BY <1>1, <3>1, <3>2
    <2>2. CASE arg \notin Capital
      <3>1. ~bNeedsArg' /\ iReqArgMissing' = iReqArgMissing + 0
        BY <2>2 DEF KnownSwitch, requiresArg
      <3>2. Settled' = iReqArgMissing' - 0
        BY <3>1 DEF Settled
      <3> QED BY <1>1, <3>1, <3>2
    <2> QED BY <2>1, <2>2
  <1>7. ASSUME Settled' = 0, NEW s \in Known \cap Capital, aOptions'[s] = Given
        PROVE  bNeedsArg' /\ lastIdx' = s
    <2>1. CASE s = arg
      BY <2>1 DEF KnownSwitch, requiresArg
    <2>2. CASE s # arg
      <3>1. aOptions[s] = Given
        BY <1>7, <2>2 DEF KnownSwitch, Inv, TypeOK
      <3>2. ~bNeedsArg /\ Settled = 0
        BY <1>1, <1>6, <1>7 DEF Inv, OnlyLastWaits, Settled
      <3> QED BY <3>1, <3>2 DEF Inv, OnlyLastWaits
    <2> QED BY <2>1, <2>2
  <1>8. OnlyLastWaits'
    <2>1. Settled' >= 0
      BY <1>1, <1>6
    <2> QED BY <1>7, <2>1 DEF OnlyLastWaits
  <1> QED BY <1>4, <1>5, <1>8 DEF Inv

LEMMA SwitchArgumentStep ==
  ASSUME Inv, SwitchArgument, i' = i + 1, aArgs' = aArgs
  PROVE  Inv'
  <1>1. /\ i \in 1..Len(aArgs) /\ Len(aArgs) \in Nat
        /\ iReqArgMissing \in Nat /\ bNeedsArg = TRUE
        /\ lastIdx \in Known \cap Capital
    BY DEF Inv, TypeOK, SwitchArgument, Looking, IndexInRange
  <1>2. aOptions' \in [Known -> {Null, Given} \cup 1..Len(aArgs)]
    BY <1>1 DEF SwitchArgument, Inv, TypeOK
  <1>3. iReqArgMissing' \in Nat
    BY <1>1 DEF SwitchArgument, Inv, OnlyLastWaits, Settled
  <1>4. TypeOK'
    <2>1. i' \in 1..Len(aArgs) + 1
      BY <1>1
    <2> QED BY <1>1, <1>2, <1>3, <2>1 DEF SwitchArgument, Inv, TypeOK
  <1>5. Settled' = Settled
    BY <1>1 DEF SwitchArgument, Settled
  <1>6. ASSUME Settled' = 0, NEW s \in Known \cap Capital, aOptions'[s] = Given
        PROVE  FALSE
    <2>1. CASE s = lastIdx
      <3>1. aOptions'[s] = i
        BY <2>1, <1>1 DEF SwitchArgument, Inv, TypeOK
      <3> QED BY <1>1, <1>6, <3>1 DEF Given
    <2>2. CASE s # lastIdx
      <3>1. aOptions[s] = Given
        BY <1>6, <2>2 DEF SwitchArgument, Inv, TypeOK
      <3> QED BY <1>5, <1>6, <2>2, <3>1 DEF Inv, OnlyLastWaits
    <2> QED BY <2>1, <2>2
  <1>7. OnlyLastWaits'
    BY <1>5, <1>6 DEF SwitchArgument, Inv, OnlyLastWaits
  <1> QED BY <1>4, <1>7 DEF Inv, IndexInRange, SwitchArgument

(* A step that touches neither the options nor what is missing.             *)
LEMMA OtherStep ==
  ASSUME Inv, UnknownSwitch \/ Standalone, i' = i + 1, aArgs' = aArgs
  PROVE  Inv'
  <1>1. /\ i \in 1..Len(aArgs) /\ Len(aArgs) \in Nat
        /\ ~bNeedsArg /\ ~bNeedsArg'
        /\ UNCHANGED <<aOptions, iReqArgMissing, bNeedsArg, thrown>>
    BY DEF Inv, TypeOK, UnknownSwitch, Standalone, Looking
  <1>2. vArgs' \in Seq(1..Len(aArgs))
    <2>1. vArgs \in Seq(1..Len(aArgs))
      BY DEF Inv, TypeOK
    <2>2. vArgs' = vArgs \/ vArgs' = Append(vArgs, i)
      BY DEF UnknownSwitch, Standalone
    <2> QED BY <1>1, <2>1, <2>2, AppendProperties
  <1>3. lastIdx' \in Known \cup {NoSwitch} /\ iUnknown' \in Nat
        /\ UNCHANGED <<iMandatory, iOptional>>
    BY DEF UnknownSwitch, Standalone, Inv, TypeOK
  <1>4. TypeOK'
    BY <1>1, <1>2, <1>3 DEF Inv, TypeOK
  <1>5. OnlyLastWaits'
    BY <1>1 DEF Inv, OnlyLastWaits, Settled
  <1> QED BY <1>1, <1>4, <1>5 DEF Inv, IndexInRange

LEMMA StepInv == Inv /\ [fnParseOptions]_parser => Inv'
  <1> SUFFICES ASSUME Inv, [fnParseOptions]_parser PROVE Inv'
    OBVIOUS
  <1>1. CASE UNCHANGED parser
    BY <1>1 DEF parser, Inv, TypeOK, IndexInRange, OnlyLastWaits, Settled, Parsed
  <1>2. CASE EmptyArgument
    BY <1>2 DEF EmptyArgument, Inv, TypeOK, IndexInRange, OnlyLastWaits, Settled, Parsed
  <1>3. ASSUME i' = i + 1, aArgs' = aArgs, MandatorySwitch PROVE Inv'
    BY <1>3, KnownStep DEF MandatorySwitch, Known, Inv, TypeOK
  <1>4. ASSUME i' = i + 1, aArgs' = aArgs, OptionalSwitch PROVE Inv'
    BY <1>4, KnownStep DEF OptionalSwitch, Known, Inv, TypeOK
  <1>5. ASSUME i' = i + 1, aArgs' = aArgs, SwitchArgument PROVE Inv'
    BY <1>5, SwitchArgumentStep
  <1>6. ASSUME i' = i + 1, aArgs' = aArgs, UnknownSwitch \/ Standalone PROVE Inv'
    BY <1>6, OtherStep
  <1> QED BY <1>1, <1>2, <1>3, <1>4, <1>5, <1>6 DEF fnParseOptions

(* The parser's state stays well typed; in particular iReqArgMissing never  *)
(* becomes negative.                                                        *)
THEOREM TypeCorrect == ParserSpec => []TypeOK
  BY InitInv, StepInv, PTL DEF ParserSpec, Inv

(* aOptions is never written at index -1.                                   *)
THEOREM IndexAlwaysInRange == ParserSpec => []IndexInRange
  BY InitInv, StepInv, PTL DEF ParserSpec, Inv

LEMMA AcceptedAreComplete == Inv => ArgumentsPresent
  <1> SUFFICES ASSUME Inv, Parsed, paramsOK, NEW s \in Known \cap Capital,
                      getOption(s) = Given
               PROVE  FALSE
    BY DEF ArgumentsPresent
  <1>1. iReqArgMissing = 0
    BY DEF paramsOK
  <1>2. Settled >= 0
    BY DEF Inv, OnlyLastWaits
  <1>3. ~bNeedsArg
    <2>1. bNeedsArg => Settled = 0 - 1
      BY <1>1 DEF Settled
    <2> QED BY <1>2, <2>1
  <1>4. Settled = 0
    <2>1. Settled = iReqArgMissing - 0
      BY <1>3 DEF Settled
    <2> QED BY <1>1, <2>1
  <1> QED BY <1>3, <1>4 DEF Inv, OnlyLastWaits, getOption

(* Accepted parameters have all the arguments their switches ask for.       *)
THEOREM AcceptedHaveArguments == ParserSpec => []ArgumentsPresent
  BY InitInv, StepInv, AcceptedAreComplete, PTL DEF ParserSpec

------------------------------------------------------------------------------
(* What the loop has made of the arguments before place i: the meaning of   *)
(* the whole command line, with "so far" for its end.                       *)
Pending == i > 1 /\ SwitchAt(i - 1) /\ aArgs[i - 1] \in Capital

WaitsForNext ==
  /\ bNeedsArg <=> Pending
  /\ bNeedsArg => lastIdx = aArgs[i - 1]

LastBelow(s, l) ==
  l \in 1..i - 1 /\ aArgs[l] = s /\ \A n \in l + 1..i - 1 : aArgs[n] # s

OptionsSoFar == \A s \in Known :
  /\ (\A n \in 1..i - 1 : aArgs[n] # s) => aOptions[s] = Null
  /\ \A l \in 1..i - 1 : LastBelow(s, l) =>
       aOptions[s] = IF BelongsTo(l + 1) /\ l + 1 < i THEN l + 1 ELSE Given

Word(n) == aArgs[n] = "word" /\ ~BelongsTo(n)
WordsSoFar ==
  /\ \A k \in 1..Len(vArgs) : vArgs[k] < i /\ Word(vArgs[k])
  /\ \A n \in 1..i - 1 : Word(n) => \E k \in 1..Len(vArgs) : vArgs[k] = n
  /\ \A k \in 1..Len(vArgs) - 1 : vArgs[k] < vArgs[k + 1]

UnknownBelow == {n \in 1..i - 1 : aArgs[n] \in Unknown /\ ~BelongsTo(n)}
MissingBelow ==
  {n \in 1..i - 1 : /\ SwitchAt(n) /\ aArgs[n] \in Capital
                    /\ ~(BelongsTo(n + 1) /\ n + 1 < i)}
CountersSoFar ==
  /\ iUnknown = Cardinality(UnknownBelow)
  /\ iReqArgMissing = Cardinality(MissingBelow)

PrefixInv == WaitsForNext /\ OptionsSoFar /\ WordsSoFar /\ CountersSoFar

(* The kinds of a step that takes an argument.                              *)
Advances == Looking /\ i' = i + 1 /\ aArgs' = aArgs
Found == arg \in Known /\ KnownSwitch
Taken == SwitchArgument
Refused == UnknownSwitch
Alone == Standalone

LEMMA StepKinds ==
  ASSUME fnParseOptions
  PROVE  \/ EmptyArgument
         \/ Advances /\ (Found \/ Taken \/ Refused \/ Alone)
  BY DEF fnParseOptions, Advances, Found, Taken, Refused, Alone, MandatorySwitch,
         OptionalSwitch, SwitchArgument, UnknownSwitch, Standalone, Known

LEMMA AtPlace ==
  ASSUME Inv, Advances
  PROVE  /\ Len(aArgs) \in Nat /\ i \in Nat /\ i >= 1 /\ i <= Len(aArgs)
         /\ i' = i + 1 /\ aArgs' = aArgs
         /\ \A n : BelongsTo(n)' <=> BelongsTo(n)
         /\ \A n : SwitchAt(n)' <=> SwitchAt(n)
         /\ \A n : Word(n)' <=> Word(n)
  BY DEF Inv, TypeOK, Advances, Looking, BelongsTo, SwitchAt, Word

(* What the argument at i is to the one before it.                          *)
LEMMA Belongs ==
  ASSUME Inv, WaitsForNext, Advances
  PROVE  BelongsTo(i) <=> ~SwitchAt(i) /\ bNeedsArg
  BY AtPlace DEF WaitsForNext, Pending, BelongsTo

(* What is no switch of the program.                                        *)
LEMMA NotKnown ==
  ASSUME arg \in Unknown \cup {"word"}
  PROVE  ~SwitchAt(i)
  BY GetOptAssumption DEF arg, SwitchAt, Switch, Known

LEMMA WaitsStep ==
  ASSUME Inv, PrefixInv, Advances, Found \/ Taken \/ Refused \/ Alone
  PROVE  WaitsForNext'
  <1>1. Pending' <=> SwitchAt(i) /\ aArgs[i] \in Capital
    <2>1. i' > 1 /\ i' - 1 = i
      BY AtPlace
    <2> QED BY <2>1, AtPlace DEF Pending
  <1>2. aArgs'[i' - 1] = aArgs[i]
    <2>1. i' - 1 = i
      BY AtPlace
    <2> QED BY <2>1, AtPlace
  <1>3. CASE Found
    BY <1>1, <1>2, <1>3 DEF Found, KnownSwitch, requiresArg, WaitsForNext, arg, SwitchAt
  <1>4. CASE Taken
    BY <1>1, <1>4, NotKnown DEF Taken, SwitchArgument, WaitsForNext
  <1>5. CASE Refused \/ Alone
    <2>1. ~SwitchAt(i)
      BY <1>5, NotKnown DEF Refused, Alone, UnknownSwitch, Standalone
    <2>2. bNeedsArg' = FALSE
      BY <1>5 DEF Refused, Alone, UnknownSwitch, Standalone, Inv, TypeOK
    <2> QED BY <1>1, <2>1, <2>2 DEF WaitsForNext
  <1> QED BY <1>3, <1>4, <1>5

(* Who is the last use of a switch after the step.                          *)
LEMMA LastStep ==
  ASSUME Inv, Advances, NEW s, NEW l, LastBelow(s, l)'
  PROVE  \/ l = i /\ aArgs[i] = s
         \/ aArgs[i] # s /\ LastBelow(s, l)
  <1>1. /\ l \in 1..i /\ aArgs[l] = s /\ \A n \in l + 1..i : aArgs[n] # s
        /\ i \in Nat /\ i >= 1
    <2>1. i' - 1 = i
      BY AtPlace
    <2> QED BY <2>1, AtPlace DEF LastBelow
  <1>2. CASE l = i
    BY <1>1, <1>2
  <1>3. CASE l # i
    <2>1. l \in 1..i - 1 /\ i \in l + 1..i
      BY <1>1, <1>3
    <2>2. \A n \in l + 1..i - 1 : n \in l + 1..i
      BY <1>1, <2>1
    <2> QED BY <1>1, <2>1, <2>2 DEF LastBelow
  <1> QED BY <1>2, <1>3

LEMMA OptionsStep ==
  ASSUME Inv, PrefixInv, Advances, Found \/ Taken \/ Refused \/ Alone
  PROVE  OptionsSoFar'
  <1> DEFINE Value(l, m) == IF BelongsTo(l + 1) /\ l + 1 < m THEN l + 1 ELSE Given
  <1>1. /\ aOptions \in [Known -> {Null, Given} \cup 1..Len(aArgs)]
        /\ i \in Nat /\ i >= 1 /\ i' = i + 1 /\ aArgs' = aArgs
        /\ \A n : BelongsTo(n)' <=> BelongsTo(n)
    BY AtPlace DEF Inv, TypeOK
  <1>2. BelongsTo(i) <=> ~SwitchAt(i) /\ bNeedsArg
    BY Belongs DEF PrefixInv
  <1>3. ASSUME NEW s \in Known, \A n \in 1..i : aArgs[n] # s
        PROVE  aOptions'[s] = Null
    <2>1. aOptions[s] = Null
      <3>1. \A n \in 1..i - 1 : aArgs[n] # s
        BY <1>1, <1>3
      <3> QED BY <3>1 DEF PrefixInv, OptionsSoFar
    <2>2. CASE Found
      BY <1>1, <1>3, <2>1, <2>2 DEF Found, KnownSwitch, arg
    <2>3. CASE Taken
      <3>1. lastIdx = aArgs[i - 1] /\ i > 1
        BY <2>3 DEF Taken, SwitchArgument, PrefixInv, WaitsForNext, Pending
      <3>2. lastIdx # s
        <4>1. i - 1 \in 1..i
          BY <1>1, <3>1
        <4> QED BY <4>1, <3>1, <1>3
      <3> QED BY <1>1, <2>1, <2>3, <3>2 DEF Taken, SwitchArgument
    <2>4. CASE Refused \/ Alone
      BY <2>1, <2>4 DEF Refused, Alone, UnknownSwitch, Standalone
    <2> QED BY <2>2, <2>3, <2>4
  <1>4. ASSUME NEW s \in Known, NEW l \in 1..i, LastBelow(s, l)'
        PROVE  aOptions'[s] = Value(l, i + 1)
    <2>1. CASE l = i /\ aArgs[i] = s
      <3>1. SwitchAt(i)
        BY <2>1 DEF SwitchAt
      <3>2. Found
        BY <3>1, NotKnown DEF Taken, Refused, Alone, SwitchArgument, UnknownSwitch,
                              Standalone
      <3>3. aOptions'[s] = Given
        BY <1>1, <2>1, <3>2 DEF Found, KnownSwitch, arg
      <3>4. ~(l + 1 < i + 1)
        BY <1>1, <2>1
      <3> QED BY <3>3, <3>4
    <2>2. CASE aArgs[i] # s /\ LastBelow(s, l)
      <3>1. l \in 1..i - 1 /\ aArgs[l] = s
        BY <2>2 DEF LastBelow
      <3>2. aOptions[s] = Value(l, i)
        BY <2>2, <3>1 DEF PrefixInv, OptionsSoFar
      <3>3. l + 1 = i \/ (l + 1 < i /\ l # i - 1)
        BY <1>1, <3>1
      <3>4. CASE Found
        <4>1. aOptions'[s] = aOptions[s]
          BY <1>1, <2>2, <3>4 DEF Found, KnownSwitch, arg
        <4>2. ~BelongsTo(i)
          BY <1>2, <3>4 DEF Found, arg, SwitchAt
        <4>3. Value(l, i + 1) = Value(l, i)
          BY <1>1, <3>1, <3>3, <4>2
        <4> QED BY <3>2, <4>1, <4>3
      <3>5. CASE Taken
        <4>1. /\ bNeedsArg /\ lastIdx = aArgs[i - 1] /\ i > 1
              /\ lastIdx \in Known /\ ~SwitchAt(i) /\ BelongsTo(i)
          BY <3>5, <1>2, NotKnown DEF Taken, SwitchArgument, PrefixInv, WaitsForNext,
                                 Pending, Inv, IndexInRange
        <4>2. CASE l + 1 = i
          <5>1. l = i - 1 /\ l + 1 < i + 1
            BY <1>1, <4>2, <3>1
          <5>2. lastIdx = s
            BY <5>1, <4>1, <3>1
          <5>3. aOptions'[s] = i
            BY <1>1, <5>2, <3>5 DEF Taken, SwitchArgument
          <5> QED BY <4>1, <4>2, <5>1, <5>3
        <4>3. CASE l + 1 < i /\ l # i - 1
          <5>1. i - 1 \in l + 1..i - 1
            BY <1>1, <3>1, <4>3
          <5>2. lastIdx # s
            BY <4>1, <5>1, <2>2 DEF LastBelow
          <5>3. aOptions'[s] = aOptions[s]
            BY <1>1, <5>2, <3>5 DEF Taken, SwitchArgument
          <5>4. Value(l, i + 1) = Value(l, i)
            BY <1>1, <3>1, <4>3
          <5> QED BY <3>2, <5>3, <5>4
        <4> QED BY <3>3, <4>2, <4>3
      <3>6. CASE Refused \/ Alone
        <4>1. aOptions' = aOptions /\ ~BelongsTo(i)
          BY <3>6, <1>2 DEF Refused, Alone, UnknownSwitch, Standalone
        <4>2. Value(l, i + 1) = Value(l, i)
          BY <1>1, <3>1, <3>3, <4>1
        <4> QED BY <3>2, <4>1, <4>2
      <3> QED BY <3>4, <3>5, <3>6
    <2> QED BY <1>4, <2>1, <2>2, LastStep
  <1>5. i' - 1 = i
    BY <1>1
  <1>6. ASSUME NEW s \in Known
        PROVE  (\A n \in 1..i' - 1 : aArgs'[n] # s) => aOptions'[s] = Null
    BY <1>1, <1>3, <1>5
  <1>7. ASSUME NEW s \in Known, NEW l \in 1..i' - 1, LastBelow(s, l)'
        PROVE  aOptions'[s] = IF BelongsTo(l + 1)' /\ l + 1 < i' THEN l + 1 ELSE Given
    BY <1>1, <1>4, <1>5, <1>7
  <1> QED BY <1>6, <1>7 DEF OptionsSoFar

LEMMA WordsStep ==
  ASSUME Inv, PrefixInv, Advances, Found \/ Taken \/ Refused \/ Alone
  PROVE  WordsSoFar'
  <1>1. /\ vArgs \in Seq(1..Len(aArgs)) /\ Len(vArgs) \in Nat
        /\ i \in Nat /\ i >= 1 /\ i <= Len(aArgs) /\ i' = i + 1 /\ Len(aArgs) \in Nat
        /\ \A n : Word(n)' <=> Word(n)
    BY AtPlace DEF Inv, TypeOK
  <1>2. BelongsTo(i) <=> ~SwitchAt(i) /\ bNeedsArg
    BY Belongs DEF PrefixInv
  <1>3. \A n \in 1..i : n = i \/ n \in 1..i - 1
    BY <1>1
  <1>4. i' - 1 = i
    BY <1>1
  <1>5. WordsSoFar
    BY DEF PrefixInv
  <1>6. \A k \in 1..Len(vArgs) : vArgs[k] \in Nat /\ vArgs[k] < i
    BY <1>1, <1>5 DEF WordsSoFar
  <1>7. CASE Alone
    <2>1. vArgs' = Append(vArgs, i) /\ Word(i)
      BY <1>7, <1>2 DEF Alone, Standalone, Word, arg
    <2>2. /\ Len(vArgs') = Len(vArgs) + 1
          /\ \A k \in 1..Len(vArgs) : vArgs'[k] = vArgs[k]
          /\ vArgs'[Len(vArgs) + 1] = i
      <3>1. i \in 1..Len(aArgs)
        BY <1>1
      <3> QED BY <1>1, <2>1, <3>1, AppendProperties
    <2>3. \A k \in 1..Len(vArgs') : k \in 1..Len(vArgs) \/ k = Len(vArgs) + 1
      BY <1>1, <2>2
    <2>4. ASSUME NEW k \in 1..Len(vArgs') PROVE vArgs'[k] < i' /\ Word(vArgs[k])'
      <3>1. CASE k \in 1..Len(vArgs)
        <4>1. vArgs'[k] = vArgs[k] /\ vArgs[k] \in Nat /\ vArgs[k] < i
          BY <1>6, <2>2, <3>1
        <4>2. Word(vArgs[k])
          BY <1>5, <3>1 DEF WordsSoFar
        <4> QED BY <1>1, <4>1, <4>2
      <3>2. CASE k = Len(vArgs) + 1
        BY <1>1, <2>1, <2>2, <3>2
      <3> QED BY <2>3, <3>1, <3>2
    <2>5. ASSUME NEW n \in 1..i' - 1, Word(n)'
          PROVE  \E k \in 1..Len(vArgs') : vArgs'[k] = n
      <3>1. CASE n = i
        <4>1. Len(vArgs) + 1 \in 1..Len(vArgs')
          BY <1>1, <2>2
        <4> QED BY <4>1, <2>2, <3>1
      <3>2. CASE n \in 1..i - 1
        <4>1. PICK k \in 1..Len(vArgs) : vArgs[k] = n
          BY <1>1, <1>5, <2>5, <3>2 DEF WordsSoFar
        <4>2. k \in 1..Len(vArgs')
          BY <1>1, <2>2
        <4> QED BY <4>1, <4>2, <2>2
      <3> QED BY <1>3, <1>4, <3>1, <3>2
    <2>6. ASSUME NEW k \in 1..Len(vArgs') - 1 PROVE vArgs'[k] < vArgs'[k + 1]
      <3>1. k \in 1..Len(vArgs) /\ (k = Len(vArgs) \/ k \in 1..Len(vArgs) - 1)
        BY <1>1, <2>2
      <3>2. CASE k = Len(vArgs)
        BY <1>6, <2>2, <3>1, <3>2
      <3>3. CASE k \in 1..Len(vArgs) - 1
        <4>1. k + 1 \in 1..Len(vArgs)
          BY <1>1, <3>3
        <4> QED BY <1>5, <2>2, <3>1, <3>3, <4>1 DEF WordsSoFar
      <3> QED BY <3>1, <3>2, <3>3
    <2> QED BY <2>4, <2>5, <2>6 DEF WordsSoFar
  <1>8. CASE Found \/ Taken \/ Refused
    <2>1. vArgs' = vArgs
      BY <1>8 DEF Found, KnownSwitch, Taken, SwitchArgument, Refused, UnknownSwitch
    <2>2. ~Word(i)
      <3>1. CASE Found \/ Refused
        BY <3>1, GetOptAssumption DEF Found, Refused, UnknownSwitch, Word, arg, Switch,
                                      Known
      <3>2. CASE Taken
        BY <3>2, <1>2, NotKnown DEF Taken, SwitchArgument, Word
      <3> QED BY <1>8, <3>1, <3>2
    <2>3. ASSUME NEW k \in 1..Len(vArgs') PROVE vArgs'[k] < i' /\ Word(vArgs[k])'
      BY <1>1, <1>5, <1>6, <2>1 DEF WordsSoFar
    <2>4. ASSUME NEW n \in 1..i' - 1, Word(n)'
          PROVE  \E k \in 1..Len(vArgs') : vArgs'[k] = n
      BY <1>1, <1>3, <1>4, <1>5, <2>1, <2>2, <2>4 DEF WordsSoFar
    <2> QED BY <1>5, <2>1, <2>3, <2>4 DEF WordsSoFar
  <1> QED BY <1>7, <1>8

(* The places before i are finitely many.                                   *)
LEMMA BelowFinite ==
  ASSUME Inv
  PROVE  IsFiniteSet(UnknownBelow) /\ IsFiniteSet(MissingBelow)
  <1>1. IsFiniteSet(1..i - 1)
    <2>1. i - 1 \in Int
      BY DEF Inv, TypeOK
    <2> QED BY <2>1, FS_Interval
  <1> QED BY <1>1, FS_Subset DEF UnknownBelow, MissingBelow

LEMMA UnknownStep ==
  ASSUME Inv, PrefixInv, Advances, Found \/ Taken \/ Refused \/ Alone
  PROVE  iUnknown' = Cardinality(UnknownBelow)'
  <1>1. /\ i \in Nat /\ i >= 1 /\ i' = i + 1 /\ aArgs' = aArgs
        /\ \A n : BelongsTo(n)' <=> BelongsTo(n)
    BY AtPlace
  <1>2. BelongsTo(i) <=> ~SwitchAt(i) /\ bNeedsArg
    BY Belongs DEF PrefixInv
  <1>3. /\ 1..i' - 1 = (1..i - 1) \cup {i} /\ i \notin 1..i - 1
    BY <1>1
  <1>4. iUnknown \in Nat /\ iUnknown = Cardinality(UnknownBelow)
    BY DEF Inv, TypeOK, PrefixInv, CountersSoFar
  <1>5. CASE Refused
    <2>1. aArgs[i] \in Unknown /\ ~BelongsTo(i) /\ iUnknown' = iUnknown + 1
      BY <1>5, <1>2 DEF Refused, UnknownSwitch, arg
    <2>2. UnknownBelow' = UnknownBelow \cup {i} /\ i \notin UnknownBelow
      BY <1>1, <1>3, <2>1 DEF UnknownBelow
    <2> QED BY <1>4, <2>1, <2>2, BelowFinite, FS_AddElement
  <1>6. CASE Found \/ Taken \/ Alone
    <2>1. ~(aArgs[i] \in Unknown /\ ~BelongsTo(i))
      <3>1. CASE Found \/ Alone
        BY <3>1, GetOptAssumption DEF Found, Alone, Standalone, arg, Switch, Known
      <3>2. CASE Taken
        BY <3>2, <1>2, NotKnown DEF Taken, SwitchArgument
      <3> QED BY <1>6, <3>1, <3>2
    <2>2. UnknownBelow' = UnknownBelow
      BY <1>1, <1>3, <2>1 DEF UnknownBelow
    <2>3. iUnknown' = iUnknown
      BY <1>6 DEF Found, KnownSwitch, Taken, SwitchArgument, Alone, Standalone
    <2> QED BY <1>4, <2>2, <2>3
  <1> QED BY <1>5, <1>6

LEMMA MissingStep ==
  ASSUME Inv, PrefixInv, Advances, Found \/ Taken \/ Refused \/ Alone
  PROVE  iReqArgMissing' = Cardinality(MissingBelow)'
  <1> DEFINE Asks(n) == SwitchAt(n) /\ aArgs[n] \in Capital
  <1>1. /\ i \in Nat /\ i >= 1 /\ i' = i + 1 /\ aArgs' = aArgs
        /\ \A n : BelongsTo(n)' <=> BelongsTo(n)
        /\ \A n : SwitchAt(n)' <=> SwitchAt(n)
    BY AtPlace
  <1>2. BelongsTo(i) <=> ~SwitchAt(i) /\ bNeedsArg
    BY Belongs DEF PrefixInv
  <1>3. /\ 1..i' - 1 = (1..i - 1) \cup {i} /\ i \notin 1..i - 1
    BY <1>1
  <1>4. iReqArgMissing \in Nat /\ iReqArgMissing = Cardinality(MissingBelow)
    BY DEF Inv, TypeOK, PrefixInv, CountersSoFar
  <1>5. MissingBelow' = {n \in 1..i' - 1 : Asks(n) /\ ~(BelongsTo(n + 1) /\ n + 1 < i')}
    BY <1>1 DEF MissingBelow
  <1>6. \A n \in 1..i - 1 : n + 1 < i' /\ (n + 1 < i <=> n # i - 1)
    BY <1>1
  <1>7. ~(i + 1 < i')
    BY <1>1
  <1>8. MissingBelow = {n \in 1..i - 1 : Asks(n) /\ ~(BelongsTo(n + 1) /\ n + 1 < i)}
    BY DEF MissingBelow
  <1>9. CASE Found \/ Refused \/ Alone
    <2>1. ~BelongsTo(i)
      BY <1>2, <1>9 DEF Found, Refused, UnknownSwitch, Alone, Standalone, arg, SwitchAt
    <2>2. \A n \in 1..i - 1 : BelongsTo(n + 1) /\ n + 1 < i <=> BelongsTo(n + 1) /\ n + 1 < i'
      <3>1. TAKE n \in 1..i - 1
      <3>2. CASE n = i - 1
        <4>1. n + 1 = i
          BY <1>1, <3>2
        <4> QED BY <4>1, <2>1
      <3>3. CASE n # i - 1
        BY <1>6, <3>3
      <3> QED BY <3>2, <3>3
    <2>3. CASE Asks(i)
      <3>1. Found
        BY <1>9, <2>3, NotKnown DEF Refused, UnknownSwitch, Alone, Standalone
      <3>2. iReqArgMissing' = iReqArgMissing + 1
        BY <2>3, <3>1 DEF Found, KnownSwitch, requiresArg, arg
      <3>3. MissingBelow' = MissingBelow \cup {i} /\ i \notin MissingBelow
        BY <1>3, <1>5, <1>7, <1>8, <2>2, <2>3
      <3> QED BY <1>4, <3>2, <3>3, BelowFinite, FS_AddElement
    <2>4. CASE ~Asks(i)
      <3>1. MissingBelow' = MissingBelow
        BY <1>3, <1>5, <1>8, <2>2, <2>4
      <3>2. iReqArgMissing' = iReqArgMissing
        <4>1. CASE Found
          BY <1>4, <2>4, <4>1 DEF Found, KnownSwitch, requiresArg, arg, SwitchAt
        <4>2. CASE Refused \/ Alone
          BY <4>2 DEF Refused, UnknownSwitch, Alone, Standalone
        <4> QED BY <1>9, <4>1, <4>2
      <3> QED BY <1>4, <3>1, <3>2
    <2> QED BY <2>3, <2>4
  <1>10. CASE Taken
    <2>1. ~SwitchAt(i) /\ bNeedsArg /\ BelongsTo(i)
      BY <1>2, <1>10, NotKnown DEF Taken, SwitchArgument
    <2>2. i > 1 /\ Asks(i - 1)
      BY <2>1 DEF PrefixInv, WaitsForNext, Pending
    <2>3. i - 1 \in 1..i - 1 /\ (i - 1) + 1 = i
      BY <1>1, <2>2
    <2>4. i - 1 \in MissingBelow
      <3>1. ~((i - 1) + 1 < i)
        BY <1>1, <2>3
      <3> QED BY <1>8, <2>2, <2>3, <3>1
    <2>5. MissingBelow' = MissingBelow \ {i - 1}
      <3>1. ASSUME NEW n PROVE n \in MissingBelow' <=> n \in MissingBelow \ {i - 1}
        <4>1. CASE n = i
          BY <1>3, <1>5, <1>8, <2>1, <4>1
        <4>2. CASE n = i - 1
          BY <1>5, <1>6, <2>1, <2>3, <4>2
        <4>3. CASE n \in 1..i - 1 /\ n # i - 1
          BY <1>3, <1>5, <1>6, <1>8, <4>3
        <4>4. CASE n \notin 1..i - 1 /\ n # i
          BY <1>3, <1>5, <1>8, <4>4
        <4> QED BY <4>1, <4>2, <4>3, <4>4
      <3> QED BY <3>1
    <2>6. iReqArgMissing' = iReqArgMissing - 1
      BY <1>10 DEF Taken, SwitchArgument
    <2> QED BY <1>4, <2>4, <2>5, <2>6, BelowFinite, FS_RemoveElement
  <1> QED BY <1>9, <1>10

LEMMA PrefixInit == InitParser => PrefixInv
  <1> SUFFICES ASSUME InitParser PROVE PrefixInv
    OBVIOUS
  <1>1. 1..i - 1 = {}
    BY DEF InitParser
  <1>2. WaitsForNext
    BY DEF InitParser, WaitsForNext, Pending
  <1>3. OptionsSoFar
    BY <1>1 DEF InitParser, OptionsSoFar
  <1>4. WordsSoFar
    BY <1>1 DEF InitParser, WordsSoFar
  <1>5. UnknownBelow = {} /\ MissingBelow = {}
    BY <1>1 DEF UnknownBelow, MissingBelow
  <1>6. CountersSoFar
    BY <1>5, FS_EmptySet DEF InitParser, CountersSoFar
  <1> QED BY <1>2, <1>3, <1>4, <1>6 DEF PrefixInv

(* The step that leaves the parser where it is, or only throws.             *)
LEMMA PrefixKept ==
  ASSUME PrefixInv, UNCHANGED <<aArgs, i, aOptions, vArgs, iUnknown, iReqArgMissing,
                                lastIdx, bNeedsArg>>
  PROVE  PrefixInv'
  <1>1. WaitsForNext'
    BY DEF PrefixInv, WaitsForNext, Pending, SwitchAt
  <1>2. OptionsSoFar'
    BY DEF PrefixInv, OptionsSoFar, LastBelow, BelongsTo, SwitchAt
  <1>3. WordsSoFar'
    BY DEF PrefixInv, WordsSoFar, Word, BelongsTo, SwitchAt
  <1>4. UnknownBelow' = UnknownBelow /\ MissingBelow' = MissingBelow
    BY DEF UnknownBelow, MissingBelow, BelongsTo, SwitchAt
  <1>5. CountersSoFar'
    BY <1>4 DEF PrefixInv, CountersSoFar
  <1> QED BY <1>1, <1>2, <1>3, <1>5 DEF PrefixInv

LEMMA PrefixStep == Inv /\ PrefixInv /\ [fnParseOptions]_parser => PrefixInv'
  <1> SUFFICES ASSUME Inv, PrefixInv, [fnParseOptions]_parser PROVE PrefixInv'
    OBVIOUS
  <1>1. CASE UNCHANGED parser
    BY <1>1, PrefixKept DEF parser
  <1>2. CASE EmptyArgument
    BY <1>2, PrefixKept DEF EmptyArgument
  <1>3. CASE Advances /\ (Found \/ Taken \/ Refused \/ Alone)
    <2>1. CountersSoFar'
      BY <1>3, UnknownStep, MissingStep DEF CountersSoFar
    <2> QED BY <1>3, <2>1, WaitsStep, OptionsStep, WordsStep DEF PrefixInv
  <1> QED BY <1>1, <1>2, <1>3, StepKinds

(* At the end of the line, "so far" is all of it.                           *)
LEMMA AtTheEnd ==
  ASSUME Inv, Parsed
  PROVE  Len(aArgs) \in Nat /\ i = Len(aArgs) + 1 /\ i - 1 = Len(aArgs)
  BY DEF Inv, TypeOK, Parsed

LEMMA LargestPlace ==
  ASSUME NEW n \in Nat, NEW S \in SUBSET 1..n, S # {}
  PROVE  \E m \in S : \A k \in S : k <= m
  <1> DEFINE T == {n - k : k \in S}
  <1>1. T \in SUBSET Nat /\ T # {}
    <2>1. ASSUME NEW k \in S PROVE n - k \in Nat
      OBVIOUS
    <2>2. PICK k \in S : TRUE
      OBVIOUS
    <2>3. n - k \in T
      OBVIOUS
    <2> QED BY <2>1, <2>3
  <1>2. PICK x \in T : \A y \in T : ~(<<y, x>> \in OpToRel(<, Nat))
    <2> HIDE DEF T
    <2> QED BY <1>1, WFMin, NatLessThanWellFounded, Zenon
  <1>3. \A y \in T : ~(y < x)
    BY <1>1, <1>2 DEF OpToRel
  <1>4. PICK m \in S : x = n - m
    BY <1>2
  <1>5. ASSUME NEW k \in S PROVE k <= m
    <2>1. ~(n - k < n - m)
      BY <1>3, <1>4
    <2> QED BY <2>1
  <1> QED BY <1>4, <1>5

LEMMA LastPlace ==
  ASSUME Inv, NEW s, Places(s) # {}
  PROVE  Last(s) \in Places(s) /\ \A k \in Places(s) : k <= Last(s)
  <1>1. Places(s) \in SUBSET 1..Len(aArgs) /\ Len(aArgs) \in Nat
    BY DEF Places, Inv, TypeOK
  <1>2. PICK m \in Places(s) : \A k \in Places(s) : k <= m
    BY <1>1, LargestPlace
  <1> QED BY <1>2 DEF Last

LEMMA PrefixGivesOptions == Inv /\ PrefixInv => OptionsAsMeant
  <1> SUFFICES ASSUME Inv, PrefixInv, Parsed PROVE OptionsAsMeant
    BY DEF OptionsAsMeant
  <1>1. Len(aArgs) \in Nat /\ i = Len(aArgs) + 1 /\ i - 1 = Len(aArgs)
    BY AtTheEnd
  <1>2. ASSUME NEW s \in Known PROVE aOptions[s] = Meant(s)
    <2>1. CASE Places(s) = {}
      <3>1. \A n \in 1..i - 1 : aArgs[n] # s
        BY <1>1, <2>1 DEF Places
      <3> QED BY <2>1, <3>1 DEF PrefixInv, OptionsSoFar, Meant
    <2>2. CASE Places(s) # {}
      <3> DEFINE l == Last(s)
      <3>1. l \in Places(s) /\ \A k \in Places(s) : k <= l
        BY <2>2, LastPlace
      <3>2. l \in 1..i - 1 /\ aArgs[l] = s
        BY <1>1, <3>1 DEF Places
      <3>3. ASSUME NEW n \in l + 1..i - 1 PROVE aArgs[n] # s
        <4>1. n \in 1..Len(aArgs) /\ ~(n <= l)
          BY <1>1, <3>2
        <4> QED BY <3>1, <4>1 DEF Places
      <3>4. LastBelow(s, l)
        BY <3>2, <3>3 DEF LastBelow
      <3>5. aOptions[s] = IF BelongsTo(l + 1) /\ l + 1 < i THEN l + 1 ELSE Given
        BY <3>2, <3>4 DEF PrefixInv, OptionsSoFar
      <3>6. BelongsTo(l + 1) => l + 1 < i
        BY <1>1, <3>2 DEF BelongsTo
      <3> QED BY <2>2, <3>5, <3>6 DEF Meant
    <2> QED BY <2>1, <2>2
  <1>3. WordsSoFar
    BY DEF PrefixInv
  <1>4. ASSUME NEW n \in 1..Len(aArgs)
        PROVE  (\E k \in 1..Len(vArgs) : vArgs[k] = n) <=> aArgs[n] = "word" /\ ~BelongsTo(n)
    BY <1>1, <1>3 DEF WordsSoFar, Word
  <1>5. \A k \in 1..Len(vArgs) - 1 : vArgs[k] < vArgs[k + 1]
    BY <1>3 DEF WordsSoFar
  <1> QED BY <1>2, <1>4, <1>5 DEF OptionsAsMeant, getOption, getArguments

LEMMA PrefixGivesCounters == Inv /\ PrefixInv => CountersAsMeant
  <1> SUFFICES ASSUME Inv, PrefixInv, Parsed PROVE CountersAsMeant
    BY DEF CountersAsMeant
  <1>1. Len(aArgs) \in Nat /\ i = Len(aArgs) + 1 /\ i - 1 = Len(aArgs)
    BY AtTheEnd
  <1>2. UnknownBelow = {n \in 1..Len(aArgs) : aArgs[n] \in Unknown /\ ~BelongsTo(n)}
    BY <1>1 DEF UnknownBelow
  <1>3. MissingBelow = {n \in 1..Len(aArgs) : /\ SwitchAt(n) /\ aArgs[n] \in Capital
                                              /\ ~BelongsTo(n + 1)}
    <2>1. \A n \in 1..Len(aArgs) : BelongsTo(n + 1) => n + 1 < i
      BY <1>1 DEF BelongsTo
    <2> QED BY <1>1, <2>1 DEF MissingBelow
  <1> QED BY <1>2, <1>3 DEF PrefixInv, CountersSoFar, CountersAsMeant

(* The loop gives every switch the argument its last use is followed by,    *)
(* and keeps the words that belong to no switch in their order.             *)
THEOREM OptionsMeanWhatWasWritten == ParserSpec => []OptionsAsMeant
  BY InitInv, StepInv, PrefixInit, PrefixStep, PrefixGivesOptions, PTL DEF ParserSpec

(* The counters of the loop count unknown switches and missing arguments,   *)
(* whatever the order of the arguments.                                     *)
THEOREM CountersMeanWhatWasWritten == ParserSpec => []CountersAsMeant
  BY InitInv, StepInv, PrefixInit, PrefixStep, PrefixGivesCounters, PTL DEF ParserSpec
================================================================================
