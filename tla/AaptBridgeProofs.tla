--------------------------- MODULE AaptBridgeProofs ---------------------------
(* Theorems about AaptBridge for every number of calls, lines and errors.   *)
EXTENDS AaptBridge, SequenceTheorems, FiniteSetTheorems, TLAPS

(* Changing one call leaves a call of every call.                           *)
LEMMA CallSet ==
  ASSUME TypeOK, NEW c \in Calls, NEW r \in Call, call' = [call EXCEPT ![c] = r]
  PROVE  call' \in [Calls -> Call]
  BY DEF TypeOK

LEMMA CallTyped ==
  ASSUME TypeOK, NEW c \in Calls
  PROVE  call[c] \in Call
  BY DEF TypeOK

LEMMA GoesType ==
  ASSUME TypeOK, NEW c \in Calls, NEW pc \in Engaged \cup {"checked", "loaded", "done"},
         Goes(c, pc)
  PROVE  call' \in [Calls -> Call]
  <1>1. [call[c] EXCEPT !.pc = pc] \in Call
    <2>1. call[c] \in Call
      BY CallTyped
    <2> QED BY <2>1 DEF Call, Engaged
  <1> QED BY <1>1, CallSet DEF Goes

(* Printing lines leaves lines.                                             *)
LEMMA OutputType ==
  ASSUME TypeOK, NEW s \in Streams, NEW lines \in Seq(Line), NEW c \in Calls,
         Output(c, s, lines)
  PROVE  /\ file' \in [Streams -> Seq(Line)]
         /\ wrote' \in [Calls -> [Streams -> Seq(Line)]]
  <1>1. file[s] \o lines \in Seq(Line) /\ wrote[c][s] \o lines \in Seq(Line)
    BY DEF TypeOK
  <1>2. file' \in [Streams -> Seq(Line)]
    BY <1>1 DEF Output, TypeOK
  <1>3. [wrote[c] EXCEPT ![s] = wrote[c][s] \o lines] \in [Streams -> Seq(Line)]
    BY <1>1 DEF TypeOK
  <1> QED BY <1>2, <1>3 DEF Output, TypeOK

LEMMA TextType ==
  ASSUME NEW c \in Calls
  PROVE  Text(c) \in Line /\ <<Text(c)>> \in Seq(Line)
  BY DEF Text, Line

LEMMA ErrorLinesType ==
  ASSUME TypeOK, NEW c \in Calls
  PROVE  ErrorLines(c) \in Seq(Line)
  <1>1. \A i \in 1..Len(errors) : errors[i] \in Calls
    BY DEF TypeOK
  <1>2. Len(errors) \in Nat
    BY DEF TypeOK
  <1>3. ASSUME NEW i \in 1..Len(errors)
        PROVE  [by |-> c, about |-> errors[i], kind |-> "error"] \in Line
    BY <1>1 DEF Line
  <1> QED BY <1>2, <1>3 DEF ErrorLines

LEMMA InitType == Init => TypeOK
  <1>1. NewCall \in Call
    BY DEF NewCall, Call
  <1>2. ASSUME Init
        PROVE  file \in [Streams -> Seq(Line)] /\ wrote \in [Calls -> [Streams -> Seq(Line)]]
    BY <1>2 DEF Init
  <1>3. ASSUME Init
        PROVE  call \in [Calls -> Call] /\ errors \in Seq(Calls)
    BY <1>1, <1>3 DEF Init
  <1>4. ASSUME Init PROVE loaded \in BOOLEAN /\ stream \in [Streams -> BOOLEAN]
    BY <1>4 DEF Init
  <1> QED BY <1>2, <1>3, <1>4 DEF TypeOK

LEMMA fnAaptType ==
  ASSUME TypeOK, NEW c \in Calls, fnAapt(c)
  PROVE  TypeOK'
  <1>1. call' \in [Calls -> Call]
    <2>1. CASE fnCheckWorkDir_fails(c)
      BY <2>1, GoesType DEF fnCheckWorkDir_fails
    <2>2. CASE fnCheckWorkDir(c)
      BY <2>2, GoesType DEF fnCheckWorkDir
    <2>3. CASE fnInit(c)
      BY <2>3, GoesType DEF fnInit
    <2>4. CASE fnInit_fails(c)
      <3>1. PICK rc \in {2, 99} : call' = [call EXCEPT ![c].pc = "done", ![c].rc = rc]
        BY <2>4 DEF fnInit_fails
      <3>2. [call[c] EXCEPT !.pc = "done", !.rc = rc] \in Call
        <4>1. call[c] \in Call
          BY CallTyped
        <4>2. rc \in {0, 1, 2, 99}
          BY <3>1
        <4> QED BY <4>1, <4>2 DEF Call
      <3> QED BY <3>1, <3>2 DEF TypeOK
    <2> QED BY <2>1, <2>2, <2>3, <2>4 DEF fnAapt
  <1>2. UNCHANGED <<stream, file, errors, wrote>> /\ loaded' \in {loaded, TRUE}
    BY DEF fnAapt, fnCheckWorkDir_fails, fnCheckWorkDir, fnInit, fnInit_fails
  <1> QED BY <1>1, <1>2 DEF TypeOK

LEMMA JNImainType ==
  ASSUME TypeOK, NEW c \in Calls, JNImain(c)
  PROVE  TypeOK'
  <1>1. CASE RedirectErr(c)
    <2>1. ASSUME NEW d \in Calls, NEW met \in SUBSET Calls
          PROVE  /\ [call[d] EXCEPT !.met = met] \in Call
                 /\ [call[d] EXCEPT !.pc = "halfway", !.met = met] \in Call
      <3>1. call[d] \in Call
        BY CallTyped
      <3> QED BY <3>1 DEF Call
    <2>2. \A d \in Calls : call[d] \in Call /\ call[d].met \in SUBSET Calls
      BY CallTyped DEF Call
    <2>3. call' \in [Calls -> Call]
      BY <1>1, <2>1, <2>2 DEF RedirectErr
    <2>4. file' \in [Streams -> Seq(Line)]
      <3>1. file \in [Streams -> Seq(Line)] /\ <<>> \in Seq(Line)
        BY DEF TypeOK
      <3> QED BY <1>1, <3>1 DEF RedirectErr, Truncated
    <2> QED BY <1>1, <2>3, <2>4 DEF RedirectErr, TypeOK
  <1>2. CASE RedirectOut(c)
    <2>1. call' \in [Calls -> Call]
      BY <1>2, GoesType DEF RedirectOut, Engaged
    <2>2. file' = [file EXCEPT !["out"] = <<Text(c)>>]
      BY <1>2 DEF RedirectOut, Truncated, TypeOK, Streams
    <2>3. file' \in [Streams -> Seq(Line)]
      BY <2>2, TextType DEF TypeOK
    <2>4. [wrote[c] EXCEPT !["out"] = <<Text(c)>>] \in [Streams -> Seq(Line)]
      BY TextType DEF TypeOK
    <2> QED BY <1>2, <2>1, <2>3, <2>4 DEF RedirectOut, TypeOK
  <1>3. CASE CloseErr(c)
    BY <1>3, GoesType DEF CloseErr, Engaged, TypeOK
  <1>4. CASE CloseOut(c)
    BY <1>4, GoesType DEF CloseOut, Engaged, TypeOK
  <1> QED BY <1>1, <1>2, <1>3, <1>4 DEF JNImain

LEMMA mainType ==
  ASSUME TypeOK, NEW c \in Calls, main(c)
  PROVE  TypeOK'
  <1>1. ASSUME NEW s \in Streams, Prints(c, s)
        PROVE  TypeOK'
    BY <1>1, OutputType, TextType DEF Prints, TypeOK
  <1>2. CASE bail(c)
    <2>1. Output(c, "err", ErrorLines(c)) /\ ErrorLines(c) \in Seq(Line)
      BY <1>2, ErrorLinesType DEF bail
    <2>2. /\ file' \in [Streams -> Seq(Line)]
          /\ wrote' \in [Calls -> [Streams -> Seq(Line)]]
      BY <2>1, OutputType DEF Streams
    <2>3. call' \in [Calls -> Call]
      BY <1>2, GoesType DEF bail, Engaged
    <2> QED BY <1>2, <2>2, <2>3 DEF bail, TypeOK
  <1>3. ASSUME main_returns(c) \/ doPackage(c) \/ error(c) \/ GivesUp(c)
               \/ hasErrors(c) \/ writeAPK(c)
        PROVE  TypeOK'
    <2>1. call[c] \in Call
      BY CallTyped
    <2>2. [call[c] EXCEPT !.pc = "packaging", !.package = TRUE] \in Call
      BY <2>1 DEF Call
    <2>3. [call[c] EXCEPT !.reported = call[c].reported + 1] \in Call
      BY <2>1 DEF Call
    <2>4. call' \in [Calls -> Call]
      <3>1. CASE main_returns(c)
        <4>1. PICK rc \in 0..2 : call' = [call EXCEPT ![c].pc = "returned", ![c].rc = rc]
          BY <3>1 DEF main_returns
        <4>2. rc \in {0, 1, 2, 99}
          OBVIOUS
        <4>3. [call[c] EXCEPT !.pc = "returned", !.rc = rc] \in Call
          BY <2>1, <4>2 DEF Call
        <4> QED BY <4>1, <4>3 DEF TypeOK
      <3>2. CASE doPackage(c)
        <4>1. call' = [call EXCEPT ![c] =
                         [call[c] EXCEPT !.pc = "packaging", !.package = TRUE]]
          BY <3>2 DEF doPackage, TypeOK
        <4> QED BY <4>1, <2>2, CallSet
      <3>3. CASE error(c)
        BY <3>3, <2>3, CallSet DEF error
      <3>4. CASE GivesUp(c)
        <4>1. PICK rc \in 0..2 : rc = 1 /\ call' =
                [call EXCEPT ![c].pc = "bail", ![c].rc = rc, ![c].failed = TRUE]
          BY <3>4 DEF GivesUp
        <4>2. rc \in {0, 1, 2, 99}
          OBVIOUS
        <4>3. [call[c] EXCEPT !.pc = "bail", !.rc = rc, !.failed = TRUE] \in Call
          BY <2>1, <4>2 DEF Call
        <4> QED BY <4>1, <4>3 DEF TypeOK
      <3>5. CASE hasErrors(c)
        <4> DEFINE pc == IF errors = <<>> THEN "writing" ELSE "bail"
        <4>1. PICK rc \in 0..2 : call' = [call EXCEPT ![c].pc = pc, ![c].rc = rc]
          BY <3>5 DEF hasErrors
        <4>2. rc \in {0, 1, 2, 99} /\ pc \in {"writing", "bail"}
          OBVIOUS
        <4> HIDE DEF pc
        <4>3. [call[c] EXCEPT !.pc = pc, !.rc = rc] \in Call
          BY <2>1, <4>2 DEF Call
        <4> QED BY <4>1, <4>3 DEF TypeOK
      <3>6. CASE writeAPK(c)
        <4>1. PICK rc \in 0..2 : call' = [call EXCEPT ![c].pc = "bail", ![c].rc = rc]
          BY <3>6 DEF writeAPK
        <4>2. rc \in {0, 1, 2, 99}
          OBVIOUS
        <4>3. [call[c] EXCEPT !.pc = "bail", !.rc = rc] \in Call
          BY <2>1, <4>2 DEF Call
        <4> QED BY <4>1, <4>3 DEF TypeOK
      <3> QED BY <1>3, <3>1, <3>2, <3>3, <3>4, <3>5, <3>6
    <2>5. UNCHANGED <<loaded, stream, file, wrote>>
      BY <1>3 DEF main_returns, doPackage, error, GivesUp, hasErrors, writeAPK
    <2>6. errors' \in Seq(Calls)
      <3>1. errors \in Seq(Calls) /\ <<>> \in Seq(Calls)
        BY DEF TypeOK
      <3>2. Append(errors, c) \in Seq(Calls)
        BY <3>1
      <3> QED BY <1>3, <3>1, <3>2
          DEF main_returns, doPackage, clear, error, GivesUp, hasErrors, writeAPK
    <2> QED BY <2>4, <2>5, <2>6 DEF TypeOK
  <1> QED BY <1>1, <1>2, <1>3 DEF main

(* What can be read of a file is lines of it.                               *)
LEMMA ReadableType ==
  ASSUME TypeOK, NEW s \in Streams, NEW text \in Readable(s)
  PROVE  /\ text \in Seq(Line)
         /\ \A i \in 1..Len(text) : i \in 1..Len(file[s]) /\ text[i] = file[s][i]
  <1>1. file[s] \in Seq(Line) /\ Len(file[s]) \in Nat
    BY DEF TypeOK
  <1>2. PICK n \in 0..Len(file[s]) : text = SubSeq(file[s], 1, n)
    BY <1>1 DEF Readable
  <1> QED BY <1>1, <1>2

LEMMA fnGetNativeOutputType ==
  ASSUME TypeOK, NEW c \in Calls, fnGetNativeOutput(c)
  PROVE  TypeOK'
  <1>1. call[c] \in Call /\ call[c].shown \in Seq(Line)
    <2>1. call[c] \in Call
      BY CallTyped
    <2> QED BY <2>1 DEF Call
  <1>2. PICK pc \in {"halfread", "done"}, text \in Seq(Line) :
          call' = [call EXCEPT ![c].pc = pc, ![c].shown = @ \o text]
    BY ReadableType DEF fnGetNativeOutput, ReadOut, ReadErr, Streams
  <1>3. call[c].shown \o text \in Seq(Line)
    BY <1>1
  <1>4. [call[c] EXCEPT !.pc = pc, !.shown = call[c].shown \o text] \in Call
    BY <1>1, <1>3 DEF Call
  <1>5. call' \in [Calls -> Call]
    BY <1>2, <1>4, CallSet
  <1>6. UNCHANGED <<loaded, stream, file, errors, wrote>>
    BY DEF fnGetNativeOutput, ReadOut, ReadErr
  <1> QED BY <1>5, <1>6 DEF TypeOK

LEMMA NextType == TypeOK /\ [Next]_vars => TypeOK'
  <1>1. ASSUME TypeOK, UNCHANGED vars PROVE TypeOK'
    BY <1>1 DEF vars, TypeOK
  <1> QED BY <1>1, fnAaptType, JNImainType, mainType, fnGetNativeOutputType DEF Next

(* Every reachable state is one of the states the model speaks of.          *)
THEOREM TypeCorrect == Spec => []TypeOK
  BY InitType, NextType, PTL DEF Spec

------------------------------------------------------------------------------
(* What the elements of the sequences of the model are.                     *)
LEMMA ElementsConcat ==
  ASSUME NEW S, NEW s \in Seq(S), NEW t \in Seq(S)
  PROVE  Elements(s \o t) = Elements(s) \cup Elements(t)
  <1>1. ASSUME NEW i \in 1..Len(s \o t)
        PROVE  (s \o t)[i] \in Elements(s) \cup Elements(t)
    <2>1. CASE i \in 1..Len(s)
      BY <2>1, ConcatProperties DEF Elements
    <2>2. CASE i \notin 1..Len(s)
      <3>1. i - Len(s) \in 1..Len(t) /\ (s \o t)[i] = t[i - Len(s)]
        BY <2>2, ConcatProperties
      <3> QED BY <3>1 DEF Elements
    <2> QED BY <2>1, <2>2
  <1>2. ASSUME NEW i \in 1..Len(s)
        PROVE  s[i] \in Elements(s \o t)
    <2>1. i \in 1..Len(s \o t) /\ (s \o t)[i] = s[i]
      BY ConcatProperties
    <2> QED BY <2>1 DEF Elements
  <1>3. ASSUME NEW i \in 1..Len(t)
        PROVE  t[i] \in Elements(s \o t)
    <2>1. i + Len(s) \in 1..Len(s \o t) /\ (s \o t)[i + Len(s)] = t[i]
      BY ConcatProperties
    <2> QED BY <2>1 DEF Elements
  <1> QED BY <1>1, <1>2, <1>3 DEF Elements

LEMMA ElementsFacts ==
  ASSUME NEW S, NEW s \in Seq(S), NEW e \in S
  PROVE  /\ Elements(Append(s, e)) = Elements(s) \cup {e}
         /\ Elements(s) \subseteq S
  <1>1. Elements(Append(s, e)) = Elements(s) \cup {e}
    <2>1. /\ Append(s, e)[Len(s) + 1] = e
          /\ Len(s) + 1 \in 1..Len(Append(s, e))
          /\ 1..Len(Append(s, e)) = 1..Len(s) \cup {Len(s) + 1}
          /\ \A i \in 1..Len(s) : Append(s, e)[i] = s[i]
      BY AppendProperties
    <2> QED BY <2>1 DEF Elements
  <1>2. Elements(s) \subseteq S
    BY DEF Elements
  <1> QED BY <1>1, <1>2

LEMMA NoElements == Elements(<<>>) = {}
  BY DEF Elements

------------------------------------------------------------------------------
(* A step in which no call becomes engaged.                                 *)
Packs == {"packaging", "writing", "bail"}
Calm == \A d \in Calls :
  /\ call'[d].met = call[d].met
  /\ call'[d].pc \in Engaged => call[d].pc \in Engaged
  /\ call'[d].pc \in {"idle", "checked", "loaded"}
       => call[d].pc \in {"idle", "checked", "loaded"}

LEMMA CalmKnows ==
  ASSUME Calm, NEW d \in Calls
  PROVE  Knows(d)' = Knows(d)
  BY DEF Calm, Knows

LEMMA CalmMet ==
  ASSUME Recent, Calm
  PROVE  EngagedHaveMet' /\ NewcomersAlone'
  <1>1. EngagedHaveMet'
    <2> SUFFICES ASSUME NEW c \in Calls, NEW d \in Calls,
                        call'[c].pc \in Engaged, call'[d].pc \in Engaged
                 PROVE  d \in Knows(c)'
      BY DEF EngagedHaveMet, Redirected
    <2>1. call[c].pc \in Engaged /\ call[d].pc \in Engaged
      BY DEF Calm
    <2> QED BY <2>1, CalmKnows DEF Recent, EngagedHaveMet, Redirected
  <1>2. NewcomersAlone'
    BY DEF Recent, Calm, NewcomersAlone
  <1> QED BY <1>1, <1>2

(* Nothing is printed.                                                      *)
LEMMA CalmFile ==
  ASSUME TypeOK, Recent, Calm, file' = file,
         \A d \in Calls : call'[d].pc \in Engaged \ {"halfway"} => call[d].pc # "halfway"
  PROVE  ErrRecent' /\ OutRecent' /\ LinesRecent'
  <1>1. ErrRecent'
    BY CalmKnows DEF Recent, Calm, ErrRecent, Redirected
  <1>2. OutRecent'
    <2> SUFFICES ASSUME NEW d \in Calls, call'[d].pc \in Engaged \ {"halfway"},
                        NEW line \in Elements(file["out"])
                 PROVE  line.by \in Knows(d)'
      BY DEF OutRecent, Redirected
    <2>1. call[d].pc \in Engaged /\ call[d].pc # "halfway"
      BY DEF Calm
    <2> QED BY <2>1, CalmKnows DEF Recent, OutRecent, Redirected
  <1>3. LinesRecent'
    <2> SUFFICES ASSUME NEW s \in Streams, NEW line \in Elements(file[s])
                 PROVE  line.about \in Knows(line.by)'
      BY DEF LinesRecent
    <2>1. line \in Line
      BY ElementsFacts DEF TypeOK, Elements
    <2>2. line.by \in Calls
      BY <2>1 DEF Line
    <2> QED BY <2>2, CalmKnows DEF Recent, LinesRecent
  <1> QED BY <1>1, <1>2, <1>3

(* No error is reported.                                                    *)
LEMMA CalmErrors ==
  ASSUME Recent, Calm, errors' = errors,
         \A d \in Calls : call'[d].pc \in Packs => call[d].pc \in Packs
  PROVE  ErrorsRecent'
  BY CalmKnows DEF Recent, Calm, ErrorsRecent, Packs

(* Nothing is shown.                                                        *)
LEMMA CalmShown ==
  ASSUME TypeOK, Recent, Calm, \A d \in Calls : call'[d].shown = call[d].shown
  PROVE  ShownIsContemporary'
  <1> SUFFICES ASSUME NEW c \in Calls, NEW line \in Elements(call'[c].shown)
               PROVE  line.by \in Knows(c)' /\ line.about \in Knows(line.by)'
    BY DEF ShownIsContemporary
  <1>1. line \in Elements(call[c].shown) /\ line.by \in Calls
    <2>1. call[c] \in Call
      BY CallTyped
    <2>2. call[c].shown \in Seq(Line)
      BY <2>1 DEF Call
    <2>3. line \in Line
      BY <2>2 DEF Elements
    <2> QED BY <2>3 DEF Line
  <1> QED BY <1>1, CalmKnows DEF Recent, ShownIsContemporary

(* Call c goes to pc and nothing else that Recent speaks of changes in call.*)
Moves(c, pc) ==
  /\ call'[c].pc = pc
  /\ \A d \in Calls :
       /\ call'[d].met = call[d].met
       /\ call'[d].shown = call[d].shown
       /\ d # c => call'[d].pc = call[d].pc

LEMMA GoesMoves ==
  ASSUME TypeOK, NEW c \in Calls, NEW pc, Goes(c, pc)
  PROVE  Moves(c, pc)
  <1>1. call \in [Calls -> Call] /\ call[c] \in Call
    BY CallTyped DEF TypeOK
  <1> QED BY <1>1 DEF Goes, Moves, Call

LEMMA MovesCalm ==
  ASSUME NEW c \in Calls, NEW pc, Moves(c, pc),
         pc \in Engaged => call[c].pc \in Engaged,
         pc \notin {"idle"},
         pc \in {"checked", "loaded"} => call[c].pc \in {"idle", "checked"}
  PROVE  Calm
  <1> SUFFICES ASSUME NEW d \in Calls
               PROVE  /\ call'[d].met = call[d].met
                      /\ call'[d].pc \in Engaged => call[d].pc \in Engaged
                      /\ call'[d].pc \in {"idle", "checked", "loaded"}
                           => call[d].pc \in {"idle", "checked", "loaded"}
    BY DEF Calm
  <1>1. CASE d = c
    BY <1>1 DEF Moves
  <1>2. CASE d # c
    BY <1>2 DEF Moves
  <1> QED BY <1>1, <1>2

LEMMA MovesRecent ==
  ASSUME TypeOK, Recent, NEW c \in Calls, NEW pc, Moves(c, pc),
         UNCHANGED <<file, errors>>,
         \/ call[c].pc \in {"idle", "checked"} /\ pc \in {"checked", "loaded", "done"}
         \/ /\ call[c].pc \in Engaged \ {"halfway"} /\ pc \in Engaged \cup {"done"}
            /\ pc \in Packs => call[c].pc \in Packs
  PROVE  Recent'
  <1>1. Calm
    BY MovesCalm DEF Engaged
  <1>2. \A d \in Calls :
          /\ call'[d].pc \in Engaged \ {"halfway"} => call[d].pc # "halfway"
          /\ call'[d].pc \in Packs => call[d].pc \in Packs
          /\ call'[d].shown = call[d].shown
    <2> TAKE d \in Calls
    <2>1. CASE d = c
      BY <2>1 DEF Moves, Engaged, Packs
    <2>2. CASE d # c
      BY <2>2 DEF Moves, Engaged, Packs
    <2> QED BY <2>1, <2>2
  <1>3. EngagedHaveMet' /\ NewcomersAlone'
    BY <1>1, CalmMet
  <1>4. ErrRecent' /\ OutRecent' /\ LinesRecent'
    BY <1>1, <1>2, CalmFile
  <1>5. ErrorsRecent'
    BY <1>1, <1>2, CalmErrors
  <1>6. ShownIsContemporary'
    BY <1>1, <1>2, CalmShown
  <1> QED BY <1>3, <1>4, <1>5, <1>6 DEF Recent

LEMMA fnAaptRecent ==
  ASSUME TypeOK, Recent, NEW c \in Calls, fnAapt(c)
  PROVE  Recent'
  <1>1. call \in [Calls -> Call] /\ call[c] \in Call
    BY CallTyped DEF TypeOK
  <1>2. CASE fnCheckWorkDir_fails(c)
    BY <1>2, GoesMoves, MovesRecent DEF fnCheckWorkDir_fails
  <1>3. CASE fnCheckWorkDir(c)
    BY <1>3, GoesMoves, MovesRecent DEF fnCheckWorkDir
  <1>4. CASE fnInit(c)
    BY <1>4, GoesMoves, MovesRecent DEF fnInit
  <1>5. CASE fnInit_fails(c)
    <2>1. PICK rc \in {2, 99} : call' = [call EXCEPT ![c].pc = "done", ![c].rc = rc]
      BY <1>5 DEF fnInit_fails
    <2>2. Moves(c, "done")
      BY <1>1, <2>1 DEF Moves, Call
    <2> QED BY <1>5, <2>2, MovesRecent DEF fnInit_fails
  <1> QED BY <1>2, <1>3, <1>4, <1>5 DEF fnAapt

(* The redirection of stderr: c meets the engaged calls, and they meet c.   *)
LEMMA RedirectErrRecent ==
  ASSUME TypeOK, Recent, NEW c \in Calls, RedirectErr(c)
  PROVE  Recent'
  <1>1. call \in [Calls -> Call] /\ call[c] \in Call /\ call[c].met = {}
    BY CallTyped DEF TypeOK, RedirectErr, Recent, NewcomersAlone
  <1>2. /\ call'[c].pc = "halfway" /\ call'[c].met = {e \in Calls : Redirected(e)}
        /\ call'[c].shown = call[c].shown
    BY <1>1 DEF RedirectErr, Call
  <1>3. ASSUME NEW d \in Calls, d # c
        PROVE  /\ call'[d].pc = call[d].pc /\ call'[d].shown = call[d].shown
               /\ call'[d].met = IF Redirected(d) THEN call[d].met \cup {c} ELSE call[d].met
    <2>1. call[d] \in Call
      BY CallTyped
    <2> QED BY <1>3, <2>1 DEF RedirectErr, Call
  <1>4. \A d \in Calls : Knows(d) \subseteq Knows(d)'
    BY <1>1, <1>2, <1>3 DEF Knows
  <1>5. EngagedHaveMet'
    <2> SUFFICES ASSUME NEW d \in Calls, NEW e \in Calls,
                        call'[d].pc \in Engaged, call'[e].pc \in Engaged
                 PROVE  e \in Knows(d)'
      BY DEF EngagedHaveMet, Redirected
    <2>1. CASE d = c
      BY <2>1, <1>2, <1>3 DEF Knows, Redirected
    <2>2. CASE d # c /\ e = c
      BY <2>2, <1>3 DEF Knows, Redirected
    <2>3. CASE d # c /\ e # c
      BY <2>3, <1>3, <1>4 DEF Recent, EngagedHaveMet, Redirected
    <2> QED BY <2>1, <2>2, <2>3
  <1>6. NewcomersAlone'
    BY <1>2, <1>3 DEF Recent, NewcomersAlone, Redirected, Engaged
  <1>7. file'["err"] = <<>> /\ file'["out"] = file["out"]
    BY DEF RedirectErr, Truncated, TypeOK, Streams
  <1>8. ErrRecent'
    BY <1>7, NoElements DEF ErrRecent
  <1>9. OutRecent'
    <2> SUFFICES ASSUME NEW d \in Calls, call'[d].pc \in Engaged, call'[d].pc # "halfway",
                        NEW line \in Elements(file["out"])
                 PROVE  line.by \in Knows(d)'
      BY <1>7 DEF OutRecent, Redirected
    <2>1. d # c /\ call[d].pc \in Engaged /\ call[d].pc # "halfway"
      BY <1>2, <1>3
    <2> QED BY <2>1, <1>4 DEF Recent, OutRecent, Redirected
  <1>10. LinesRecent'
    <2>1. ASSUME NEW line \in Elements(file["out"])
          PROVE  line.by \in Calls /\ line.about \in Knows(line.by)
      <3>1. file["out"] \in Seq(Line)
        BY DEF TypeOK, Streams
      <3>2. line \in Line
        BY <3>1 DEF Elements
      <3> QED BY <3>2 DEF Line, Recent, LinesRecent, Streams
    <2> QED BY <2>1, <1>4, <1>7, NoElements DEF LinesRecent, Streams
  <1>11. ErrorsRecent'
    <2>1. errors' = errors
      BY DEF RedirectErr
    <2>2. ASSUME NEW d \in Calls, call'[d].pc \in {"packaging", "writing", "bail"}
          PROVE  call[d].pc \in {"packaging", "writing", "bail"}
      BY <2>2, <1>2, <1>3
    <2> QED BY <2>1, <2>2, <1>4 DEF Recent, ErrorsRecent
  <1>12. ShownIsContemporary'
    <2> SUFFICES ASSUME NEW d \in Calls, NEW line \in Elements(call[d].shown)
                 PROVE  line.by \in Knows(d)' /\ line.about \in Knows(line.by)'
      BY <1>2, <1>3 DEF ShownIsContemporary
    <2>1. line.by \in Knows(d) /\ line.about \in Knows(line.by)
      BY DEF Recent, ShownIsContemporary
    <2>2. line.by \in Calls
      <3>1. call[d] \in Call
        BY CallTyped
      <3> QED BY <2>1, <3>1 DEF Knows, Call
    <2> QED BY <2>1, <2>2, <1>4
  <1> QED BY <1>5, <1>6, <1>8, <1>9, <1>10, <1>11, <1>12 DEF Recent

(* Some stream gets lines of a call that knows, or the file is emptied.     *)
LEMMA PrintedRecent ==
  ASSUME TypeOK, Recent, NEW c \in Calls, NEW pc, Moves(c, pc),
         call[c].pc \in Engaged, pc \in Engaged \ {"halfway"}, errors' = errors,
         pc \in Packs => call[c].pc \in Packs,
         NEW s \in Streams, call[c].pc = "halfway" => s = "out",
         NEW new \in Seq(Line),
         \A line \in Elements(new) : line.by = c /\ line.about \in Knows(c),
         \/ file' = file /\ call[c].pc # "halfway"
         \/ file' = [file EXCEPT ![s] = file[s] \o new] /\ call[c].pc # "halfway"
         \/ file' = [file EXCEPT ![s] = new]
  PROVE  Recent'
  <1>1. Calm
    BY MovesCalm DEF Engaged
  <1>2. EngagedHaveMet' /\ NewcomersAlone'
    BY <1>1, CalmMet
  <1>3. \A d \in Calls : call'[d].pc \in Packs => call[d].pc \in Packs
    BY DEF Moves
  <1>4. ErrorsRecent'
    BY <1>1, <1>3, CalmErrors
  <1>5. ShownIsContemporary'
    BY <1>1, CalmShown DEF Moves
  <1>6. ASSUME NEW u \in Streams, NEW line \in Elements(file'[u])
        PROVE  /\ line \in Line
               /\ line \in Elements(new) \/ line \in Elements(file[u])
               /\ call[c].pc = "halfway" /\ u = "out" => line \in Elements(new)
    <2>1. file \in [Streams -> Seq(Line)]
      BY DEF TypeOK
    <2>2. file[u] \in Seq(Line)
      BY <2>1
    <2>3. Elements(file[u]) \subseteq Line /\ Elements(new) \subseteq Line
      BY <2>2 DEF Elements
    <2>4. Elements(file[u] \o new) = Elements(file[u]) \cup Elements(new)
      BY <2>2, <2>3, ElementsConcat
    <2>5. \/ file'[u] = file[u] /\ (call[c].pc = "halfway" => u # s)
          \/ file'[u] = file[u] \o new /\ call[c].pc # "halfway"
          \/ file'[u] = new
      BY <2>1
    <2> QED BY <1>6, <2>3, <2>4, <2>5 DEF Streams
  <1>7. ErrRecent'
    <2> SUFFICES ASSUME NEW d \in Calls, call'[d].pc \in Engaged,
                        NEW line \in Elements(file'["err"])
                 PROVE  line.by \in Knows(d)'
      BY DEF ErrRecent, Redirected
    <2>1. call[d].pc \in Engaged
      BY <1>1 DEF Calm
    <2>2. c \in Knows(d)
      BY <2>1 DEF Recent, EngagedHaveMet, Redirected
    <2>3. line \in Elements(new) \/ line \in Elements(file["err"])
      BY <1>6 DEF Streams
    <2>4. line.by \in Knows(d)
      BY <2>1, <2>2, <2>3 DEF Recent, ErrRecent, Redirected
    <2> QED BY <1>1, <2>4, CalmKnows
  <1>8. OutRecent'
    <2> SUFFICES ASSUME NEW d \in Calls, call'[d].pc \in Engaged, call'[d].pc # "halfway",
                        NEW line \in Elements(file'["out"])
                 PROVE  line.by \in Knows(d)'
      BY DEF OutRecent, Redirected
    <2>1. call[d].pc \in Engaged
      BY <1>1 DEF Calm
    <2>2. c \in Knows(d)
      BY <2>1 DEF Recent, EngagedHaveMet, Redirected
    <2>3. line \in Elements(new) \/ line \in Elements(file["out"])
      BY <1>6 DEF Streams
    <2>4. CASE line \in Elements(new)
      BY <1>1, <2>2, <2>4, CalmKnows
    <2>5. CASE line \notin Elements(new)
      <3>1. call[c].pc # "halfway"
        BY <1>6, <2>5 DEF Streams
      <3>2. call[d].pc # "halfway"
        BY <3>1 DEF Moves
      <3>3. line.by \in Knows(d)
        BY <2>1, <2>3, <2>5, <3>2 DEF Recent, OutRecent, Redirected
      <3> QED BY <1>1, <3>3, CalmKnows
    <2> QED BY <2>4, <2>5
  <1>9. LinesRecent'
    <2> SUFFICES ASSUME NEW u \in Streams, NEW line \in Elements(file'[u])
                 PROVE  line.about \in Knows(line.by)'
      BY DEF LinesRecent
    <2>1. line.by \in Calls
      <3>1. line \in Line
        BY <1>6
      <3> QED BY <3>1 DEF Line
    <2>2. line.about \in Knows(line.by)
      BY <1>6 DEF Recent, LinesRecent
    <2> QED BY <1>1, <2>1, <2>2, CalmKnows
  <1> QED BY <1>2, <1>4, <1>5, <1>7, <1>8, <1>9 DEF Recent

LEMMA TextRecent ==
  ASSUME NEW c \in Calls
  PROVE  \A line \in Elements(<<Text(c)>>) : line.by = c /\ line.about \in Knows(c)
  BY DEF Elements, Text, Knows

LEMMA JNImainRecent ==
  ASSUME TypeOK, Recent, NEW c \in Calls, JNImain(c)
  PROVE  Recent'
  <1>1. CASE RedirectErr(c)
    BY <1>1, RedirectErrRecent
  <1>2. CASE RedirectOut(c)
    <2>1. file' = [file EXCEPT !["out"] = <<Text(c)>>]
      BY <1>2 DEF RedirectOut, Truncated, TypeOK, Streams
    <2>2. /\ Moves(c, "redirected") /\ call[c].pc \in Engaged /\ errors' = errors
          /\ "redirected" \in Engaged \ {"halfway"} /\ "redirected" \notin Packs
          /\ "out" \in Streams
      BY <1>2, GoesMoves DEF RedirectOut, Engaged, Packs, Streams
    <2> QED BY <2>1, <2>2, TextType, TextRecent, PrintedRecent
  <1>3. CASE CloseErr(c)
    BY <1>3, GoesMoves, MovesRecent DEF CloseErr, Engaged, Packs
  <1>4. CASE CloseOut(c)
    BY <1>4, GoesMoves, MovesRecent DEF CloseOut, Engaged, Packs
  <1> QED BY <1>1, <1>2, <1>3, <1>4 DEF JNImain

LEMMA PrintsRecent ==
  ASSUME TypeOK, Recent, NEW c \in Calls, NEW s \in Streams, Prints(c, s)
  PROVE  Recent'
  <1>0. PICK pc : pc = call[c].pc
    OBVIOUS
  <1>1. Moves(c, pc) /\ pc \in Engaged \ {"halfway"} /\ (pc \in Packs => call[c].pc \in Packs)
    BY <1>0 DEF Prints, Moves, Engaged
  <1>2. /\ call[c].pc \in Engaged \ {"halfway"} /\ errors' = errors
        /\ file' = file \/ file' = [file EXCEPT ![s] = file[s] \o <<Text(c)>>]
    BY DEF Prints, Output, Engaged
  <1>3. PICK new \in Seq(Line) : new = <<Text(c)>>
    BY TextType
  <1>4. \A line \in Elements(new) : line.by = c /\ line.about \in Knows(c)
    BY <1>3, TextRecent
  <1>5. /\ call[c].pc \in Engaged /\ (call[c].pc = "halfway" => s = "out")
        /\ \/ file' = file /\ call[c].pc # "halfway"
           \/ file' = [file EXCEPT ![s] = file[s] \o new] /\ call[c].pc # "halfway"
           \/ file' = [file EXCEPT ![s] = new]
    BY <1>2, <1>3
  <1> QED BY <1>1, <1>2, <1>4, <1>5, PrintedRecent

LEMMA bailRecent ==
  ASSUME TypeOK, Recent, NEW c \in Calls, bail(c)
  PROVE  Recent'
  <1>1. Moves(c, "returned")
    BY GoesMoves DEF bail
  <1>2. /\ call[c].pc \in Engaged \ {"halfway"} /\ errors' = errors
        /\ file' = file \/ file' = [file EXCEPT !["err"] = file["err"] \o ErrorLines(c)]
    BY DEF bail, Output, Engaged
  <1>3. /\ "returned" \in Engaged \ {"halfway"} /\ "returned" \notin Packs
        /\ "err" \in Streams
    BY DEF Engaged, Packs, Streams
  <1>4. \A line \in Elements(ErrorLines(c)) : line.by = c /\ line.about \in Knows(c)
    <2>1. \A d \in Elements(errors) : d \in Knows(c)
      BY DEF Recent, ErrorsRecent, bail
    <2>2. Len(errors) \in Nat
      BY DEF TypeOK
    <2>3. Len(ErrorLines(c)) = Len(errors)
      BY <2>2 DEF ErrorLines
    <2> SUFFICES ASSUME NEW i \in 1..Len(errors)
                 PROVE  /\ ErrorLines(c)[i].by = c
                        /\ ErrorLines(c)[i].about \in Knows(c)
      BY <2>3 DEF Elements
    <2>4. ErrorLines(c)[i] = [by |-> c, about |-> errors[i], kind |-> "error"]
      BY DEF ErrorLines
    <2>5. errors[i] \in Elements(errors)
      BY DEF Elements
    <2> QED BY <2>1, <2>4, <2>5
  <1>5. PICK new \in Seq(Line) : new = ErrorLines(c)
    BY ErrorLinesType
  <1>6. PICK s \in Streams, pc \in Engaged \ {"halfway"} : s = "err" /\ pc = "returned"
    BY <1>3
  <1>7. /\ call[c].pc \in Engaged /\ (call[c].pc = "halfway" => s = "out")
        /\ Moves(c, pc) /\ (pc \in Packs => call[c].pc \in Packs)
        /\ \/ file' = file /\ call[c].pc # "halfway"
           \/ file' = [file EXCEPT ![s] = file[s] \o new] /\ call[c].pc # "halfway"
           \/ file' = [file EXCEPT ![s] = new]
        /\ \A line \in Elements(new) : line.by = c /\ line.about \in Knows(c)
    BY <1>1, <1>2, <1>3, <1>4, <1>5, <1>6
  <1> QED BY <1>2, <1>7, PrintedRecent

(* The errors change: emptied, or one of a call that is packaging is added. *)
LEMMA ErrorRecent ==
  ASSUME TypeOK, Recent, NEW c \in Calls, NEW pc, Moves(c, pc),
         call[c].pc \in {"redirected", "packaging"}, pc = "packaging", file' = file,
         errors' = <<>> \/ (call[c].pc = "packaging" /\ errors' = Append(errors, c))
  PROVE  Recent'
  <1>1. Calm
    BY MovesCalm DEF Engaged
  <1>2. \A d \in Calls :
          /\ call'[d].pc \in Engaged \ {"halfway"} => call[d].pc # "halfway"
          /\ call'[d].shown = call[d].shown
    BY DEF Moves
  <1>3. EngagedHaveMet' /\ NewcomersAlone'
    BY <1>1, CalmMet
  <1>4. ErrRecent' /\ OutRecent' /\ LinesRecent'
    BY <1>1, <1>2, CalmFile
  <1>5. ErrorsRecent'
    <2>1. CASE errors' = <<>>
      BY <2>1, NoElements DEF ErrorsRecent
    <2>2. CASE call[c].pc = "packaging" /\ errors' = Append(errors, c)
      <3> SUFFICES ASSUME NEW d \in Calls,
                          call'[d].pc \in {"packaging", "writing", "bail"},
                          NEW e \in Elements(Append(errors, c))
                   PROVE  e \in Knows(d)'
        BY <2>2 DEF ErrorsRecent
      <3>1. call[d].pc \in {"packaging", "writing", "bail"}
        BY <2>2 DEF Moves
      <3>2. c \in Knows(d)
        BY <2>2, <3>1 DEF Recent, EngagedHaveMet, Redirected, Engaged
      <3>3. e \in Elements(errors) \/ e = c
        <4>1. errors \in Seq(Calls)
          BY DEF TypeOK
        <4> QED BY <4>1, ElementsFacts
      <3> QED BY <1>1, <3>1, <3>2, <3>3, CalmKnows DEF Recent, ErrorsRecent
    <2> QED BY <2>1, <2>2
  <1>6. ShownIsContemporary'
    BY <1>1, <1>2, CalmShown
  <1> QED BY <1>3, <1>4, <1>5, <1>6 DEF Recent

LEMMA mainRecent ==
  ASSUME TypeOK, Recent, NEW c \in Calls, main(c)
  PROVE  Recent'
  <1>1. call \in [Calls -> Call] /\ call[c] \in Call
    BY CallTyped DEF TypeOK
  <1>2. ASSUME NEW s \in Streams, Prints(c, s) PROVE Recent'
    BY <1>2, PrintsRecent
  <1>3. CASE bail(c)
    BY <1>3, bailRecent
  <1>4. CASE doPackage(c)
    <2>1. Moves(c, "packaging")
      BY <1>1, <1>4 DEF doPackage, Moves, Call
    <2> QED BY <1>4, <2>1, ErrorRecent DEF doPackage, clear
  <1>5. CASE error(c)
    <2>1. Moves(c, "packaging")
      BY <1>1, <1>5 DEF error, Moves, Call
    <2> QED BY <1>5, <2>1, ErrorRecent DEF error
  <1>6. CASE main_returns(c)
    <2>1. PICK rc \in 0..2 : call' = [call EXCEPT ![c].pc = "returned", ![c].rc = rc]
      BY <1>6 DEF main_returns
    <2>2. Moves(c, "returned")
      BY <1>1, <2>1 DEF Moves, Call
    <2> QED BY <1>6, <2>2, MovesRecent DEF main_returns, Engaged, Packs
  <1>7. CASE GivesUp(c)
    <2>1. Moves(c, "bail")
      BY <1>1, <1>7 DEF GivesUp, Moves, Call
    <2> QED BY <1>7, <2>1, MovesRecent DEF GivesUp, Engaged, Packs
  <1>8. CASE hasErrors(c)
    <2> DEFINE pc == IF errors = <<>> THEN "writing" ELSE "bail"
    <2>1. call' = [call EXCEPT ![c].pc = pc, ![c].rc = 1]
      BY <1>8 DEF hasErrors
    <2>2. pc \in {"writing", "bail"}
      OBVIOUS
    <2> HIDE DEF pc
    <2>3. Moves(c, pc)
      BY <1>1, <2>1 DEF Moves, Call
    <2> QED BY <1>8, <2>2, <2>3, MovesRecent DEF hasErrors, Engaged, Packs
  <1>9. CASE writeAPK(c)
    <2>1. Moves(c, "bail")
      BY <1>1, <1>9 DEF writeAPK, Moves, Call
    <2> QED BY <1>9, <2>1, MovesRecent DEF writeAPK, Engaged, Packs
  <1> QED BY <1>2, <1>3, <1>4, <1>5, <1>6, <1>7, <1>8, <1>9 DEF main

(* Reading a file shows lines of calls that c knows.                        *)
LEMMA fnGetNativeOutputRecent ==
  ASSUME TypeOK, Recent, NEW c \in Calls, fnGetNativeOutput(c)
  PROVE  Recent'
  <1>0. PICK s \in Streams, pc \in {"halfread", "done"} : \E text \in Readable(s) :
          /\ call' = [call EXCEPT ![c].pc = pc, ![c].shown = @ \o text]
          /\ call[c].pc \in {"closed", "halfread"}
    <2>1. CASE ReadOut(c)
      BY <2>1 DEF ReadOut, Streams
    <2>2. CASE ReadErr(c)
      BY <2>2 DEF ReadErr, Streams
    <2> QED BY <2>1, <2>2 DEF fnGetNativeOutput
  <1>1. PICK text \in Readable(s) :
          /\ call' = [call EXCEPT ![c].pc = pc, ![c].shown = @ \o text]
          /\ call[c].pc \in {"closed", "halfread"}
    BY <1>0
  <1>2. call \in [Calls -> Call] /\ call[c] \in Call /\ call[c].shown \in Seq(Line)
    BY CallTyped DEF TypeOK, Call
  <1>3. /\ text \in Seq(Line)
        /\ \A i \in 1..Len(text) : i \in 1..Len(file[s]) /\ text[i] = file[s][i]
    BY ReadableType
  <1>4. call'[c].pc = pc /\ call'[c].met = call[c].met
        /\ call'[c].shown = call[c].shown \o text
    BY <1>1, <1>2 DEF Call
  <1>5. \A d \in Calls \ {c} : call'[d] = call[d]
    BY <1>1, <1>2
  <1>6. Calm
    BY <1>1, <1>4, <1>5 DEF Calm, Engaged
  <1>7. UNCHANGED <<file, errors>>
    BY DEF fnGetNativeOutput, ReadOut, ReadErr
  <1>8. \A d \in Calls :
          /\ call'[d].pc \in Engaged \ {"halfway"} => call[d].pc # "halfway"
          /\ call'[d].pc \in Packs => call[d].pc \in Packs
    BY <1>1, <1>4, <1>5 DEF Engaged, Packs
  <1>9. EngagedHaveMet' /\ NewcomersAlone'
    BY <1>6, CalmMet
  <1>10. ErrRecent' /\ OutRecent' /\ LinesRecent'
    BY <1>6, <1>7, <1>8, CalmFile
  <1>11. ErrorsRecent'
    BY <1>6, <1>7, <1>8, CalmErrors
  <1>12. ShownIsContemporary'
    <2>1. \A line \in Elements(text) : line.by \in Knows(c) /\ line.about \in Knows(line.by)
      <3>1. Elements(text) \subseteq Elements(file[s])
        BY <1>3 DEF Elements
      <3>2. call[c].pc \in Engaged \ {"halfway"}
        BY <1>1 DEF Engaged
      <3> QED BY <3>1, <3>2
          DEF Recent, ErrRecent, OutRecent, LinesRecent, Redirected, Streams
    <2>2. Elements(call'[c].shown) = Elements(call[c].shown) \cup Elements(text)
      BY <1>2, <1>3, <1>4, ElementsConcat
    <2>3. ASSUME NEW d \in Calls, NEW line \in Elements(call'[d].shown)
          PROVE  line.by \in Knows(d) /\ line.about \in Knows(line.by)
      BY <2>1, <2>2, <1>5 DEF Recent, ShownIsContemporary
    <2>4. ASSUME NEW d \in Calls, NEW line \in Elements(call'[d].shown)
          PROVE  line.by \in Calls
      <3>1. call[d] \in Call
        BY CallTyped
      <3> QED BY <2>3, <3>1 DEF Knows, Call
    <2> QED BY <1>6, <2>3, <2>4, CalmKnows DEF ShownIsContemporary
  <1> QED BY <1>9, <1>10, <1>11, <1>12 DEF Recent

LEMMA InitRecent == Init => Recent
  <1> SUFFICES ASSUME Init PROVE Recent
    OBVIOUS
  <1>1. \A c \in Calls : call[c] = NewCall
    BY DEF Init
  <1>2. \A c \in Calls : call[c].pc = "idle" /\ call[c].met = {} /\ call[c].shown = <<>>
    BY <1>1 DEF NewCall
  <1>3. \A s \in Streams : file[s] = <<>>
    BY DEF Init
  <1> QED BY <1>2, <1>3, NoElements DEF Recent, EngagedHaveMet, NewcomersAlone, ErrRecent,
          OutRecent, LinesRecent, ErrorsRecent, ShownIsContemporary, Redirected, Engaged

LEMMA NextRecent == TypeOK /\ Recent /\ [Next]_vars => Recent'
  <1>1. ASSUME TypeOK, Recent, UNCHANGED vars PROVE Recent'
    BY <1>1 DEF vars, Recent, EngagedHaveMet, NewcomersAlone, ErrRecent, OutRecent,
       LinesRecent, ErrorsRecent, ShownIsContemporary, Redirected, Knows
  <1> QED BY <1>1, fnAaptRecent, JNImainRecent, mainRecent, fnGetNativeOutputRecent DEF Next

(* However calls of aapt interleave, a task is shown only what its own aapt *)
(* and those that overlapped it printed, and no error of a finished build.  *)
THEOREM NothingOldIsShown == Spec => []ShownIsContemporary
  <1>1. TypeOK /\ Recent /\ [Next]_vars => TypeOK' /\ Recent'
    BY NextType, NextRecent
  <1>2. Recent => ShownIsContemporary
    BY DEF Recent
  <1> QED BY InitType, InitRecent, <1>1, <1>2, PTL DEF Spec

------------------------------------------------------------------------------
(* A step of c: a stream stays open only while a call that uses it goes on. *)
LEMMA StepReleases ==
  ASSUME TypeOK, StreamsReleased, NEW c \in Calls, NEW pc,
         call'[c].pc = pc, \A d \in Calls : d # c => call'[d].pc = call[d].pc,
         stream'["err"] => pc \in UsesErr \/ (stream["err"] /\ call[c].pc \notin UsesErr),
         stream'["out"] => pc \in UsesOut \/ (stream["out"] /\ call[c].pc \notin UsesOut)
  PROVE  StreamsReleased'
  <1>1. ASSUME stream'["err"] PROVE \E d \in Calls : call'[d].pc \in UsesErr
    BY <1>1 DEF StreamsReleased
  <1>2. ASSUME stream'["out"] PROVE \E d \in Calls : call'[d].pc \in UsesOut
    BY <1>2 DEF StreamsReleased
  <1> QED BY <1>1, <1>2 DEF StreamsReleased

(* A step that opens no stream and closes none keeps its caller where it    *)
(* was with respect to both.                                                *)
LEMMA MovesReleases ==
  ASSUME TypeOK, StreamsReleased, NEW c \in Calls, NEW pc, Moves(c, pc),
         stream' = stream,
         call[c].pc \in UsesErr => pc \in UsesErr,
         call[c].pc \in UsesOut => pc \in UsesOut
  PROVE  StreamsReleased'
  BY StepReleases DEF Moves

LEMMA fnAaptReleases ==
  ASSUME TypeOK, StreamsReleased, NEW c \in Calls, fnAapt(c)
  PROVE  StreamsReleased'
  <1>1. call \in [Calls -> Call] /\ call[c] \in Call
    BY CallTyped DEF TypeOK
  <1>2. call[c].pc \in {"idle", "checked"} /\ stream' = stream
    BY DEF fnAapt, fnCheckWorkDir_fails, fnCheckWorkDir, fnInit, fnInit_fails
  <1>3. \E pc \in {"checked", "loaded", "done"} : Moves(c, pc)
    <2>1. CASE fnInit_fails(c)
      <3>1. PICK rc \in {2, 99} : call' = [call EXCEPT ![c].pc = "done", ![c].rc = rc]
        BY <2>1 DEF fnInit_fails
      <3>2. Moves(c, "done")
        BY <1>1, <3>1 DEF Moves, Call
      <3> QED BY <3>2
    <2>2. CASE ~fnInit_fails(c)
      BY <2>2, GoesMoves DEF fnAapt, fnCheckWorkDir_fails, fnCheckWorkDir, fnInit
    <2> QED BY <2>1, <2>2
  <1> QED BY <1>2, <1>3, MovesReleases DEF UsesErr, UsesOut

LEMMA JNImainReleases ==
  ASSUME TypeOK, StreamsReleased, NEW c \in Calls, JNImain(c)
  PROVE  StreamsReleased'
  <1>1. stream \in [Streams -> BOOLEAN]
    BY DEF TypeOK
  <1>2. CASE RedirectErr(c)
    <2>1. \A d \in Calls : call[d] \in Call
      BY CallTyped
    <2>2. call'[c].pc = "halfway"
      <3>1. call[c] \in Call
        BY CallTyped
      <3>2. call'[c] = [call[c] EXCEPT !.pc = "halfway",
                                       !.met = {e \in Calls : Redirected(e)}]
        BY <1>2 DEF RedirectErr
      <3> QED BY <3>1, <3>2 DEF Call
    <2>3. \A d \in Calls : d # c => call'[d].pc = call[d].pc
      BY <1>2, <2>1 DEF RedirectErr, Call
    <2>4. stream'["out"] = stream["out"] /\ call[c].pc \notin UsesOut
      BY <1>1, <1>2 DEF RedirectErr, Streams, UsesOut
    <2> QED BY <2>2, <2>3, <2>4, StepReleases DEF UsesErr
  <1>3. CASE RedirectOut(c)
    <2>1. Moves(c, "redirected")
      BY <1>3, GoesMoves DEF RedirectOut
    <2>2. \A d \in Calls : d # c => call'[d].pc = call[d].pc
      BY <2>1 DEF Moves
    <2> QED BY <2>1, <2>2, StepReleases DEF Moves, UsesErr, UsesOut
  <1>4. CASE CloseErr(c)
    <2>1. Moves(c, "closing")
      BY <1>4, GoesMoves DEF CloseErr
    <2>2. \A d \in Calls : d # c => call'[d].pc = call[d].pc
      BY <2>1 DEF Moves
    <2>3. ~stream'["err"]
      BY <1>1, <1>4 DEF CloseErr, Streams
    <2> QED BY <2>1, <2>2, <2>3, StepReleases DEF Moves, UsesOut
  <1>5. CASE CloseOut(c)
    <2>1. Moves(c, "closed")
      BY <1>5, GoesMoves DEF CloseOut
    <2>2. \A d \in Calls : d # c => call'[d].pc = call[d].pc
      BY <2>1 DEF Moves
    <2>3. /\ ~stream'["out"] /\ stream'["err"] = stream["err"]
          /\ call[c].pc \notin UsesErr
      BY <1>1, <1>5 DEF CloseOut, Streams, UsesErr
    <2> QED BY <2>1, <2>2, <2>3, StepReleases DEF Moves
  <1> QED BY <1>2, <1>3, <1>4, <1>5 DEF JNImain

LEMMA mainReleases ==
  ASSUME TypeOK, StreamsReleased, NEW c \in Calls,
         main(c) \/ fnGetNativeOutput(c)
  PROVE  StreamsReleased'
  <1>1. call \in [Calls -> Call] /\ call[c] \in Call
    BY CallTyped DEF TypeOK
  <1>2. stream' = stream
    BY DEF main, Prints, main_returns, doPackage, error, GivesUp, hasErrors, writeAPK,
           bail, fnGetNativeOutput, ReadOut, ReadErr
  <1>3. \A d \in Calls : d # c => call'[d].pc = call[d].pc
    BY <1>1 DEF main, Prints, main_returns, doPackage, error, GivesUp, hasErrors, writeAPK,
                bail, Goes, fnGetNativeOutput, ReadOut, ReadErr
  <1>4. CASE main(c)
    <2>1. call[c].pc \in {"redirected", "packaging", "writing", "bail"}
      BY <1>4 DEF main, Prints, main_returns, doPackage, error, GivesUp, hasErrors,
                  writeAPK, bail
    <2>2. call'[c].pc \in {"redirected", "packaging", "writing", "bail", "returned"}
      <3>1. ASSUME NEW s \in Streams, Prints(c, s)
            PROVE  call'[c].pc = call[c].pc
        BY <3>1 DEF Prints
      <3>2. CASE bail(c)
        BY <1>1, <3>2 DEF bail, Goes, Call
      <3>3. CASE main_returns(c)
        BY <1>1, <3>3 DEF main_returns, Call
      <3>4. CASE doPackage(c) \/ error(c)
        BY <1>1, <3>4 DEF doPackage, error, Call
      <3>5. CASE GivesUp(c)
        BY <1>1, <3>5 DEF GivesUp, Call
      <3>6. CASE writeAPK(c)
        BY <1>1, <3>6 DEF writeAPK, Call
      <3>7. CASE hasErrors(c)
        <4> DEFINE pc == IF errors = <<>> THEN "writing" ELSE "bail"
        <4>1. call' = [call EXCEPT ![c].pc = pc, ![c].rc = 1]
          BY <3>7 DEF hasErrors
        <4>2. pc \in {"writing", "bail"}
          OBVIOUS
        <4> HIDE DEF pc
        <4>3. Moves(c, pc)
          BY <1>1, <4>1 DEF Moves, Call
        <4> QED BY <4>2, <4>3 DEF Moves
      <3> QED BY <1>4, <2>1, <3>1, <3>2, <3>3, <3>4, <3>5, <3>6, <3>7 DEF main
    <2> QED BY <1>2, <1>3, <2>1, <2>2, StepReleases DEF UsesErr, UsesOut
  <1>5. CASE fnGetNativeOutput(c)
    <2>1. call[c].pc \in {"closed", "halfread"}
      BY <1>5 DEF fnGetNativeOutput, ReadOut, ReadErr
    <2> QED BY <1>2, <1>3, <2>1 DEF StreamsReleased, UsesErr, UsesOut
  <1> QED BY <1>4, <1>5

(* The app's streams are its own again when no call of aapt is under way:   *)
(* whichever way calls overlap, the last one to end leaves both closed.     *)
THEOREM StreamsAreReleased == Spec => []StreamsReleased
  <1>1. Init => StreamsReleased
    BY DEF Init, StreamsReleased, Streams
  <1>2. ASSUME TypeOK, StreamsReleased, [Next]_vars PROVE StreamsReleased'
    <2>1. CASE UNCHANGED vars
      BY <1>2, <2>1 DEF vars, StreamsReleased
    <2>2. CASE Next
      BY <1>2, <2>2, fnAaptReleases, JNImainReleases, mainReleases DEF Next
    <2> QED BY <1>2, <2>1, <2>2
  <1>3. TypeOK /\ StreamsReleased /\ [Next]_vars => TypeOK' /\ StreamsReleased'
    BY <1>2, NextType
  <1> QED BY InitType, <1>1, <1>3, PTL DEF Spec

------------------------------------------------------------------------------
(* A call that no other call has met so far.  What it did itself:           *)
Alone(c) == call[c].met = {}

Before == {"idle", "checked", "loaded"}
After == {"returned", "closing", "closed", "halfread", "done"}
Mistake(c) == [by |-> c, about |-> c, kind |-> "error"]

NothingYet(c) ==
  /\ call[c].pc \in Before \cup {"halfway"}
       => wrote[c]["out"] = <<>> /\ wrote[c]["err"] = <<>>
  /\ call[c].pc \in Before \cup {"halfway", "redirected"}
       => call[c].reported = 0 /\ ~call[c].failed /\ ~call[c].package
  /\ call[c].pc \notin {"halfread", "done"} => call[c].shown = <<>>

Printed(c) ==
  /\ wrote[c]["out"] \in Seq({Text(c)})
  /\ call[c].pc \notin After => wrote[c]["err"] \in Seq({Text(c)})
  /\ call[c].pc \in After =>
       /\ Len(wrote[c]["err"]) >= call[c].reported
       /\ \A i \in 1..Len(wrote[c]["err"]) : wrote[c]["err"][i] =
            IF i + call[c].reported <= Len(wrote[c]["err"]) THEN Text(c) ELSE Mistake(c)

Outcome(c) ==
  /\ call[c].pc \in Packs => call[c].package
  /\ call[c].pc \in {"packaging", "writing"} => ~call[c].failed
  /\ call[c].pc \in After \cup {"bail"} /\ call[c].package =>
       call[c].rc = (IF call[c].reported > 0 \/ call[c].failed THEN 1 ELSE 0)

HasRead(c) ==
  /\ call[c].pc = "halfread" => call[c].shown = wrote[c]["out"]
  /\ call[c].pc = "done" /\ wrote[c]["out"] # <<>>
       => call[c].shown = wrote[c]["out"] \o wrote[c]["err"]

Own(c) == NothingYet(c) /\ Printed(c) /\ Outcome(c) /\ HasRead(c)

(* ... and what the process holds of it while it is engaged.                *)
Files(c) ==
  /\ call[c].pc = "halfway" => stream["err"] /\ file["err"] = <<>>
  /\ call[c].pc \in Engaged \ {"halfway"} => file["err"] = wrote[c]["err"]
  /\ call[c].pc \in Engaged \ {"halfway", "halfread"} => file["out"] = wrote[c]["out"]
  /\ call[c].pc \in UsesErr => stream["err"]
  /\ call[c].pc \in UsesOut => stream["out"]
  /\ call[c].pc \in Engaged \ UsesErr => ~stream["err"]
  /\ call[c].pc = "closed" => ~stream["out"]

Mistakes(c) ==
  /\ call[c].pc \in Packs => errors \in Seq({c}) /\ Len(errors) = call[c].reported
  /\ call[c].pc = "writing" => errors = <<>>

AloneInv == \A c \in Calls : Alone(c) => Own(c) /\ Files(c) /\ Mistakes(c)

LEMMA Typed ==
  ASSUME TypeOK, NEW c \in Calls
  PROVE  /\ call \in [Calls -> Call] /\ call[c] \in Call
         /\ call[c].shown \in Seq(Line) /\ call[c].reported \in Nat
         /\ call[c].failed \in BOOLEAN /\ call[c].package \in BOOLEAN
         /\ stream \in [Streams -> BOOLEAN]
         /\ stream["out"] \in BOOLEAN /\ stream["err"] \in BOOLEAN
         /\ file \in [Streams -> Seq(Line)]
         /\ file["out"] \in Seq(Line) /\ file["err"] \in Seq(Line)
         /\ wrote \in [Calls -> [Streams -> Seq(Line)]]
         /\ wrote[c] \in [Streams -> Seq(Line)]
         /\ wrote[c]["out"] \in Seq(Line) /\ wrote[c]["err"] \in Seq(Line)
         /\ errors \in Seq(Calls)
  BY CallTyped DEF TypeOK, Streams, Call

(* What a step of c leaves of its fields.                                   *)
Keeps(c) ==
  /\ call'[c].reported = call[c].reported /\ call'[c].failed = call[c].failed
  /\ call'[c].package = call[c].package /\ call'[c].shown = call[c].shown
AloneHas(c) == Own(c) /\ Files(c) /\ Mistakes(c)

(* Before the redirection.                                                  *)
LEMMA fnAaptAlone ==
  ASSUME TypeOK, NEW c \in Calls, AloneHas(c), fnAapt(c)
  PROVE  AloneHas(c)'
  <1>1. call \in [Calls -> Call] /\ call[c] \in Call
    BY Typed
  <1>2. /\ call[c].pc \in Before
        /\ call'[c].pc \in {"checked", "loaded", "done"}
        /\ Keeps(c)
    <2>1. CASE fnInit_fails(c)
      <3>1. PICK rc \in {2, 99} : call' = [call EXCEPT ![c].pc = "done", ![c].rc = rc]
        BY <2>1 DEF fnInit_fails
      <3> QED BY <1>1, <2>1, <3>1 DEF fnInit_fails, Call, Before, Keeps
    <2>2. CASE fnCheckWorkDir_fails(c)
      BY <1>1, <2>2 DEF fnCheckWorkDir_fails, Goes, Call, Before, Keeps
    <2>3. CASE fnCheckWorkDir(c)
      BY <1>1, <2>3 DEF fnCheckWorkDir, Goes, Call, Before, Keeps
    <2>4. CASE fnInit(c)
      BY <1>1, <2>4 DEF fnInit, Goes, Call, Before, Keeps
    <2> QED BY <2>1, <2>2, <2>3, <2>4 DEF fnAapt
  <1>3. UNCHANGED <<stream, file, errors, wrote>>
    BY DEF fnAapt, fnCheckWorkDir_fails, fnCheckWorkDir, fnInit, fnInit_fails
  <1>4. /\ wrote[c]["out"] = <<>> /\ wrote[c]["err"] = <<>>
        /\ call[c].reported = 0 /\ ~call[c].failed /\ ~call[c].package
        /\ call[c].shown = <<>>
    BY <1>2 DEF AloneHas, Own, NothingYet, Before
  <1>5. Own(c)'
    <2>1. NothingYet(c)'
      BY <1>2, <1>3, <1>4 DEF Keeps, NothingYet
    <2>2. Printed(c)'
      BY <1>2, <1>3, <1>4 DEF Keeps, Printed
    <2>3. Outcome(c)'
      BY <1>2, <1>4 DEF Keeps, Outcome, Packs
    <2>4. HasRead(c)'
      BY <1>2, <1>3, <1>4 DEF HasRead
    <2> QED BY <2>1, <2>2, <2>3, <2>4 DEF Own
  <1>6. Files(c)' /\ Mistakes(c)'
    BY <1>2 DEF Files, Mistakes, Engaged, UsesErr, UsesOut, Packs
  <1> QED BY <1>5, <1>6 DEF AloneHas

LEMMA RedirectErrAlone ==
  ASSUME TypeOK, NEW c \in Calls, AloneHas(c), RedirectErr(c)
  PROVE  AloneHas(c)'
  <1>1. /\ call[c] \in Call /\ file \in [Streams -> Seq(Line)]
        /\ stream \in [Streams -> BOOLEAN]
    BY Typed
  <1>2. call'[c] = [call[c] EXCEPT !.pc = "halfway",
                                   !.met = {e \in Calls : Redirected(e)}]
    BY DEF RedirectErr
  <1>3. call'[c].pc = "halfway" /\ Keeps(c)
    BY <1>1, <1>2 DEF Call, Keeps
  <1>4. stream'["err"] = TRUE /\ file'["err"] = <<>> /\ wrote' = wrote
    BY <1>1 DEF RedirectErr, Truncated, Streams
  <1>5. call[c].pc = "loaded"
    BY DEF RedirectErr
  <1>6. /\ wrote[c]["out"] = <<>> /\ wrote[c]["err"] = <<>>
        /\ call[c].reported = 0 /\ ~call[c].failed /\ ~call[c].package
        /\ call[c].shown = <<>>
    BY <1>5 DEF AloneHas, Own, NothingYet, Before
  <1>7. Own(c)'
    BY <1>3, <1>4, <1>6 DEF Own, NothingYet, Printed, Outcome, HasRead, Keeps, Before,
                            After, Packs
  <1>8. Files(c)'
    BY <1>3, <1>4 DEF Files, Engaged, UsesErr, UsesOut
  <1>9. Mistakes(c)'
    BY <1>3 DEF Mistakes, Packs
  <1> QED BY <1>7, <1>8, <1>9 DEF AloneHas

LEMMA RedirectOutAlone ==
  ASSUME TypeOK, NEW c \in Calls, AloneHas(c), RedirectOut(c)
  PROVE  AloneHas(c)'
  <1>1. /\ call \in [Calls -> Call] /\ call[c] \in Call /\ file \in [Streams -> Seq(Line)]
        /\ stream \in [Streams -> BOOLEAN] /\ wrote \in [Calls -> [Streams -> Seq(Line)]]
    BY Typed
  <1>2. call'[c].pc = "redirected" /\ Keeps(c) /\ call[c].pc = "halfway"
    BY <1>1 DEF RedirectOut, Goes, Call, Keeps
  <1>3. stream'["out"] = TRUE /\ stream'["err"] = stream["err"]
    BY <1>1 DEF RedirectOut, Streams
  <1>4. file'["out"] = <<Text(c)>> /\ file'["err"] = file["err"]
    BY <1>1 DEF RedirectOut, Streams, Truncated
  <1>5. wrote'[c]["out"] = <<Text(c)>> /\ wrote'[c]["err"] = wrote[c]["err"]
    BY <1>1 DEF RedirectOut, Streams
  <1>6. /\ wrote[c]["out"] = <<>> /\ wrote[c]["err"] = <<>>
        /\ call[c].reported = 0 /\ ~call[c].failed /\ ~call[c].package
        /\ call[c].shown = <<>>
    BY <1>2 DEF AloneHas, Own, NothingYet, Before
  <1>7. Own(c)'
    BY <1>2, <1>5, <1>6 DEF Own, NothingYet, Printed, Outcome, HasRead, Keeps, Before,
                            After, Packs
  <1>8. stream["err"] /\ file["err"] = <<>>
    BY <1>2 DEF AloneHas, Files
  <1>9. Files(c)'
    BY <1>2, <1>3, <1>4, <1>5, <1>6, <1>8 DEF Files, Engaged, UsesErr, UsesOut
  <1>10. Mistakes(c)'
    BY <1>2 DEF Mistakes, Packs
  <1> QED BY <1>7, <1>9, <1>10 DEF AloneHas

LEMMA ClosesAlone ==
  ASSUME TypeOK, NEW c \in Calls, AloneHas(c), CloseErr(c) \/ CloseOut(c)
  PROVE  AloneHas(c)'
  <1>1. call \in [Calls -> Call] /\ call[c] \in Call /\ stream \in [Streams -> BOOLEAN]
    BY Typed
  <1>2. /\ Keeps(c) /\ file' = file /\ wrote' = wrote
        /\ call'[c].rc = call[c].rc
        /\ \/ /\ call[c].pc = "returned" /\ call'[c].pc = "closing"
              /\ ~stream'["err"] /\ stream'["out"] = stream["out"]
           \/ /\ call[c].pc = "closing" /\ call'[c].pc = "closed"
              /\ ~stream'["out"] /\ stream'["err"] = stream["err"]
    BY <1>1 DEF CloseErr, CloseOut, Goes, Call, Keeps, Streams
  <1>3. Own(c)'
    <2>1. NothingYet(c)'
      BY <1>2 DEF AloneHas, Own, NothingYet, Before, Keeps
    <2>2. Printed(c)'
      BY <1>2 DEF AloneHas, Own, Printed, After, Keeps
    <2>3. Outcome(c)'
      BY <1>2 DEF AloneHas, Own, Outcome, After, Packs, Keeps
    <2>4. HasRead(c)'
      BY <1>2 DEF HasRead
    <2> QED BY <2>1, <2>2, <2>3, <2>4 DEF Own
  <1>4. Files(c)'
    BY <1>2 DEF AloneHas, Files, Engaged, UsesErr, UsesOut
  <1>5. Mistakes(c)'
    BY <1>2 DEF Mistakes, Packs
  <1> QED BY <1>3, <1>4, <1>5 DEF AloneHas

LEMMA TextSeq ==
  ASSUME NEW t, NEW u \in Seq({t})
  PROVE  u \o <<t>> \in Seq({t})
  OBVIOUS

LEMMA PrintsAlone ==
  ASSUME TypeOK, NEW c \in Calls, NEW s \in Streams, AloneHas(c), Prints(c, s)
  PROVE  AloneHas(c)'
  <1>1. /\ file \in [Streams -> Seq(Line)] /\ wrote \in [Calls -> [Streams -> Seq(Line)]]
        /\ wrote[c] \in [Streams -> Seq(Line)]
    BY Typed
  <1>2. /\ call[c].pc \in {"redirected", "packaging"}
        /\ UNCHANGED <<call, stream, errors>>
    BY DEF Prints
  <1>3. stream["out"] /\ stream["err"]
    BY <1>2 DEF AloneHas, Files, UsesErr, UsesOut
  <1>4. stream[s]
    BY <1>3 DEF Streams
  <1>5. file' = [file EXCEPT ![s] = file[s] \o <<Text(c)>>]
    BY <1>1, <1>4 DEF Prints, Output
  <1>6. wrote'[c] = [wrote[c] EXCEPT ![s] = wrote[c][s] \o <<Text(c)>>]
    BY <1>1 DEF Prints, Output
  <1>7. /\ file["out"] = wrote[c]["out"] /\ file["err"] = wrote[c]["err"]
        /\ wrote[c]["out"] \in Seq({Text(c)}) /\ wrote[c]["err"] \in Seq({Text(c)})
    BY <1>2 DEF AloneHas, Files, Engaged, Own, Printed, After
  <1>8. /\ file'["out"] = wrote'[c]["out"] /\ file'["err"] = wrote'[c]["err"]
        /\ wrote'[c]["out"] \in Seq({Text(c)}) /\ wrote'[c]["err"] \in Seq({Text(c)})
    <2>1. \A t \in Streams : /\ file'[t] = IF t = s THEN file[s] \o <<Text(c)>> ELSE file[t]
                             /\ wrote'[c][t] = IF t = s THEN wrote[c][s] \o <<Text(c)>>
                                               ELSE wrote[c][t]
      BY <1>1, <1>5, <1>6
    <2>2. wrote[c][s] \in Seq({Text(c)})
      BY <1>7 DEF Streams
    <2>3. wrote[c][s] \o <<Text(c)>> \in Seq({Text(c)})
      BY <2>2, TextSeq
    <2>4. file[s] = wrote[c][s]
      BY <1>7 DEF Streams
    <2> QED BY <1>7, <2>1, <2>3, <2>4 DEF Streams
  <1>9. Own(c)'
    <2>1. NothingYet(c)'
      BY <1>2 DEF AloneHas, Own, NothingYet, Before
    <2>2. Printed(c)'
      BY <1>2, <1>8 DEF Printed, After
    <2>3. Outcome(c)' /\ HasRead(c)'
      BY <1>2 DEF AloneHas, Own, Outcome, HasRead
    <2> QED BY <2>1, <2>2, <2>3 DEF Own
  <1>10. Files(c)'
    BY <1>2, <1>8 DEF AloneHas, Files, Engaged, UsesErr, UsesOut
  <1>11. Mistakes(c)'
    BY <1>2 DEF AloneHas, Mistakes
  <1> QED BY <1>9, <1>10, <1>11 DEF AloneHas

(* A step of aapt that prints nothing.                                      *)
LEMMA SilentAlone ==
  ASSUME TypeOK, NEW c \in Calls, AloneHas(c), UNCHANGED <<stream, file, wrote>>,
         call[c].pc \in {"redirected", "packaging", "writing"},
         call'[c].pc \in {"packaging", "writing", "bail", "returned"},
         call'[c].shown = call[c].shown, Mistakes(c)', Outcome(c)',
         call'[c].pc = "returned" => call'[c].reported = 0
  PROVE  AloneHas(c)'
  <1>1. NothingYet(c)'
    BY DEF AloneHas, Own, NothingYet, Before
  <1>2. Printed(c)'
    <2>1. wrote[c]["out"] \in Seq({Text(c)}) /\ wrote[c]["err"] \in Seq({Text(c)})
      BY DEF AloneHas, Own, Printed, After
    <2>2. CASE call'[c].pc = "returned"
      <3>1. Len(wrote[c]["err"]) \in Nat
            /\ \A i \in 1..Len(wrote[c]["err"]) : wrote[c]["err"][i] = Text(c)
        BY <2>1
      <3>2. \A i \in 1..Len(wrote[c]["err"]) : i + 0 <= Len(wrote[c]["err"])
        BY <3>1
      <3> QED BY <2>1, <2>2, <3>1, <3>2 DEF Printed, After
    <2>3. CASE call'[c].pc # "returned"
      BY <2>1, <2>3 DEF Printed, After
    <2> QED BY <2>2, <2>3
  <1>3. HasRead(c)'
    BY DEF HasRead
  <1>4. Files(c)'
    BY DEF AloneHas, Files, Engaged, UsesErr, UsesOut
  <1> QED BY <1>1, <1>2, <1>3, <1>4 DEF AloneHas, Own

LEMMA packageAlone ==
  ASSUME TypeOK, NEW c \in Calls, AloneHas(c),
         main_returns(c) \/ doPackage(c) \/ error(c) \/ GivesUp(c) \/ hasErrors(c)
           \/ writeAPK(c)
  PROVE  AloneHas(c)'
  <1>1. /\ call \in [Calls -> Call] /\ call[c] \in Call /\ call[c].reported \in Nat
        /\ call[c].failed \in BOOLEAN /\ call[c].package \in BOOLEAN
        /\ errors \in Seq(Calls)
    BY Typed
  <1>2. UNCHANGED <<stream, file, wrote>>
    BY DEF main_returns, doPackage, error, GivesUp, hasErrors, writeAPK
  <1>3. CASE main_returns(c)
    <2>1. PICK rc \in 0..2 : call' = [call EXCEPT ![c].pc = "returned", ![c].rc = rc]
      BY <1>3 DEF main_returns
    <2>2. call'[c].pc = "returned" /\ Keeps(c) /\ call[c].pc = "redirected"
      BY <1>1, <1>3, <2>1 DEF main_returns, Call, Keeps
    <2>3. call[c].reported = 0 /\ ~call[c].package
      BY <2>2 DEF AloneHas, Own, NothingYet
    <2>4. Mistakes(c)' /\ Outcome(c)'
      BY <2>2, <2>3 DEF Mistakes, Outcome, Packs, Keeps
    <2> QED BY <1>2, <2>2, <2>3, <2>4, SilentAlone DEF Keeps
  <1>4. CASE doPackage(c)
    <2>1. call' = [call EXCEPT ![c].pc = "packaging", ![c].package = TRUE]
      BY <1>4 DEF doPackage
    <2>2. /\ call'[c].pc = "packaging" /\ call'[c].package = TRUE
          /\ call'[c].reported = call[c].reported /\ call'[c].failed = call[c].failed
          /\ call'[c].shown = call[c].shown /\ call[c].pc = "redirected"
      BY <1>1, <1>4, <2>1 DEF doPackage, Call
    <2>3. call[c].reported = 0 /\ ~call[c].failed
      BY <2>2 DEF AloneHas, Own, NothingYet
    <2>4. errors' = <<>>
      BY <1>4 DEF doPackage, clear
    <2>5. Mistakes(c)' /\ Outcome(c)'
      BY <2>2, <2>3, <2>4 DEF Mistakes, Outcome, Packs, After
    <2> QED BY <1>2, <2>2, <2>5, SilentAlone
  <1>5. CASE error(c)
    <2>1. call' = [call EXCEPT ![c].reported = call[c].reported + 1]
      BY <1>5 DEF error
    <2>2. /\ call'[c].pc = "packaging" /\ call[c].pc = "packaging"
          /\ call'[c].reported = call[c].reported + 1
          /\ call'[c].failed = call[c].failed /\ call'[c].package = call[c].package
          /\ call'[c].shown = call[c].shown
      BY <1>1, <1>5, <2>1 DEF error, Call
    <2>3. errors \in Seq({c}) /\ Len(errors) = call[c].reported
      BY <2>2 DEF AloneHas, Mistakes, Packs
    <2>4. errors' \in Seq({c}) /\ Len(errors') = Len(errors) + 1
      BY <1>5, <2>3 DEF error
    <2>5. Mistakes(c)'
      BY <2>2, <2>3, <2>4 DEF Mistakes
    <2>6. Outcome(c)'
      BY <2>2 DEF AloneHas, Own, Outcome, Packs, After
    <2> QED BY <1>2, <2>2, <2>5, <2>6, SilentAlone
  <1>6. CASE GivesUp(c)
    <2>1. call' = [call EXCEPT ![c].pc = "bail", ![c].rc = 1, ![c].failed = TRUE]
      BY <1>6 DEF GivesUp
    <2>2. /\ call'[c].pc = "bail" /\ call'[c].rc = 1 /\ call'[c].failed = TRUE
          /\ call'[c].reported = call[c].reported /\ call'[c].package = call[c].package
          /\ call'[c].shown = call[c].shown /\ call[c].pc \in {"packaging", "writing"}
      BY <1>1, <1>6, <2>1 DEF GivesUp, Call
    <2>3. Mistakes(c)'
      BY <1>6, <2>2 DEF GivesUp, AloneHas, Mistakes, Packs
    <2>4. Outcome(c)'
      BY <2>2 DEF AloneHas, Own, Outcome, Packs, After
    <2> QED BY <1>2, <2>2, <2>3, <2>4, SilentAlone
  <1>7. CASE hasErrors(c)
    <2> DEFINE pc == IF errors = <<>> THEN "writing" ELSE "bail"
    <2>1. call' = [call EXCEPT ![c].pc = pc, ![c].rc = 1]
      BY <1>7 DEF hasErrors
    <2>2. pc \in {"writing", "bail"} /\ (pc = "writing" <=> errors = <<>>)
      OBVIOUS
    <2> HIDE DEF pc
    <2>3. /\ call'[c].pc = pc /\ call'[c].rc = 1 /\ Keeps(c)
          /\ call[c].pc = "packaging"
      BY <1>1, <1>7, <2>1 DEF hasErrors, Call, Keeps
    <2>4. errors \in Seq({c}) /\ Len(errors) = call[c].reported /\ ~call[c].failed
          /\ call[c].package
      BY <2>3 DEF AloneHas, Own, Outcome, Mistakes, Packs
    <2>5. errors' = errors
      BY <1>7 DEF hasErrors
    <2>6. Mistakes(c)'
      BY <2>2, <2>3, <2>4, <2>5 DEF Mistakes, Keeps
    <2>7. Outcome(c)'
      <3>1. pc = "bail" => call[c].reported > 0
        <4>1. errors # <<>> => Len(errors) > 0
          BY <2>4, EmptySeq
        <4> QED BY <2>2, <2>4, <4>1
      <3> QED BY <2>2, <2>3, <2>4, <3>1 DEF Outcome, Packs, After, Keeps
    <2> QED BY <1>2, <2>2, <2>3, <2>6, <2>7, SilentAlone DEF Keeps
  <1>8. CASE writeAPK(c)
    <2>1. call' = [call EXCEPT ![c].pc = "bail", ![c].rc = 0]
      BY <1>8 DEF writeAPK
    <2>2. /\ call'[c].pc = "bail" /\ call'[c].rc = 0 /\ Keeps(c)
          /\ call[c].pc = "writing"
      BY <1>1, <1>8, <2>1 DEF writeAPK, Call, Keeps
    <2>3. /\ errors = <<>> /\ Len(errors) = call[c].reported /\ ~call[c].failed
          /\ call[c].package /\ errors' = errors /\ errors \in Seq({c})
      BY <1>8, <2>2 DEF AloneHas, Own, Outcome, Mistakes, Packs, writeAPK
    <2>4. call[c].reported = 0
      BY <2>3
    <2>5. Mistakes(c)' /\ Outcome(c)'
      BY <2>2, <2>3, <2>4 DEF Mistakes, Outcome, Packs, After, Keeps
    <2> QED BY <1>2, <2>2, <2>5, SilentAlone DEF Keeps
  <1> QED BY <1>3, <1>4, <1>5, <1>6, <1>7, <1>8

(* All errors in the list are of c: what bail prints is that many mistakes. *)
LEMMA MistakeLines ==
  ASSUME NEW c \in Calls, errors \in Seq({c})
  PROVE  /\ ErrorLines(c) \in Seq({Mistake(c)})
         /\ Len(ErrorLines(c)) = Len(errors)
  <1>1. \A i \in 1..Len(errors) : errors[i] = c
    OBVIOUS
  <1>2. ErrorLines(c) = [i \in 1..Len(errors) |-> Mistake(c)]
    BY <1>1 DEF ErrorLines, Mistake
  <1> QED BY <1>2

LEMMA bailAlone ==
  ASSUME TypeOK, NEW c \in Calls, AloneHas(c), bail(c)
  PROVE  AloneHas(c)'
  <1>1. /\ call \in [Calls -> Call] /\ call[c] \in Call
        /\ file \in [Streams -> Seq(Line)] /\ wrote \in [Calls -> [Streams -> Seq(Line)]]
        /\ wrote[c] \in [Streams -> Seq(Line)] /\ call[c].reported \in Nat
    BY Typed
  <1>2. /\ call[c].pc = "bail" /\ call'[c].pc = "returned" /\ Keeps(c)
        /\ call'[c].rc = call[c].rc /\ stream' = stream
    BY <1>1 DEF bail, Goes, Call, Keeps
  <1>3. /\ errors \in Seq({c}) /\ Len(errors) = call[c].reported
        /\ stream["err"] /\ stream["out"]
        /\ file["out"] = wrote[c]["out"] /\ file["err"] = wrote[c]["err"]
        /\ wrote[c]["out"] \in Seq({Text(c)}) /\ wrote[c]["err"] \in Seq({Text(c)})
    BY <1>2 DEF AloneHas, Own, Printed, After, Files, Mistakes, Packs, UsesErr, UsesOut,
                Engaged
  <1>4. PICK e \in Seq({Mistake(c)}) : e = ErrorLines(c) /\ Len(e) = call[c].reported
    BY <1>3, MistakeLines
  <1>5. /\ file' = [file EXCEPT !["err"] = file["err"] \o e]
        /\ wrote'[c] = [wrote[c] EXCEPT !["err"] = wrote[c]["err"] \o e]
    BY <1>1, <1>3, <1>4 DEF bail, Output
  <1>6. /\ file'["out"] = file["out"] /\ wrote'[c]["out"] = wrote[c]["out"]
        /\ file'["err"] = wrote[c]["err"] \o e /\ wrote'[c]["err"] = wrote[c]["err"] \o e
    BY <1>1, <1>3, <1>5 DEF Streams
  <1>7. NothingYet(c)' /\ Outcome(c)' /\ HasRead(c)'
    BY <1>2 DEF AloneHas, Own, NothingYet, Outcome, HasRead, Keeps, Before, Packs, After
  <1>8. Printed(c)'
    <2> DEFINE t == wrote[c]["err"]
    <2>1. /\ Len(t \o e) = Len(t) + call[c].reported /\ Len(t) \in Nat
          /\ Len(t \o e) \in Nat
      BY <1>1, <1>3, <1>4
    <2>2. ASSUME NEW i \in 1..Len(t \o e)
          PROVE  (t \o e)[i] = IF i + call[c].reported <= Len(t \o e)
                               THEN Text(c) ELSE Mistake(c)
      <3>1. CASE i <= Len(t)
        <4>1. (t \o e)[i] = t[i] /\ t[i] = Text(c)
          BY <1>3, <1>4, <2>1, <3>1
        <4>2. i + call[c].reported <= Len(t \o e)
          BY <1>1, <2>1, <3>1
        <4> QED BY <4>1, <4>2
      <3>2. CASE i > Len(t)
        <4>1. (t \o e)[i] = e[i - Len(t)] /\ i - Len(t) \in 1..Len(e)
          BY <1>3, <1>4, <2>1, <3>2
        <4>2. e[i - Len(t)] = Mistake(c)
          BY <1>4, <4>1
        <4>3. ~(i + call[c].reported <= Len(t \o e))
          BY <1>1, <2>1, <3>2
        <4> QED BY <4>1, <4>2, <4>3
      <3> QED BY <2>1, <3>1, <3>2
    <2>3. Len(t \o e) >= call[c].reported
      BY <1>1, <2>1
    <2> QED BY <1>2, <1>3, <1>6, <2>2, <2>3 DEF Printed, After, Keeps
  <1>9. Files(c)'
    BY <1>2, <1>3, <1>6 DEF Files, Engaged, UsesErr, UsesOut
  <1>10. Mistakes(c)'
    BY <1>2 DEF Mistakes, Packs
  <1> QED BY <1>7, <1>8, <1>9, <1>10 DEF AloneHas, Own

LEMMA readsAlone ==
  ASSUME TypeOK, NEW c \in Calls, AloneHas(c), fnGetNativeOutput(c)
  PROVE  AloneHas(c)'
  <1>1. /\ call \in [Calls -> Call] /\ call[c] \in Call
        /\ file["out"] \in Seq(Line) /\ file["err"] \in Seq(Line)
        /\ wrote[c]["out"] \in Seq(Line) /\ wrote[c]["err"] \in Seq(Line)
    BY Typed
  <1>2. UNCHANGED <<stream, file, errors, wrote>>
    BY DEF fnGetNativeOutput, ReadOut, ReadErr
  <1>3. ASSUME NEW s \in Streams, ~stream[s], NEW text \in Readable(s), file[s] \in Seq(Line)
        PROVE  text = file[s]
    <2>1. text = SubSeq(file[s], 1, Len(file[s]))
      BY <1>3 DEF Readable
    <2> QED BY <1>3, <2>1
  <1>4. CASE ReadOut(c)
    <2>1. PICK text \in Readable("out") :
            call' = [call EXCEPT ![c].pc = "halfread", ![c].shown = call[c].shown \o text]
      BY <1>4 DEF ReadOut
    <2>2. call[c].pc = "closed"
      BY <1>4 DEF ReadOut
    <2>3. /\ ~stream["out"] /\ file["out"] = wrote[c]["out"] /\ call[c].shown = <<>>
      BY <2>2 DEF AloneHas, Own, NothingYet, Files, Engaged, UsesErr
    <2>4. text = wrote[c]["out"]
      BY <1>1, <1>3, <2>3 DEF Streams
    <2>5. /\ call'[c].pc = "halfread" /\ call'[c].shown = call[c].shown \o text
          /\ call'[c].rc = call[c].rc /\ call'[c].reported = call[c].reported
          /\ call'[c].failed = call[c].failed /\ call'[c].package = call[c].package
      BY <1>1, <2>1 DEF Call
    <2>6. call'[c].shown = wrote[c]["out"]
      BY <1>1, <2>3, <2>4, <2>5
    <2>7. Own(c)'
      BY <1>2, <2>2, <2>5, <2>6 DEF AloneHas, Own, NothingYet, Printed, Outcome, HasRead,
                                    Before, After, Packs
    <2>8. Files(c)' /\ Mistakes(c)'
      BY <1>2, <2>2, <2>5 DEF AloneHas, Files, Mistakes, Engaged, UsesErr, UsesOut, Packs
    <2> QED BY <2>7, <2>8 DEF AloneHas
  <1>5. CASE ReadErr(c)
    <2>1. PICK text \in Readable("err") :
            call' = [call EXCEPT ![c].pc = "done", ![c].shown = call[c].shown \o text]
      BY <1>5 DEF ReadErr
    <2>2. call[c].pc = "halfread"
      BY <1>5 DEF ReadErr
    <2>3. ~stream["err"] /\ file["err"] = wrote[c]["err"]
          /\ call[c].shown = wrote[c]["out"]
      BY <2>2 DEF AloneHas, Own, HasRead, Files, Engaged, UsesErr
    <2>4. text = wrote[c]["err"]
      BY <1>1, <1>3, <2>3 DEF Streams
    <2>5. /\ call'[c].pc = "done" /\ call'[c].shown = call[c].shown \o text
          /\ call'[c].rc = call[c].rc /\ call'[c].reported = call[c].reported
          /\ call'[c].failed = call[c].failed /\ call'[c].package = call[c].package
      BY <1>1, <2>1 DEF Call
    <2>6. call'[c].shown = wrote[c]["out"] \o wrote[c]["err"]
      BY <2>3, <2>4, <2>5
    <2>7. Own(c)'
      BY <1>2, <2>2, <2>5, <2>6 DEF AloneHas, Own, NothingYet, Printed, Outcome, HasRead,
                                    Before, After, Packs
    <2>8. Files(c)' /\ Mistakes(c)'
      BY <2>5 DEF Files, Mistakes, Engaged, UsesErr, UsesOut, Packs
    <2> QED BY <2>7, <2>8 DEF AloneHas
  <1> QED BY <1>4, <1>5 DEF fnGetNativeOutput

(* A step of another call: an engaged call is not alone afterwards, or the  *)
(* other one has not got to the streams.                                    *)
LEMMA OthersAlone ==
  ASSUME TypeOK, Recent, NEW c \in Calls, NEW d \in Calls, d # c,
         fnAapt(d) \/ JNImain(d) \/ main(d) \/ fnGetNativeOutput(d),
         AloneHas(c), Alone(c), Alone(c)'
  PROVE  AloneHas(c)'
  <1>1. call \in [Calls -> Call] /\ wrote \in [Calls -> [Streams -> Seq(Line)]]
    BY Typed
  <1>2. wrote'[c] = wrote[c]
    BY <1>1 DEF fnAapt, fnCheckWorkDir_fails, fnCheckWorkDir, fnInit, fnInit_fails,
       JNImain, RedirectErr, RedirectOut, CloseErr, CloseOut, main, Prints, main_returns,
       doPackage, error, GivesUp, hasErrors, writeAPK, bail, Output,
       fnGetNativeOutput, ReadOut, ReadErr
  <1>3. call'[c] = call[c]
    <2>1. CASE RedirectErr(d)
      <3>1. call[c] \in Call
        BY CallTyped
      <3>2. ~Redirected(c)
        <4>1. SUFFICES ASSUME Redirected(c) PROVE FALSE
          OBVIOUS
        <4>2. call'[c] = [call[c] EXCEPT !.met = call[c].met \cup {d}]
          BY <2>1, <4>1 DEF RedirectErr
        <4>3. d \in call'[c].met
          BY <3>1, <4>2 DEF Call
        <4> QED BY <4>3 DEF Alone
      <3> QED BY <2>1, <3>2 DEF RedirectErr
    <2>2. CASE ~RedirectErr(d)
      <3>1. CASE fnAapt(d)
        BY <1>1, <3>1 DEF fnAapt, fnCheckWorkDir_fails, fnCheckWorkDir, fnInit,
                          fnInit_fails, Goes
      <3>2. CASE JNImain(d)
        BY <1>1, <2>2, <3>2 DEF JNImain, RedirectOut, CloseErr, CloseOut, Goes
      <3>3. CASE main(d)
        BY <1>1, <3>3 DEF main, Prints, main_returns, doPackage, error, GivesUp,
                          hasErrors, writeAPK, bail, Goes
      <3>4. CASE fnGetNativeOutput(d)
        BY <1>1, <3>4 DEF fnGetNativeOutput, ReadOut, ReadErr
      <3> QED BY <3>1, <3>2, <3>3, <3>4
    <2> QED BY <2>1, <2>2
  <1>4. Own(c)'
    BY <1>2, <1>3 DEF AloneHas, Own, NothingYet, Printed, Outcome, HasRead
  <1>5. CASE ~Redirected(c)
    <2>1. Files(c)' /\ Mistakes(c)'
      BY <1>3, <1>5 DEF Redirected, Files, Mistakes, Engaged, UsesErr, UsesOut, Packs
    <2> QED BY <1>4, <2>1 DEF AloneHas
  <1>6. CASE Redirected(c)
    <2>1. ~Redirected(d)
      BY <1>6 DEF Recent, EngagedHaveMet, Knows, Alone
    <2>2. ~RedirectErr(d)
      <3>1. SUFFICES ASSUME RedirectErr(d) PROVE FALSE
        OBVIOUS
      <3>2. call'[c] = [call[c] EXCEPT !.met = call[c].met \cup {d}] /\ call[c] \in Call
        BY <1>6, <3>1, CallTyped DEF RedirectErr
      <3>3. d \in call'[c].met
        BY <3>2 DEF Call
      <3> QED BY <3>3 DEF Alone
    <2>3. fnAapt(d)
      BY <2>1, <2>2 DEF Redirected, Engaged, JNImain, RedirectOut, CloseErr, CloseOut,
         main, Prints, main_returns, doPackage, error, GivesUp, hasErrors, writeAPK, bail,
         fnGetNativeOutput, ReadOut, ReadErr
    <2>4. UNCHANGED <<stream, file, errors>>
      BY <2>3 DEF fnAapt, fnCheckWorkDir_fails, fnCheckWorkDir, fnInit, fnInit_fails
    <2>5. Files(c)' /\ Mistakes(c)'
      BY <1>2, <1>3, <2>4 DEF AloneHas, Files, Mistakes
    <2> QED BY <1>4, <2>5 DEF AloneHas
  <1> QED BY <1>5, <1>6

(* Who is alone after a step was alone before.                              *)
LEMMA AloneBefore ==
  ASSUME TypeOK, Recent, NEW c \in Calls, NEW d \in Calls,
         fnAapt(d) \/ JNImain(d) \/ main(d) \/ fnGetNativeOutput(d), Alone(c)'
  PROVE  Alone(c)
  <1>1. call \in [Calls -> Call] /\ call[c] \in Call
    BY Typed
  <1>2. CASE RedirectErr(d)
    <2>1. CASE c = d
      BY <1>2, <2>1 DEF RedirectErr, Recent, NewcomersAlone, Alone
    <2>2. CASE c # d
      <3>1. call'[c].met \in {call[c].met, call[c].met \cup {d}}
        <4>1. call'[c] \in {call[c], [call[c] EXCEPT !.met = call[c].met \cup {d}]}
          BY <1>2, <2>2 DEF RedirectErr
        <4> QED BY <1>1, <4>1 DEF Call
      <3> QED BY <3>1 DEF Alone
    <2> QED BY <2>1, <2>2
  <1>3. CASE ~RedirectErr(d)
    <2>0. /\ \A pc : Goes(d, pc) => call'[c].met = call[c].met
          /\ \A pc, x : call' = [call EXCEPT ![d].pc = pc, ![d].rc = x]
                        => call'[c].met = call[c].met
      BY <1>1 DEF Goes, Call
    <2>1. call'[c].met = call[c].met
      <3>1. CASE fnAapt(d)
        <4>1. CASE fnInit_fails(d)
          BY <2>0, <4>1 DEF fnInit_fails
        <4>2. CASE ~fnInit_fails(d)
          BY <2>0, <3>1, <4>2 DEF fnAapt, fnCheckWorkDir_fails, fnCheckWorkDir, fnInit
        <4> QED BY <4>1, <4>2
      <3>2. CASE JNImain(d)
        BY <2>0, <1>3, <3>2 DEF JNImain, RedirectOut, CloseErr, CloseOut
      <3>3. CASE main(d)
        <4>1. ASSUME NEW s \in Streams, Prints(d, s) PROVE call' = call
          BY <4>1 DEF Prints
        <4>2. CASE main_returns(d)
          BY <2>0, <4>2 DEF main_returns
        <4>3. CASE doPackage(d)
          BY <1>1, <4>3 DEF doPackage, Call
        <4>7. CASE error(d)
          BY <1>1, <4>7 DEF error, Call
        <4>4. CASE GivesUp(d)
          BY <1>1, <4>4 DEF GivesUp, Call
        <4>5. CASE hasErrors(d) \/ writeAPK(d)
          BY <2>0, <4>5 DEF hasErrors, writeAPK
        <4>6. CASE bail(d)
          BY <2>0, <4>6 DEF bail
        <4> QED BY <3>3, <4>1, <4>2, <4>3, <4>4, <4>5, <4>6, <4>7 DEF main
      <3>4. CASE fnGetNativeOutput(d)
        <4>1. CASE ReadOut(d)
          BY <1>1, <4>1 DEF ReadOut, Call
        <4>2. CASE ReadErr(d)
          BY <1>1, <4>2 DEF ReadErr, Call
        <4> QED BY <3>4, <4>1, <4>2 DEF fnGetNativeOutput
      <3> QED BY <3>1, <3>2, <3>3, <3>4
    <2> QED BY <2>1 DEF Alone
  <1> QED BY <1>2, <1>3

LEMMA AloneInit == Init => AloneInv
  <1> SUFFICES ASSUME Init, NEW c \in Calls PROVE Own(c) /\ Files(c) /\ Mistakes(c)
    BY DEF AloneInv
  <1>1. /\ call[c] = NewCall /\ wrote[c]["out"] = <<>> /\ wrote[c]["err"] = <<>>
    BY DEF Init, Streams
  <1>2. /\ call[c].pc = "idle" /\ call[c].reported = 0 /\ ~call[c].failed
        /\ ~call[c].package /\ call[c].shown = <<>>
    BY <1>1 DEF NewCall
  <1>3. Own(c)
    BY <1>1, <1>2 DEF Own, NothingYet, Printed, Outcome, HasRead, Packs, After
  <1> QED BY <1>2, <1>3 DEF Files, Mistakes, Engaged, UsesErr, UsesOut, Packs

LEMMA AloneStep == TypeOK /\ Recent /\ AloneInv /\ [Next]_vars => AloneInv'
  <1> SUFFICES ASSUME TypeOK, Recent, AloneInv, [Next]_vars, NEW c \in Calls, Alone(c)'
               PROVE  AloneHas(c)'
    BY DEF AloneInv, AloneHas
  <1>1. CASE UNCHANGED vars
    <2>1. AloneHas(c)
      BY <1>1 DEF vars, Alone, AloneInv, AloneHas
    <2>2. Own(c)'
      BY <1>1, <2>1 DEF vars, AloneHas, Own, NothingYet, Printed, Outcome, HasRead
    <2>3. Files(c)' /\ Mistakes(c)'
      BY <1>1, <2>1 DEF vars, AloneHas, Files, Mistakes
    <2> QED BY <2>2, <2>3 DEF AloneHas
  <1>2. CASE Next
    <2>1. PICK d \in Calls : fnAapt(d) \/ JNImain(d) \/ main(d) \/ fnGetNativeOutput(d)
      BY <1>2 DEF Next
    <2>2. Alone(c)
      BY <2>1, AloneBefore
    <2>3. AloneHas(c)
      BY <2>2 DEF AloneInv, AloneHas
    <2>4. CASE d # c
      BY <2>1, <2>2, <2>3, <2>4, OthersAlone
    <2>5. CASE d = c
      <3>1. CASE main(c)
        <4>1. (\E s \in Streams : Prints(c, s)) => AloneHas(c)'
          BY <2>3, PrintsAlone
        <4> QED BY <2>3, <3>1, <4>1, packageAlone, bailAlone DEF main
      <3>2. CASE JNImain(c)
        BY <2>3, <3>2, RedirectErrAlone, RedirectOutAlone, ClosesAlone DEF JNImain
      <3> QED BY <2>1, <2>3, <2>5, <3>1, <3>2, fnAaptAlone, readsAlone
    <2> QED BY <2>4, <2>5
  <1> QED BY <1>1, <1>2

LEMMA BridgeInvariant == Spec => [](TypeOK /\ AloneInv)
  <1>1. TypeOK /\ Recent /\ AloneInv /\ [Next]_vars => TypeOK' /\ Recent' /\ AloneInv'
    BY NextType, NextRecent, AloneStep
  <1> QED BY InitType, InitRecent, AloneInit, <1>1, PTL DEF Spec

(* What such a call has been shown when it is done.                         *)
LEMMA SoloShown ==
  ASSUME TypeOK, AloneInv, NEW c \in Calls, Solo(c)
  PROVE  /\ call[c].shown = wrote[c]["out"] \o wrote[c]["err"]
         /\ wrote[c]["out"] \in Seq({Text(c)}) /\ wrote[c]["err"] \in Seq(Line)
         /\ call[c].reported \in Nat /\ Len(wrote[c]["err"]) >= call[c].reported
         /\ \A i \in 1..Len(wrote[c]["err"]) : wrote[c]["err"][i] =
              IF i + call[c].reported <= Len(wrote[c]["err"]) THEN Text(c) ELSE Mistake(c)
  <1>1. Own(c)
    BY DEF Solo, AloneInv, Alone
  <1> QED BY <1>1, Typed DEF Solo, Own, Printed, HasRead, After

LEMMA SoloLines ==
  ASSUME TypeOK, AloneInv, NEW c \in Calls, Solo(c)
  PROVE  LET n == Len(call[c].shown) IN
         /\ n \in Nat /\ n >= call[c].reported
         /\ \A i \in 1..n : call[c].shown[i] =
              IF i + call[c].reported <= n THEN Text(c) ELSE Mistake(c)
  <1> DEFINE out == wrote[c]["out"]
             err == wrote[c]["err"]
             n == Len(call[c].shown)
             r == call[c].reported
  <1>1. /\ call[c].shown = out \o err /\ out \in Seq({Text(c)}) /\ err \in Seq(Line)
        /\ r \in Nat /\ Len(err) >= r
        /\ \A i \in 1..Len(err) : err[i] = IF i + r <= Len(err) THEN Text(c) ELSE Mistake(c)
    BY SoloShown
  <1> HIDE DEF out, err, r
  <1>2. /\ n = Len(out) + Len(err) /\ Len(out) \in Nat /\ Len(err) \in Nat
    BY <1>1
  <1> HIDE DEF n
  <1>3. ASSUME NEW i \in 1..n
        PROVE  call[c].shown[i] = IF i + r <= n THEN Text(c) ELSE Mistake(c)
    <2>1. CASE i <= Len(out)
      <3>1. (out \o err)[i] = out[i] /\ out[i] = Text(c)
        BY <1>1, <1>2, <2>1
      <3>2. i + r <= n
        BY <1>1, <1>2, <2>1
      <3> QED BY <1>1, <3>1, <3>2
    <2>2. CASE i > Len(out)
      <3>1. PICK k \in 1..Len(err) : k = i - Len(out)
        BY <1>2, <2>2
      <3>2. (out \o err)[i] = err[k]
        BY <1>1, <1>2, <2>2, <3>1
      <3>3. k + r <= Len(err) <=> i + r <= n
        BY <1>1, <1>2, <3>1
      <3> QED BY <1>1, <3>2, <3>3
    <2> QED BY <1>2, <2>1, <2>2
  <1>4. n \in Nat /\ n >= r
    BY <1>1, <1>2
  <1> QED BY <1>3, <1>4 DEF n, r

LEMMA AloneOutput == TypeOK /\ AloneInv => SoloOutput
  <1> SUFFICES ASSUME TypeOK, AloneInv, NEW c \in Calls, Solo(c)
               PROVE  /\ call[c].shown = wrote[c]["out"] \o wrote[c]["err"]
                      /\ \A line \in Elements(call[c].shown) : line.about = c
    BY DEF SoloOutput
  <1>1. \A line \in Elements(call[c].shown) : line \in {Text(c), Mistake(c)}
    BY SoloLines DEF Elements
  <1>2. \A line \in Elements(call[c].shown) : line.about = c
    BY <1>1 DEF Text, Mistake
  <1> QED BY <1>2, SoloShown

LEMMA AloneErrors == TypeOK /\ AloneInv => SoloErrors
  <1> SUFFICES ASSUME TypeOK, AloneInv, NEW c \in Calls, Solo(c)
               PROVE  Cardinality({i \in 1..Len(call[c].shown) :
                                     call[c].shown[i].kind = "error"}) = call[c].reported
    BY DEF SoloErrors
  <1> DEFINE n == Len(call[c].shown)
             r == call[c].reported
  <1>1. /\ n \in Nat /\ n >= r /\ r \in Nat
        /\ \A i \in 1..n : call[c].shown[i] = IF i + r <= n THEN Text(c) ELSE Mistake(c)
    BY SoloLines, SoloShown
  <1>2. Text(c).kind = "text" /\ Mistake(c).kind = "error"
    BY DEF Text, Mistake
  <1>3. \A i \in 1..n : call[c].shown[i].kind = "error" <=> ~(i + r <= n)
    BY <1>1, <1>2
  <1> HIDE DEF n, r
  <1>4. \A i \in 1..n : ~(i + r <= n) <=> i \in n - r + 1..n
    BY <1>1
  <1>5. n - r + 1..n \subseteq 1..n
    BY <1>1
  <1>6. {i \in 1..n : call[c].shown[i].kind = "error"} = n - r + 1..n
    BY <1>3, <1>4, <1>5
  <1>7. Cardinality(n - r + 1..n) = r
    <2>1. n - r + 1 \in Int /\ n \in Int
      BY <1>1
    <2>2. Cardinality(n - r + 1..n) = IF n - r + 1 > n THEN 0 ELSE n - (n - r + 1) + 1
      BY <2>1, FS_Interval
    <2> QED BY <1>1, <2>2
  <1> QED BY <1>6, <1>7 DEF n, r

LEMMA AloneExit == AloneInv => SoloExit
  BY DEF AloneInv, Alone, Own, Outcome, Solo, SoloExit, After

(* A task that calls aapt while no other does is shown exactly what its     *)
(* aapt printed, stdout before stderr, and nothing about another call.      *)
THEOREM ShowsExactlyItsOwn == Spec => []SoloOutput
  BY BridgeInvariant, AloneOutput, PTL

(* ... every error its aapt reported, once each ...                         *)
THEOREM ShowsEveryError == Spec => []SoloErrors
  BY BridgeInvariant, AloneErrors, PTL

(* ... and its exit value says whether this package was built.              *)
THEOREM ExitTellsTheOutcome == Spec => []SoloExit
  BY BridgeInvariant, AloneExit, PTL
================================================================================
