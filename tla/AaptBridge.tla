------------------------------ MODULE AaptBridge ------------------------------
(***************************************************************************)
(* IDE.fnAapt, class Aapt, JNImain.c and the part of aapt that lives on    *)
(* from one call to the next: aapt was written to be run once per process  *)
(* and is called here as a function, on the thread of any task.  Its       *)
(* standard streams are redirected to two files, which fnGetNativeOutput   *)
(* reads back when main has returned.                                      *)
(*                                                                         *)
(* Every call of fnAapt makes an Aapt object of its own, so `synchronized' *)
(* on fnExecute excludes no other call.                                    *)
(*                                                                         *)
(* Abstractions.  The arguments are one choice: the package command or     *)
(* another one.  A line printed by aapt is the call that printed it and    *)
(* the call whose message it is.  A stream that has been closed takes no   *)
(* output and may be reopened, which is what Android's C library does.     *)
(* The progress lines of fnAapt are left out.                              *)
(***************************************************************************)
EXTENDS Integers, Sequences, FiniteSets

CONSTANTS
  Calls,      \* the calls of fnAapt, each by the thread that makes it
  MaxLines,   \* bound: the lines one call prints by itself
  MaxErrors,  \* bound: the errors one call reports
  Faults      \* what may be missing: "workdir", "library"

ASSUME BridgeAssumption ==
  /\ MaxLines \in Nat /\ MaxErrors \in Nat
  /\ Faults \subseteq {"workdir", "library"}

Line == [by : Calls, about : Calls, kind : {"text", "error"}]

Streams == {"out", "err"}

VARIABLES
  call,    \* the calls
  loaded,  \* Aapt.bInitialized
  stream,  \* whether the C streams stdout and stderr are open
  file,    \* native_stdout.txt and native_stderr.txt
  errors,  \* g_errors of SourcePos.cpp: the call that reported each
  wrote    \* history: what the aapt of each call printed

vars == <<call, loaded, stream, file, errors, wrote>>

Call ==
  [pc       : {"idle", "checked", "loaded", "halfway", "redirected", "packaging",
               "writing", "bail", "returned", "closing", "closed", "halfread",
               "done"},
   rc       : {0, 1, 2, 99},  \* what fnAapt returns
   shown    : Seq(Line),      \* what it printed to System.out and System.err
   reported : Nat,            \* history: the errors aapt reported
   failed   : BOOLEAN,        \* history: aapt gave up for another reason
   package  : BOOLEAN,        \* history: it ran the package command
   met      : SUBSET Calls]   \* history: calls redirected at the same time

TypeOK ==
  /\ call \in [Calls -> Call]
  /\ loaded \in BOOLEAN
  /\ stream \in [Streams -> BOOLEAN]
  /\ file \in [Streams -> Seq(Line)]
  /\ errors \in Seq(Calls)
  /\ wrote \in [Calls -> [Streams -> Seq(Line)]]

NewCall ==
  [pc |-> "idle", rc |-> 99, shown |-> <<>>,
   reported |-> 0, failed |-> FALSE, package |-> FALSE, met |-> {}]

Init ==
  /\ call = [c \in Calls |-> NewCall]
  /\ loaded = FALSE
  /\ stream = [s \in Streams |-> FALSE]
  /\ file = [s \in Streams |-> <<>>]
  /\ errors = <<>>
  /\ wrote = [c \in Calls |-> [s \in Streams |-> <<>>]]

(* From the redirection of stderr to the end of fnGetNativeOutput.         *)
Engaged == {"halfway", "redirected", "packaging", "writing", "bail", "returned",
            "closing", "closed", "halfread"}
Redirected(c) == call[c].pc \in Engaged

Goes(c, pc) == call' = [call EXCEPT ![c].pc = pc]

Text(c) == [by |-> c, about |-> c, kind |-> "text"]

(* Call c prints lines to stream s; a closed stream loses them.            *)
Output(c, s, lines) ==
  /\ file' = IF stream[s] THEN [file EXCEPT ![s] = @ \o lines] ELSE file
  /\ wrote' = [wrote EXCEPT ![c][s] = @ \o lines]

------------------------------------------------------------------------------
(* IDE.fnAapt and the constructor of Aapt.                                 *)

(* The work directory is missing: fnAapt returns 99.                       *)
fnCheckWorkDir_fails(c) ==
  /\ call[c].pc = "idle"
  /\ "workdir" \in Faults
  /\ Goes(c, "done")
  /\ UNCHANGED <<loaded, stream, file, errors, wrote>>

fnCheckWorkDir(c) ==
  /\ call[c].pc = "idle"
  /\ Goes(c, "checked")
  /\ UNCHANGED <<loaded, stream, file, errors, wrote>>

(* The first call to get here loads the library, or any number of calls    *)
(* that get here before it has been loaded.                                *)
fnInit(c) ==
  /\ call[c].pc = "checked"
  /\ loaded' = TRUE
  /\ Goes(c, "loaded")
  /\ UNCHANGED <<stream, file, errors, wrote>>

(* Without the directory the object is not initialized and fnAapt returns  *)
(* 2; the error of a library that is missing passes through fnInit, and    *)
(* fnAapt makes it 99.  The next call tries again.                         *)
fnInit_fails(c) ==
  /\ call[c].pc = "checked"
  /\ ~loaded
  /\ \E rc \in (IF "workdir" \in Faults THEN {2} ELSE {})
                 \cup (IF "library" \in Faults THEN {99} ELSE {}) :
       call' = [call EXCEPT ![c].pc = "done", ![c].rc = rc]
  /\ UNCHANGED <<loaded, stream, file, errors, wrote>>

------------------------------------------------------------------------------
(* JNImain.                                                                *)

(* freopen of a stream: what its file held is gone.  A variant that keeps  *)
(* it (mode "a").                                                          *)
Truncated_not(s) == file
Truncated(s) == [file EXCEPT ![s] = <<>>]

RedirectErr(c) ==
  /\ call[c].pc = "loaded"
  /\ stream' = [stream EXCEPT !["err"] = TRUE]
  /\ file' = Truncated("err")
  /\ call' = [d \in Calls |->
       IF d = c THEN [call[c] EXCEPT !.pc = "halfway",
                                     !.met = {e \in Calls : Redirected(e)}]
       ELSE IF Redirected(d) THEN [call[d] EXCEPT !.met = @ \cup {c}]
       ELSE call[d]]
  /\ UNCHANGED <<loaded, errors, wrote>>

(* The second redirection, and the arguments as the first output.          *)
RedirectOut(c) ==
  /\ call[c].pc = "halfway"
  /\ stream' = [stream EXCEPT !["out"] = TRUE]
  /\ file' = [Truncated("out") EXCEPT !["out"] = Append(@, Text(c))]
  /\ wrote' = [wrote EXCEPT ![c]["out"] = <<Text(c)>>]
  /\ Goes(c, "redirected")
  /\ UNCHANGED <<loaded, errors>>

(* fclose: nothing happens to a stream that is closed already.             *)
CloseErr(c) ==
  /\ call[c].pc = "returned"
  /\ stream' = [stream EXCEPT !["err"] = FALSE]
  /\ Goes(c, "closing")
  /\ UNCHANGED <<loaded, file, errors, wrote>>

(* A variant that leaves stdout open.                                      *)
CloseOut_forgotten(c) ==
  /\ call[c].pc = "closing"
  /\ Goes(c, "closed")
  /\ UNCHANGED <<loaded, stream, file, errors, wrote>>
CloseOut(c) ==
  /\ call[c].pc = "closing"
  /\ stream' = [stream EXCEPT !["out"] = FALSE]
  /\ Goes(c, "closed")
  /\ UNCHANGED <<loaded, file, errors, wrote>>

------------------------------------------------------------------------------
(* aapt.                                                                   *)

(* Any command prints to stdout and stderr.                                *)
Prints(c, s) ==
  /\ call[c].pc \in {"redirected", "packaging"}
  /\ Len(wrote[c]["out"]) + Len(wrote[c]["err"]) <= MaxLines
  /\ Output(c, s, <<Text(c)>>)
  /\ UNCHANGED <<call, loaded, stream, errors>>

(* A command that is not the package command, or no command at all, ends:  *)
(* 2 after the usage was printed.                                          *)
main_returns(c) ==
  /\ call[c].pc = "redirected"
  /\ \E rc \in 0..2 : call' = [call EXCEPT ![c].pc = "returned", ![c].rc = rc]
  /\ UNCHANGED <<loaded, stream, file, errors, wrote>>

(* SourcePos::clear(), and a variant without it.                           *)
clear_not == errors
clear == <<>>

(* doPackage starts.                                                       *)
doPackage(c) ==
  /\ call[c].pc = "redirected"
  /\ errors' = clear
  /\ call' = [call EXCEPT ![c].pc = "packaging", ![c].package = TRUE]
  /\ UNCHANGED <<loaded, stream, file, wrote>>

(* SourcePos::error(): a resource or the manifest is wrong.                *)
error(c) ==
  /\ call[c].pc = "packaging"
  /\ call[c].reported < MaxErrors
  /\ errors' = Append(errors, c)
  /\ call' = [call EXCEPT ![c].reported = @ + 1]
  /\ UNCHANGED <<loaded, stream, file, wrote>>

(* doPackage gives up: an input is missing or an output cannot be written. *)
(* A variant that returns the status of the step that failed.              *)
GivesUp_status(c) ==
  /\ call[c].pc \in {"packaging", "writing"}
  /\ call' = [call EXCEPT ![c].pc = "bail", ![c].rc = -1, ![c].failed = TRUE]
  /\ UNCHANGED <<loaded, stream, file, errors, wrote>>
GivesUp(c) ==
  /\ call[c].pc \in {"packaging", "writing"}
  /\ call' = [call EXCEPT ![c].pc = "bail", ![c].rc = 1, ![c].failed = TRUE]
  /\ UNCHANGED <<loaded, stream, file, errors, wrote>>

(* Everything is read and processed: hasErrors() decides.                  *)
hasErrors(c) ==
  /\ call[c].pc = "packaging"
  /\ call' = [call EXCEPT ![c].pc = IF errors = <<>> THEN "writing" ELSE "bail",
                          ![c].rc = 1]
  /\ UNCHANGED <<loaded, stream, file, errors, wrote>>

(* The package has been written.                                           *)
writeAPK(c) ==
  /\ call[c].pc = "writing"
  /\ call' = [call EXCEPT ![c].pc = "bail", ![c].rc = 0]
  /\ UNCHANGED <<loaded, stream, file, errors, wrote>>

ErrorLines(c) ==
  [i \in 1..Len(errors) |-> [by |-> c, about |-> errors[i], kind |-> "error"]]

(* The label bail of doPackage: printErrors(stderr); a variant that prints *)
(* the first error only.                                                   *)
bail_first(c) ==
  LET lines == IF errors = <<>> THEN <<>> ELSE <<Head(ErrorLines(c))>> IN
  /\ call[c].pc = "bail"
  /\ Output(c, "err", lines)
  /\ Goes(c, "returned")
  /\ UNCHANGED <<loaded, stream, errors>>
bail(c) ==
  /\ call[c].pc = "bail"
  /\ Output(c, "err", ErrorLines(c))
  /\ Goes(c, "returned")
  /\ UNCHANGED <<loaded, stream, errors>>

------------------------------------------------------------------------------
(* Aapt.fnGetNativeOutput.                                                 *)

(* What can be read of the file of stream s: while another call has the    *)
(* stream open, as much of it as has been flushed.                         *)
Readable(s) ==
  {SubSeq(file[s], 1, n) : n \in IF stream[s] THEN 0..Len(file[s]) ELSE {Len(file[s])}}

ReadOut(c) ==
  /\ call[c].pc = "closed"
  /\ \E text \in Readable("out") :
       call' = [call EXCEPT ![c].pc = "halfread", ![c].shown = @ \o text]
  /\ UNCHANGED <<loaded, stream, file, errors, wrote>>

ReadErr(c) ==
  /\ call[c].pc = "halfread"
  /\ \E text \in Readable("err") :
       call' = [call EXCEPT ![c].pc = "done", ![c].shown = @ \o text]
  /\ UNCHANGED <<loaded, stream, file, errors, wrote>>

------------------------------------------------------------------------------

fnAapt(c) == fnCheckWorkDir_fails(c) \/ fnCheckWorkDir(c) \/ fnInit(c) \/ fnInit_fails(c)

JNImain(c) == RedirectErr(c) \/ RedirectOut(c) \/ CloseErr(c) \/ CloseOut(c)

main(c) ==
  \/ \E s \in Streams : Prints(c, s)
  \/ main_returns(c) \/ doPackage(c) \/ error(c) \/ GivesUp(c)
  \/ hasErrors(c) \/ writeAPK(c) \/ bail(c)

fnGetNativeOutput(c) == ReadOut(c) \/ ReadErr(c)

Next == \E c \in Calls : fnAapt(c) \/ JNImain(c) \/ main(c) \/ fnGetNativeOutput(c)

Spec == Init /\ [][Next]_vars

------------------------------------------------------------------------------
(* A call no other call met, seen to its end.                              *)
Solo(c) ==
  call[c].pc = "done" /\ call[c].met = {} /\ wrote[c]["out"] # <<>>

Elements(s) == {s[i] : i \in 1..Len(s)}

(* SoloOutput (Aapt.fnGetNativeOutput, JNImain): a task that calls aapt    *)
(* while no other does sees exactly what its aapt printed, stdout before   *)
(* stderr, whatever the calls before it left in the two files and in the   *)
(* list of errors, and every error it sees is one of its own.              *)
SoloOutput == \A c \in Calls : Solo(c) =>
  /\ call[c].shown = wrote[c]["out"] \o wrote[c]["err"]
  /\ \A line \in Elements(call[c].shown) : line.about = c

(* SoloErrors (SourcePos::error, printErrors): such a task sees every error*)
(* its aapt reported, once each.                                           *)
SoloErrors == \A c \in Calls : Solo(c) =>
  Cardinality({i \in 1..Len(call[c].shown) : call[c].shown[i].kind = "error"})
    = call[c].reported

(* SoloExit (doPackage): the exit value of such a package command says     *)
(* whether this package was built: errors of an earlier call in the same   *)
(* process do not count.                                                   *)
SoloExit == \A c \in Calls : Solo(c) /\ call[c].package =>
  call[c].rc = (IF call[c].reported > 0 \/ call[c].failed THEN 1 ELSE 0)

(* Call c and the calls that overlapped it.                                *)
Knows(c) == call[c].met \cup {c}

(* ShownIsContemporary (freopen with mode "w", SourcePos::clear): whatever *)
(* the interleaving, a task is shown only lines of its own aapt and of the *)
(* calls that overlapped it, and an error message only of a call that      *)
(* overlapped the one that printed it: nothing of a finished build shows up*)
(* in a later one.                                                         *)
ShownIsContemporary == \A c \in Calls : \A line \in Elements(call[c].shown) :
  line.by \in Knows(c) /\ line.about \in Knows(line.by)

(* Why ShownIsContemporary is kept: calls that are engaged have met, and   *)
(* the two files and the errors hold nothing older than those who use them.*)
EngagedHaveMet == \A c, d \in Calls :
  Redirected(c) /\ Redirected(d) => d \in Knows(c)
NewcomersAlone == \A c \in Calls :
  call[c].pc \in {"idle", "checked", "loaded"} => call[c].met = {}
ErrRecent == \A c \in Calls : Redirected(c) =>
  \A line \in Elements(file["err"]) : line.by \in Knows(c)
OutRecent == \A c \in Calls : Redirected(c) /\ call[c].pc # "halfway" =>
  \A line \in Elements(file["out"]) : line.by \in Knows(c)
LinesRecent == \A s \in Streams : \A line \in Elements(file[s]) :
  line.about \in Knows(line.by)
ErrorsRecent == \A c \in Calls : call[c].pc \in {"packaging", "writing", "bail"} =>
  \A d \in Elements(errors) : d \in Knows(c)

Recent ==
  /\ EngagedHaveMet /\ NewcomersAlone
  /\ ErrRecent /\ OutRecent /\ LinesRecent /\ ErrorsRecent
  /\ ShownIsContemporary

(* StreamsReleased (JNImain): a stream is redirected only while some call  *)
(* is between its redirection and its end: the app's own stderr and stdout *)
(* are never left in a file.                                               *)
UsesErr == {"halfway", "redirected", "packaging", "writing", "bail", "returned"}
UsesOut == {"redirected", "packaging", "writing", "bail", "returned", "closing"}
StreamsReleased ==
  /\ stream["err"] => \E c \in Calls : call[c].pc \in UsesErr
  /\ stream["out"] => \E c \in Calls : call[c].pc \in UsesOut

(* OldErrorsCleared (Command.cpp:1364 "clear old error messages"): what    *)
(* doPackage clears is old: no call that is still packaging has reported   *)
(* it.                                                                     *)
OldErrorsCleared == [][\A c \in Calls : doPackage(c) =>
  \A d \in Elements(errors) : call[d].pc \notin {"packaging", "writing", "bail"}]_vars

==============================================================================
