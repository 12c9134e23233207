------------------------------- MODULE Session -------------------------------
(***************************************************************************)
(* The running application: the instances of MainActivity, the static      *)
(* fields of class G they share, the BeanShell and tool tasks that run in  *)
(* the background with System.out and System.err redirected to their own   *)
(* buffers, and the queue through which a task's background thread reaches *)
(* the UI thread.                                                          *)
(*                                                                         *)
(* One step is what one thread does between two points where another       *)
(* thread can interfere: a whole UI handler, except that                   *)
(* BeanShellTask.onPostExecute takes two steps (PostLog, PostShow), since  *)
(* background threads write while it runs; `ui' holds the UI thread in     *)
(* between, and between onCreate and the onResume that follows it.         *)
(*                                                                         *)
(* Abstractions.  Text is a sequence of chunks <<writer, number>>: one for *)
(* each write of a task.  Progress messages, toasts, the script's path,    *)
(* the tabs and the fonts have no state here.  The directory               *)
(* /sdcard/.JavaIDEdroid can be created, unless "nocard" \in Platform.     *)
(* The two passwords are one flag: one of them is not empty.               *)
(***************************************************************************)
EXTENDS Integers, Sequences, FiniteSets

CONSTANTS
  Mains,      \* the MainActivity instances that can come to exist
  BshTasks,   \* the BeanShellTask instances that can come to exist
  ToolTasks,  \* the ToolTask instances that can come to exist
  Null,       \* Java's null, and "nobody" where an instance is expected
  Page,       \* any activity that is not a MainActivity
  Codes,      \* the values a script may assign to G.iScriptResultCode
  MaxPrints,  \* bound: the writes of one script or tool
  MaxClears,  \* bound: the calls of fnClear() by one script, 0 or 1
  Intents,    \* the extras a caller may start the application with
  Logging,    \* the values of the setting "Log output to file"
  Passwords,  \* whether the user leaves passwords in the password page
  Platform    \* what Android may do to the application (see below)

Intent == [autoRun : BOOLEAN, autoExit : BOOLEAN, wantText : BOOLEAN]

(* "stack":    an instance may be started while another one exists (the    *)
(*             manifest's launchMode is standard).                         *)
(* "recreate": an instance may be destroyed and created again with the     *)
(*             intent it had, as on a configuration change the manifest    *)
(*             does not list.                                              *)
(* "kill":     the process may be killed while no instance is in front.    *)
(* "nocard":   the storage card may be missing.                            *)
PlatformEvents == {"stack", "recreate", "kill", "nocard"}

Tasks == BshTasks \cup ToolTasks

(* The chunk that is the warning of onPostExecute, not a write of a task.  *)
Warning == <<Null, 0>>
Chunk == (Tasks \X Nat) \cup {Warning}

(* What an instance returns to its caller; text is Null if not asked for.  *)
ResultExtras == [code : Codes \cup {99, 0}, text : Seq(Chunk) \cup {Null}]

(* What the log file holds, and the task that wrote it last.               *)
LogOutput == [by : Tasks, text : Seq(Chunk)]

ASSUME SessionAssumption ==
  /\ Null \notin Mains \cup Tasks
  /\ Null \notin Seq(Chunk) \cup ResultExtras \cup LogOutput
  /\ Page \notin Mains \cup Tasks \cup {Null}
  /\ Mains \cap Tasks = {}
  /\ BshTasks \cap ToolTasks = {}
  /\ Codes \subseteq Int
  /\ MaxPrints \in Nat \ {0}
  /\ MaxClears \in {0, 1}
  /\ Intents \subseteq Intent
  /\ Logging \subseteq BOOLEAN
  /\ Passwords \subseteq BOOLEAN
  /\ Platform \subseteq PlatformEvents

VARIABLES
  alive,    \* the application's process exists
  ui,       \* whom the UI thread is serving between two steps, or Null
  act,      \* the MainActivity instances
  g,        \* the static fields of class G
  task,     \* the tasks
  buf,      \* the StringWriterOutputStream of each task
  sys,      \* the tasks whose buffers System.out and System.err write to
  uiq,      \* the AsyncTask messages waiting for the UI thread
  logFile,  \* LogOutput.txt: who wrote it and what, or Null
  flg       \* the file <versionCode>.flg exists

vars == <<alive, ui, act, g, task, buf, sys, uiq, logFile, flg>>

Main ==
  [life    : {"unborn", "created", "resumed", "paused", "saved", "gone"},
   closing : {"no", "menu", "auto"},    \* who called finish()
   intent  : Intent,
   result  : ResultExtras \cup {Null},
   bsh     : Seq(Chunk),                \* tabBeanshell_tvOutput
   tools   : Seq(Chunk),                \* tabTools_tvOutput
   runs    : Nat]                       \* history: scripts it started by itself

Globals ==
  [main      : Mains \cup {Null},
   current   : Mains \cup {Page, Null},
   bshTask   : BshTasks \cup {Null},
   code      : Codes \cup {99, 0},
   autoRun   : BOOLEAN,
   autoExit  : BOOLEAN,
   wantText  : BOOLEAN,
   pw        : BOOLEAN,
   logOutput : BOOLEAN]

Task ==
  [pc       : {"idle", "queued", "half", "redirected", "running", "posted",
               "logged", "done", "lost"},
   owner    : Mains \cup {Page, Null},  \* the context of its progress dialog
   dialog   : {"none", "showing", "closed"},
   swos     : BOOLEAN,                  \* its field swos is not null
   printed  : Nat,                      \* history: its writes so far
   cleared  : Nat \cup {-1},            \* history: its writes before fnClear()
   assigned : Codes \cup {Null},        \* history: the code it assigned
   warned   : BOOLEAN,                  \* history: the warning was due
   solo     : BOOLEAN]                  \* history: see Solo below

Message == [op : {"clear"}, task : BshTasks] \cup [op : {"post"}, task : Tasks]

TypeOK ==
  /\ alive \in BOOLEAN
  /\ ui \in Mains \cup BshTasks \cup {Null}
  /\ act \in [Mains -> Main]
  /\ g \in Globals
  /\ task \in [Tasks -> Task]
  /\ buf \in [Tasks -> Seq(Chunk)]
  /\ sys \in [out : Tasks \cup {Null}, err : Tasks \cup {Null}]
  /\ uiq \in Seq(Message)
  /\ logFile \in LogOutput \cup {Null}
  /\ flg \in BOOLEAN

------------------------------------------------------------------------------

NewMain(i) ==
  [life |-> "created", closing |-> "no", intent |-> i, result |-> Null,
   bsh |-> <<>>, tools |-> <<>>, runs |-> 0]

NewTask ==
  [pc |-> "idle", owner |-> Null, dialog |-> "none", swos |-> FALSE,
   printed |-> 0, cleared |-> -1, assigned |-> Null, warned |-> FALSE,
   solo |-> FALSE]

(* The static fields of a process that has just loaded class G.            *)
NoGlobals ==
  [main |-> Null, current |-> Null, bshTask |-> Null, code |-> 0,
   autoRun |-> FALSE, autoExit |-> FALSE, wantText |-> FALSE, pw |-> FALSE,
   logOutput |-> FALSE]

PlainIntent == [autoRun |-> FALSE, autoExit |-> FALSE, wantText |-> FALSE]

Init ==
  /\ alive = FALSE
  /\ ui = Null
  /\ act = [m \in Mains |-> [NewMain(PlainIntent) EXCEPT !.life = "unborn"]]
  /\ g = NoGlobals
  /\ task = [t \in Tasks |-> NewTask]
  /\ buf = [t \in Tasks |-> <<>>]
  /\ sys = [out |-> Null, err |-> Null]
  /\ uiq = <<>>
  /\ logFile = Null
  /\ flg = FALSE

(* The UI thread can take the next message or event.                       *)
UiFree == alive /\ ui = Null

Outstanding(t) == task[t].pc \notin {"idle", "done", "lost"}

NoneResumed == \A m \in Mains : act[m].life # "resumed"

(* The progress dialogs are modal: while one shows, its instance gets no   *)
(* other input than BACK.                                                  *)
Responsive(m) ==
  /\ UiFree
  /\ act[m].life = "resumed"
  /\ act[m].closing = "no"
  /\ \A t \in Tasks : task[t].owner = m => task[t].dialog # "showing"

(* What the buffers hold after c is written to stream s.                   *)
Emit(s, c) == IF s = Null THEN buf ELSE [buf EXCEPT ![s] = Append(@, c)]

(* A started task that has been the only one so far, started by G.main and *)
(* with no onCreate since, is solo.                                        *)
Disturbed == [t \in Tasks |->
  IF Outstanding(t) THEN [task[t] EXCEPT !.solo = FALSE] ELSE task[t]]

------------------------------------------------------------------------------
(* Activities.                                                             *)

(* MainActivity.onCreate: fnInit, the settings, then the intent's extras.  *)
(* A process that does not exist is started for it.  What G.bshTask refers *)
(* to is left as it is.  Bound: a script that is to run by itself is only  *)
(* asked for while there is a task left to run it.                         *)
onCreate(m, i) ==
  /\ ui = Null
  /\ act[m].life = "unborn"
  /\ i.autoRun => \E t \in BshTasks : task[t].pc = "idle"
  /\ alive' = TRUE
  /\ ui' = m
  /\ \E log \in Logging :
       g' = [main |-> m, current |-> Null, bshTask |-> g.bshTask, code |-> 99,
             autoRun |-> i.autoRun, autoExit |-> i.autoExit,
             wantText |-> i.wantText, pw |-> FALSE, logOutput |-> log]
  /\ task' = Disturbed
  /\ UNCHANGED <<buf, sys, uiq, logFile, flg>>

Launch(m, i) ==
  /\ NoneResumed
  /\ \/ "stack" \in Platform
     \/ \A n \in Mains : act[n].life \in {"unborn", "gone"}
  /\ onCreate(m, i)
  /\ act' = [act EXCEPT ![m] = NewMain(i)]

(* An instance that is gone: its views are never seen again.               *)
Destroyed(a) == [a EXCEPT !.life = "gone", !.bsh = <<>>, !.tools = <<>>]

(* Android destroys `old' without anyone having called finish() and puts m *)
(* in its place: at once, or when the user comes back to it.               *)
Recreate(old, m) ==
  /\ \/ act[old].life = "saved"
     \/ "recreate" \in Platform /\ act[old].life \in {"resumed", "paused"}
  /\ act[old].closing = "no"
  /\ \A n \in Mains \ {old} : act[n].life # "resumed"
  /\ onCreate(m, act[old].intent)
  /\ act' = [act EXCEPT ![old] = Destroyed(@), ![m] = NewMain(act[old].intent)]

(* new BeanShellTask() or new ToolTask(), execute() and onPreExecute; the  *)
(* dialog belongs to the current activity.                                 *)
Started(t, m, current) ==
  [Disturbed EXCEPT ![t] =
     [NewTask EXCEPT !.pc = "queued", !.owner = current, !.dialog = "showing",
                     !.solo = m = g.main /\ \A u \in Tasks : ~Outstanding(u)]]

(* fnSetCurrentActivity(m), and a variant that does not know m.            *)
InFront_forgotten(m) == g
InFront(m) == [g EXCEPT !.current = m]

(* fnClear(tabBeanshell_tvOutput), and a variant that leaves the text.     *)
BshCleared_not(m) == act
BshCleared(m) == [act EXCEPT ![m].bsh = <<>>]

(* The static fields when onResume has run the script m was started for;   *)
(* variants that leave the flag set, or the task unnamed.                  *)
AutoRuns_again(m, t) == [InFront(m) EXCEPT !.bshTask = t]
AutoRuns_unnamed(m, t) == [InFront(m) EXCEPT !.autoRun = FALSE]
AutoRuns(m, t) == [InFront(m) EXCEPT !.autoRun = FALSE, !.bshTask = t]

(* MainActivity.onResume.  The upgrade page shown on the first opening     *)
(* covers the instance at once.                                            *)
onResume(m) ==
  /\ alive
  /\ \/ ui = m /\ act[m].life = "created"
     \/ /\ ui = Null
        /\ act[m].life = "paused"
        /\ act[m].closing = "no"
        /\ NoneResumed
  /\ ui' = Null
  /\ \/ /\ ~flg
        /\ flg' = TRUE
        /\ g' = InFront(m)
        /\ act' = [act EXCEPT ![m].life = "paused"]
        /\ UNCHANGED task
     \/ /\ flg \/ "nocard" \in Platform
        /\ ~g.autoRun
        /\ g' = InFront(m)
        /\ act' = [act EXCEPT ![m].life = "resumed"]
        /\ UNCHANGED <<task, flg>>
     \/ /\ flg \/ "nocard" \in Platform
        /\ g.autoRun
        /\ \E t \in BshTasks :
             /\ task[t].pc = "idle"
             /\ g' = AutoRuns(m, t)
             /\ task' = Started(t, m, InFront(m).current)
        /\ act' = [BshCleared(m) EXCEPT ![m].life = "resumed", ![m].runs = @ + 1]
        /\ UNCHANGED flg
  /\ UNCHANGED <<alive, buf, sys, uiq, logFile>>

(* MainActivity.onPause.                                                   *)
onPause(m) ==
  /\ UiFree
  /\ act[m].life = "resumed"
  /\ act' = [act EXCEPT ![m].life = "paused"]
  /\ g' = IF act[m].closing = "no" THEN g ELSE [g EXCEPT !.pw = FALSE]
  /\ UNCHANGED <<alive, ui, task, buf, sys, uiq, logFile, flg>>

(* Android destroys an instance after its finish().                        *)
onDestroy(m) ==
  /\ UiFree
  /\ act[m].life = "paused"
  /\ act[m].closing # "no"
  /\ act' = [act EXCEPT ![m] = Destroyed(@)]
  /\ UNCHANGED <<alive, ui, g, task, buf, sys, uiq, logFile, flg>>

(* The Exit item of the menu.                                              *)
onOptionsItemSelected_Exit(m) ==
  /\ Responsive(m)
  /\ act' = [act EXCEPT ![m].closing = "menu"]
  /\ UNCHANGED <<alive, ui, g, task, buf, sys, uiq, logFile, flg>>

(* The password, settings, help, info or file page opened from m comes to  *)
(* the front.                                                              *)
Page_onResume(m) ==
  /\ UiFree
  /\ NoneResumed
  /\ act[m].life = "paused"
  /\ act[m].closing = "no"
  /\ g' = [g EXCEPT !.current = Page]
  /\ UNCHANGED <<alive, ui, act, task, buf, sys, uiq, logFile, flg>>

(* The return from the settings page to m.                                 *)
onActivityResult_Settings(m) ==
  /\ UiFree
  /\ NoneResumed
  /\ act[m].life = "paused"
  /\ act[m].closing = "no"
  /\ g.current = Page
  /\ \E log \in Logging : g' = [g EXCEPT !.current = m, !.logOutput = log]
  /\ UNCHANGED <<alive, ui, act, task, buf, sys, uiq, logFile, flg>>

(* The password page, opened from m, loses the focus: the user has left    *)
(* passwords in its fields, or none.                                       *)
PasswordActivity_onPause(m) ==
  /\ UiFree
  /\ NoneResumed
  /\ act[m].life = "paused"
  /\ act[m].closing = "no"
  /\ g.current = Page
  /\ \E pw \in Passwords : g' = [g EXCEPT !.pw = pw]
  /\ UNCHANGED <<alive, ui, act, task, buf, sys, uiq, logFile, flg>>

(* The button "Run script!".                                               *)
tabBeanshell_btnRun(m, t) ==
  /\ Responsive(m)
  /\ task[t].pc = "idle"
  /\ act' = BshCleared(m)
  /\ g' = [g EXCEPT !.bshTask = t]
  /\ task' = Started(t, m, g.current)
  /\ UNCHANGED <<alive, ui, buf, sys, uiq, logFile, flg>>

(* The button that runs a tool.                                            *)
tabTools_btnRun(m, t) ==
  /\ Responsive(m)
  /\ task[t].pc = "idle"
  /\ act' = [act EXCEPT ![m].tools = <<>>]
  /\ task' = Started(t, m, g.current)
  /\ UNCHANGED <<alive, ui, g, buf, sys, uiq, logFile, flg>>

(* BACK cancels the progress dialog, never the task.                       *)
CancelDialog(t) ==
  /\ UiFree
  /\ task[t].dialog = "showing"
  /\ \E m \in Mains : task[t].owner = m /\ act[m].life = "resumed"
  /\ task' = [task EXCEPT ![t].dialog = "closed"]
  /\ UNCHANGED <<alive, ui, act, g, buf, sys, uiq, logFile, flg>>

------------------------------------------------------------------------------
(* The end of the process.  Android keeps a record of the instances that   *)
(* were not in front, and only files survive.                              *)

ProcessEnds ==
  /\ alive' = FALSE
  /\ ui' = Null
  /\ uiq' = <<>>
  /\ sys' = [out |-> Null, err |-> Null]
  /\ g' = NoGlobals
  /\ task' = [t \in Tasks |-> IF Outstanding(t)
                              THEN [NewTask EXCEPT !.pc = "lost"]
                              ELSE task[t]]
  /\ act' = [m \in Mains |->
       CASE act[m].life = "unborn" -> act[m]
         [] act[m].life \in {"paused", "saved"} /\ act[m].closing = "no"
              -> [Destroyed(act[m]) EXCEPT !.life = "saved"]
         [] OTHER -> Destroyed(act[m])]

(* Android kills the process of an application that is not in front.       *)
Kill ==
  /\ "kill" \in Platform
  /\ UiFree
  /\ NoneResumed
  /\ ProcessEnds
  /\ UNCHANGED <<buf, logFile, flg>>

------------------------------------------------------------------------------
(* The background thread of a task: doInBackground.                        *)

Moves(t, pc) == task' = [task EXCEPT ![t].pc = pc]

(* new StringWriterOutputStream() and the first half of fnRedirectOutput.  *)
SetOut(t) ==
  /\ alive
  /\ task[t].pc = "queued"
  /\ task' = [task EXCEPT ![t].pc = "half", ![t].swos = TRUE]
  /\ sys' = [sys EXCEPT !.out = t]
  /\ UNCHANGED <<alive, ui, act, g, buf, uiq, logFile, flg>>

(* The second half of fnRedirectOutput.                                    *)
SetErr(t) ==
  /\ alive
  /\ task[t].pc = "half"
  /\ Moves(t, IF t \in BshTasks THEN "redirected" ELSE "running")
  /\ sys' = [sys EXCEPT !.err = t]
  /\ UNCHANGED <<alive, ui, act, g, buf, uiq, logFile, flg>>

(* An exception of the interpreter's set-up is caught, but the handler's   *)
(* toast cannot be made on a thread without a message loop: the second     *)
(* exception ends the process.                                             *)
SetupFails(t) ==
  /\ alive
  /\ t \in BshTasks
  /\ task[t].pc = "queued"
  /\ ProcessEnds
  /\ UNCHANGED <<buf, logFile, flg>>

(* Task t writes its next chunk to stream s.                               *)
Writes(t, s, pc) ==
  LET n == task[t].printed + 1 IN
  /\ buf' = Emit(s, <<t, n>>)
  /\ task' = [task EXCEPT ![t].printed = n, ![t].pc = pc]

(* fnRunBeanshellScript prints its heading and runs the script.            *)
ScriptBegins(t) ==
  /\ alive
  /\ task[t].pc = "redirected"
  /\ Writes(t, sys.out, "running")
  /\ UNCHANGED <<alive, ui, act, g, sys, uiq, logFile, flg>>

(* A script or a tool prints.                                              *)
Prints(t) ==
  /\ alive
  /\ task[t].pc = "running"
  /\ task[t].printed < MaxPrints
  /\ \E s \in {sys.out, sys.err} : Writes(t, s, "running")
  /\ UNCHANGED <<alive, ui, act, g, sys, uiq, logFile, flg>>

(* A script calls G.bshTask.fnClear().                                     *)
fnClear(t) ==
  /\ alive
  /\ t \in BshTasks
  /\ task[t].pc = "running"
  /\ MaxClears = 1 /\ task[t].cleared = -1
  /\ uiq' = Append(uiq, [op |-> "clear", task |-> g.bshTask])
  /\ task' = [task EXCEPT ![t].cleared = task[t].printed]
  /\ UNCHANGED <<alive, ui, act, g, buf, sys, logFile, flg>>

(* A script assigns G.iScriptResultCode.                                   *)
AssignCode(t, c) ==
  /\ alive
  /\ t \in BshTasks
  /\ task[t].pc = "running"
  /\ g' = [g EXCEPT !.code = c]
  /\ task' = [task EXCEPT ![t].assigned = c]
  /\ UNCHANGED <<alive, ui, act, buf, sys, uiq, logFile, flg>>

(* The result of doInBackground is sent to the UI thread.                  *)
Post(t) == uiq' = Append(uiq, [op |-> "post", task |-> t])

(* The script has ended or thrown; its footer is printed in either case.   *)
(* A variant that releases the buffer at once.                             *)
ScriptEnds_released(t) ==
  LET n == task[t].printed + 1 IN
  /\ alive
  /\ t \in BshTasks
  /\ task[t].pc = "running"
  /\ buf' = Emit(sys.out, <<t, n>>)
  /\ task' = [task EXCEPT ![t].printed = n, ![t].pc = "posted", ![t].swos = FALSE]
  /\ Post(t)
  /\ UNCHANGED <<alive, ui, act, g, sys, logFile, flg>>
ScriptEnds(t) ==
  /\ alive
  /\ t \in BshTasks
  /\ task[t].pc = "running"
  /\ Writes(t, sys.out, "posted")
  /\ Post(t)
  /\ UNCHANGED <<alive, ui, act, g, sys, logFile, flg>>

(* fnLogOutput, where b holds the buffers; a variant that saves them as    *)
(* they were before the step.                                              *)
fnLogOutput_early(t, b) ==
  logFile' = IF g.logOutput THEN [by |-> t, text |-> buf[t]] ELSE logFile
fnLogOutput(t, b) ==
  logFile' = IF g.logOutput THEN [by |-> t, text |-> b[t]] ELSE logFile

(* The tool has ended; the background thread itself writes the log file.   *)
ToolEnds(t) ==
  /\ alive
  /\ t \in ToolTasks
  /\ task[t].pc = "running"
  /\ Moves(t, "posted")
  /\ fnLogOutput(t, buf)
  /\ Post(t)
  /\ UNCHANGED <<alive, ui, act, g, buf, sys, flg>>

Background(t) ==
  \/ SetOut(t) \/ SetErr(t) \/ SetupFails(t)
  \/ ScriptBegins(t) \/ Prints(t) \/ fnClear(t)
  \/ \E c \in Codes : AssignCode(t, c)
  \/ ScriptEnds(t) \/ ToolEnds(t)

------------------------------------------------------------------------------
(* The UI thread takes the messages of the tasks in the order they came.   *)

Receives(op, t) ==
  /\ UiFree
  /\ uiq # <<>>
  /\ Head(uiq) = [op |-> op, task |-> t]
  /\ uiq' = Tail(uiq)

(* BeanShellTask.onProgressUpdate with CLEAR; if swos is null the          *)
(* exception is caught before the screen is cleared.                       *)
HandleClear(t) ==
  /\ Receives("clear", t)
  /\ IF task[t].swos
     THEN /\ buf' = [buf EXCEPT ![t] = <<>>]
          /\ act' = [act EXCEPT ![g.main].bsh = <<>>]
     ELSE UNCHANGED <<buf, act>>
  /\ UNCHANGED <<alive, ui, g, task, sys, logFile, flg>>

(* The first half of BeanShellTask.onPostExecute: the warning and the log. *)
PostLog(t) ==
  /\ t \in BshTasks
  /\ Receives("post", t)
  /\ ui' = t
  /\ LET warn == g.logOutput /\ g.pw
         after == IF warn THEN Emit(sys.err, Warning) ELSE buf
     IN /\ buf' = after
        /\ fnLogOutput(t, after)
        /\ task' = [task EXCEPT ![t].pc = "logged", ![t].warned = warn]
  /\ UNCHANGED <<alive, act, g, sys, flg>>

(* dismiss() of a dialog whose window went with its activity throws, and   *)
(* nothing catches it.                                                     *)
DialogDetached(t) ==
  /\ task[t].dialog = "showing"
  /\ \A m \in Mains : task[t].owner = m => act[m].life = "gone"

(* swos = null and the dialog dismissed; variants that forget either.      *)
Finished_leaky(t) == task' = [task EXCEPT ![t].pc = "done", ![t].dialog = "closed"]
Finished_covered(t) == task' = [task EXCEPT ![t].pc = "done", ![t].swos = FALSE]
Finished(t) ==
  task' = [task EXCEPT ![t].pc = "done", ![t].swos = FALSE, ![t].dialog = "closed"]

(* The result extras, with v the text of the BeanShell tab.                *)
Result(v) == [code |-> g.code, text |-> IF g.wantText THEN v ELSE Null]

(* fnSetResult and, if asked for, finish() on instance a showing text v.   *)
(* The result of an instance that is finishing has already been taken.     *)
(* The variants: finish() first, the first result kept, no finish().       *)
Concluded_finish_first(a, v) ==
  IF a.life = "gone" THEN a
  ELSE IF a.closing # "no" \/ g.autoExit
       THEN [a EXCEPT !.bsh = v, !.closing = IF @ = "no" THEN "auto" ELSE @]
       ELSE [a EXCEPT !.bsh = v, !.result = Result(v)]
Concluded_first_kept(a, v) ==
  IF a.life = "gone" THEN a
  ELSE IF a.closing # "no" \/ a.result # Null THEN [a EXCEPT !.bsh = v]
  ELSE [a EXCEPT !.bsh = v, !.result = Result(v),
                 !.closing = IF g.autoExit THEN "auto" ELSE "no"]
Concluded_stays(a, v) ==
  IF a.life = "gone" THEN a ELSE [a EXCEPT !.bsh = v, !.result = Result(v)]
Concluded(a, v) ==
  IF a.life = "gone" THEN a
  ELSE IF a.closing # "no" THEN [a EXCEPT !.bsh = v]
  ELSE [a EXCEPT !.bsh = v, !.result = Result(v),
                 !.closing = IF g.autoExit THEN "auto" ELSE "no"]

(* The second half of BeanShellTask.onPostExecute.                         *)
PostShow(t) ==
  /\ alive
  /\ t \in BshTasks
  /\ ui = t /\ task[t].pc = "logged"
  /\ IF DialogDetached(t)
     THEN ProcessEnds
     ELSE /\ ui' = Null
          /\ Finished(t)
          /\ act' = [act EXCEPT ![g.main] = Concluded(@, @.bsh \o buf[t])]
          /\ UNCHANGED <<alive, g, sys, uiq>>
  /\ UNCHANGED <<buf, logFile, flg>>

(* ToolTask.onPostExecute.                                                 *)
PostTool(t) ==
  /\ t \in ToolTasks
  /\ UiFree
  /\ uiq # <<>>
  /\ Head(uiq) = [op |-> "post", task |-> t]
  /\ IF DialogDetached(t)
     THEN ProcessEnds
     ELSE /\ Finished(t)
          /\ uiq' = Tail(uiq)
          /\ act' = IF act[g.main].life = "gone" THEN act
                    ELSE [act EXCEPT ![g.main].tools = @ \o buf[t]]
          /\ UNCHANGED <<alive, ui, g, sys>>
  /\ UNCHANGED <<buf, logFile, flg>>

UiThread(t) == HandleClear(t) \/ PostLog(t) \/ PostShow(t) \/ PostTool(t)

------------------------------------------------------------------------------

Lifecycle ==
  \/ \E m \in Mains : \E i \in Intents : Launch(m, i)
  \/ \E old, m \in Mains : Recreate(old, m)
  \/ \E m \in Mains : onResume(m) \/ onPause(m) \/ onDestroy(m)
  \/ Kill

User ==
  \/ \E m \in Mains :
       \/ onOptionsItemSelected_Exit(m)
       \/ Page_onResume(m)
       \/ onActivityResult_Settings(m)
       \/ PasswordActivity_onPause(m)
       \/ \E t \in BshTasks : tabBeanshell_btnRun(m, t)
       \/ \E t \in ToolTasks : tabTools_btnRun(m, t)
  \/ \E t \in Tasks : CancelDialog(t)

Next ==
  \/ Lifecycle
  \/ User
  \/ \E t \in Tasks : Background(t) \/ UiThread(t)

Spec == Init /\ [][Next]_vars

------------------------------------------------------------------------------
(* Fairness.  The scheduler runs every thread, Android delivers messages   *)
(* and completes lifecycle changes, scripts and tools end, and a user who  *)
(* left a live instance comes back to it.  Nobody need press a button.     *)
Fairness ==
  /\ \A t \in Tasks :
       /\ WF_vars(SetOut(t)) /\ WF_vars(SetErr(t)) /\ WF_vars(ScriptBegins(t))
       /\ WF_vars(ScriptEnds(t)) /\ WF_vars(ToolEnds(t))
       /\ WF_vars(HandleClear(t)) /\ WF_vars(PostLog(t))
       /\ WF_vars(PostShow(t)) /\ WF_vars(PostTool(t))
  /\ \A m \in Mains : WF_vars(onResume(m))

FairSpec == Spec /\ Fairness

------------------------------------------------------------------------------
(* Properties.                                                             *)

(* The instance in front is G.currentActivity whenever it can start a      *)
(* task, although every onCreate sets that field to null and every page    *)
(* to itself: onPreExecute never makes a dialog without a live context.    *)
DialogHasWindow ==
  \A m \in Mains : act[m].life = "resumed" => g.current = m

(* onResume runs a script by itself only in an instance whose caller asked *)
(* for it, and once, however often the instance is paused and resumed and  *)
(* whichever instance finds the static flag.  The flag survives the        *)
(* upgrade page, which is why the flag file must be there to be written.   *)
AutoRunOnRequest ==
  \A m \in Mains : act[m].runs = 0 \/ (act[m].runs = 1 /\ act[m].intent.autoRun)

(* onPostExecute closes G.main, not the instance that started the script:  *)
(* still an instance is only closed for its own caller's ScriptAutoExit,   *)
(* and then with a result, and the text in it if and only if asked for.    *)
AutoExitServesItsCaller ==
  \A m \in Mains : act[m].closing = "auto" =>
    /\ act[m].intent.autoExit
    /\ act[m].result # Null
    /\ act[m].result.text # Null <=> act[m].intent.wantText

(* The end of a task is announced to the UI thread once: a waiting message *)
(* of onPostExecute belongs to a task that has posted and not been served, *)
(* and no other message is like it.                                        *)
PostedOnce ==
  \A i \in 1..Len(uiq) : uiq[i].op = "post" =>
    /\ task[uiq[i].task].pc = "posted"
    /\ \A j \in 1..Len(uiq) : uiq[j] = uiq[i] => j = i

(* While a script can call G.bshTask.fnClear() there is a task to call it  *)
(* on, although scripts overlap, instances are re-created and the field is *)
(* never set by fnInit.                                                    *)
ClearHasTarget ==
  \A t \in BshTasks : Outstanding(t) => g.bshTask # Null

IsPrefixOf(s, t) == Len(s) <= Len(t) /\ \A i \in 1..Len(s) : s[i] = t[i]

(* What the log file holds of a task is for ever the beginning of what     *)
(* that task's stream holds: no CLEAR, however late, and no redirection to *)
(* the buffer takes back what fnLogOutput saved.                           *)
LogIsPrefix == logFile # Null => IsPrefixOf(logFile.text, buf[logFile.by])

(* The writes of t after the first k.                                      *)
Own(t, k) == [i \in 1..(task[t].printed - k) |-> <<t, k + i>>]

WarningOf(t) == IF task[t].warned THEN <<Warning>> ELSE <<>>

(* The last script has ended and its output is on the screen of G.main.    *)
ShownSolo(t) ==
  /\ task[t].solo
  /\ task[t].pc = "done"
  /\ task[t].owner = g.main
  /\ act[g.main].life # "gone"
  /\ g.bshTask = t

(* The screen after an undisturbed run: what the script wrote and nothing  *)
(* else, from the first write on or, if the script called fnClear(), from  *)
(* some write after that call; then the warning if one was due.            *)
ShownIsOwn ==
  \A t \in BshTasks : ShownSolo(t) =>
    \E k \in 0..task[t].printed :
      /\ act[g.main].bsh = Own(t, k) \o WarningOf(t)
      /\ IF task[t].cleared = -1 THEN k = 0 ELSE k >= task[t].cleared

(* After an undisturbed run that was logged, file and screen agree.        *)
LogIsShown ==
  \A t \in BshTasks :
    ShownSolo(t) /\ logFile # Null /\ logFile.by = t
      => act[g.main].bsh = logFile.text

(* The code an undisturbed script assigned is the one its caller gets,     *)
(* unless the user exits.                                                  *)
SoloResult ==
  \A t \in BshTasks :
    ShownSolo(t) /\ task[t].assigned # Null /\ act[g.main].closing # "menu"
      => act[g.main].result # Null /\ act[g.main].result.code = task[t].assigned

(* A CLEAR waiting for an undisturbed script finds its buffer: it can      *)
(* neither precede the buffer's creation nor follow its release.           *)
ClearFindsBuffer ==
  \A i \in 1..Len(uiq) :
    uiq[i].op = "clear" /\ task[uiq[i].task].solo => task[uiq[i].task].swos

(* The dialog of an undisturbed task can always be dismissed: its activity *)
(* is not destroyed while it shows.                                        *)
SoloDialogAttached ==
  \A t \in Tasks : task[t].solo /\ Outstanding(t) => ~DialogDetached(t)

(* Every progress dialog is closed in the end, or the process is gone.     *)
DialogsClose ==
  \A t \in Tasks : task[t].dialog = "showing" ~> task[t].dialog # "showing" \/ ~alive

(* An instance started for one unattended run is closed after it.          *)
AutoExitHappens ==
  \A m \in Mains :
    act[m].life = "resumed" /\ act[m].intent.autoRun /\ act[m].intent.autoExit
      ~> act[m].closing # "no" \/ ~alive

------------------------------------------------------------------------------
(* Inductive invariants for the proofs of module SessionProofs.            *)

(* While an instance is being created there is no current activity, hence  *)
(* no instance is in front.                                                *)
WindowInv ==
  /\ DialogHasWindow
  /\ ui \in Mains => g.current = Null

(* A pending request belongs to G.main and no other instance can take it:  *)
(* it waits for the end of an onCreate or, on the first opening, while     *)
(* there never was another instance in front.                              *)
AutoRunInv ==
  /\ AutoRunOnRequest
  /\ ui \in Mains => g.main = ui
  /\ g.autoRun =>
       /\ g.main \in Mains
       /\ act[g.main].intent.autoRun
       /\ act[g.main].runs = 0
       /\ ui \notin Mains =>
            \A m \in Mains \ {g.main} : act[m].life \in {"unborn", "saved", "gone"}
  /\ ~flg => \A m \in Mains : \/ act[m].life \in {"unborn", "gone"}
                              \/ (act[m].life = "created" /\ ui = m)
  /\ \A m \in Mains : act[m].life = "created" => ui = m

(* The flags of class G are those of the instance it calls main, and a     *)
(* result has its text if and only if the caller wants it.                 *)
AutoExitInv ==
  /\ AutoExitServesItsCaller
  /\ g.main # Null =>
       /\ g.autoExit = act[g.main].intent.autoExit
       /\ g.wantText = act[g.main].intent.wantText
  /\ \A m \in Mains : act[m].result # Null =>
       (act[m].result.text # Null <=> act[m].intent.wantText)

(* Task t has written the log file and no message can clear its buffer     *)
(* any more: a script is being served by the UI thread, or has no buffer.  *)
Saved(t) ==
  IF t \in ToolTasks THEN task[t].pc \in {"posted", "done", "lost"}
  ELSE \/ (task[t].pc = "logged" /\ ui = t)
       \/ (task[t].pc \in {"done", "lost"} /\ ~task[t].swos)

LogInv ==
  /\ LogIsPrefix
  /\ logFile # Null => Saved(logFile.by)

==============================================================================
