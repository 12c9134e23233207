------------------------------ MODULE SoloProofs ------------------------------
(***************************************************************************)
(* Theorems about the task that nobody disturbs: what it shows, logs,      *)
(* returns and clears is its own, for every number of instances, tasks,    *)
(* writes and codes, and whatever happened before it.                      *)
(***************************************************************************)
EXTENDS SessionProofs

(***************************************************************************)
(* The inductive invariant.                                                *)
(***************************************************************************)

(* What every task and instance is like, disturbed or not.                 *)
Buffered == {"half", "redirected", "running", "posted", "logged"}
Shape ==
  /\ \A t \in Tasks :
       /\ task[t].pc = "idle" => buf[t] = <<>> /\ sys.out # t /\ sys.err # t
       /\ task[t].pc \in Buffered => task[t].swos
       /\ task[t].pc = "logged" => ui = t
       /\ task[t].owner \in Mains => act[task[t].owner].life # "unborn"
       /\ task[t].solo => task[t].owner \in Mains
  /\ \A m \in Mains : act[m].life = "created" => act[m].closing = "no" /\ ui = m

(* A CLEAR that waits was sent by a script whose end is not announced      *)
(* before it.                                                              *)
SentBy(t, i) ==
  /\ task[t].pc \in {"running", "posted"}
  /\ \A j \in 1..Len(uiq) : uiq[j] = [op |-> "post", task |-> t] => i < j
Senders ==
  \A i \in 1..Len(uiq) : uiq[i].op = "clear" => \E t \in BshTasks : SentBy(t, i)

(* A script that runs is G.bshTask, or a disturbed one has taken its place.*)
Latest ==
  \A t \in BshTasks : Outstanding(t) =>
    g.bshTask = t \/ (g.bshTask \in BshTasks /\ ~task[g.bshTask].solo)

(* No CLEAR waits for an undisturbed script that is over.                  *)
ClearPending ==
  \A i \in 1..Len(uiq) : uiq[i].op = "clear" /\ task[uiq[i].task].solo
    => Outstanding(uiq[i].task)

NoClear == \A i \in 1..Len(uiq) : uiq[i].op # "clear"

(* What the buffer of script t holds: its writes after the first k, all of *)
(* them while it has not called fnClear(), and none from before the call   *)
(* when no CLEAR waits any more.                                           *)
HoldsFrom(t, k) ==
  /\ buf[t] = Own(t, k) \o WarningOf(t)
  /\ task[t].cleared = -1 => k = 0
  /\ task[t].cleared # -1 /\ NoClear => k >= task[t].cleared

ActiveScript(t) ==
  /\ g.bshTask = t
  /\ act[g.main].bsh = <<>>
  /\ \A i \in 1..Len(uiq) : uiq[i].op = "clear" =>
       uiq[i].task = t /\ task[t].cleared # -1
  /\ task[t].cleared <= task[t].printed
  /\ task[t].pc # "logged" => ~task[t].warned
  /\ \E k \in 0..task[t].printed : HoldsFrom(t, k)
  /\ task[t].assigned # Null => g.code = task[t].assigned
  /\ task[t].pc = "logged" /\ logFile # Null /\ logFile.by = t
       => logFile.text = buf[t]

(* An undisturbed task is the only one, it has both streams, and the       *)
(* instance of its dialog is G.main, which nobody but the user closes and  *)
(* he only when the dialog is gone.                                        *)
Active(t) ==
  /\ \A u \in Tasks \ {t} : ~Outstanding(u)
  /\ task[t].owner = g.main
  /\ task[t].dialog = "showing"
       => act[g.main].closing = "no" /\ act[g.main].life # "gone"
  /\ act[g.main].closing # "auto"
  /\ task[t].pc \in Buffered => sys.out = t
  /\ task[t].pc \in Buffered \ {"half"} => sys.err = t

ActiveInv ==
  \A t \in Tasks : task[t].solo /\ Outstanding(t) =>
    Active(t) /\ (t \in BshTasks => ActiveScript(t))

(* What stays when it is over, until its screen is used again.             *)
OwnShown(t) ==
  \E k \in 0..task[t].printed :
    /\ act[g.main].bsh = Own(t, k) \o WarningOf(t)
    /\ IF task[t].cleared = -1 THEN k = 0 ELSE k >= task[t].cleared
Remains(t) ==
  /\ \A u \in BshTasks : ~Outstanding(u)
  /\ OwnShown(t)
  /\ logFile # Null /\ logFile.by = t => act[g.main].bsh = logFile.text
  /\ task[t].assigned # Null /\ act[g.main].closing # "menu"
       => act[g.main].result # Null /\ act[g.main].result.code = task[t].assigned

ShownInv == \A t \in BshTasks : ShownSolo(t) => Remains(t)

SoloInv ==
  Shape /\ Senders /\ Latest /\ ClearPending /\ ActiveInv /\ ShownInv

(***************************************************************************)
(* What the steps do, one lemma for each.                                  *)
(***************************************************************************)

LEMMA TaskTyped ==
  ASSUME TypeInv, NEW t \in Tasks
  PROVE  /\ task \in [Tasks -> Task] /\ task[t] \in Task
         /\ task[t].printed \in Nat /\ task[t].cleared \in Nat \cup {-1}
         /\ task[t].swos \in BOOLEAN /\ task[t].warned \in BOOLEAN
         /\ task[t].solo \in BOOLEAN
         /\ buf \in [Tasks -> Seq(Chunk)] /\ buf[t] \in Seq(Chunk)
         /\ sys.out \in Tasks \cup {Null} /\ sys.err \in Tasks \cup {Null}
  <1>1. task[t] \in Task
    BY DEF TypeInv, TypeOK
  <1> QED BY <1>1 DEF TypeInv, TypeOK, Task

(* A step of task t only, which keeps what its dialog needs.               *)
OthersSame(t) == \A u \in Tasks \ {t} : task'[u] = task[u]
SameBase(t) ==
  task'[t].owner = task[t].owner /\ task'[t].solo = task[t].solo
SameRun(t) ==
  /\ task'[t].cleared = task[t].cleared /\ task'[t].assigned = task[t].assigned
  /\ task'[t].dialog = task[t].dialog

(* The steps of the UI that concern no task.                               *)
QuietMain(m) ==
  /\ act[m].life # "unborn" => act'[m].life # "unborn"
  /\ act'[m].life = "created" => act[m].life = "created" /\ act'[m].closing = act[m].closing
  /\ act[m].life = "gone" => act'[m].life = "gone"
  /\ act'[m].life = "gone" => act[m].life = "gone" \/ act[m].closing # "no"
  /\ \/ act'[m].closing = act[m].closing
     \/ /\ act'[m].closing = "menu"
        /\ \A t \in Tasks : task[t].owner = m => task[t].dialog # "showing"
  /\ act'[m].bsh = act[m].bsh \/ (act'[m].bsh = <<>> /\ act'[m].life = "gone")
  /\ act'[m].result = act[m].result

(* While m is created the UI thread serves nobody else.                    *)
CreationOn(m) == act'[m].life = "created" /\ ui = m => ui' = m

QuietTask(t) ==
  /\ task'[t].pc = task[t].pc /\ task'[t].swos = task[t].swos
  /\ task'[t].owner = task[t].owner /\ task'[t].solo = task[t].solo
  /\ task'[t].printed = task[t].printed /\ task'[t].cleared = task[t].cleared
  /\ task'[t].assigned = task[t].assigned /\ task'[t].warned = task[t].warned
  /\ task'[t].dialog = "showing" => task[t].dialog = "showing"

Quiet ==
  /\ UNCHANGED <<buf, sys, uiq, logFile>>
  /\ g'.main = g.main /\ g'.bshTask = g.bshTask /\ g'.code = g.code
  /\ \A t \in Tasks : QuietTask(t) /\ (ui = t => ui' = t)
  /\ \A m \in Mains : QuietMain(m) /\ CreationOn(m)

(* A new instance, in place of another one or beside it.                   *)
Creates(m) ==
  /\ UNCHANGED <<buf, sys, uiq, logFile>>
  /\ ui = Null /\ ui' = m /\ task' = Disturbed
  /\ g'.main = m /\ g'.bshTask = g.bshTask
  /\ act[m].life = "unborn" /\ act'[m].life = "created" /\ act'[m].closing = "no"
  /\ \A n \in Mains \ {m} : act'[n] = act[n] \/ act'[n].life = "gone"

(* The start of task t from m.                                             *)
Starts(t, m) ==
  /\ UNCHANGED <<buf, sys, uiq, logFile>>
  /\ task[t].pc = "idle" /\ task' = Started(t, m, m)
  /\ \A u \in Tasks : ui = u => ui' = u
  /\ g'.main = g.main /\ g'.code = g.code
  /\ act[m].closing = "no" /\ act[m].life \notin {"unborn", "gone"}
  /\ act'[m].life = "resumed"
  /\ \A n \in Mains \ {m} : act'[n] = act[n] /\ CreationOn(n)
  /\ act'[m].closing = "no" /\ act'[m].result = act[m].result
  /\ IF t \in BshTasks THEN g'.bshTask = t /\ act'[m].bsh = <<>>
     ELSE g'.bshTask = g.bshTask /\ act'[m].bsh = act[m].bsh

Same == \A t \in Tasks : QuietTask(t)
LEMMA SameTasks ==
  ASSUME task' = task
  PROVE  Same
  BY DEF Same, QuietTask

LEMMA SameMain ==
  ASSUME NEW m \in Mains, act'[m] = act[m]
  PROVE  QuietMain(m)
  BY DEF QuietMain

LEMMA LifeQuiet ==
  ASSUME TypeInv, NEW m \in Mains, NEW l \in {"paused", "resumed"},
         act[m].life \in {"created", "resumed", "paused"},
         act' = [act EXCEPT ![m].life = l]
  PROVE  \A n \in Mains : QuietMain(n)
  <1>1. act \in [Mains -> Main] /\ act[m] \in Main
    BY DEF TypeInv, TypeOK
  <1>2. act'[m] = [act[m] EXCEPT !.life = l]
    BY <1>1
  <1>3. QuietMain(m)
    BY <1>1, <1>2 DEF QuietMain, Main
  <1>4. \A n \in Mains \ {m} : act'[n] = act[n]
    BY <1>1
  <1> QED BY <1>3, <1>4, SameMain

LEMMA UserKinds ==
  ASSUME TypeInv, WindowInv, User
  PROVE  Quiet \/ \E t \in Tasks, m \in Mains : Starts(t, m)
  <1>1. /\ g \in Globals /\ act \in [Mains -> Main] /\ task \in [Tasks -> Task]
        /\ \A m \in Mains : act[m] \in Main
    BY DEF TypeInv, TypeOK
  <1>2. ASSUME NEW m \in Mains, onOptionsItemSelected_Exit(m) PROVE Quiet
    <2>1. act'[m] = [act[m] EXCEPT !.closing = "menu"]
      BY <1>1, <1>2 DEF onOptionsItemSelected_Exit
    <2>2. QuietMain(m)
      BY <1>1, <1>2, <2>1 DEF onOptionsItemSelected_Exit, Responsive, QuietMain, Main
    <2>3. \A n \in Mains \ {m} : act'[n] = act[n]
      BY <1>1, <1>2 DEF onOptionsItemSelected_Exit
    <2> QED BY <1>2, <2>2, <2>3, SameMain, SameTasks
            DEF onOptionsItemSelected_Exit, Quiet, Same, CreationOn
  <1>3. ASSUME NEW m \in Mains,
               Page_onResume(m) \/ onActivityResult_Settings(m)
                 \/ PasswordActivity_onPause(m)
        PROVE  Quiet
    <2>1. UNCHANGED <<ui, act, task, buf, sys, uiq, logFile>>
      BY <1>3 DEF Page_onResume, onActivityResult_Settings, PasswordActivity_onPause
    <2>2. /\ g'.main = g.main /\ g'.bshTask = g.bshTask /\ g'.code = g.code
      <3>1. CASE Page_onResume(m)
        BY <1>1, <3>1 DEF Page_onResume, Globals
      <3>2. CASE onActivityResult_Settings(m)
        <4>1. PICK log \in Logging : g' = [g EXCEPT !.current = m, !.logOutput = log]
          BY <3>2 DEF onActivityResult_Settings
        <4> QED BY <1>1, <4>1 DEF Globals
      <3>3. CASE PasswordActivity_onPause(m)
        <4>1. PICK pw \in Passwords : g' = [g EXCEPT !.pw = pw]
          BY <3>3 DEF PasswordActivity_onPause
        <4> QED BY <1>1, <4>1 DEF Globals
      <3> QED BY <1>3, <3>1, <3>2, <3>3
    <2> QED BY <2>1, <2>2, SameMain, SameTasks DEF Quiet, Same, CreationOn
  <1>4. ASSUME NEW t \in Tasks, CancelDialog(t) PROVE Quiet
    <2>1. /\ task'[t] = [task[t] EXCEPT !.dialog = "closed"] /\ task[t] \in Task
          /\ \A u \in Tasks \ {t} : task'[u] = task[u]
      BY <1>1, <1>4 DEF CancelDialog
    <2>2. QuietTask(t)
      BY <2>1 DEF QuietTask, Task
    <2>3. \A u \in Tasks \ {t} : QuietTask(u)
      BY <2>1 DEF QuietTask
    <2> QED BY <1>4, <2>2, <2>3, SameMain DEF CancelDialog, Quiet, CreationOn
  <1>5. ASSUME NEW m \in Mains, Responsive(m)
        PROVE  /\ g.current = m /\ act[m].closing = "no" /\ act[m].life = "resumed"
    BY <1>5 DEF Responsive, WindowInv, DialogHasWindow
  <1>6. ASSUME NEW m \in Mains, NEW t \in BshTasks, tabBeanshell_btnRun(m, t)
        PROVE  Starts(t, m)
    <2>1. act'[m] = [act[m] EXCEPT !.bsh = <<>>] /\ \A n \in Mains \ {m} : act'[n] = act[n]
      BY <1>1, <1>6 DEF tabBeanshell_btnRun, BshCleared
    <2>2. /\ act'[m].life = act[m].life /\ act'[m].closing = act[m].closing
          /\ act'[m].result = act[m].result /\ act'[m].bsh = <<>>
      BY <1>1, <2>1 DEF Main
    <2>3. g'.main = g.main /\ g'.code = g.code /\ g'.bshTask = t
      BY <1>1, <1>6 DEF tabBeanshell_btnRun, Globals
    <2> QED BY <1>5, <1>6, <2>1, <2>2, <2>3 DEF tabBeanshell_btnRun, Starts, CreationOn
  <1>7. ASSUME NEW m \in Mains, NEW t \in ToolTasks, tabTools_btnRun(m, t)
        PROVE  Starts(t, m)
    <2>1. act'[m] = [act[m] EXCEPT !.tools = <<>>] /\ \A n \in Mains \ {m} : act'[n] = act[n]
      BY <1>1, <1>7 DEF tabTools_btnRun
    <2>2. /\ act'[m].life = act[m].life /\ act'[m].closing = act[m].closing
          /\ act'[m].result = act[m].result /\ act'[m].bsh = act[m].bsh
      BY <1>1, <2>1 DEF Main
    <2>3. t \notin BshTasks
      BY SessionAssumption
    <2> QED BY <1>5, <1>7, <2>1, <2>2, <2>3 DEF tabTools_btnRun, Starts, CreationOn
  <1> QED BY <1>2, <1>3, <1>4, <1>6, <1>7 DEF User, Tasks

LEMMA LifecycleKinds ==
  ASSUME TypeInv, Shape, Lifecycle
  PROVE  \/ Quiet
         \/ \E m \in Mains : Creates(m)
         \/ \E t \in Tasks, m \in Mains : Starts(t, m)
         \/ (ProcessEnds /\ UNCHANGED <<buf, logFile>>)
  <1>1. /\ g \in Globals /\ act \in [Mains -> Main] /\ \A m \in Mains : act[m] \in Main
        /\ <<>> \in Seq(Chunk)
    BY DEF TypeInv, TypeOK
  <1>2. ASSUME NEW m \in Mains, NEW i, onCreate(m, i)
        PROVE  /\ UNCHANGED <<buf, sys, uiq, logFile>> /\ ui = Null /\ ui' = m /\ task' = Disturbed
               /\ g'.main = m /\ g'.bshTask = g.bshTask /\ act[m].life = "unborn"
    BY <1>2 DEF onCreate
  <1>3. \A i : NewMain(i).life = "created" /\ NewMain(i).closing = "no"
    BY DEF NewMain
  <1>4. ASSUME NEW m \in Mains, NEW i \in Intents, Launch(m, i) PROVE Creates(m)
    BY <1>1, <1>2, <1>3, <1>4 DEF Launch, Creates
  <1>5. ASSUME NEW old \in Mains, NEW m \in Mains, Recreate(old, m) PROVE Creates(m)
    <2>1. onCreate(m, act[old].intent) /\ old # m
      BY <1>5 DEF Recreate, onCreate
    <2>2. act'[m] = NewMain(act[old].intent) /\ act'[old] = Destroyed(act[old])
          /\ \A n \in Mains \ {m, old} : act'[n] = act[n]
      BY <1>1, <1>5, <2>1 DEF Recreate
    <2>3. Destroyed(act[old]).life = "gone"
      BY <1>1 DEF Destroyed, Main
    <2>4. \A n \in Mains \ {m} : act'[n] = act[n] \/ act'[n].life = "gone"
      BY <2>2, <2>3
    <2> QED BY <1>2, <1>3, <2>1, <2>2, <2>4 DEF Creates
  <1>6. ASSUME NEW m \in Mains, onResume(m)
        PROVE  Quiet \/ \E t \in Tasks : Starts(t, m)
    <2>1. /\ UNCHANGED <<buf, sys, uiq, logFile>> /\ ui' = Null /\ ui \in {m, Null}
          /\ act[m].life \in {"created", "paused"} /\ act[m].closing = "no"
      BY <1>6 DEF onResume, Shape
    <2>2. (\A t \in Tasks : ui # t) /\ \A n \in Mains \ {m} : ui # n
      BY <2>1, SessionAssumption
    <2>3. /\ InFront(m).main = g.main /\ InFront(m).bshTask = g.bshTask
          /\ InFront(m).code = g.code /\ InFront(m).current = m /\ InFront(m) \in Globals
      BY <1>1 DEF InFront, Globals
    <2>4. ASSUME g' = InFront(m), UNCHANGED task, NEW l \in {"paused", "resumed"},
                 act' = [act EXCEPT ![m].life = l]
          PROVE  Quiet
      <3>1. \A n \in Mains : QuietMain(n)
        BY <2>1, <2>4, LifeQuiet
      <3>2. \A n \in Mains : CreationOn(n)
        <4>1. act'[m].life = l
          BY <1>1, <2>4 DEF Main
        <4> QED BY <2>2, <4>1 DEF CreationOn
      <3> QED BY <2>1, <2>2, <2>3, <2>4, <3>1, <3>2, SameTasks DEF Quiet, Same
    <2>5. ASSUME NEW t \in BshTasks, task[t].pc = "idle", g' = AutoRuns(m, t),
                 task' = Started(t, m, InFront(m).current),
                 act' = [BshCleared(m) EXCEPT ![m].life = "resumed", ![m].runs = @ + 1]
          PROVE  Starts(t, m)
      <3>1. g'.main = g.main /\ g'.code = g.code /\ g'.bshTask = t
        BY <2>3, <2>5 DEF AutoRuns, Globals
      <3>2. /\ BshCleared(m)[m] = [act[m] EXCEPT !.bsh = <<>>]
            /\ BshCleared(m) \in [Mains -> Main]
            /\ \A n \in Mains \ {m} : BshCleared(m)[n] = act[n]
        <4>1. [act[m] EXCEPT !.bsh = <<>>] \in Main
          BY <1>1 DEF Main
        <4> QED BY <1>1, <4>1 DEF BshCleared
      <3>3. \A n \in Mains \ {m} : act'[n] = act[n]
        BY <2>5, <3>2
      <3>4. /\ act'[m].life = "resumed" /\ act'[m].closing = act[m].closing
            /\ act'[m].result = act[m].result /\ act'[m].bsh = <<>>
        <4>1. PICK r : r = BshCleared(m)[m].runs + 1
          OBVIOUS
        <4>2. act'[m] = [BshCleared(m)[m] EXCEPT !.life = "resumed", !.runs = r]
          BY <2>5, <3>2, <4>1
        <4> QED BY <1>1, <3>2, <4>2 DEF Main
      <3> QED BY <2>1, <2>2, <2>3, <2>5, <3>1, <3>3, <3>4 DEF Starts, CreationOn
    <2>6. BshTasks \subseteq Tasks
      BY DEF Tasks
    <2> QED BY <1>6, <2>4, <2>5, <2>6 DEF onResume
  <1>7. ASSUME NEW m \in Mains, onPause(m) PROVE Quiet
    <2>1. \A n \in Mains : QuietMain(n)
      BY <1>7, LifeQuiet DEF onPause
    <2>2. g'.main = g.main /\ g'.code = g.code /\ g'.bshTask = g.bshTask
      BY <1>1, <1>7 DEF onPause, Globals
    <2> QED BY <1>7, <2>1, <2>2, SameTasks DEF onPause, Quiet, Same, CreationOn
  <1>8. ASSUME NEW m \in Mains, onDestroy(m) PROVE Quiet
    <2>1. act'[m] = Destroyed(act[m]) /\ \A n \in Mains \ {m} : act'[n] = act[n]
      BY <1>1, <1>8 DEF onDestroy
    <2>2. QuietMain(m)
      BY <1>1, <1>8, <2>1 DEF onDestroy, QuietMain, Destroyed, Main
    <2> QED BY <1>8, <2>1, <2>2, SameMain, SameTasks DEF onDestroy, Quiet, Same, CreationOn
  <1> QED BY <1>4, <1>5, <1>6, <1>7, <1>8 DEF Lifecycle, Kill

(* The steps of the background thread of task t.                           *)
Fields(t, pc, swos, printed, cleared, assigned) ==
  /\ OthersSame(t) /\ SameBase(t)
  /\ task'[t].pc = pc /\ task'[t].swos = swos
  /\ task'[t].printed = printed /\ task'[t].cleared = cleared
  /\ task'[t].assigned = assigned
  /\ task'[t].warned = task[t].warned /\ task'[t].dialog = task[t].dialog

LEMMA SetOutEffect ==
  ASSUME TypeInv, NEW t \in Tasks, SetOut(t)
  PROVE  /\ task[t].pc = "queued"
         /\ Fields(t, "half", TRUE, task[t].printed, task[t].cleared, task[t].assigned)
         /\ sys'.out = t /\ sys'.err = sys.err
  <1>1. /\ task[t] \in Task /\ task \in [Tasks -> Task]
        /\ sys \in [out : Tasks \cup {Null}, err : Tasks \cup {Null}]
    BY DEF TypeInv, TypeOK
  <1>2. /\ task'[t] = [task[t] EXCEPT !.pc = "half", !.swos = TRUE]
        /\ \A u \in Tasks \ {t} : task'[u] = task[u]
    BY <1>1 DEF SetOut
  <1>3. sys'.out = t /\ sys'.err = sys.err
    BY <1>1 DEF SetOut
  <1> QED BY <1>1, <1>2, <1>3 DEF SetOut, Fields, OthersSame, SameBase, Task

LEMMA SetErrEffect ==
  ASSUME TypeInv, NEW t \in Tasks, SetErr(t)
  PROVE  /\ task[t].pc = "half"
         /\ \E pc \in {"redirected", "running"} :
              Fields(t, pc, task[t].swos, task[t].printed, task[t].cleared, task[t].assigned)
         /\ sys'.err = t /\ sys'.out = sys.out
  <1>1. /\ task[t] \in Task /\ task \in [Tasks -> Task]
        /\ sys \in [out : Tasks \cup {Null}, err : Tasks \cup {Null}]
    BY DEF TypeInv, TypeOK
  <1>2. PICK pc \in {"redirected", "running"} : task' = [task EXCEPT ![t].pc = pc]
    BY DEF SetErr, Moves
  <1>3. /\ task'[t] = [task[t] EXCEPT !.pc = pc]
        /\ \A u \in Tasks \ {t} : task'[u] = task[u]
    BY <1>1, <1>2
  <1>4. sys'.err = t /\ sys'.out = sys.out
    BY <1>1 DEF SetErr
  <1>5. Fields(t, pc, task[t].swos, task[t].printed, task[t].cleared, task[t].assigned)
    BY <1>1, <1>3 DEF Fields, OthersSame, SameBase, Task
  <1> QED BY <1>4, <1>5 DEF SetErr

LEMMA WritesEffect ==
  ASSUME TypeInv, NEW t \in Tasks, NEW s, NEW pc, Writes(t, s, pc)
  PROVE  /\ Fields(t, pc, task[t].swos, task[t].printed + 1, task[t].cleared, task[t].assigned)
         /\ buf' = Emit(s, <<t, task[t].printed + 1>>)
  <1>1. task[t] \in Task /\ task \in [Tasks -> Task]
    BY DEF TypeInv, TypeOK
  <1>2. PICK n : n = task[t].printed + 1
    OBVIOUS
  <1>3. /\ task'[t] = [task[t] EXCEPT !.printed = n, !.pc = pc]
        /\ \A u \in Tasks \ {t} : task'[u] = task[u]
        /\ buf' = Emit(s, <<t, n>>)
    BY <1>1, <1>2 DEF Writes
  <1>4. Fields(t, pc, task[t].swos, n, task[t].cleared, task[t].assigned)
    BY <1>1, <1>3 DEF Fields, OthersSame, SameBase, Task
  <1> QED BY <1>2, <1>3, <1>4

LEMMA fnClearEffect ==
  ASSUME TypeInv, NEW t \in Tasks, fnClear(t)
  PROVE  Fields(t, "running", task[t].swos, task[t].printed, task[t].printed, task[t].assigned)
  <1>1. task[t] \in Task /\ task \in [Tasks -> Task]
    BY DEF TypeInv, TypeOK
  <1>2. /\ task'[t] = [task[t] EXCEPT !.cleared = task[t].printed]
        /\ \A u \in Tasks \ {t} : task'[u] = task[u]
    BY <1>1 DEF fnClear
  <1> QED BY <1>1, <1>2 DEF fnClear, Fields, OthersSame, SameBase, Task

LEMMA AssignCodeEffect ==
  ASSUME TypeInv, NEW t \in Tasks, NEW c \in Codes, AssignCode(t, c)
  PROVE  /\ Fields(t, "running", task[t].swos, task[t].printed, task[t].cleared, c)
         /\ g'.code = c /\ g'.main = g.main /\ g'.bshTask = g.bshTask
  <1>1. task[t] \in Task /\ task \in [Tasks -> Task] /\ g \in Globals
    BY DEF TypeInv, TypeOK
  <1>2. /\ task'[t] = [task[t] EXCEPT !.assigned = c]
        /\ \A u \in Tasks \ {t} : task'[u] = task[u]
    BY <1>1 DEF AssignCode
  <1>3. g'.code = c /\ g'.main = g.main /\ g'.bshTask = g.bshTask
    BY <1>1 DEF AssignCode, Globals
  <1> QED BY <1>1, <1>2, <1>3 DEF AssignCode, Fields, OthersSame, SameBase, Task

LEMMA ToolEndsEffect ==
  ASSUME TypeInv, NEW t \in Tasks, ToolEnds(t)
  PROVE  /\ Fields(t, "posted", task[t].swos, task[t].printed, task[t].cleared, task[t].assigned)
         /\ logFile' = logFile \/ logFile'.by = t
  <1>1. task[t] \in Task /\ task \in [Tasks -> Task]
    BY DEF TypeInv, TypeOK
  <1>2. /\ task'[t] = [task[t] EXCEPT !.pc = "posted"]
        /\ \A u \in Tasks \ {t} : task'[u] = task[u]
    BY <1>1 DEF ToolEnds, Moves
  <1>3. logFile' = logFile \/ logFile'.by = t
    BY DEF ToolEnds, fnLogOutput
  <1> QED BY <1>1, <1>2, <1>3 DEF Fields, OthersSame, SameBase, Task

(* The steps of the UI thread for task t.                                  *)
MainSame(m) ==
  /\ act'[m].life = act[m].life /\ act'[m].closing = act[m].closing
  /\ act'[m].result = act[m].result /\ act'[m].bsh = act[m].bsh

LEMMA HandleClearEffect ==
  ASSUME TypeInv, NEW t \in Tasks, HandleClear(t), NEW m \in Mains
  PROVE  /\ act'[m].life = act[m].life /\ act'[m].closing = act[m].closing
         /\ act'[m].result = act[m].result
         /\ act'[m].bsh \in {act[m].bsh, <<>>}
         /\ task[t].swos /\ m = g.main => act'[m].bsh = <<>>
         /\ task[t].swos => buf'[t] = <<>>
         /\ \A u \in Tasks \ {t} : buf'[u] = buf[u]
  <1>1. /\ act \in [Mains -> Main] /\ act[m] \in Main
        /\ buf \in [Tasks -> Seq(Chunk)]
    BY DEF TypeInv, TypeOK
  <1>2. CASE task[t].swos
    <2>1. /\ buf' = [buf EXCEPT ![t] = <<>>]
          /\ act' = [act EXCEPT ![g.main].bsh = <<>>]
      BY <1>2 DEF HandleClear
    <2>2. /\ buf'[t] = <<>>
          /\ \A u \in Tasks \ {t} : buf'[u] = buf[u]
      BY <1>1, <2>1
    <2>3. CASE m = g.main
      <3>1. act'[m] = [act[m] EXCEPT !.bsh = <<>>]
        BY <1>1, <2>1, <2>3
      <3> QED BY <1>1, <2>2, <2>3, <3>1 DEF Main
    <2>4. CASE m # g.main
      BY <1>1, <2>1, <2>2, <2>4
    <2> QED BY <2>3, <2>4
  <1>3. CASE ~task[t].swos
    BY <1>3 DEF HandleClear
  <1> QED BY <1>2, <1>3

(* What PostLog writes to its task's stream and to the log file.           *)
Logs(t) ==
  /\ task'[t].warned \in BOOLEAN
  /\ task'[t].warned => buf' = Emit(sys.err, Warning)
  /\ ~task'[t].warned => buf' = buf
  /\ logFile' = logFile \/ (logFile'.by = t /\ logFile'.text = buf'[t])

LEMMA PostLogEffect ==
  ASSUME TypeInv, NEW t \in Tasks, PostLog(t)
  PROVE  /\ OthersSame(t) /\ SameBase(t) /\ SameRun(t)
         /\ task'[t].pc = "logged" /\ task'[t].swos = task[t].swos
         /\ task'[t].printed = task[t].printed
         /\ Logs(t)
  <1> DEFINE after == IF g.logOutput /\ g.pw THEN Emit(sys.err, Warning) ELSE buf
  <1>1. /\ task[t] \in Task /\ task \in [Tasks -> Task]
        /\ g.logOutput \in BOOLEAN /\ g.pw \in BOOLEAN
    BY DEF TypeInv, TypeOK, Globals
  <1>2. PICK warn \in BOOLEAN : warn <=> g.logOutput /\ g.pw
    BY <1>1
  <1>3. /\ buf' = after /\ fnLogOutput(t, after)
        /\ task' = [task EXCEPT ![t].pc = "logged", ![t].warned = g.logOutput /\ g.pw]
    BY DEF PostLog
  <1>4. /\ task'[t] = [task[t] EXCEPT !.pc = "logged", !.warned = g.logOutput /\ g.pw]
        /\ \A u \in Tasks \ {t} : task'[u] = task[u]
    BY <1>1, <1>3
  <1>5. /\ task'[t].pc = "logged" /\ task'[t].swos = task[t].swos
        /\ task'[t].printed = task[t].printed
        /\ SameBase(t) /\ SameRun(t)
    BY <1>1, <1>4 DEF SameBase, SameRun, Task
  <1>6. task'[t].warned = (g.logOutput /\ g.pw)
    BY <1>1, <1>4 DEF Task
  <1>7. task'[t].warned \in BOOLEAN /\ (task'[t].warned <=> g.logOutput /\ g.pw)
    BY <1>6
  <1>8. logFile' = logFile \/ (logFile'.by = t /\ logFile'.text = buf'[t])
    BY <1>3 DEF fnLogOutput
  <1>9. Logs(t)
    BY <1>3, <1>7, <1>8 DEF Logs
  <1> QED BY <1>4, <1>5, <1>9 DEF OthersSame

LEMMA FinishedEffect ==
  ASSUME TypeInv, NEW t \in Tasks, Finished(t)
  PROVE  /\ OthersSame(t) /\ SameBase(t) /\ task'[t].pc = "done"
         /\ task'[t].printed = task[t].printed /\ task'[t].cleared = task[t].cleared
         /\ task'[t].assigned = task[t].assigned /\ task'[t].warned = task[t].warned
  <1>1. task[t] \in Task /\ task \in [Tasks -> Task]
    BY DEF TypeInv, TypeOK
  <1>2. /\ task'[t] = [task[t] EXCEPT !.pc = "done", !.swos = FALSE, !.dialog = "closed"]
        /\ \A u \in Tasks \ {t} : task'[u] = task[u]
    BY <1>1 DEF Finished
  <1> QED BY <1>1, <1>2 DEF OthersSame, SameBase, Task

LEMMA PostShowEffect ==
  ASSUME TypeInv, NEW t \in Tasks, PostShow(t), ~DialogDetached(t)
  PROVE  /\ UNCHANGED <<g, sys, uiq, buf, logFile>> /\ ui' = Null
         /\ OthersSame(t) /\ SameBase(t) /\ task'[t].pc = "done"
         /\ task'[t].printed = task[t].printed /\ task'[t].cleared = task[t].cleared
         /\ task'[t].assigned = task[t].assigned /\ task'[t].warned = task[t].warned
         /\ \A m \in Mains \ {g.main} : act'[m] = act[m]
         /\ g.main \in Mains =>
              act'[g.main] = Concluded(act[g.main], act[g.main].bsh \o buf[t])
  <1>1. /\ UNCHANGED <<g, sys, uiq, buf, logFile>> /\ ui' = Null /\ Finished(t)
        /\ act' = [act EXCEPT ![g.main] = Concluded(@, @.bsh \o buf[t])]
    BY DEF PostShow
  <1>2. act \in [Mains -> Main]
    BY DEF TypeInv, TypeOK
  <1>3. /\ \A m \in Mains \ {g.main} : act'[m] = act[m]
        /\ g.main \in Mains =>
              act'[g.main] = Concluded(act[g.main], act[g.main].bsh \o buf[t])
    BY <1>1, <1>2
  <1> QED BY <1>1, <1>3, FinishedEffect

LEMMA PostToolEffect ==
  ASSUME TypeInv, NEW t \in Tasks, PostTool(t), ~DialogDetached(t)
  PROVE  /\ UNCHANGED <<g, sys, ui, buf, logFile>>
         /\ Receives("post", t)
         /\ OthersSame(t) /\ SameBase(t) /\ task'[t].pc = "done"
         /\ \A m \in Mains : MainSame(m)
  <1>1. /\ UNCHANGED <<g, sys, ui, buf, logFile>> /\ Finished(t)
        /\ uiq' = Tail(uiq)
        /\ act' = IF act[g.main].life = "gone" THEN act
                  ELSE [act EXCEPT ![g.main].tools = @ \o buf[t]]
    BY DEF PostTool
  <1>2. act \in [Mains -> Main] /\ \A m \in Mains : act[m] \in Main
    BY DEF TypeInv, TypeOK
  <1>3. ASSUME NEW m \in Mains PROVE MainSame(m)
    <2>1. CASE m = g.main /\ act[g.main].life # "gone"
      <3>1. PICK text : act'[m] = [act[m] EXCEPT !.tools = text]
        BY <1>1, <1>2, <2>1
      <3> QED BY <1>2, <3>1 DEF MainSame, Main
    <2>2. CASE m # g.main \/ act[g.main].life = "gone"
      <3>1. act'[m] = act[m]
        BY <1>1, <1>2, <2>2
      <3> QED BY <3>1 DEF MainSame
    <2> QED BY <2>1, <2>2
  <1>4. Receives("post", t)
    BY <1>1 DEF PostTool, Receives
  <1> QED BY <1>1, <1>3, <1>4, FinishedEffect

(* What the steps of a background thread have in common.                   *)
Works(t) ==
  /\ Outstanding(t) /\ task'[t].pc \in Buffered \ {"logged"} /\ task'[t].swos
  /\ task[t].pc \in {"running", "posted"} =>
       task[t].pc = "running" /\ task'[t].pc \in {"running", "posted"}
  /\ OthersSame(t) /\ SameBase(t) /\ task'[t].dialog = task[t].dialog
  /\ UNCHANGED <<ui, act>>
  /\ g'.main = g.main /\ g'.bshTask = g.bshTask
  /\ sys'.out \in {sys.out, t} /\ sys'.err \in {sys.err, t}
  /\ \A u \in Tasks : task[u].pc = "idle" => buf'[u] = buf[u]
  /\ \/ uiq' = uiq
     \/ /\ uiq' = Append(uiq, [op |-> "clear", task |-> g.bshTask])
        /\ t \in BshTasks /\ task[t].pc = "running" /\ task'[t].pc = "running"
     \/ uiq' = Append(uiq, [op |-> "post", task |-> t]) /\ task[t].pc = "running"
  /\ logFile' = logFile \/ (t \in ToolTasks /\ logFile'.by = t)

LEMMA EmitOthers ==
  ASSUME TypeInv, NEW s \in Tasks \cup {Null}, NEW c, NEW u \in Tasks, u # s
  PROVE  Emit(s, c)[u] = buf[u]
  <1>1. buf \in [Tasks -> Seq(Chunk)]
    BY DEF TypeInv, TypeOK
  <1> QED BY <1>1 DEF Emit

LEMMA BackgroundWorks ==
  ASSUME TypeInv, Shape, NEW t \in Tasks, Background(t)
  PROVE  Works(t) \/ (ProcessEnds /\ UNCHANGED <<buf, logFile>>)
  <1>1. ASSUME NEW s \in {sys.out, sys.err}, NEW c, buf' = Emit(s, c), NEW u \in Tasks,
               task[u].pc = "idle"
        PROVE  buf'[u] = buf[u]
    <2>1. s \in Tasks \cup {Null} /\ u # s
      BY <1>1, TaskTyped DEF Shape
    <2> QED BY <1>1, <2>1, EmitOthers
  <1>2. task[t].pc \in Buffered => task[t].swos
    BY DEF Shape
  <1>3. CASE SetOut(t)
    BY <1>3, SetOutEffect DEF SetOut, Works, Fields, Outstanding, Buffered
  <1>4. CASE SetErr(t)
    BY <1>2, <1>4, SetErrEffect DEF SetErr, Works, Fields, Outstanding, Buffered
  <1>5. CASE SetupFails(t)
    BY <1>5 DEF SetupFails
  <1>6. CASE ScriptBegins(t)
    <2>1. Writes(t, sys.out, "running")
      BY <1>6 DEF ScriptBegins
    <2>2. \A u \in Tasks : task[u].pc = "idle" => buf'[u] = buf[u]
      BY <1>1, <2>1, WritesEffect
    <2>3. Fields(t, "running", task[t].swos, task[t].printed + 1, task[t].cleared, task[t].assigned)
      BY <2>1, WritesEffect
    <2> QED BY <1>2, <1>6, <2>2, <2>3 DEF ScriptBegins, Works, Fields, Outstanding, Buffered
  <1>7. CASE Prints(t)
    <2>1. PICK s \in {sys.out, sys.err} : Writes(t, s, "running")
      BY <1>7 DEF Prints
    <2>2. \A u \in Tasks : task[u].pc = "idle" => buf'[u] = buf[u]
      BY <1>1, <2>1, WritesEffect
    <2>3. Fields(t, "running", task[t].swos, task[t].printed + 1, task[t].cleared, task[t].assigned)
      BY <2>1, WritesEffect
    <2> QED BY <1>2, <1>7, <2>2, <2>3
            DEF Prints, Works, Fields, Outstanding, Buffered
  <1>8. CASE fnClear(t)
    BY <1>2, <1>8, fnClearEffect DEF fnClear, Works, Fields, Outstanding, Buffered
  <1>9. ASSUME NEW c \in Codes, AssignCode(t, c) PROVE Works(t)
    BY <1>2, <1>9, AssignCodeEffect DEF AssignCode, Works, Fields, Outstanding, Buffered
  <1>10. CASE ScriptEnds(t)
    <2>1. Writes(t, sys.out, "posted")
      BY <1>10 DEF ScriptEnds
    <2>2. \A u \in Tasks : task[u].pc = "idle" => buf'[u] = buf[u]
      BY <1>1, <2>1, WritesEffect
    <2>3. Fields(t, "posted", task[t].swos, task[t].printed + 1, task[t].cleared, task[t].assigned)
      BY <2>1, WritesEffect
    <2> QED BY <1>2, <1>10, <2>2, <2>3
            DEF ScriptEnds, Post, Works, Fields, Outstanding, Buffered
  <1>11. CASE ToolEnds(t)
    BY <1>2, <1>11, ToolEndsEffect DEF ToolEnds, Post, Works, Fields, Outstanding, Buffered
  <1> QED BY <1>3, <1>4, <1>5, <1>6, <1>7, <1>8, <1>9, <1>10, <1>11 DEF Background

(* All the steps, by what they do.                                         *)
Serves(t) ==
  HandleClear(t) \/ PostLog(t) \/ (~DialogDetached(t) /\ (PostShow(t) \/ PostTool(t)))

LEMMA SoloKinds ==
  ASSUME TypeInv, WindowInv, Shape, [Next]_vars
  PROVE  \/ Quiet
         \/ \E m \in Mains : Creates(m)
         \/ \E t \in Tasks, m \in Mains : Starts(t, m)
         \/ (ProcessEnds /\ UNCHANGED <<buf, logFile>>)
         \/ \E t \in Tasks : Works(t) \/ Serves(t)
  <1>1. CASE UNCHANGED vars
    <2>1. Quiet
      BY <1>1, SameMain, SameTasks DEF vars, Quiet, Same, CreationOn
    <2> QED BY <2>1
  <1>2. CASE Lifecycle
    BY <1>2, LifecycleKinds
  <1>3. CASE User
    BY <1>3, UserKinds
  <1>4. ASSUME NEW t \in Tasks, Background(t)
        PROVE  Works(t) \/ (ProcessEnds /\ UNCHANGED <<buf, logFile>>)
    BY <1>4, BackgroundWorks
  <1>5. ASSUME NEW t \in Tasks, UiThread(t)
        PROVE  Serves(t) \/ (ProcessEnds /\ UNCHANGED <<buf, logFile>>)
    <2>1. CASE PostShow(t) /\ DialogDetached(t)
      BY <2>1 DEF PostShow
    <2>2. CASE PostTool(t) /\ DialogDetached(t)
      BY <2>2 DEF PostTool
    <2> QED BY <1>5, <2>1, <2>2 DEF UiThread, Serves
  <1> QED BY <1>1, <1>2, <1>3, <1>4, <1>5 DEF Next

(***************************************************************************)
(* The tasks when one starts, when an instance is created and when the     *)
(* process ends.                                                           *)
(***************************************************************************)
LEMMA DisturbedSolo ==
  ASSUME TypeInv, NEW u \in Tasks
  PROVE  /\ Outstanding(u) => ~Disturbed[u].solo
         /\ ~Outstanding(u) => Disturbed[u] = task[u]
         /\ Disturbed[u].solo => task[u].solo
         /\ Disturbed[u].pc = task[u].pc /\ Disturbed[u].swos = task[u].swos
         /\ Disturbed[u].owner = task[u].owner
         /\ Disturbed[u].cleared = task[u].cleared
  <1>1. task[u] \in Task
    BY DEF TypeInv, TypeOK
  <1> QED BY <1>1 DEF Disturbed, Task

LEMMA StartedOther ==
  ASSUME TypeInv, NEW t \in Tasks, NEW u \in Tasks \ {t}, NEW m, NEW current
  PROVE  Started(t, m, current)[u] = Disturbed[u]
  BY DEF Started, Disturbed

LEMMA StartedSelf ==
  ASSUME TypeInv, NEW t \in Tasks, NEW m \in Mains, Starts(t, m)
  PROVE  /\ task'[t].pc = "queued" /\ task'[t].owner = m
         /\ task'[t].printed = 0 /\ task'[t].cleared = -1 /\ task'[t].assigned = Null
         /\ task'[t].warned = FALSE
         /\ task'[t].solo => m = g.main /\ \A u \in Tasks : ~Outstanding(u)
  <1> DEFINE alone == m = g.main /\ \A u \in Tasks : ~Outstanding(u)
             new == [NewTask EXCEPT !.pc = "queued", !.owner = m,
                                    !.dialog = "showing", !.solo = alone]
  <1>1. task'[t] = new
    <2>1. t \in DOMAIN Disturbed
      BY DEF Disturbed
    <2> QED BY <2>1 DEF Starts, Started
  <1>2. /\ new.pc = "queued" /\ new.owner = m
        /\ new.printed = 0 /\ new.cleared = -1 /\ new.assigned = Null
        /\ new.warned = FALSE
    BY DEF NewTask
  <1>3. new.solo = alone
    BY DEF NewTask
  <1> QED BY <1>1, <1>2, <1>3

LEMMA EndedTasks ==
  ASSUME TypeInv, ProcessEnds, NEW u \in Tasks
  PROVE  /\ Outstanding(u) => /\ task'[u].pc = "lost" /\ ~task'[u].solo
                              /\ task'[u].owner = Null
         /\ ~Outstanding(u) => task'[u] = task[u]
         /\ ~Outstanding(u)'
  <1>1. task[u] \in Task
    BY DEF TypeInv, TypeOK
  <1>2. task'[u] = IF Outstanding(u) THEN [NewTask EXCEPT !.pc = "lost"] ELSE task[u]
    BY DEF ProcessEnds
  <1>3. CASE Outstanding(u)
    BY <1>2, <1>3 DEF NewTask, Outstanding
  <1>4. CASE ~Outstanding(u)
    BY <1>2, <1>4 DEF Outstanding
  <1> QED BY <1>3, <1>4

LEMMA EndedMains ==
  ASSUME TypeInv, ProcessEnds, NEW m \in Mains
  PROVE  /\ act[m].life # "unborn" => act'[m].life # "unborn"
         /\ act'[m].life # "created"
  <1>1. act[m] \in Main
    BY DEF TypeInv, TypeOK
  <1>2. act'[m] = CASE act[m].life = "unborn" -> act[m]
         [] act[m].life \in {"paused", "saved"} /\ act[m].closing = "no"
              -> [Destroyed(act[m]) EXCEPT !.life = "saved"]
         [] OTHER -> Destroyed(act[m])
    BY DEF ProcessEnds
  <1>3. Destroyed(act[m]).life = "gone"
    BY <1>1 DEF Destroyed, Main
  <1>4. [Destroyed(act[m]) EXCEPT !.life = "saved"].life = "saved"
    BY <1>1 DEF Destroyed, Main
  <1> QED BY <1>2, <1>3, <1>4

(***************************************************************************)
(* Shape.                                                                  *)
(***************************************************************************)
LEMMA NextShape ==
  ASSUME TypeInv, PostedOnce, WindowInv, Shape, [Next]_vars
  PROVE  Shape'
  <1>1. CASE Quiet
    <2>1. ASSUME NEW t \in Tasks
          PROVE  /\ task'[t].pc = "idle" => buf'[t] = <<>> /\ sys'.out # t /\ sys'.err # t
                 /\ task'[t].pc \in Buffered => task'[t].swos
                 /\ task'[t].pc = "logged" => ui' = t
                 /\ task'[t].owner \in Mains => act'[task'[t].owner].life # "unborn"
                 /\ task'[t].solo => task'[t].owner \in Mains
      BY <1>1 DEF Quiet, QuietTask, QuietMain, Shape
    <2>2. \A m \in Mains : act'[m].life = "created" => act'[m].closing = "no" /\ ui' = m
      BY <1>1 DEF Quiet, QuietMain, CreationOn, Shape
    <2> QED BY <2>1, <2>2 DEF Shape
  <1>2. ASSUME NEW m \in Mains, Creates(m) PROVE Shape'
    <2>1. \A n \in Mains : /\ act[n].life # "unborn" => act'[n].life # "unborn"
                           /\ act'[n].life = "created" => act'[n].closing = "no" /\ ui' = n
      BY <1>2, SessionAssumption DEF Creates, Shape
    <2>2. \A t \in Tasks : ui # t
      BY <1>2, SessionAssumption DEF Creates
    <2> QED BY <1>2, <2>1, <2>2, DisturbedSolo DEF Creates, Shape
  <1>3. ASSUME NEW t \in Tasks, NEW m \in Mains, Starts(t, m) PROVE Shape'
    <2>1. \A n \in Mains : /\ act[n].life # "unborn" => act'[n].life # "unborn"
                           /\ act'[n].life = "created" => act'[n].closing = "no" /\ ui' = n
      BY <1>3 DEF Starts, CreationOn, Shape
    <2>2. act'[m].life # "unborn"
      BY <1>3 DEF Starts
    <2>3. task'[t].pc = "queued" /\ task'[t].owner = m
      BY <1>3, StartedSelf
    <2>4. \A u \in Tasks \ {t} : task'[u] = Disturbed[u]
      BY <1>3, StartedOther DEF Starts
    <2>5. ASSUME NEW u \in Tasks \ {t}
          PROVE  /\ task'[u].pc = "idle" => buf'[u] = <<>> /\ sys'.out # u /\ sys'.err # u
                 /\ task'[u].pc \in Buffered => task'[u].swos
                 /\ task'[u].pc = "logged" => ui' = u
                 /\ task'[u].owner \in Mains => act'[task'[u].owner].life # "unborn"
                 /\ task'[u].solo => task'[u].owner \in Mains
      BY <1>3, <2>1, <2>4, DisturbedSolo DEF Starts, Shape
    <2> QED BY <2>1, <2>2, <2>3, <2>5 DEF Shape, Buffered
  <1>4. CASE ProcessEnds /\ UNCHANGED <<buf, logFile>>
    <2>1. sys'.out = Null /\ sys'.err = Null
      BY <1>4 DEF ProcessEnds
    <2>2. ASSUME NEW u \in Tasks
          PROVE  /\ task'[u].pc = "idle" => buf'[u] = <<>> /\ sys'.out # u /\ sys'.err # u
                 /\ task'[u].pc \notin Buffered
                 /\ task'[u].owner \in Mains => act'[task'[u].owner].life # "unborn"
                 /\ task'[u].solo => task'[u].owner \in Mains
      <3>1. CASE Outstanding(u)
        BY <1>4, <3>1, EndedTasks, SessionAssumption DEF Buffered
      <3>2. CASE ~Outstanding(u)
        BY <1>4, <2>1, <3>2, EndedTasks, EndedMains, SessionAssumption
        DEF Shape, Buffered, Outstanding
      <3> QED BY <3>1, <3>2
    <2>3. \A m \in Mains : act'[m].life = "created" => act'[m].closing = "no" /\ ui' = m
      BY <1>4, EndedMains DEF Shape
    <2> QED BY <2>2, <2>3 DEF Shape, Buffered
  <1>5. ASSUME NEW t \in Tasks, Works(t) PROVE Shape'
    <2>1. ASSUME NEW u \in Tasks \ {t}
          PROVE  /\ task'[u].pc = "idle" => buf'[u] = <<>> /\ sys'.out # u /\ sys'.err # u
                 /\ task'[u].pc \in Buffered => task'[u].swos
                 /\ task'[u].pc = "logged" => ui' = u
                 /\ task'[u].owner \in Mains => act'[task'[u].owner].life # "unborn"
                 /\ task'[u].solo => task'[u].owner \in Mains
      BY <1>5 DEF Works, OthersSame, Shape
    <2>2. /\ task'[t].pc # "idle" /\ task'[t].pc # "logged" /\ task'[t].swos
          /\ task'[t].owner \in Mains => act'[task'[t].owner].life # "unborn"
          /\ task'[t].solo => task'[t].owner \in Mains
      BY <1>5 DEF Works, SameBase, Shape, Buffered
    <2>3. \A m \in Mains : act'[m].life = "created" => act'[m].closing = "no" /\ ui' = m
      BY <1>5 DEF Works, Shape
    <2> QED BY <2>1, <2>2, <2>3 DEF Shape
  <1>6. ASSUME NEW t \in Tasks, HandleClear(t) PROVE Shape'
    <2>1. task' = task /\ ui' = ui /\ sys' = sys
      BY <1>6 DEF HandleClear
    <2>2. \A m \in Mains : act'[m].life = act[m].life /\ act'[m].closing = act[m].closing
      BY <1>6, HandleClearEffect
    <2>3. \A u \in Tasks : buf[u] = <<>> => buf'[u] = <<>>
      <3>1. ASSUME NEW u \in Tasks, buf[u] = <<>> PROVE buf'[u] = <<>>
        <4>1. CASE task[t].swos
          <5>1. buf' = [buf EXCEPT ![t] = <<>>] /\ buf \in [Tasks -> Seq(Chunk)]
            BY <1>6, <4>1 DEF HandleClear, TypeInv, TypeOK
          <5> QED BY <3>1, <5>1
        <4>2. CASE ~task[t].swos
          BY <1>6, <3>1, <4>2 DEF HandleClear
        <4> QED BY <4>1, <4>2
      <3> QED BY <3>1
    <2> QED BY <2>1, <2>2, <2>3 DEF Shape
  <1>7. ASSUME NEW t \in Tasks, PostLog(t) PROVE Shape'
    <2>1. /\ ui = Null /\ ui' = t /\ act' = act /\ sys' = sys
          /\ uiq # <<>> /\ Head(uiq) = [op |-> "post", task |-> t]
      BY <1>7 DEF PostLog, Receives, UiFree
    <2>2. task[t].pc = "posted"
      <3>1. 1 \in 1..Len(uiq) /\ uiq[1] = Head(uiq)
        BY <2>1 DEF TypeInv, TypeOK
      <3> QED BY <2>1, <3>1 DEF PostedOnce
    <2>3. \A u \in Tasks : task[u].pc = "idle" => buf'[u] = buf[u]
      <3>1. ASSUME NEW u \in Tasks, task[u].pc = "idle" PROVE buf'[u] = buf[u]
        <4>1. u # sys.err /\ sys.err \in Tasks \cup {Null}
          BY <3>1, TaskTyped DEF Shape
        <4> QED BY <1>7, <4>1, PostLogEffect, EmitOthers DEF Logs
      <3> QED BY <3>1
    <2>4. ASSUME NEW u \in Tasks \ {t}
          PROVE  /\ task'[u].pc = "idle" => buf'[u] = <<>> /\ sys'.out # u /\ sys'.err # u
                 /\ task'[u].pc \in Buffered => task'[u].swos
                 /\ task'[u].pc # "logged"
                 /\ task'[u].owner \in Mains => act'[task'[u].owner].life # "unborn"
                 /\ task'[u].solo => task'[u].owner \in Mains
      BY <1>7, <2>1, <2>3, PostLogEffect, SessionAssumption DEF OthersSame, Shape
    <2>5. /\ task'[t].pc = "logged" /\ task'[t].swos
          /\ task'[t].owner \in Mains => act'[task'[t].owner].life # "unborn"
          /\ task'[t].solo => task'[t].owner \in Mains
      BY <1>7, <2>1, <2>2, PostLogEffect DEF SameBase, Shape, Buffered
    <2>6. \A m \in Mains : act'[m].life # "created"
      BY <2>1, SessionAssumption DEF Shape
    <2> QED BY <2>1, <2>4, <2>5, <2>6 DEF Shape
  <1>8. ASSUME NEW t \in Tasks, ~DialogDetached(t), PostShow(t) PROVE Shape'
    <2>1. ui = t /\ task[t].pc = "logged"
      BY <1>8 DEF PostShow
    <2>2. ASSUME NEW u \in Tasks \ {t}
          PROVE  /\ task'[u] = task[u] /\ task[u].pc # "logged"
                 /\ buf'[u] = buf[u] /\ sys' = sys
      BY <1>8, <2>1, PostShowEffect DEF OthersSame, Shape
    <2>3. ASSUME NEW m \in Mains
          PROVE  /\ act'[m].life = act[m].life
                 /\ act'[m].life # "created"
      <3>1. act[m].life # "created" /\ act[m] \in Main
        BY <1>8, <2>1, SessionAssumption DEF Shape, PostShow, Tasks, TypeInv, TypeOK
      <3>2. CASE m = g.main
        <4>1. PICK v : act'[m] = Concluded(act[m], v)
          BY <1>8, <3>2, PostShowEffect
        <4>2. act'[m].life = act[m].life
          BY <3>1, <4>1 DEF Concluded, Main
        <4> QED BY <3>1, <4>2
      <3>3. CASE m # g.main
        BY <1>8, <3>1, <3>3, PostShowEffect
      <3> QED BY <3>2, <3>3
    <2>4. task'[t].pc = "done" /\ SameBase(t)
      BY <1>8, PostShowEffect
    <2> QED BY <2>2, <2>3, <2>4 DEF Shape, SameBase, Buffered
  <1>9. ASSUME NEW t \in Tasks, ~DialogDetached(t), PostTool(t) PROVE Shape'
    <2>1. ASSUME NEW u \in Tasks \ {t}
          PROVE  task'[u] = task[u] /\ buf'[u] = buf[u] /\ sys' = sys /\ ui' = ui
      BY <1>9, PostToolEffect DEF OthersSame
    <2>2. task'[t].pc = "done" /\ SameBase(t) /\ \A m \in Mains : MainSame(m)
      BY <1>9, PostToolEffect
    <2>3. \A m \in Mains : act'[m].life # "created"
      BY <1>9, <2>2, SessionAssumption DEF PostTool, UiFree, MainSame, Shape
    <2> QED BY <2>1, <2>2, <2>3 DEF Shape, SameBase, MainSame, Buffered
  <1> QED BY <1>1, <1>2, <1>3, <1>4, <1>5, <1>6, <1>7, <1>8, <1>9, SoloKinds DEF Serves

(***************************************************************************)
(* Senders.                                                                *)
(***************************************************************************)
Sending(u) == task[u].pc \in {"running", "posted"}

LEMMA SendersKept ==
  ASSUME Senders, uiq' = uiq, \A u \in BshTasks : Sending(u) => Sending(u)'
  PROVE  Senders'
  BY DEF Senders, SentBy, Sending

LEMMA SendersAdded ==
  ASSUME TypeInv, PostedOnce, Senders, NEW msg \in Message, NEW t \in Tasks,
         uiq' = Append(uiq, msg), task[t].pc = "running",
         \A u \in BshTasks : Sending(u) => Sending(u)',
         msg.op = "clear" => t \in BshTasks
  PROVE  Senders'
  <1>1. uiq \in Seq(Message)
    BY DEF TypeInv, TypeOK
  <1>2. /\ Len(uiq') = Len(uiq) + 1 /\ Len(uiq) \in Nat
        /\ \A i \in 1..Len(uiq) : uiq'[i] = uiq[i]
        /\ uiq'[Len(uiq) + 1] = msg
    BY <1>1
  <1>3. ASSUME NEW i \in 1..Len(uiq'), uiq'[i].op = "clear"
        PROVE  \E u \in BshTasks : SentBy(u, i)'
    <2>1. CASE i \in 1..Len(uiq)
      <3>1. PICK u \in BshTasks : SentBy(u, i)
        BY <1>2, <1>3, <2>1 DEF Senders
      <3>2. Sending(u)'
        BY <3>1 DEF SentBy, Sending
      <3>3. ASSUME NEW j \in 1..Len(uiq'), uiq'[j] = [op |-> "post", task |-> u]
            PROVE  i < j
        <4>1. CASE j \in 1..Len(uiq)
          BY <1>2, <3>1, <3>3, <4>1 DEF SentBy
        <4>2. CASE j = Len(uiq) + 1
          BY <1>2, <2>1, <4>2
        <4> QED BY <1>2, <4>1, <4>2
      <3> QED BY <3>2, <3>3 DEF SentBy, Sending
    <2>2. CASE i = Len(uiq) + 1
      <3>1. t \in BshTasks /\ Sending(t)'
        BY <1>2, <1>3, <2>2 DEF Sending
      <3>2. ASSUME NEW j \in 1..Len(uiq') PROVE uiq'[j] # [op |-> "post", task |-> t]
        <4>1. CASE j \in 1..Len(uiq)
          BY <1>2, <4>1 DEF PostedOnce
        <4>2. CASE j = Len(uiq) + 1
          BY <1>2, <1>3, <2>2, <4>2
        <4> QED BY <1>2, <4>1, <4>2
      <3> QED BY <3>1, <3>2 DEF SentBy, Sending
    <2> QED BY <1>2, <2>1, <2>2
  <1> QED BY <1>3 DEF Senders

LEMMA TakenMessages ==
  ASSUME TypeInv, uiq # <<>>, uiq' = Tail(uiq)
  PROVE  /\ Len(uiq) \in Nat /\ Len(uiq') = Len(uiq) - 1 /\ 1 \in 1..Len(uiq)
         /\ uiq[1] = Head(uiq)
         /\ \A i \in 1..Len(uiq') : i + 1 \in 1..Len(uiq) /\ uiq'[i] = uiq[i + 1]
  BY DEF TypeInv, TypeOK

LEMMA SendersTaken ==
  ASSUME TypeInv, Senders, uiq # <<>>, uiq' = Tail(uiq), NEW t \in Tasks,
         \/ task' = task
         \/ OthersSame(t) /\ Head(uiq) = [op |-> "post", task |-> t]
  PROVE  Senders'
  <1>1. ASSUME NEW i \in 1..Len(uiq'), uiq'[i].op = "clear"
        PROVE  \E u \in BshTasks : SentBy(u, i)'
    <2>1. PICK u \in BshTasks : SentBy(u, i + 1)
      BY <1>1, TakenMessages DEF Senders
    <2>2. task'[u] = task[u]
      <3>1. CASE task' = task
        BY <3>1
      <3>2. CASE OthersSame(t) /\ Head(uiq) = [op |-> "post", task |-> t]
        <4>1. 1 \in 1..Len(uiq) /\ uiq[1] = [op |-> "post", task |-> t]
          BY <3>2, TakenMessages
        <4>2. ~(i + 1 < 1)
          OBVIOUS
        <4>3. u # t
          BY <2>1, <4>1, <4>2 DEF SentBy
        <4> QED BY <3>2, <4>3 DEF OthersSame, Tasks
      <3> QED BY <3>1, <3>2
    <2>3. ASSUME NEW j \in 1..Len(uiq'), uiq'[j] = [op |-> "post", task |-> u]
          PROVE  i < j
      <3>1. i + 1 < j + 1
        BY <2>1, <2>3, TakenMessages DEF SentBy
      <3>2. i \in Int /\ j \in Int
        OBVIOUS
      <3> QED BY <3>1, <3>2
    <2> QED BY <2>1, <2>2, <2>3 DEF SentBy
  <1> QED BY <1>1 DEF Senders

LEMMA ProcessEndsSenders ==
  ASSUME ProcessEnds
  PROVE  Senders' /\ ClearPending'
  BY DEF ProcessEnds, Senders, ClearPending

(* A CLEAR waits only while a script runs or has posted.                   *)
LEMMA SendersRun ==
  ASSUME Senders, \A u \in BshTasks : ~Sending(u)
  PROVE  NoClear
  BY DEF Senders, SentBy, Sending, NoClear

LEMMA NextSenders ==
  ASSUME TypeInv, PostedOnce, WindowInv, Shape, Senders, [Next]_vars
  PROVE  Senders'
  <1>1. CASE Quiet
    BY <1>1, SendersKept DEF Quiet, QuietTask, Sending, Tasks
  <1>2. ASSUME NEW m \in Mains, Creates(m) PROVE Senders'
    BY <1>2, SendersKept, DisturbedSolo DEF Creates, Sending, Tasks
  <1>3. ASSUME NEW t \in Tasks, NEW m \in Mains, Starts(t, m) PROVE Senders'
    <2>1. \A u \in Tasks : Sending(u) => Sending(u)'
      BY <1>3, StartedOther, DisturbedSolo DEF Starts, Sending
    <2> QED BY <1>3, <2>1, SendersKept DEF Starts, Tasks
  <1>4. CASE ProcessEnds /\ UNCHANGED <<buf, logFile>>
    BY <1>4, ProcessEndsSenders
  <1>5. ASSUME NEW t \in Tasks, Works(t) PROVE Senders'
    <2>1. \A u \in Tasks : Sending(u) => Sending(u)'
      BY <1>5 DEF Works, OthersSame, Sending
    <2>2. CASE uiq' = uiq
      BY <2>1, <2>2, SendersKept DEF Tasks
    <2>3. CASE uiq' = Append(uiq, [op |-> "clear", task |-> g.bshTask])
               /\ t \in BshTasks /\ task[t].pc = "running"
      <3>1. g.bshTask \in BshTasks
        BY <2>3 DEF TypeInv, TypeOK, ClearHasTarget, Outstanding, Globals
      <3>2. [op |-> "clear", task |-> g.bshTask] \in Message
        BY <3>1 DEF Message
      <3> QED BY <2>1, <2>3, <3>2, SendersAdded DEF Tasks
    <2>4. CASE uiq' = Append(uiq, [op |-> "post", task |-> t])
               /\ task[t].pc = "running"
      <3>1. [op |-> "post", task |-> t] \in Message
        BY DEF Message
      <3> QED BY <2>1, <2>4, <3>1, SendersAdded DEF Tasks
    <2> QED BY <1>5, <2>2, <2>3, <2>4 DEF Works
  <1>6. ASSUME NEW t \in Tasks, HandleClear(t) PROVE Senders'
    BY <1>6, SendersTaken DEF HandleClear, Receives
  <1>7. ASSUME NEW t \in Tasks, PostLog(t) PROVE Senders'
    BY <1>7, SendersTaken, PostLogEffect DEF PostLog, Receives
  <1>8. ASSUME NEW t \in Tasks, ~DialogDetached(t), PostShow(t) PROVE Senders'
    <2>1. \A u \in Tasks : Sending(u) => Sending(u)'
      BY <1>8, PostShowEffect DEF PostShow, OthersSame, Sending
    <2> QED BY <1>8, <2>1, PostShowEffect, SendersKept DEF Tasks
  <1>9. ASSUME NEW t \in Tasks, ~DialogDetached(t), PostTool(t) PROVE Senders'
    BY <1>9, SendersTaken, PostToolEffect DEF Receives
  <1> QED BY <1>1, <1>2, <1>3, <1>4, <1>5, <1>6, <1>7, <1>8, <1>9, SoloKinds DEF Serves

(***************************************************************************)
(* Latest and ClearPending.                                                *)
(***************************************************************************)
(* What a step does to every task: it leaves it undisturbed only if it was *)
(* so before, or when it starts it alone.                                  *)
Ages(u) ==
  /\ task'[u].solo => task[u].solo
  /\ Outstanding(u)' => Outstanding(u)

LEMMA QuietAges ==
  ASSUME Quiet, NEW u \in Tasks
  PROVE  Ages(u) /\ (Outstanding(u) => Outstanding(u)')
  BY DEF Quiet, QuietTask, Ages, Outstanding

LEMMA WorksAges ==
  ASSUME NEW t \in Tasks, Works(t), NEW u \in Tasks
  PROVE  Ages(u) /\ (Outstanding(u) => Outstanding(u)')
  BY DEF Works, OthersSame, SameBase, Ages, Outstanding, Buffered

LEMMA PostedHead ==
  ASSUME TypeInv, PostedOnce, NEW t \in Tasks, Receives("post", t)
  PROVE  task[t].pc = "posted"
  <1>1. uiq # <<>> /\ Head(uiq) = [op |-> "post", task |-> t] /\ uiq \in Seq(Message)
    BY DEF TypeInv, TypeOK, Receives
  <1>2. 1 \in 1..Len(uiq) /\ uiq[1] = Head(uiq)
    BY <1>1
  <1>3. uiq[1].op = "post" /\ uiq[1].task = t
    BY <1>1, <1>2
  <1> QED BY <1>2, <1>3 DEF PostedOnce

LEMMA ServesAges ==
  ASSUME TypeInv, PostedOnce, NEW t \in Tasks, Serves(t), NEW u \in Tasks
  PROVE  Ages(u) /\ g'.bshTask = g.bshTask
                 /\ (Outstanding(u) => Outstanding(u)' \/ u = t)
  <1>1. CASE HandleClear(t)
    BY <1>1 DEF HandleClear, Ages, Outstanding
  <1>2. CASE PostLog(t)
    <2>1. task[t].pc = "posted"
      BY <1>2, PostedHead DEF PostLog
    <2> QED BY <1>2, <2>1, PostLogEffect
            DEF PostLog, OthersSame, SameBase, Ages, Outstanding
  <1>3. CASE ~DialogDetached(t) /\ PostShow(t)
    BY <1>3, PostShowEffect DEF OthersSame, SameBase, Ages, Outstanding
  <1>4. CASE ~DialogDetached(t) /\ PostTool(t)
    BY <1>4, PostToolEffect DEF OthersSame, SameBase, Ages, Outstanding
  <1> QED BY <1>1, <1>2, <1>3, <1>4 DEF Serves

LEMMA LatestKept ==
  ASSUME Latest, g'.bshTask = g.bshTask, \A u \in BshTasks : Ages(u)
  PROVE  Latest'
  BY DEF Latest, Ages

LEMMA CreatesAges ==
  ASSUME TypeInv, NEW m \in Mains, Creates(m), NEW u \in Tasks
  PROVE  Ages(u) /\ (Outstanding(u) => Outstanding(u)') /\ ~(task'[u].solo /\ Outstanding(u)')
  BY DisturbedSolo DEF Creates, Ages, Outstanding

LEMMA StartsAges ==
  ASSUME TypeInv, NEW t \in Tasks, NEW m \in Mains, Starts(t, m), NEW u \in Tasks
  PROVE  /\ u # t => Ages(u) /\ ~(task'[u].solo /\ Outstanding(u)')
         /\ Outstanding(u) => Outstanding(u)' /\ ~task'[t].solo
         /\ Outstanding(t)'
  <1>1. CASE u # t
    <2>1. task'[u] = Disturbed[u]
      BY <1>1, StartedOther DEF Starts
    <2>2. /\ Ages(u) /\ ~(task'[u].solo /\ Outstanding(u)')
          /\ Outstanding(u) => Outstanding(u)'
      BY <2>1, DisturbedSolo DEF Ages, Outstanding
    <2>3. Outstanding(u) => ~task'[t].solo
      BY StartedSelf
    <2>4. Outstanding(t)'
      BY StartedSelf DEF Outstanding
    <2> QED BY <1>1, <2>2, <2>3, <2>4
  <1>2. CASE u = t
    BY <1>2, StartedSelf DEF Starts, Outstanding
  <1> QED BY <1>1, <1>2

LEMMA NextLatest ==
  ASSUME TypeInv, PostedOnce, WindowInv, Shape, Latest, [Next]_vars
  PROVE  Latest'
  <1>1. CASE Quiet
    BY <1>1, QuietAges, LatestKept DEF Quiet, Tasks
  <1>2. ASSUME NEW m \in Mains, Creates(m) PROVE Latest'
    BY <1>2, CreatesAges, LatestKept DEF Creates, Tasks
  <1>3. ASSUME NEW t \in Tasks, NEW m \in Mains, Starts(t, m) PROVE Latest'
    <2>1. CASE t \in BshTasks
      <3>1. g'.bshTask = t
        BY <1>3, <2>1 DEF Starts
      <3>2. ASSUME NEW u \in BshTasks, Outstanding(u)', u # t PROVE ~task'[t].solo
        BY <1>3, <3>2, StartsAges DEF Ages, Tasks
      <3> QED BY <2>1, <3>1, <3>2 DEF Latest
    <2>2. CASE t \notin BshTasks
      BY <1>3, <2>2, StartsAges, LatestKept DEF Starts, Tasks
    <2> QED BY <2>1, <2>2
  <1>4. CASE ProcessEnds /\ UNCHANGED <<buf, logFile>>
    BY <1>4, EndedTasks DEF Latest, Tasks
  <1>5. ASSUME NEW t \in Tasks, Works(t) PROVE Latest'
    BY <1>5, WorksAges, LatestKept DEF Works, Tasks
  <1>6. ASSUME NEW t \in Tasks, Serves(t) PROVE Latest'
    BY <1>6, ServesAges, LatestKept DEF Tasks
  <1> QED BY <1>1, <1>2, <1>3, <1>4, <1>5, <1>6, SoloKinds

LEMMA ClearTarget ==
  ASSUME TypeInv, NEW i \in 1..Len(uiq), uiq[i].op = "clear"
  PROVE  uiq[i].task \in BshTasks
  BY DEF TypeInv, TypeOK, Message

LEMMA ClearPendingKept ==
  ASSUME TypeInv, ClearPending, uiq' = uiq,
         \A u \in BshTasks : task'[u].solo => (task[u].solo /\ (Outstanding(u) => Outstanding(u)'))
                                                \/ Outstanding(u)'
  PROVE  ClearPending'
  BY ClearTarget DEF ClearPending

LEMMA ClearPendingTaken ==
  ASSUME TypeInv, ClearPending, uiq # <<>>, uiq' = Tail(uiq),
         \A u \in BshTasks : Ages(u) /\ (Outstanding(u) => Outstanding(u)')
  PROVE  ClearPending'
  BY TakenMessages, ClearTarget DEF ClearPending, Ages

LEMMA NextClearPending ==
  ASSUME TypeInv, PostedOnce, WindowInv, SoloInv, [Next]_vars
  PROVE  ClearPending'
  <1> USE DEF SoloInv
  <1>1. CASE Quiet
    BY <1>1, QuietAges, ClearPendingKept DEF Quiet, Ages, Tasks
  <1>2. ASSUME NEW m \in Mains, Creates(m) PROVE ClearPending'
    BY <1>2, CreatesAges, ClearPendingKept DEF Creates, Ages, Tasks
  <1>3. ASSUME NEW t \in Tasks, NEW m \in Mains, Starts(t, m) PROVE ClearPending'
    BY <1>3, StartsAges, ClearPendingKept DEF Starts, Ages, Tasks
  <1>4. CASE ProcessEnds /\ UNCHANGED <<buf, logFile>>
    BY <1>4, ProcessEndsSenders
  <1>5. ASSUME NEW t \in Tasks, Works(t) PROVE ClearPending'
    <2>1. \A u \in BshTasks : Ages(u) /\ (Outstanding(u) => Outstanding(u)')
      BY <1>5, WorksAges DEF Tasks
    <2>2. CASE uiq' = uiq
      BY <2>1, <2>2, ClearPendingKept DEF Ages
    <2>3. ASSUME NEW msg, uiq' = Append(uiq, msg),
                 msg.op = "clear" => Latest /\ msg.task = g.bshTask /\ t \in BshTasks
          PROVE  ClearPending'
      <3>1. /\ Len(uiq) \in Nat /\ Len(uiq') = Len(uiq) + 1
            /\ \A i \in 1..Len(uiq) : uiq'[i] = uiq[i]
            /\ uiq'[Len(uiq) + 1] = msg
        BY <2>3 DEF TypeInv, TypeOK
      <3>2. ASSUME NEW i \in 1..Len(uiq'), uiq'[i].op = "clear",
                   NEW u, u = uiq'[i].task, task'[u].solo
            PROVE  Outstanding(u)'
        <4>1. CASE i \in 1..Len(uiq)
          <5>1. u \in BshTasks /\ uiq[i].op = "clear" /\ u = uiq[i].task
            BY <3>1, <3>2, <4>1, ClearTarget
          <5>2. Outstanding(u)
            BY <2>1, <3>2, <4>1, <5>1 DEF ClearPending, Ages
          <5> QED BY <2>1, <5>1, <5>2
        <4>2. CASE i = Len(uiq) + 1
          <5>1. u = g.bshTask /\ t \in BshTasks /\ Outstanding(t)
            BY <1>5, <2>3, <3>1, <3>2, <4>2 DEF Works
          <5>2. u = t \/ (u \in BshTasks /\ ~task[u].solo)
            BY <5>1 DEF Latest
          <5>3. u = t
            BY <2>1, <3>2, <5>2 DEF Ages
          <5> QED BY <2>1, <5>1, <5>3
        <4> QED BY <3>1, <4>1, <4>2
      <3>3. \A i \in 1..Len(uiq') : uiq'[i].op = "clear" /\ task'[uiq'[i].task].solo =>
              task'[uiq'[i].task].pc \notin {"idle", "done", "lost"}
        BY <3>2 DEF Outstanding
      <3> QED BY <3>3 DEF ClearPending, Outstanding
    <2>4. \/ uiq' = uiq
          \/ /\ uiq' = Append(uiq, [op |-> "clear", task |-> g.bshTask])
             /\ t \in BshTasks
          \/ uiq' = Append(uiq, [op |-> "post", task |-> t])
      BY <1>5 DEF Works
    <2>5. CASE uiq' = Append(uiq, [op |-> "clear", task |-> g.bshTask]) /\ t \in BshTasks
      BY <2>3, <2>5
    <2>6. CASE uiq' = Append(uiq, [op |-> "post", task |-> t])
      BY <2>3, <2>6
    <2> QED BY <2>2, <2>4, <2>5, <2>6
  <1>6. ASSUME NEW t \in Tasks, HandleClear(t) PROVE ClearPending'
    <2>1. \A u \in Tasks : Ages(u) /\ (Outstanding(u) => Outstanding(u)')
      BY <1>6 DEF HandleClear, Ages, Outstanding
    <2> QED BY <1>6, <2>1, ClearPendingTaken DEF HandleClear, Receives, Tasks
  <1>7. ASSUME NEW t \in Tasks, PostLog(t) PROVE ClearPending'
    <2>1. Outstanding(t)' /\ Serves(t)
      BY <1>7, PostLogEffect DEF Outstanding, Serves
    <2> QED BY <1>7, <2>1, ServesAges, ClearPendingTaken DEF PostLog, Receives, Tasks
  <1>8. ASSUME NEW t \in Tasks, ~DialogDetached(t), PostShow(t) PROVE ClearPending'
    <2>1. t \in BshTasks /\ task[t].pc = "logged" /\ Outstanding(t) /\ Serves(t)
      BY <1>8 DEF PostShow, Outstanding, Serves
    <2>2. ASSUME task[t].solo PROVE NoClear
      <3>1. \A u \in Tasks \ {t} : ~Outstanding(u)
        BY <2>1, <2>2 DEF ActiveInv, Active, Tasks
      <3>2. \A u \in BshTasks : ~Sending(u)
        BY <2>1, <3>1 DEF Sending, Outstanding, Tasks
      <3> QED BY <3>2, SendersRun
    <2>3. ASSUME NEW i \in 1..Len(uiq), uiq[i].op = "clear",
                 NEW u, u = uiq[i].task, task'[u].solo
          PROVE  Outstanding(u)'
      <3>1. u \in Tasks
        BY <2>3, ClearTarget DEF Tasks
      <3>2. task[u].solo
        BY <2>1, <2>3, <3>1, ServesAges DEF Ages
      <3>3. u # t
        BY <2>2, <2>3, <3>2 DEF NoClear
      <3>4. Outstanding(u)
        BY <2>3, <3>2 DEF ClearPending
      <3> QED BY <2>1, <3>1, <3>3, <3>4, ServesAges
    <2>4. uiq' = uiq
      BY <1>8, PostShowEffect
    <2>5. \A i \in 1..Len(uiq) : uiq[i].op = "clear" /\ task'[uiq[i].task].solo =>
            task'[uiq[i].task].pc \notin {"idle", "done", "lost"}
      BY <2>3 DEF Outstanding
    <2> QED BY <2>4, <2>5 DEF ClearPending, Outstanding
  <1>9. ASSUME NEW t \in Tasks, ~DialogDetached(t), PostTool(t) PROVE ClearPending'
    <2>1. t \notin BshTasks /\ Serves(t) /\ uiq # <<>> /\ uiq' = Tail(uiq)
      BY <1>9, PostToolEffect, SessionAssumption DEF PostTool, Serves, Receives
    <2>2. \A u \in BshTasks : Ages(u) /\ (Outstanding(u) => Outstanding(u)')
      BY <2>1, ServesAges DEF Tasks
    <2> QED BY <2>1, <2>2, ClearPendingTaken
  <1> QED BY <1>1, <1>2, <1>3, <1>4, <1>5, <1>6, <1>7, <1>8, <1>9, SoloKinds DEF Serves

(***************************************************************************)
(* The task that nobody disturbs, while it is on its way.                  *)
(***************************************************************************)

(* What a script has written since its first k writes, and one more.       *)
LEMMA OwnGrows ==
  ASSUME NEW t \in Tasks, NEW n \in Nat, NEW k \in 0..n
  PROVE  /\ [i \in 1..(n - k) |-> <<t, k + i>>] \in Seq(Chunk)
         /\ [i \in 1..((n + 1) - k) |-> <<t, k + i>>]
              = Append([i \in 1..(n - k) |-> <<t, k + i>>], <<t, n + 1>>)
  <1> DEFINE old == [i \in 1..(n - k) |-> <<t, k + i>>]
             new == [i \in 1..((n + 1) - k) |-> <<t, k + i>>]
  <1>1. n - k \in Nat /\ (n + 1) - k = (n - k) + 1 /\ k + ((n - k) + 1) = n + 1
    OBVIOUS
  <1>2. \A i \in 1..(n - k) : <<t, k + i>> \in Chunk
    BY DEF Chunk
  <1>3. old \in Seq(Chunk) /\ Len(old) = n - k
    BY <1>1, <1>2
  <1>4. PICK l \in Nat : l = n - k
    BY <1>1
  <1>5. \A i \in 1..(l + 1) : <<t, k + i>> = IF i = l + 1 THEN <<t, n + 1>> ELSE old[i]
    <2>1. k + (l + 1) = n + 1
      BY <1>1, <1>4
    <2>2. \A i \in 1..(l + 1) : i = l + 1 \/ i \in 1..(n - k)
      BY <1>4
    <2>3. \A i \in 1..(n - k) : old[i] = <<t, k + i>>
      OBVIOUS
    <2> HIDE DEF old
    <2> QED BY <2>1, <2>2, <2>3
  <1>6. new \in Seq(Chunk) /\ Len(new) = l + 1 /\ \A i \in 1..(l + 1) : new[i] = <<t, k + i>>
    <2>1. \A i \in 1..(l + 1) : <<t, k + i>> \in Chunk
      BY DEF Chunk
    <2>2. new = [i \in 1..(l + 1) |-> <<t, k + i>>]
      BY <1>1, <1>4
    <2> QED BY <2>1, <2>2
  <1>7. PICK c \in Chunk : c = <<t, n + 1>>
    <2>1. n + 1 \in Nat
      OBVIOUS
    <2>2. <<t, n + 1>> \in Chunk
      BY <2>1 DEF Chunk
    <2> QED BY <2>2
  <1> HIDE DEF old, new
  <1>8. /\ Append(old, c) \in Seq(Chunk) /\ Len(Append(old, c)) = l + 1
        /\ \A i \in 1..(l + 1) : Append(old, c)[i] = IF i = l + 1 THEN c ELSE old[i]
    BY <1>3, <1>4
  <1>9. new = Append(old, c)
    BY <1>5, <1>6, <1>7, <1>8, SeqEqual
  <1> QED BY <1>3, <1>7, <1>9 DEF old, new

LEMMA OwnTyped ==
  ASSUME TypeInv, NEW t \in Tasks, NEW k \in 0..task[t].printed
  PROVE  Own(t, k) \in Seq(Chunk) /\ Own(t, k) \o <<>> = Own(t, k)
  <1>1. Own(t, k) \in Seq(Chunk)
    BY TaskTyped, OwnGrows DEF Own
  <1> QED BY <1>1

LEMMA NothingOwn ==
  ASSUME NEW t, NEW n \in Nat, NEW k \in Nat, k = n
  PROVE  [i \in 1..(n - k) |-> <<t, k + i>>] = <<>>
  <1>1. n - k = 0 /\ 1..0 = {}
    OBVIOUS
  <1> QED BY <1>1

(* An undisturbed task that is on its way is the only one to make a step.  *)
LEMMA ActorAlone ==
  ASSUME TypeInv, ActiveInv, NEW t \in Tasks, Outstanding(t),
         NEW u \in Tasks, Ages(u), task'[u].solo, Outstanding(u)'
  PROVE  u = t /\ task[t].solo /\ Active(t) /\ (t \in BshTasks => ActiveScript(t))
  BY DEF ActiveInv, Active, Ages

LEMMA SoloMain ==
  ASSUME TypeInv, Shape, NEW t \in Tasks, task[t].solo, task[t].owner = g.main
  PROVE  g.main \in Mains /\ act[g.main] \in Main /\ act[g.main].bsh \in Seq(Chunk)
  <1>1. g.main \in Mains
    BY DEF Shape
  <1>2. act[g.main] \in Main
    BY <1>1 DEF TypeInv, TypeOK
  <1> QED BY <1>1, <1>2 DEF Main

LEMMA QuietActive ==
  ASSUME TypeInv, Shape, ActiveInv, Quiet
  PROVE  ActiveInv'
  <1>1. ASSUME NEW t \in Tasks, task'[t].solo, Outstanding(t)'
        PROVE  Active(t)' /\ (t \in BshTasks => ActiveScript(t)')
    <2>1. task[t].solo /\ Outstanding(t) /\ QuietTask(t)
      BY <1>1, QuietAges DEF Ages, Quiet
    <2>2. Active(t) /\ (t \in BshTasks => ActiveScript(t))
      BY <2>1 DEF ActiveInv
    <2>3. g.main \in Mains /\ g'.main = g.main /\ QuietMain(g.main)
      BY <2>1, <2>2, SoloMain DEF Active, Quiet
    <2>4. \A u \in Tasks \ {t} : ~Outstanding(u)'
      BY <2>2, QuietAges DEF Active, Ages
    <2>5. /\ task'[t].owner = g'.main
          /\ act'[g'.main].closing # "auto"
          /\ task'[t].pc \in Buffered => sys'.out = t
          /\ task'[t].pc \in Buffered \ {"half"} => sys'.err = t
      BY <2>2, <2>1, <2>3 DEF Active, QuietTask, QuietMain, Quiet
    <2>6. ASSUME task'[t].dialog = "showing"
          PROVE  act'[g'.main].closing = "no" /\ act'[g'.main].life # "gone"
      BY <2>1, <2>2, <2>3, <2>6 DEF Active, QuietTask, QuietMain
    <2>7. ASSUME t \in BshTasks PROVE ActiveScript(t)'
      <3>1. /\ g'.bshTask = t /\ act'[g'.main].bsh = <<>> /\ g'.code = g.code
            /\ UNCHANGED <<buf, uiq, logFile>>
        BY <2>2, <2>3, <2>7 DEF ActiveScript, QuietMain, Quiet
      <3>2. \E k \in 0..task'[t].printed : HoldsFrom(t, k)'
        <4>1. PICK k \in 0..task[t].printed : HoldsFrom(t, k)
          BY <2>2, <2>7 DEF ActiveScript
        <4>2. /\ task'[t].printed = task[t].printed /\ task'[t].cleared = task[t].cleared
              /\ task'[t].warned = task[t].warned
          BY <2>1 DEF QuietTask
        <4>3. Own(t, k)' = Own(t, k) /\ WarningOf(t)' = WarningOf(t) /\ NoClear' = NoClear
          BY <3>1, <4>2 DEF Own, WarningOf, NoClear
        <4>4. HoldsFrom(t, k)'
          BY <3>1, <4>1, <4>2, <4>3 DEF HoldsFrom
        <4> QED BY <4>1, <4>2, <4>4
      <3>3. /\ \A i \in 1..Len(uiq') : uiq'[i].op = "clear" =>
                 uiq'[i].task = t /\ task'[t].cleared # -1
            /\ task'[t].cleared <= task'[t].printed
            /\ task'[t].pc # "logged" => ~task'[t].warned
            /\ task'[t].assigned # Null => g'.code = task'[t].assigned
            /\ task'[t].pc = "logged" /\ logFile' # Null /\ logFile'.by = t
                 => logFile'.text = buf'[t]
        BY <2>1, <2>2, <2>7, <3>1 DEF ActiveScript, QuietTask
      <3> QED BY <3>1, <3>2, <3>3 DEF ActiveScript
    <2> QED BY <2>4, <2>5, <2>6, <2>7 DEF Active
  <1> QED BY <1>1 DEF ActiveInv

LEMMA StartsActive ==
  ASSUME TypeInv, Shape, Senders, NEW t \in Tasks, NEW m \in Mains, Starts(t, m)
  PROVE  ActiveInv'
  <1>1. \A u \in Tasks \ {t} : ~(task'[u].solo /\ Outstanding(u)')
    BY StartsAges
  <1>2. ASSUME task'[t].solo
        PROVE  Active(t)' /\ (t \in BshTasks => ActiveScript(t)')
    <2>1. m = g.main /\ \A u \in Tasks : ~Outstanding(u)
      BY <1>2, StartedSelf
    <2>2. /\ task'[t].pc = "queued" /\ task'[t].owner = m
          /\ task'[t].printed = 0 /\ task'[t].cleared = -1 /\ task'[t].assigned = Null
          /\ task'[t].warned = FALSE
      BY StartedSelf
    <2>3. \A u \in Tasks \ {t} : ~Outstanding(u)'
      BY <2>1, StartsAges DEF Ages
    <2>4. g'.main = m /\ act'[m].closing = "no" /\ act'[m].life = "resumed"
      BY <2>1 DEF Starts
    <2>5. Active(t)'
      BY <2>2, <2>3, <2>4 DEF Active, Buffered
    <2>6. ASSUME t \in BshTasks PROVE ActiveScript(t)'
      <3>1. UNCHANGED <<buf, uiq>> /\ g'.bshTask = t /\ act'[m].bsh = <<>>
        BY <2>6 DEF Starts
      <3>2. NoClear
        BY <2>1, SendersRun DEF Sending, Outstanding, Tasks
      <3>3. HoldsFrom(t, 0)'
        <4>1. buf'[t] = <<>>
          BY DEF Starts, Shape
        <4>2. Own(t, 0)' = <<>>
          BY <2>2, NothingOwn DEF Own
        <4>3. WarningOf(t)' = <<>> /\ <<>> \o <<>> = <<>>
          BY <2>2 DEF WarningOf
        <4> QED BY <2>2, <4>1, <4>2, <4>3 DEF HoldsFrom
      <3>4. 0 \in 0..task'[t].printed /\ task'[t].cleared <= task'[t].printed
        BY <2>2
      <3>5. /\ task'[t].warned = FALSE /\ task'[t].assigned = Null /\ task'[t].pc # "logged"
        BY <2>2
      <3>6. \A i \in 1..Len(uiq') : uiq'[i].op # "clear"
        BY <3>1, <3>2 DEF NoClear
      <3> QED BY <2>4, <3>1, <3>3, <3>4, <3>5, <3>6 DEF ActiveScript
    <2> QED BY <2>5, <2>6
  <1> QED BY <1>1, <1>2 DEF ActiveInv

LEMMA WorksStillActive ==
  ASSUME NEW t \in Tasks, Works(t), Active(t),
         task'[t].pc \in Buffered => task[t].pc \in Buffered \/ sys'.out = t,
         task'[t].pc \in Buffered \ {"half"} =>
           task[t].pc \in Buffered \ {"half"} \/ sys'.err = t
  PROVE  Active(t)'
  <1>1. \A u \in Tasks \ {t} : ~Outstanding(u)'
    BY WorksAges DEF Active, Ages
  <1>2. /\ task'[t].owner = g'.main /\ act'[g'.main] = act[g.main]
        /\ task'[t].dialog = task[t].dialog
    BY DEF Works, SameBase, Active
  <1>3. /\ task'[t].pc \in Buffered => sys'.out = t
        /\ task'[t].pc \in Buffered \ {"half"} => sys'.err = t
    BY DEF Works, Active
  <1> QED BY <1>1, <1>2, <1>3 DEF Active

(* A step of a script that writes nothing, sends nothing and clears        *)
(* nothing.                                                                *)
LEMMA ScriptKept ==
  ASSUME TypeInv, NEW t \in BshTasks, ActiveScript(t), UNCHANGED <<buf, uiq, logFile, act>>,
         task[t].pc # "logged", task'[t].pc # "logged",
         task'[t].printed = task[t].printed, task'[t].cleared = task[t].cleared,
         task'[t].warned = task[t].warned,
         g'.main = g.main, g'.bshTask = g.bshTask,
         task'[t].assigned # Null => g'.code = task'[t].assigned
  PROVE  ActiveScript(t)'
  <1>1. PICK k \in 0..task[t].printed : HoldsFrom(t, k)
    BY DEF ActiveScript
  <1>2. Own(t, k)' = Own(t, k) /\ WarningOf(t)' = WarningOf(t) /\ NoClear' = NoClear
    BY DEF Own, WarningOf, NoClear
  <1>3. HoldsFrom(t, k)'
    BY <1>1, <1>2 DEF HoldsFrom
  <1>4. /\ g'.bshTask = t /\ act'[g'.main].bsh = <<>>
        /\ \A i \in 1..Len(uiq') : uiq'[i].op = "clear" =>
             uiq'[i].task = t /\ task'[t].cleared # -1
        /\ task'[t].cleared <= task'[t].printed /\ ~task'[t].warned
    BY DEF ActiveScript
  <1> QED BY <1>1, <1>3, <1>4 DEF ActiveScript

(* A message added to the queue, seen by who looks for a CLEAR.            *)
LEMMA AddedMessage ==
  ASSUME TypeInv, NEW msg, uiq' = Append(uiq, msg)
  PROVE  /\ Len(uiq) \in Nat /\ Len(uiq') = Len(uiq) + 1 /\ uiq'[Len(uiq) + 1] = msg
         /\ \A i \in 1..Len(uiq) : i \in 1..Len(uiq') /\ uiq'[i] = uiq[i]
         /\ \A i \in 1..Len(uiq') : i \in 1..Len(uiq) \/ i = Len(uiq) + 1
         /\ NoClear' => NoClear
         /\ msg.op = "clear" => ~NoClear'
  <1>1. /\ Len(uiq) \in Nat /\ Len(uiq') = Len(uiq) + 1 /\ uiq'[Len(uiq) + 1] = msg
        /\ \A i \in 1..Len(uiq) : uiq'[i] = uiq[i]
    BY DEF TypeInv, TypeOK
  <1>2. /\ \A i \in 1..Len(uiq) : i \in 1..Len(uiq')
        /\ \A i \in 1..Len(uiq') : i \in 1..Len(uiq) \/ i = Len(uiq) + 1
        /\ Len(uiq) + 1 \in 1..Len(uiq')
    BY <1>1
  <1> QED BY <1>1, <1>2 DEF NoClear

LEMMA WritesActive ==
  ASSUME TypeInv, NEW t \in BshTasks, Active(t), ActiveScript(t),
         task[t].pc \in {"redirected", "running"},
         NEW s \in {sys.out, sys.err}, NEW pc \in {"running", "posted"}, Writes(t, s, pc),
         UNCHANGED <<g, act, logFile>>, uiq' = uiq \/ Post(t)
  PROVE  ActiveScript(t)'
  <1>1. t \in Tasks
    BY DEF Tasks
  <1>2. PICK k \in 0..task[t].printed : HoldsFrom(t, k)
    BY DEF ActiveScript
  <1>3. s = t /\ ~task[t].warned
    BY DEF Active, ActiveScript, Buffered
  <1>4. PICK n \in Nat : n = task[t].printed
    BY <1>1, TaskTyped
  <1>5. /\ Fields(t, pc, task[t].swos, n + 1, task[t].cleared, task[t].assigned)
        /\ buf' = Emit(t, <<t, n + 1>>)
    BY <1>1, <1>3, <1>4, WritesEffect
  <1>6. buf'[t] = Append(buf[t], <<t, n + 1>>)
    <2>1. t # Null /\ buf \in [Tasks -> Seq(Chunk)]
      BY <1>1, SessionAssumption, TaskTyped
    <2> QED BY <1>1, <1>5, <2>1 DEF Emit
  <1>7. k \in 0..n /\ k \in 0..(n + 1)
    BY <1>2, <1>4
  <1>8. buf[t] = Own(t, k)
    <2>1. WarningOf(t) = <<>>
      BY <1>3 DEF WarningOf
    <2> QED BY <1>1, <1>2, <2>1, OwnTyped DEF HoldsFrom
  <1>9. buf'[t] = Own(t, k)' \o WarningOf(t)'
    <2> DEFINE old == [i \in 1..(n - k) |-> <<t, k + i>>]
               new == [i \in 1..((n + 1) - k) |-> <<t, k + i>>]
    <2>1. Own(t, k) = old
      BY <1>4 DEF Own
    <2>2. Own(t, k)' = new
      BY <1>5 DEF Own, Fields
    <2>3. new = Append(old, <<t, n + 1>>)
      BY <1>1, <1>7, OwnGrows
    <2> HIDE DEF old, new
    <2>4. buf'[t] = Own(t, k)'
      BY <1>6, <1>8, <2>1, <2>2, <2>3
    <2>5. WarningOf(t)' = <<>>
      BY <1>3, <1>5 DEF WarningOf, Fields
    <2>6. buf'[t] \in Seq(Chunk)
      <3>1. n + 1 \in Nat
        OBVIOUS
      <3>2. <<t, n + 1>> \in Chunk /\ buf[t] \in Seq(Chunk)
        BY <1>1, <3>1, TaskTyped DEF Chunk
      <3> QED BY <1>6, <3>2
    <2> QED BY <2>4, <2>5, <2>6
  <1>10. NoClear' => NoClear
    BY <1>1, AddedMessage DEF Post, NoClear
  <1>11. HoldsFrom(t, k)'
    BY <1>2, <1>5, <1>9, <1>10 DEF HoldsFrom, Fields
  <1>12. \A i \in 1..Len(uiq') : uiq'[i].op = "clear" =>
           uiq'[i].task = t /\ task'[t].cleared # -1
    <2>1. task'[t].cleared = task[t].cleared
      BY <1>5 DEF Fields
    <2>2. CASE uiq' = uiq
      BY <2>1, <2>2 DEF ActiveScript
    <2>3. CASE Post(t)
      BY <2>1, <2>3, AddedMessage DEF Post, ActiveScript
    <2> QED BY <2>2, <2>3
  <1>13. task'[t].cleared <= task'[t].printed
    <2>1. task[t].cleared <= n /\ task[t].cleared \in Int
      BY <1>1, <1>4, TaskTyped DEF ActiveScript
    <2>2. task[t].cleared <= n + 1
      BY <2>1
    <2> QED BY <1>5, <2>2 DEF Fields
  <1>14. /\ g'.bshTask = t /\ act'[g'.main].bsh = <<>>
         /\ ~task'[t].warned /\ task'[t].pc # "logged"
         /\ task'[t].assigned # Null => g'.code = task'[t].assigned
    BY <1>3, <1>5 DEF ActiveScript, Fields
  <1>15. k \in 0..task'[t].printed
    BY <1>5, <1>7 DEF Fields
  <1> QED BY <1>11, <1>12, <1>13, <1>14, <1>15 DEF ActiveScript

LEMMA fnClearActive ==
  ASSUME TypeInv, NEW t \in BshTasks, Active(t), ActiveScript(t), fnClear(t)
  PROVE  ActiveScript(t)'
  <1>1. t \in Tasks
    BY DEF Tasks
  <1>2. PICK k \in 0..task[t].printed : HoldsFrom(t, k)
    BY DEF ActiveScript
  <1>3. Fields(t, "running", task[t].swos, task[t].printed, task[t].printed, task[t].assigned)
    BY <1>1, fnClearEffect
  <1>4. /\ UNCHANGED <<g, act, buf, logFile>> /\ task[t].pc = "running" /\ task[t].cleared = -1
        /\ uiq' = Append(uiq, [op |-> "clear", task |-> t])
    BY DEF fnClear, ActiveScript
  <1>5. ~NoClear'
    BY <1>4, AddedMessage
  <1>6. task'[t].cleared # -1 /\ task'[t].cleared <= task'[t].printed
    <2>1. task[t].printed \in Nat
      BY <1>1, TaskTyped
    <2> QED BY <1>3, <2>1 DEF Fields
  <1>7. HoldsFrom(t, k)'
    <2>1. Own(t, k)' = Own(t, k) /\ WarningOf(t)' = WarningOf(t)
      BY <1>3 DEF Own, WarningOf, Fields
    <2> QED BY <1>2, <1>4, <1>5, <1>6, <2>1 DEF HoldsFrom
  <1>8. \A i \in 1..Len(uiq') : uiq'[i].op = "clear" => uiq'[i].task = t
    BY <1>4, AddedMessage DEF ActiveScript
  <1>9. /\ g'.bshTask = t /\ act'[g'.main].bsh = <<>>
        /\ ~task'[t].warned /\ task'[t].pc # "logged"
        /\ task'[t].assigned # Null => g'.code = task'[t].assigned
        /\ k \in 0..task'[t].printed
    BY <1>2, <1>3, <1>4 DEF ActiveScript, Fields
  <1> QED BY <1>6, <1>7, <1>8, <1>9 DEF ActiveScript

LEMMA BackgroundActive ==
  ASSUME TypeInv, Shape, ActiveInv, NEW t \in Tasks, Background(t), Works(t)
  PROVE  ActiveInv'
  <1>1. Outstanding(t)
    BY DEF Works
  <1>2. ASSUME task[t].solo, Active(t), t \in BshTasks => ActiveScript(t),
               task'[t].solo, Outstanding(t)'
        PROVE  Active(t)' /\ (t \in BshTasks => ActiveScript(t)')
    <2>1. CASE SetOut(t)
      <3>1. task[t].pc = "queued" /\ task'[t].pc = "half" /\ sys'.out = t
        BY <2>1, SetOutEffect DEF Fields
      <3>2. Active(t)'
        BY <1>2, <3>1, WorksStillActive
      <3>3. /\ task'[t].printed = task[t].printed /\ task'[t].cleared = task[t].cleared
            /\ task'[t].warned = task[t].warned /\ task'[t].assigned = task[t].assigned
        BY <2>1, SetOutEffect DEF Fields
      <3>4. UNCHANGED <<g, buf, uiq, logFile, act>>
        BY <2>1 DEF SetOut
      <3>5. t \in BshTasks => ActiveScript(t)'
        BY <1>2, <3>1, <3>3, <3>4, ScriptKept DEF ActiveScript
      <3> QED BY <3>2, <3>5
    <2>2. CASE SetErr(t)
      <3>1. task[t].pc = "half" /\ sys'.err = t
        BY <2>2, SetErrEffect
      <3>2. Active(t)'
        BY <1>2, <3>1, WorksStillActive DEF Buffered
      <3>3. PICK pc \in {"redirected", "running"} :
              Fields(t, pc, task[t].swos, task[t].printed, task[t].cleared, task[t].assigned)
        BY <2>2, SetErrEffect
      <3>4. /\ task'[t].printed = task[t].printed /\ task'[t].cleared = task[t].cleared
            /\ task'[t].warned = task[t].warned /\ task'[t].assigned = task[t].assigned
            /\ task'[t].pc # "logged"
        BY <3>3 DEF Fields
      <3>5. t \in BshTasks => ActiveScript(t)'
        BY <1>2, <2>2, <3>1, <3>4, ScriptKept DEF SetErr, ActiveScript
      <3> QED BY <3>2, <3>5
    <2>3. ASSUME NEW s \in {sys.out, sys.err}, NEW pc \in {"running", "posted"},
                 Writes(t, s, pc), task[t].pc \in {"redirected", "running"},
                 UNCHANGED <<g, act, logFile>>, uiq' = uiq \/ Post(t)
          PROVE  Active(t)' /\ (t \in BshTasks => ActiveScript(t)')
      <3>1. Active(t)'
        BY <1>2, <2>3, WorksStillActive DEF Buffered
      <3> QED BY <1>2, <2>3, <3>1, WritesActive
    <2>4. CASE ScriptBegins(t)
      BY <2>3, <2>4 DEF ScriptBegins
    <2>5. CASE Prints(t)
      BY <2>3, <2>5 DEF Prints
    <2>6. CASE ScriptEnds(t)
      BY <2>3, <2>6 DEF ScriptEnds
    <2>7. CASE fnClear(t)
      BY <1>2, <2>7, WorksStillActive, fnClearActive DEF fnClear, Buffered
    <2>8. ASSUME NEW c \in Codes, AssignCode(t, c)
          PROVE  Active(t)' /\ (t \in BshTasks => ActiveScript(t)')
      <3>1. /\ Fields(t, "running", task[t].swos, task[t].printed, task[t].cleared, c)
            /\ g'.code = c /\ g'.main = g.main /\ g'.bshTask = g.bshTask
        BY <2>8, AssignCodeEffect
      <3>2. /\ task'[t].printed = task[t].printed /\ task'[t].cleared = task[t].cleared
            /\ task'[t].warned = task[t].warned /\ task'[t].assigned = c
            /\ task[t].pc = "running" /\ task'[t].pc = "running"
        BY <2>8, <3>1 DEF AssignCode, Fields
      <3>3. Active(t)'
        BY <1>2, <3>2, WorksStillActive DEF Buffered
      <3>4. t \in BshTasks => ActiveScript(t)'
        BY <1>2, <2>8, <3>1, <3>2, ScriptKept DEF AssignCode
      <3> QED BY <3>3, <3>4
    <2>9. CASE ToolEnds(t)
      BY <1>2, <2>9, WorksStillActive, SessionAssumption DEF ToolEnds, Buffered
    <2>10. CASE SetupFails(t)
      BY <1>2, <2>10, EndedTasks DEF SetupFails
    <2> QED BY <2>1, <2>2, <2>4, <2>5, <2>6, <2>7, <2>8, <2>9, <2>10 DEF Background
  <1>3. ASSUME NEW u \in Tasks, task'[u].solo, Outstanding(u)'
        PROVE  Active(u)' /\ (u \in BshTasks => ActiveScript(u)')
    <2>1. u = t /\ task[t].solo /\ Active(t) /\ (t \in BshTasks => ActiveScript(t))
      BY <1>1, <1>3, WorksAges, ActorAlone
    <2> QED BY <1>2, <1>3, <2>1
  <1> QED BY <1>3 DEF ActiveInv

LEMMA HandleClearActive ==
  ASSUME TypeInv, Shape, Senders, ActiveInv, NEW v \in Tasks, HandleClear(v)
  PROVE  ActiveInv'
  <1>1. UNCHANGED <<ui, g, task, sys, logFile>> /\ Receives("clear", v)
    BY DEF HandleClear
  <1>2. ASSUME NEW t \in Tasks, task[t].solo, Outstanding(t)
        PROVE  Active(t)' /\ (t \in BshTasks => ActiveScript(t)')
    <2>1. Active(t) /\ (t \in BshTasks => ActiveScript(t))
      BY <1>2 DEF ActiveInv
    <2>2. g.main \in Mains
      BY <1>2, <2>1, SoloMain DEF Active
    <2>3. Active(t)'
      <3>1. act'[g.main].life = act[g.main].life /\ act'[g.main].closing = act[g.main].closing
        BY <2>2, HandleClearEffect
      <3> QED BY <1>1, <2>1, <3>1 DEF Active, Outstanding
    <2>4. ASSUME t \in BshTasks PROVE ActiveScript(t)'
      <3>1. 1 \in 1..Len(uiq) /\ uiq[1].op = "clear" /\ uiq[1].task = v
        BY <1>1, TakenMessages DEF Receives
      <3>2. v = t /\ task[t].cleared # -1
        BY <2>1, <2>4, <3>1 DEF ActiveScript
      <3>3. PICK u \in BshTasks : SentBy(u, 1)
        BY <3>1 DEF Senders
      <3>4. task[t].pc \in {"running", "posted"}
        BY <2>1, <3>3 DEF SentBy, Active, Outstanding, Tasks
      <3>5. task[t].swos /\ ~task[t].warned
        BY <2>1, <2>4, <3>4 DEF Shape, Buffered, ActiveScript
      <3>6. act'[g.main].bsh = <<>> /\ buf'[t] = <<>>
        BY <2>2, <3>2, <3>5, HandleClearEffect
      <3>7. PICK n \in Nat : n = task[t].printed
        BY TaskTyped
      <3>8. HoldsFrom(t, n)'
        <4>1. Own(t, n)' = <<>>
          BY <1>1, <3>7, NothingOwn DEF Own
        <4>2. WarningOf(t)' = <<>> /\ <<>> \o <<>> = <<>>
          BY <1>1, <3>5 DEF WarningOf
        <4>3. task[t].cleared <= n
          BY <2>1, <2>4, <3>7 DEF ActiveScript
        <4>4. n >= task[t].cleared
          BY <3>7, <4>3, TaskTyped
        <4> QED BY <1>1, <3>2, <3>6, <4>1, <4>2, <4>4 DEF HoldsFrom
      <3>9. \A i \in 1..Len(uiq') : uiq'[i].op = "clear" =>
              uiq'[i].task = t /\ task'[t].cleared # -1
        BY <1>1, <2>1, <2>4, TakenMessages DEF Receives, ActiveScript
      <3>10. n \in 0..task'[t].printed
        BY <1>1, <3>7
      <3> QED BY <1>1, <2>1, <2>4, <3>4, <3>6, <3>8, <3>9, <3>10 DEF ActiveScript
    <2> QED BY <2>3, <2>4
  <1> QED BY <1>1, <1>2 DEF ActiveInv, Outstanding

LEMMA PostLogActive ==
  ASSUME TypeInv, PostedOnce, LogInv, Shape, Senders, ActiveInv,
         NEW t \in Tasks, PostLog(t)
  PROVE  ActiveInv'
  <1>1. /\ t \in BshTasks /\ Receives("post", t) /\ UNCHANGED <<act, g, sys>>
        /\ uiq # <<>> /\ uiq' = Tail(uiq) /\ Head(uiq) = [op |-> "post", task |-> t]
    BY DEF PostLog, Receives
  <1>2. task[t].pc = "posted" /\ Outstanding(t)
    BY <1>1, PostedHead DEF Outstanding
  <1>3. /\ OthersSame(t) /\ SameBase(t) /\ SameRun(t)
        /\ task'[t].pc = "logged" /\ task'[t].printed = task[t].printed /\ Logs(t)
    BY PostLogEffect
  <1>4. ASSUME task[t].solo, Active(t), ActiveScript(t)
        PROVE  Active(t)' /\ ActiveScript(t)'
    <2>1. Active(t)'
      BY <1>1, <1>2, <1>3, <1>4
      DEF Active, OthersSame, SameBase, SameRun, Outstanding, Buffered
    <2>2. NoClear
      <3>1. ASSUME NEW i \in 1..Len(uiq), uiq[i].op = "clear" PROVE FALSE
        <4>1. PICK u \in BshTasks : SentBy(u, i)
          BY <3>1 DEF Senders
        <4>2. u = t
          BY <1>4, <4>1 DEF SentBy, Active, Outstanding, Tasks
        <4>3. 1 \in 1..Len(uiq) /\ uiq[1] = [op |-> "post", task |-> t]
          BY <1>1, TakenMessages
        <4>4. i < 1
          BY <4>1, <4>2, <4>3 DEF SentBy
        <4> QED BY <4>4
      <3> QED BY <3>1 DEF NoClear
    <2>3. PICK k \in 0..task[t].printed : HoldsFrom(t, k)
      BY <1>4 DEF ActiveScript
    <2>4. ~task[t].warned /\ sys.err = t
      BY <1>2, <1>4 DEF ActiveScript, Active, Buffered
    <2>5. buf[t] = Own(t, k) /\ Own(t, k) \in Seq(Chunk)
      <3>1. WarningOf(t) = <<>>
        BY <2>4 DEF WarningOf
      <3> QED BY <2>3, <3>1, OwnTyped DEF HoldsFrom
    <2>6. Own(t, k)' = Own(t, k)
      BY <1>3 DEF Own
    <2>7. buf'[t] = Own(t, k)' \o WarningOf(t)'
      <3>1. CASE task'[t].warned
        <4>1. buf' = [buf EXCEPT ![t] = Append(@, Warning)]
          BY <1>3, <2>4, <3>1, SessionAssumption DEF Logs, Emit
        <4>2. buf'[t] = Append(Own(t, k), Warning)
          BY <2>5, <4>1, TaskTyped
        <4>3. WarningOf(t)' = <<Warning>>
          BY <3>1 DEF WarningOf
        <4>4. Append(Own(t, k), Warning) = Own(t, k) \o <<Warning>>
          <5>1. Warning \in Chunk
            BY DEF Chunk
          <5> QED BY <2>5, <5>1, AppendIsConcat
        <4> QED BY <2>6, <4>2, <4>3, <4>4
      <3>2. CASE ~task'[t].warned
        <4>1. buf'[t] = buf[t] /\ WarningOf(t)' = <<>>
          BY <1>3, <3>2 DEF Logs, WarningOf
        <4> QED BY <2>5, <2>6, <4>1
      <3> QED BY <3>1, <3>2
    <2>8. HoldsFrom(t, k)'
      BY <1>3, <2>2, <2>3, <2>7 DEF HoldsFrom, SameRun
    <2>9. \A i \in 1..Len(uiq') : uiq'[i].op # "clear"
      BY <1>1, <2>2, TakenMessages DEF NoClear
    <2>10. logFile' # Null /\ logFile'.by = t => logFile'.text = buf'[t]
      <3>1. logFile # Null => logFile.by # t
        BY <1>1, <1>2, SessionAssumption DEF LogInv, Saved
      <3> QED BY <1>3, <3>1 DEF Logs
    <2>11. /\ g'.bshTask = t /\ act'[g'.main].bsh = <<>>
           /\ task'[t].cleared <= task'[t].printed
           /\ task'[t].assigned # Null => g'.code = task'[t].assigned
           /\ k \in 0..task'[t].printed
      BY <1>1, <1>3, <1>4, <2>3 DEF ActiveScript, SameRun
    <2> QED BY <1>3, <2>1, <2>8, <2>9, <2>10, <2>11 DEF ActiveScript
  <1>5. ASSUME NEW u \in Tasks, task'[u].solo, Outstanding(u)'
        PROVE  Active(u)' /\ (u \in BshTasks => ActiveScript(u)')
    <2>1. Ages(u)
      BY ServesAges DEF Serves
    <2>2. u = t /\ task[t].solo /\ Active(t) /\ ActiveScript(t)
      BY <1>1, <1>2, <1>5, <2>1, ActorAlone
    <2> QED BY <1>4, <2>2
  <1> QED BY <1>5 DEF ActiveInv

LEMMA DoneActive ==
  ASSUME TypeInv, PostedOnce, ActiveInv, NEW t \in Tasks, ~DialogDetached(t),
         PostShow(t) \/ PostTool(t)
  PROVE  ActiveInv'
  <1>1. Outstanding(t) /\ ~Outstanding(t)'
    <2>1. CASE PostShow(t)
      BY <2>1, PostShowEffect DEF PostShow, Outstanding
    <2>2. CASE PostTool(t)
      BY <2>2, PostToolEffect, PostedHead DEF Outstanding
    <2> QED BY <2>1, <2>2
  <1>2. ASSUME NEW u \in Tasks, task'[u].solo, Outstanding(u)' PROVE FALSE
    <2>1. Ages(u)
      BY ServesAges DEF Serves
    <2> QED BY <1>1, <1>2, <2>1, ActorAlone
  <1> QED BY <1>2 DEF ActiveInv

LEMMA NextActive ==
  ASSUME TypeInv, PostedOnce, WindowInv, LogInv, SoloInv, [Next]_vars
  PROVE  ActiveInv'
  <1> USE DEF SoloInv
  <1>1. CASE Quiet
    BY <1>1, QuietActive
  <1>2. ASSUME NEW m \in Mains, Creates(m) PROVE ActiveInv'
    BY <1>2, CreatesAges DEF ActiveInv
  <1>3. ASSUME NEW t \in Tasks, NEW m \in Mains, Starts(t, m) PROVE ActiveInv'
    BY <1>3, StartsActive
  <1>4. CASE ProcessEnds /\ UNCHANGED <<buf, logFile>>
    BY <1>4, EndedTasks DEF ActiveInv
  <1>5. ASSUME NEW t \in Tasks, Background(t) PROVE ActiveInv'
    BY <1>4, <1>5, BackgroundWorks, BackgroundActive
  <1>6. ASSUME NEW t \in Tasks, UiThread(t) PROVE ActiveInv'
    <2>1. CASE ~DialogDetached(t) /\ (PostShow(t) \/ PostTool(t))
      BY <2>1, DoneActive
    <2>2. CASE DialogDetached(t) /\ (PostShow(t) \/ PostTool(t))
      BY <1>4, <2>2 DEF PostShow, PostTool
    <2> QED BY <1>6, <2>1, <2>2, HandleClearActive, PostLogActive DEF UiThread
  <1>7. CASE UNCHANGED vars
    BY <1>1, <1>7, SameMain, SameTasks DEF vars, Quiet, Same, CreationOn
  <1>8. CASE Lifecycle
    BY <1>1, <1>2, <1>3, <1>4, <1>8, LifecycleKinds
  <1>9. CASE User
    BY <1>1, <1>3, <1>9, UserKinds
  <1> QED BY <1>5, <1>6, <1>7, <1>8, <1>9 DEF Next

(***************************************************************************)
(* What stays when it is over.                                             *)
(***************************************************************************)

(* A step that no script makes and that keeps the screen of G.main keeps   *)
(* what a script that is over has left there.                              *)
LEMMA RemainsKept ==
  ASSUME TypeInv, Shape, ShownInv,
         g'.main = g.main, g'.bshTask = g.bshTask,
         NEW t \in BshTasks, ShownSolo(t)', task'[t] = task[t],
         \A u \in BshTasks : Outstanding(u)' => Outstanding(u),
         act'[g.main].life # "gone" =>
           /\ act[g.main].life # "gone" /\ act'[g.main].bsh = act[g.main].bsh
           /\ act'[g.main].result = act[g.main].result
           /\ act[g.main].closing = "menu" => act'[g.main].closing = "menu",
         logFile' = logFile \/ logFile'.by # t
  PROVE  Remains(t)'
  <1>1. ShownSolo(t)
    BY DEF ShownSolo
  <1>2. Remains(t) /\ act'[g.main].life # "gone"
    BY <1>1 DEF ShownInv, ShownSolo
  <1>3. \A u \in BshTasks : ~Outstanding(u)'
    BY <1>2 DEF Remains
  <1>4. OwnShown(t)'
    <2>1. PICK k \in 0..task[t].printed :
            /\ act[g.main].bsh = Own(t, k) \o WarningOf(t)
            /\ IF task[t].cleared = -1 THEN k = 0 ELSE k >= task[t].cleared
      BY <1>2 DEF Remains, OwnShown
    <2>2. Own(t, k)' = Own(t, k) /\ WarningOf(t)' = WarningOf(t)
      BY DEF Own, WarningOf
    <2> QED BY <1>2, <2>1, <2>2 DEF OwnShown
  <1> QED BY <1>2, <1>3, <1>4 DEF Remains

(* While the output of a script remains, no script is on its way.          *)
LEMMA NoScript ==
  ASSUME ShownInv, NEW t \in BshTasks, ShownSolo(t), NEW u \in BshTasks
  PROVE  ~Outstanding(u)
  BY DEF ShownInv, Remains

LEMMA QuietShown ==
  ASSUME TypeInv, Shape, ShownInv, Quiet
  PROVE  ShownInv'
  <1>1. ASSUME NEW t \in BshTasks, ShownSolo(t)' PROVE Remains(t)'
    <2>1. QuietTask(t) /\ t \in Tasks
      BY DEF Quiet, Tasks
    <2>2. g.main = g'.main /\ task[t].owner = g.main /\ task[t].solo
      BY <1>1, <2>1 DEF Quiet, QuietTask, ShownSolo
    <2>3. g.main \in Mains /\ QuietMain(g.main)
      BY <2>1, <2>2, SoloMain DEF Quiet
    <2>4. act[g.main].life # "gone" /\ act'[g.main].life # "gone"
      BY <1>1, <2>2, <2>3 DEF QuietMain, ShownSolo
    <2>5. ShownSolo(t)
      BY <1>1, <2>1, <2>2, <2>4 DEF Quiet, QuietTask, ShownSolo
    <2>6. Remains(t)
      BY <2>5 DEF ShownInv
    <2>7. \A u \in BshTasks : ~Outstanding(u)'
      BY <2>6, QuietAges DEF Remains, Ages, Tasks
    <2>8. /\ act'[g'.main].bsh = act[g.main].bsh /\ act'[g'.main].result = act[g.main].result
          /\ act'[g'.main].closing # "menu" => act[g.main].closing # "menu"
          /\ logFile' = logFile
      BY <2>2, <2>3, <2>4 DEF QuietMain, Quiet
    <2>9. /\ task'[t].printed = task[t].printed /\ task'[t].cleared = task[t].cleared
          /\ task'[t].assigned = task[t].assigned /\ task'[t].warned = task[t].warned
      BY <2>1 DEF QuietTask
    <2>10. OwnShown(t)'
      <3>1. PICK k \in 0..task[t].printed :
              /\ act[g.main].bsh = Own(t, k) \o WarningOf(t)
              /\ IF task[t].cleared = -1 THEN k = 0 ELSE k >= task[t].cleared
        BY <2>6 DEF Remains, OwnShown
      <3>2. Own(t, k)' = Own(t, k) /\ WarningOf(t)' = WarningOf(t)
        BY <2>9 DEF Own, WarningOf
      <3> QED BY <2>8, <2>9, <3>1, <3>2 DEF OwnShown
    <2> QED BY <2>6, <2>7, <2>8, <2>9, <2>10 DEF Remains
  <1> QED BY <1>1 DEF ShownInv

LEMMA StartsShown ==
  ASSUME TypeInv, Shape, ShownInv, NEW t \in Tasks, NEW m \in Mains, Starts(t, m)
  PROVE  ShownInv'
  <1>1. ASSUME NEW u \in BshTasks, ShownSolo(u)' PROVE Remains(u)'
    <2>1. u \in Tasks /\ u # t
      BY <1>1, StartedSelf DEF ShownSolo, Tasks
    <2>2. t \notin BshTasks
      BY <1>1, <2>1 DEF Starts, ShownSolo
    <2>3. task'[u] = task[u]
      <3>1. task'[u] = Disturbed[u]
        BY <2>1, StartedOther DEF Starts
      <3>2. ~Outstanding(u)
        BY <1>1, <2>1, <3>1, DisturbedSolo DEF ShownSolo, Outstanding
      <3> QED BY <2>1, <3>1, <3>2, DisturbedSolo
    <2>4. \A w \in BshTasks : Outstanding(w)' => Outstanding(w)
      BY <2>2, StartsAges DEF Ages, Tasks
    <2>5. g.main \in Mains
      BY <1>1, <2>1, <2>3 DEF Shape, ShownSolo, Starts
    <2>6. /\ act'[g.main].bsh = act[g.main].bsh /\ act'[g.main].result = act[g.main].result
          /\ act[g.main].closing = "menu" => act'[g.main].closing = "menu"
      BY <1>1, <2>2, <2>5 DEF Starts, ShownSolo
    <2>7. act[g.main].life # "gone" \/ act'[g.main].life = "gone"
      <3>1. CASE g.main = m
        BY <3>1 DEF Starts
      <3>2. CASE g.main # m
        BY <2>5, <3>2 DEF Starts
      <3> QED BY <3>1, <3>2
    <2>8. /\ g'.main = g.main /\ g'.bshTask = g.bshTask /\ logFile' = logFile
      BY <2>2 DEF Starts
    <2> QED BY <1>1, <2>3, <2>4, <2>6, <2>7, <2>8, RemainsKept
  <1> QED BY <1>1 DEF ShownInv

LEMMA CreatesShown ==
  ASSUME TypeInv, Shape, NEW m \in Mains, Creates(m)
  PROVE  ShownInv'
  <1>1. ASSUME NEW t \in BshTasks, ShownSolo(t)' PROVE FALSE
    <2>1. task'[t].owner = task[t].owner /\ t \in Tasks
      BY DisturbedSolo DEF Creates, Tasks
    <2>2. task[t].owner = m
      BY <1>1, <2>1 DEF Creates, ShownSolo
    <2> QED BY <2>1, <2>2 DEF Creates, Shape
  <1> QED BY <1>1 DEF ShownInv

LEMMA EndsShown ==
  ASSUME TypeInv, Shape, ProcessEnds
  PROVE  ShownInv'
  <1>1. ASSUME NEW t \in BshTasks, ShownSolo(t)' PROVE FALSE
    <2>1. t \in Tasks /\ task'[t] = task[t]
      BY <1>1, EndedTasks DEF ShownSolo, Tasks
    <2>2. task[t].owner \in Mains
      BY <1>1, <2>1 DEF Shape, ShownSolo
    <2>3. g'.main = Null
      BY DEF ProcessEnds, NoGlobals
    <2> QED BY <1>1, <2>1, <2>2, <2>3, SessionAssumption DEF ShownSolo
  <1> QED BY <1>1 DEF ShownInv

LEMMA WorksShown ==
  ASSUME TypeInv, Shape, ShownInv, NEW t \in Tasks, Works(t)
  PROVE  ShownInv'
  <1>1. ASSUME NEW u \in BshTasks, ShownSolo(u)' PROVE Remains(u)'
    <2>1. u \in Tasks /\ u # t
      BY <1>1 DEF Works, ShownSolo, Buffered, Tasks
    <2>2. task'[u] = task[u]
      BY <2>1 DEF Works, OthersSame
    <2>3. \A w \in BshTasks : Outstanding(w)' => Outstanding(w)
      BY WorksAges DEF Ages, Tasks
    <2> QED BY <1>1, <2>1, <2>2, <2>3, RemainsKept DEF Works
  <1> QED BY <1>1 DEF ShownInv

LEMMA ServesShown ==
  ASSUME TypeInv, PostedOnce, SoloInv, NEW t \in Tasks, Serves(t)
  PROVE  ShownInv'
  <1> USE DEF SoloInv
  <1>1. CASE HandleClear(t)
    <2>1. UNCHANGED <<g, task, logFile>>
      BY <1>1 DEF HandleClear
    <2>2. ASSUME NEW u \in BshTasks, ShownSolo(u)' PROVE FALSE
      <3>1. g.main \in Mains
        BY <2>1, <2>2 DEF ShownSolo, Shape, Tasks
      <3>2. ShownSolo(u)
        BY <1>1, <2>1, <2>2, <3>1, HandleClearEffect DEF ShownSolo
      <3>3. 1 \in 1..Len(uiq) /\ uiq[1].op = "clear"
        BY <1>1, TakenMessages DEF HandleClear, Receives
      <3>4. PICK w \in BshTasks : SentBy(w, 1)
        BY <3>3 DEF Senders
      <3> QED BY <3>2, <3>4, NoScript DEF SentBy, Outstanding
    <2> QED BY <2>2 DEF ShownInv
  <1>2. CASE PostLog(t)
    <2>1. t \in BshTasks /\ Outstanding(t) /\ UNCHANGED <<g, act>> /\ task'[t].pc = "logged"
      BY <1>2, PostedHead, PostLogEffect DEF PostLog, Outstanding
    <2>2. ASSUME NEW u \in BshTasks, ShownSolo(u)' PROVE FALSE
      <3>1. task'[u] = task[u]
        BY <1>2, <2>1, <2>2, PostLogEffect DEF ShownSolo, OthersSame, Tasks
      <3>2. ShownSolo(u)
        BY <2>1, <2>2, <3>1 DEF ShownSolo
      <3> QED BY <2>1, <3>2, NoScript
    <2> QED BY <2>2 DEF ShownInv
  <1>3. CASE PostTool(t) /\ ~DialogDetached(t)
    <2>1. t \notin BshTasks /\ UNCHANGED <<g, logFile>> /\ OthersSame(t)
      BY <1>3, PostToolEffect, SessionAssumption DEF PostTool
    <2>2. ASSUME NEW u \in BshTasks, ShownSolo(u)' PROVE Remains(u)'
      <3>1. task'[u] = task[u] /\ u \in Tasks
        BY <2>1 DEF OthersSame, Tasks
      <3>2. g.main \in Mains
        BY <2>1, <2>2, <3>1 DEF ShownSolo, Shape
      <3>3. MainSame(g.main)
        BY <1>3, <3>2, PostToolEffect
      <3>4. \A w \in BshTasks : Outstanding(w)' => Outstanding(w)
        BY ServesAges DEF Ages, Tasks
      <3> QED BY <2>1, <2>2, <3>1, <3>3, <3>4, RemainsKept DEF MainSame
    <2> QED BY <2>2 DEF ShownInv
  <1>4. CASE PostShow(t) /\ ~DialogDetached(t)
    <2>1. /\ UNCHANGED <<g, sys, uiq, buf, logFile>>
          /\ t \in BshTasks /\ ui = t /\ task[t].pc = "logged" /\ Outstanding(t)
          /\ OthersSame(t) /\ SameBase(t) /\ task'[t].pc = "done"
          /\ task'[t].printed = task[t].printed /\ task'[t].cleared = task[t].cleared
          /\ task'[t].assigned = task[t].assigned /\ task'[t].warned = task[t].warned
      BY <1>4, PostShowEffect DEF PostShow, Outstanding
    <2>2. g.main \in Mains => act'[g.main] = Concluded(act[g.main], act[g.main].bsh \o buf[t])
      BY <1>4, PostShowEffect
    <2>3. ASSUME g.main \in Mains
          PROVE  act[g.main] \in Main /\ act[g.main].bsh \o buf[t] \in Seq(Chunk)
      <3>1. act[g.main] \in Main /\ buf[t] \in Seq(Chunk)
        BY <2>3 DEF TypeInv, TypeOK
      <3>2. act[g.main].bsh \in Seq(Chunk)
        BY <3>1 DEF Main
      <3> QED BY <3>1, <3>2
    <2>4. ASSUME NEW u \in BshTasks, u # t, ShownSolo(u)' PROVE FALSE
      <3>1. task'[u] = task[u] /\ u \in Tasks
        BY <2>1, <2>4 DEF OthersSame, Tasks
      <3>2. g.main \in Mains
        BY <2>1, <2>4, <3>1 DEF ShownSolo, Shape
      <3>3. act[g.main].life = "gone" => act'[g.main].life = "gone"
        BY <2>2, <3>2 DEF Concluded
      <3>4. ShownSolo(u)
        BY <2>1, <2>4, <3>1, <3>3 DEF ShownSolo
      <3> QED BY <2>1, <3>4, NoScript
    <2>5. ASSUME ShownSolo(t)' PROVE Remains(t)'
      <3>1. task[t].solo /\ task[t].owner = g.main /\ act'[g.main].life # "gone"
        BY <2>1, <2>5 DEF ShownSolo, SameBase
      <3>2. Active(t) /\ ActiveScript(t)
        BY <2>1, <3>1 DEF ActiveInv
      <3>3. g.main \in Mains
        BY <3>1, SoloMain
      <3>4. act[g.main].life # "gone"
        BY <2>2, <3>1, <3>3 DEF Concluded
      <3> DEFINE a == act[g.main]
                 v == a.bsh \o buf[t]
      <3>5. a \in Main /\ v \in Seq(Chunk) /\ v = buf[t]
        <4>1. a.bsh = <<>> /\ buf[t] \in Seq(Chunk)
          BY <3>2, TaskTyped DEF ActiveScript
        <4> QED BY <2>3, <3>3, <4>1
      <3>6. /\ act'[g.main].bsh = v
            /\ a.closing = "no" => act'[g.main].result = Result(v)
            /\ a.closing = "menu" => act'[g.main].closing = "menu"
        <4>1. CASE a.closing = "no"
          <5>1. act'[g.main] = [a EXCEPT !.bsh = v, !.result = Result(v),
                                         !.closing = IF g.autoExit THEN "auto" ELSE "no"]
            BY <2>2, <3>3, <3>4, <4>1 DEF Concluded
          <5> QED BY <3>5, <4>1, <5>1 DEF Main
        <4>2. CASE a.closing # "no"
          <5>1. act'[g.main] = [a EXCEPT !.bsh = v]
            BY <2>2, <3>3, <3>4, <4>2 DEF Concluded
          <5> QED BY <3>5, <4>2, <5>1 DEF Main
        <4> QED BY <4>1, <4>2
      <3>7. \A u \in BshTasks : ~Outstanding(u)'
        BY <2>1, <3>2 DEF Active, OthersSame, Outstanding, Tasks
      <3>8. NoClear
        <4>1. \A u \in BshTasks : ~Sending(u)
          BY <2>1, <3>2 DEF Active, Sending, Outstanding, Tasks
        <4> QED BY <4>1, SendersRun
      <3>9. OwnShown(t)'
        <4>1. PICK k \in 0..task[t].printed : HoldsFrom(t, k)
          BY <3>2 DEF ActiveScript
        <4>2. Own(t, k)' = Own(t, k) /\ WarningOf(t)' = WarningOf(t)
          BY <2>1 DEF Own, WarningOf
        <4>3. act'[g'.main].bsh = Own(t, k)' \o WarningOf(t)'
          BY <2>1, <3>5, <3>6, <4>1, <4>2 DEF HoldsFrom
        <4>4. IF task'[t].cleared = -1 THEN k = 0 ELSE k >= task'[t].cleared
          BY <2>1, <3>8, <4>1 DEF HoldsFrom
        <4> QED BY <2>1, <4>3, <4>4 DEF OwnShown
      <3>10. logFile' # Null /\ logFile'.by = t => act'[g'.main].bsh = logFile'.text
        BY <2>1, <3>2, <3>5, <3>6 DEF ActiveScript
      <3>11. task'[t].assigned # Null /\ act'[g'.main].closing # "menu"
               => act'[g'.main].result # Null
                  /\ act'[g'.main].result.code = task'[t].assigned
        <4>1. a.closing \in {"no", "menu"}
          BY <3>2, <3>5 DEF Active, Main
        <4>2. Result(v) # Null /\ Result(v).code = g.code
          <5>1. Result(v) \in ResultExtras
            BY <3>5 DEF Result, ResultExtras, TypeInv, TypeOK, Globals
          <5> QED BY <5>1, SessionAssumption DEF Result
        <4> QED BY <2>1, <3>2, <3>6, <4>1, <4>2 DEF ActiveScript
      <3> QED BY <3>7, <3>9, <3>10, <3>11 DEF Remains
    <2> QED BY <2>4, <2>5 DEF ShownInv
  <1> QED BY <1>1, <1>2, <1>3, <1>4 DEF Serves

LEMMA NextShown ==
  ASSUME TypeInv, PostedOnce, WindowInv, SoloInv, [Next]_vars
  PROVE  ShownInv'
  BY SoloKinds, QuietShown, StartsShown, CreatesShown, EndsShown, WorksShown, ServesShown
  DEF SoloInv

(***************************************************************************)
(* The invariant holds.                                                    *)
(***************************************************************************)
LEMMA InitSolo == Init => SoloInv
  <1> SUFFICES ASSUME Init PROVE SoloInv
    OBVIOUS
  <1>1. \A t \in Tasks : task[t].pc = "idle" /\ task[t].solo = FALSE /\ task[t].owner = Null
    BY DEF Init, NewTask
  <1>2. \A m \in Mains : act[m].life = "unborn" /\ act[m].closing = "no"
    BY DEF Init, NewMain
  <1>3. /\ \A t \in Tasks : buf[t] = <<>>
        /\ sys.out = Null /\ sys.err = Null /\ Len(uiq) = 0
    BY DEF Init
  <1>4. Shape
    BY <1>1, <1>2, <1>3, SessionAssumption DEF Shape, Buffered
  <1>5. Senders /\ ClearPending
    BY <1>3 DEF Senders, ClearPending
  <1>6. Latest /\ ActiveInv /\ ShownInv
    BY <1>1 DEF Latest, ActiveInv, ShownInv, ShownSolo, Outstanding, Tasks
  <1> QED BY <1>4, <1>5, <1>6 DEF SoloInv

LEMMA SoloAlways == Spec => [](TypeInv /\ SoloInv)
  <1> DEFINE All == TypeInv /\ PostedOnce /\ WindowInv /\ LogInv /\ SoloInv
  <1>1. Init => All
    <2>1. ASSUME Init PROVE PostedOnce /\ WindowInv /\ LogInv
      <3>1. PostedOnce
        BY <2>1 DEF Init, PostedOnce
      <3>2. WindowInv
        BY <2>1, SessionAssumption DEF Init, WindowInv, DialogHasWindow, NewMain
      <3>3. LogInv
        BY <2>1 DEF Init, LogInv, LogIsPrefix
      <3> QED BY <3>1, <3>2, <3>3
    <2> QED BY <2>1, InitType, InitSolo
  <1>2. All /\ [Next]_vars => All'
    <2> SUFFICES ASSUME All, [Next]_vars PROVE All'
      OBVIOUS
    <2>1. TypeInv' /\ PostedOnce' /\ WindowInv' /\ LogInv'
      BY NextType, NextPosted, NextWindow, NextLog
    <2>2. SoloInv'
      BY NextShape, NextSenders, NextLatest, NextClearPending, NextActive, NextShown
      DEF SoloInv
    <2> QED BY <2>1, <2>2
  <1>3. All => TypeInv /\ SoloInv
    OBVIOUS
  <1> QED BY <1>1, <1>2, <1>3, PTL DEF Spec

(***************************************************************************)
(* After a run that nobody disturbed the screen of G.main holds what the   *)
(* script wrote from some write on, and nothing that another task wrote    *)
(* before: onProgressUpdate and onPostExecute take messages that are       *)
(* waiting, through static fields, and still never mix two runs.           *)
(***************************************************************************)
THEOREM ShownOutputIsOwn == Spec => []ShownIsOwn
  <1>1. SoloInv => ShownIsOwn
    BY DEF SoloInv, ShownInv, Remains, OwnShown, ShownIsOwn
  <1> QED BY <1>1, SoloAlways, PTL

(***************************************************************************)
(* What onPostExecute wrote to LogOutput.txt for such a run is what it     *)
(* then appends to the screen, the warning included, although other        *)
(* threads can step in between.                                            *)
(***************************************************************************)
THEOREM LoggedIsShown == Spec => []LogIsShown
  <1>1. SoloInv => LogIsShown
    BY DEF SoloInv, ShownInv, Remains, LogIsShown
  <1> QED BY <1>1, SoloAlways, PTL

(***************************************************************************)
(* The caller of such a run gets the code the script assigned last to      *)
(* G.iScriptResultCode, which any script may assign and every onCreate     *)
(* resets, unless the user left by the menu.                               *)
(***************************************************************************)
THEOREM SoloCodeReturned == Spec => []SoloResult
  <1>1. SoloInv => SoloResult
    BY DEF SoloInv, ShownInv, Remains, SoloResult
  <1> QED BY <1>1, SoloAlways, PTL

(***************************************************************************)
(* A CLEAR that waits for such a script finds the field swos not null:     *)
(* fnClear() sends it to G.bshTask, not to the script that called it, and  *)
(* swos is null before doInBackground and after onPostExecute.             *)
(***************************************************************************)
THEOREM ClearAlwaysFindsBuffer == Spec => []ClearFindsBuffer
  <1>1. ASSUME TypeInv, SoloInv PROVE ClearFindsBuffer
    <2>1. ASSUME NEW i \in 1..Len(uiq), uiq[i].op = "clear", task[uiq[i].task].solo
          PROVE  task[uiq[i].task].swos
      <3>1. uiq[i].task \in Tasks
        BY <1>1, <2>1, ClearTarget DEF Tasks
      <3>2. Active(uiq[i].task)
        BY <1>1, <2>1, <3>1 DEF SoloInv, ClearPending, ActiveInv
      <3>3. PICK u \in BshTasks : SentBy(u, i)
        BY <1>1, <2>1 DEF SoloInv, Senders
      <3>4. u = uiq[i].task
        BY <3>2, <3>3 DEF Active, SentBy, Outstanding, Tasks
      <3> QED BY <1>1, <3>1, <3>3, <3>4 DEF SoloInv, Shape, SentBy, Buffered
    <2> QED BY <2>1 DEF ClearFindsBuffer
  <1> QED BY <1>1, SoloAlways, PTL

(***************************************************************************)
(* dismiss() of the progress dialog of an undisturbed task never throws:   *)
(* its activity is not destroyed while the dialog shows, whatever the user *)
(* and Android do, short of creating another instance.                     *)
(***************************************************************************)
THEOREM SoloDialogStays == Spec => []SoloDialogAttached
  <1>1. ASSUME TypeInv, SoloInv PROVE SoloDialogAttached
    <2>1. ASSUME NEW t \in Tasks, task[t].solo, Outstanding(t), DialogDetached(t)
          PROVE  FALSE
      <3>1. Active(t)
        BY <1>1, <2>1 DEF SoloInv, ActiveInv
      <3>2. g.main \in Mains
        BY <1>1, <2>1, <3>1 DEF SoloInv, Shape, Active
      <3> QED BY <2>1, <3>1, <3>2 DEF Active, DialogDetached
    <2> QED BY <2>1 DEF SoloDialogAttached
  <1> QED BY <1>1, SoloAlways, PTL
================================================================================
