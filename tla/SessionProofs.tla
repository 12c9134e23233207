----------------------------- MODULE SessionProofs -----------------------------
(* Theorems about Session for every number of instances and tasks.         *)
EXTENDS Session, SequenceTheorems, TLAPS

(* Typing needs to know that the target of a CLEAR exists.                 *)
TypeInv == TypeOK /\ ClearHasTarget

(* Writing a chunk leaves every buffer a sequence of chunks.               *)
LEMMA EmitType ==
  ASSUME TypeOK, NEW s \in Tasks \cup {Null}, NEW c \in Chunk
  PROVE  Emit(s, c) \in [Tasks -> Seq(Chunk)]
  <1>1. CASE s = Null
    BY <1>1 DEF Emit, TypeOK
  <1>2. CASE s # Null
    <2>1. s \in Tasks /\ buf[s] \in Seq(Chunk)
      BY <1>2 DEF TypeOK
    <2>2. Append(buf[s], c) \in Seq(Chunk)
      BY <2>1
    <2> QED BY <1>2, <2>2 DEF Emit, TypeOK
  <1> QED BY <1>1, <1>2

(* Taking a message leaves a queue of messages.                            *)
LEMMA ReceiveType ==
  ASSUME TypeOK, uiq # <<>>
  PROVE  Head(uiq) \in Message /\ Tail(uiq) \in Seq(Message)
  BY HeadTailProperties DEF TypeOK

(* The tasks stay tasks when one of them starts.                           *)
LEMMA DisturbedType ==
  ASSUME TypeOK
  PROVE  Disturbed \in [Tasks -> Task]
  <1>1. ASSUME NEW t \in Tasks
        PROVE  [task[t] EXCEPT !.solo = FALSE] \in Task
    <2>1. task[t] \in Task
      BY DEF TypeOK
    <2> QED BY <2>1 DEF Task
  <1> QED BY <1>1 DEF Disturbed, TypeOK

LEMMA DisturbedFields ==
  ASSUME TypeOK, NEW u \in Tasks
  PROVE  /\ Disturbed[u].pc = task[u].pc
         /\ Disturbed[u].swos = task[u].swos
  <1>1. task[u] \in Task
    BY DEF TypeOK
  <1> QED BY <1>1 DEF Disturbed, Task

LEMMA StartedOthers ==
  ASSUME TypeOK, NEW t \in Tasks, NEW m, NEW current, NEW u \in Tasks \ {t}
  PROVE  /\ Started(t, m, current)[u].pc = task[u].pc
         /\ Started(t, m, current)[u].swos = task[u].swos
  BY DisturbedFields DEF Started, Disturbed

LEMMA StartedType ==
  ASSUME TypeOK, NEW t \in Tasks, NEW m \in Mains,
         NEW current \in Mains \cup {Page, Null}
  PROVE  Started(t, m, current) \in [Tasks -> Task]
  <1> DEFINE new == [NewTask EXCEPT !.pc = "queued", !.owner = current,
                                    !.dialog = "showing",
                       !.solo = m = g.main /\ \A u \in Tasks : ~Outstanding(u)]
  <1>1. new \in Task
    BY DEF NewTask, Task
  <1> QED BY <1>1, DisturbedType DEF Started

(* A new instance is an instance.                                          *)
LEMMA NewMainType ==
  ASSUME NEW i \in Intent
  PROVE  NewMain(i) \in Main
  <1>1. <<>> \in Seq(Chunk)
    OBVIOUS
  <1> QED BY <1>1 DEF NewMain, Main

LEMMA InitType == Init => TypeInv
  <1> SUFFICES ASSUME Init PROVE TypeInv
    OBVIOUS
  <1>1. NewTask \in Task
    BY DEF NewTask, Task
  <1>2. [NewMain(PlainIntent) EXCEPT !.life = "unborn"] \in Main
    <2>1. PlainIntent \in Intent
      BY DEF PlainIntent, Intent
    <2>2. NewMain(PlainIntent) \in Main
      BY <2>1, NewMainType
    <2> QED BY <2>2 DEF Main
  <1>3. NoGlobals \in Globals
    BY DEF NoGlobals, Globals
  <1>4. TypeOK
    <2>1. /\ act \in [Mains -> Main]
          /\ g \in Globals
          /\ task \in [Tasks -> Task]
      BY <1>1, <1>2, <1>3 DEF Init
    <2>2. /\ buf \in [Tasks -> Seq(Chunk)]
          /\ uiq \in Seq(Message)
          /\ sys \in [out : Tasks \cup {Null}, err : Tasks \cup {Null}]
      BY DEF Init
    <2> QED BY <2>1, <2>2 DEF Init, TypeOK
  <1>5. ClearHasTarget
    BY DEF Init, ClearHasTarget, Outstanding, NewTask, Tasks
  <1> QED BY <1>4, <1>5 DEF TypeInv

(* The end of the process keeps the types.                                 *)
LEMMA ProcessEndsType ==
  ASSUME TypeInv, ProcessEnds, UNCHANGED <<buf, logFile, flg>>
  PROVE  TypeInv'
  <1>1. [NewTask EXCEPT !.pc = "lost"] \in Task
    BY DEF NewTask, Task
  <1>2. task' \in [Tasks -> Task]
    BY <1>1 DEF TypeInv, TypeOK, ProcessEnds
  <1>3. act' \in [Mains -> Main]
    <2>1. ASSUME NEW m \in Mains
          PROVE  /\ act[m] \in Main
                 /\ Destroyed(act[m]) \in Main
                 /\ [Destroyed(act[m]) EXCEPT !.life = "saved"] \in Main
      <3>1. act[m] \in Main /\ <<>> \in Seq(Chunk)
        BY DEF TypeInv, TypeOK
      <3>2. Destroyed(act[m]) \in Main
        BY <3>1 DEF Main, Destroyed
      <3> QED BY <3>1, <3>2 DEF Main
    <2> QED BY <2>1 DEF ProcessEnds
  <1>4. g' \in Globals
    BY DEF ProcessEnds, NoGlobals, Globals
  <1>5. TypeOK'
    <2>1. uiq' \in Seq(Message)
      BY DEF ProcessEnds
    <2> QED BY <1>2, <1>3, <1>4, <2>1 DEF TypeInv, TypeOK, ProcessEnds
  <1>6. ClearHasTarget'
    <2>1. \A t \in Tasks : ~Outstanding(t)'
      BY DEF TypeInv, TypeOK, ProcessEnds, Outstanding, NewTask
    <2> QED BY <2>1 DEF ClearHasTarget, Tasks
  <1> QED BY <1>5, <1>6 DEF TypeInv

(* The steps of MainActivity, of the pages and of Android.                 *)
LEMMA onCreateType ==
  ASSUME TypeInv, NEW m \in Mains, NEW i \in Intent, onCreate(m, i),
         act' \in [Mains -> Main]
  PROVE  TypeInv'
  <1>1. g' \in Globals
    BY SessionAssumption DEF TypeInv, TypeOK, onCreate, Globals, Intent
  <1>2. task' \in [Tasks -> Task]
    BY DisturbedType DEF TypeInv, onCreate
  <1>3. TypeOK'
    BY <1>1, <1>2 DEF TypeInv, TypeOK, onCreate
  <1>4. \A t \in Tasks : task'[t].pc = task[t].pc
    BY DEF TypeInv, TypeOK, onCreate, Disturbed, Task
  <1>5. ClearHasTarget'
    BY <1>4 DEF TypeInv, ClearHasTarget, Outstanding, onCreate, Tasks
  <1> QED BY <1>3, <1>5 DEF TypeInv

LEMMA LaunchType ==
  ASSUME TypeInv, NEW m \in Mains, NEW i \in Intents, Launch(m, i)
  PROVE  TypeInv'
  <1>1. i \in Intent
    BY SessionAssumption
  <1>2. act' \in [Mains -> Main]
    BY <1>1, NewMainType DEF Launch, TypeInv, TypeOK
  <1> QED BY <1>1, <1>2, onCreateType DEF Launch

LEMMA RecreateType ==
  ASSUME TypeInv, NEW old \in Mains, NEW m \in Mains, Recreate(old, m)
  PROVE  TypeInv'
  <1>1. act[old] \in Main /\ <<>> \in Seq(Chunk)
    BY DEF TypeInv, TypeOK
  <1>2. act[old].intent \in Intent /\ Destroyed(act[old]) \in Main
    BY <1>1 DEF Main, Destroyed
  <1>3. act' \in [Mains -> Main]
    BY <1>2, NewMainType DEF Recreate, TypeInv, TypeOK
  <1> QED BY <1>2, <1>3, onCreateType DEF Recreate

LEMMA onResumeType ==
  ASSUME TypeInv, NEW m \in Mains, onResume(m)
  PROVE  TypeInv'
  <1> USE DEF TypeInv
  <1>1. InFront(m) \in Globals /\ InFront(m).current = m
                               /\ InFront(m).bshTask = g.bshTask
    BY DEF InFront, TypeOK, Globals
  <1>2. act[m] \in Main /\ <<>> \in Seq(Chunk) /\ act[m].runs + 1 \in Nat
    BY DEF TypeOK, Main
  <1>3. BshCleared(m) \in [Mains -> Main] /\ BshCleared(m)[m].runs = act[m].runs
    BY <1>2 DEF BshCleared, TypeOK, Main
  <1>4. CASE g' = InFront(m) /\ UNCHANGED task
              /\ \E l \in {"paused", "resumed"} :
                    act' = [act EXCEPT ![m].life = l]
    <2>1. act' \in [Mains -> Main]
      <3>1. PICK l \in {"paused", "resumed"} : act' = [act EXCEPT ![m].life = l]
        BY <1>4
      <3>2. [act[m] EXCEPT !.life = l] \in Main
        BY <1>2 DEF Main
      <3> QED BY <3>1, <3>2 DEF TypeOK
    <2>2. TypeOK'
      BY <1>4, <1>1, <2>1 DEF TypeOK, onResume
    <2>3. ClearHasTarget'
      BY <1>4, <1>1 DEF ClearHasTarget, Outstanding
    <2> QED BY <2>2, <2>3
  <1>5. CASE /\ \E t \in BshTasks : /\ g' = AutoRuns(m, t)
                                    /\ task' = Started(t, m, InFront(m).current)
             /\ act' = [BshCleared(m) EXCEPT ![m].life = "resumed",
                                             ![m].runs = @ + 1]
    <2>1. PICK t \in BshTasks : /\ g' = AutoRuns(m, t)
                                /\ task' = Started(t, m, InFront(m).current)
      BY <1>5
    <2>2. g' \in Globals /\ g'.bshTask = t
      BY <2>1, <1>1 DEF AutoRuns, Globals
    <2>3. task' \in [Tasks -> Task]
      BY <2>1, <1>1, StartedType DEF Tasks
    <2>4. act' \in [Mains -> Main]
      BY <1>5, <1>2, <1>3 DEF Main
    <2>5. TypeOK'
      BY <2>2, <2>3, <2>4 DEF TypeOK, onResume
    <2>6. ClearHasTarget'
      BY <2>2, SessionAssumption DEF ClearHasTarget, Tasks
    <2> QED BY <2>5, <2>6
  <1> QED BY <1>4, <1>5 DEF onResume

LEMMA KillType ==
  ASSUME TypeInv, Kill
  PROVE  TypeInv'
  BY ProcessEndsType DEF Kill

(* A step that changes only what the types say nothing about.              *)
LEMMA onPauseType ==
  ASSUME TypeInv, NEW m \in Mains, onPause(m)
  PROVE  TypeInv'
  <1> USE DEF TypeInv
  <1>1. act' \in [Mains -> Main]
    <2>1. [act[m] EXCEPT !.life = "paused"] \in Main
      BY DEF TypeOK, Main
    <2> QED BY <2>1 DEF TypeOK, onPause
  <1>2. g' \in Globals /\ g'.bshTask = g.bshTask
    BY DEF TypeOK, Globals, onPause
  <1>3. TypeOK'
    BY <1>1, <1>2 DEF TypeOK, onPause
  <1>4. ClearHasTarget'
    BY <1>2 DEF ClearHasTarget, Outstanding, onPause
  <1> QED BY <1>3, <1>4

LEMMA onDestroyType ==
  ASSUME TypeInv, NEW m \in Mains, onDestroy(m)
  PROVE  TypeInv'
  <1> USE DEF TypeInv
  <1>1. act[m] \in Main /\ <<>> \in Seq(Chunk)
    BY DEF TypeOK
  <1>2. Destroyed(act[m]) \in Main
    BY <1>1 DEF Destroyed, Main
  <1>3. TypeOK'
    BY <1>2 DEF TypeOK, onDestroy
  <1>4. ClearHasTarget'
    BY DEF ClearHasTarget, Outstanding, onDestroy
  <1> QED BY <1>3, <1>4

(* The steps of the user.                                                  *)
LEMMA UserType ==
  ASSUME TypeInv, User
  PROVE  TypeInv'
  <1> USE DEF TypeInv
  <1>1. ASSUME NEW m \in Mains, onOptionsItemSelected_Exit(m) PROVE TypeInv'
    <2>1. [act[m] EXCEPT !.closing = "menu"] \in Main
      BY DEF TypeOK, Main
    <2>2. TypeOK'
      BY <1>1, <2>1 DEF TypeOK, onOptionsItemSelected_Exit
    <2>3. ClearHasTarget'
      BY <1>1 DEF ClearHasTarget, Outstanding, onOptionsItemSelected_Exit
    <2> QED BY <2>2, <2>3
  <1>2. ASSUME NEW m \in Mains,
               \/ Page_onResume(m)
               \/ onActivityResult_Settings(m)
               \/ PasswordActivity_onPause(m)
        PROVE  TypeInv'
    <2>1. g' \in Globals /\ g'.bshTask = g.bshTask
      <3>1. g \in Globals
        BY DEF TypeOK
      <3>2. \A b \in BOOLEAN :
              /\ [g EXCEPT !.current = Page] \in Globals
              /\ [g EXCEPT !.current = m, !.logOutput = b] \in Globals
              /\ [g EXCEPT !.pw = b] \in Globals
        BY <3>1 DEF Globals
      <3>3. \/ g' = [g EXCEPT !.current = Page]
            \/ \E b \in BOOLEAN : \/ g' = [g EXCEPT !.current = m, !.logOutput = b]
                                   \/ g' = [g EXCEPT !.pw = b]
        BY <1>2, SessionAssumption
        DEF Page_onResume, onActivityResult_Settings, PasswordActivity_onPause
      <3>4. g' \in Globals
        BY <3>2, <3>3
      <3>5. g'.bshTask = g.bshTask
        BY <3>1, <3>3 DEF Globals
      <3> QED BY <3>4, <3>5
    <2>2. UNCHANGED <<alive, ui, act, task, buf, sys, uiq, logFile, flg>>
      BY <1>2 DEF Page_onResume, onActivityResult_Settings,
                  PasswordActivity_onPause
    <2>3. TypeOK'
      BY <2>1, <2>2 DEF TypeOK
    <2>4. ClearHasTarget'
      BY <2>1, <2>2 DEF ClearHasTarget, Outstanding
    <2> QED BY <2>3, <2>4
  <1>3. ASSUME NEW m \in Mains, NEW t \in BshTasks, tabBeanshell_btnRun(m, t)
        PROVE  TypeInv'
    <2>1. g.current \in Mains \cup {Page, Null}
      BY DEF TypeOK, Globals
    <2>2. task' \in [Tasks -> Task]
      BY <1>3, <2>1, StartedType DEF tabBeanshell_btnRun, Tasks
    <2>3. g' \in Globals /\ g'.bshTask = t
      BY <1>3 DEF tabBeanshell_btnRun, TypeOK, Globals
    <2>4. act' \in [Mains -> Main]
      <3>1. act[m] \in Main /\ <<>> \in Seq(Chunk)
        BY DEF TypeOK
      <3>2. [act[m] EXCEPT !.bsh = <<>>] \in Main
        BY <3>1 DEF Main
      <3> QED BY <1>3, <3>2 DEF tabBeanshell_btnRun, BshCleared, TypeOK
    <2>5. TypeOK'
      BY <1>3, <2>2, <2>3, <2>4 DEF TypeOK, tabBeanshell_btnRun
    <2>6. ClearHasTarget'
      BY <2>3, SessionAssumption DEF ClearHasTarget, Tasks
    <2> QED BY <2>5, <2>6
  <1>4. ASSUME NEW m \in Mains, NEW t \in ToolTasks, tabTools_btnRun(m, t)
        PROVE  TypeInv'
    <2>1. g.current \in Mains \cup {Page, Null}
      BY DEF TypeOK, Globals
    <2>2. task' \in [Tasks -> Task]
      BY <1>4, <2>1, StartedType DEF tabTools_btnRun, Tasks
    <2>3. act' \in [Mains -> Main]
      <3>1. act[m] \in Main /\ <<>> \in Seq(Chunk)
        BY DEF TypeOK
      <3>2. [act[m] EXCEPT !.tools = <<>>] \in Main
        BY <3>1 DEF Main
      <3> QED BY <1>4, <3>2 DEF tabTools_btnRun, TypeOK
    <2>4. \A u \in BshTasks : task'[u].pc = task[u].pc
      BY <1>4, StartedOthers, SessionAssumption DEF tabTools_btnRun, Tasks
    <2>5. TypeOK'
      BY <1>4, <2>2, <2>3 DEF TypeOK, tabTools_btnRun
    <2>6. ClearHasTarget'
      BY <1>4, <2>4 DEF ClearHasTarget, Outstanding, tabTools_btnRun
    <2> QED BY <2>5, <2>6
  <1>5. ASSUME NEW t \in Tasks, CancelDialog(t) PROVE TypeInv'
    <2>1. [task[t] EXCEPT !.dialog = "closed"] \in Task
      <3>1. task[t] \in Task
        BY DEF TypeOK
      <3> QED BY <3>1 DEF Task
    <2>2. TypeOK'
      BY <1>5, <2>1 DEF TypeOK, CancelDialog
    <2>3. \A u \in Tasks : task'[u].pc = task[u].pc
      BY <1>5 DEF CancelDialog, TypeOK, Task
    <2>4. ClearHasTarget'
      BY <1>5, <2>3 DEF ClearHasTarget, Outstanding, CancelDialog, Tasks
    <2> QED BY <2>2, <2>4
  <1> QED BY <1>1, <1>2, <1>3, <1>4, <1>5 DEF User

(* The steps of the background threads.                                    *)
LEMMA WritesType ==
  ASSUME TypeOK, NEW t \in Tasks, NEW s \in Tasks \cup {Null},
         NEW pc \in {"running", "posted"}, Writes(t, s, pc)
  PROVE  /\ buf' \in [Tasks -> Seq(Chunk)]
         /\ task' \in [Tasks -> Task]
         /\ \A u \in Tasks \ {t} : task'[u] = task[u]
  <1>1. task[t] \in Task /\ task[t].printed + 1 \in Nat
    BY DEF TypeOK, Task
  <1>2. <<t, task[t].printed + 1>> \in Chunk
    BY <1>1 DEF Chunk
  <1>3. buf' \in [Tasks -> Seq(Chunk)]
    BY <1>2, EmitType DEF Writes
  <1>4. [task[t] EXCEPT !.printed = task[t].printed + 1, !.pc = pc] \in Task
    BY <1>1 DEF Task
  <1>5. task' = [task EXCEPT ![t] =
                   [task[t] EXCEPT !.printed = task[t].printed + 1, !.pc = pc]]
    BY DEF Writes, TypeOK
  <1> QED BY <1>3, <1>4, <1>5 DEF TypeOK

LEMMA PostType ==
  ASSUME TypeOK, NEW t \in Tasks, Post(t)
  PROVE  uiq' \in Seq(Message)
  <1>1. [op |-> "post", task |-> t] \in Message
    BY DEF Message
  <1> QED BY <1>1 DEF Post, TypeOK

LEMMA LogType ==
  ASSUME TypeOK, NEW t \in Tasks, NEW b \in [Tasks -> Seq(Chunk)],
         fnLogOutput(t, b)
  PROVE  logFile' \in LogOutput \cup {Null}
  BY DEF fnLogOutput, LogOutput, TypeOK

LEMMA BackgroundType ==
  ASSUME TypeInv, NEW t \in Tasks, Background(t)
  PROVE  TypeInv'
  <1> USE DEF TypeInv
  <1>1. /\ task[t] \in Task
        /\ g \in Globals
        /\ sys.out \in Tasks \cup {Null} /\ sys.err \in Tasks \cup {Null}
    BY DEF TypeOK
  <1>2. CASE SetOut(t)
    <2>1. [task[t] EXCEPT !.pc = "half", !.swos = TRUE] \in Task
      BY <1>1 DEF Task
    <2>2. task' \in [Tasks -> Task] /\ \A u \in Tasks \ {t} : task'[u] = task[u]
      BY <1>2, <2>1 DEF SetOut, TypeOK
    <2>3. TypeOK'
      BY <1>2, <2>2 DEF SetOut, TypeOK
    <2>4. ClearHasTarget'
      BY <1>2, <2>2 DEF ClearHasTarget, Outstanding, SetOut, Tasks
    <2> QED BY <2>3, <2>4
  <1>3. CASE SetErr(t)
    <2>1. \A pc \in {"redirected", "running"} : [task[t] EXCEPT !.pc = pc] \in Task
      BY <1>1 DEF Task
    <2>2. task' \in [Tasks -> Task] /\ \A u \in Tasks \ {t} : task'[u] = task[u]
      BY <1>3, <2>1 DEF SetErr, Moves, TypeOK
    <2>3. TypeOK'
      BY <1>3, <2>2 DEF SetErr, TypeOK
    <2>4. ClearHasTarget'
      BY <1>3, <2>2 DEF ClearHasTarget, Outstanding, SetErr, Tasks
    <2> QED BY <2>3, <2>4
  <1>4. CASE SetupFails(t)
    BY <1>4, ProcessEndsType DEF SetupFails
  <1>5. CASE ScriptBegins(t)
    <2>1. /\ buf' \in [Tasks -> Seq(Chunk)]
          /\ task' \in [Tasks -> Task]
          /\ \A u \in Tasks \ {t} : task'[u] = task[u]
      BY <1>1, <1>5, WritesType DEF ScriptBegins
    <2>2. TypeOK'
      BY <1>5, <2>1 DEF ScriptBegins, TypeOK
    <2>3. ClearHasTarget'
      BY <1>5, <2>1 DEF ClearHasTarget, Outstanding, ScriptBegins, Tasks
    <2> QED BY <2>2, <2>3
  <1>6. CASE Prints(t)
    <2>1. /\ buf' \in [Tasks -> Seq(Chunk)]
          /\ task' \in [Tasks -> Task]
          /\ \A u \in Tasks \ {t} : task'[u] = task[u]
      BY <1>1, <1>6, WritesType DEF Prints
    <2>2. TypeOK'
      BY <1>6, <2>1 DEF Prints, TypeOK
    <2>3. ClearHasTarget'
      BY <1>6, <2>1 DEF ClearHasTarget, Outstanding, Prints, Tasks
    <2> QED BY <2>2, <2>3
  <1>7. CASE fnClear(t)
    <2>1. g.bshTask \in BshTasks
      BY <1>1, <1>7 DEF fnClear, ClearHasTarget, Outstanding, Globals
    <2>2. [op |-> "clear", task |-> g.bshTask] \in Message
      BY <2>1 DEF Message
    <2>3. [task[t] EXCEPT !.cleared = task[t].printed] \in Task
      BY <1>1 DEF Task
    <2>4. task' \in [Tasks -> Task] /\ \A u \in Tasks \ {t} : task'[u] = task[u]
      BY <1>7, <2>3 DEF fnClear, TypeOK
    <2>5. TypeOK'
      BY <1>7, <2>2, <2>4 DEF fnClear, TypeOK
    <2>6. ClearHasTarget'
      BY <1>7, <2>4 DEF ClearHasTarget, Outstanding, fnClear, Tasks
    <2> QED BY <2>5, <2>6
  <1>8. ASSUME NEW c \in Codes, AssignCode(t, c) PROVE TypeInv'
    <2>1. [task[t] EXCEPT !.assigned = c] \in Task
      BY <1>1 DEF Task
    <2>2. task' \in [Tasks -> Task] /\ \A u \in Tasks \ {t} : task'[u] = task[u]
      BY <1>8, <2>1 DEF AssignCode, TypeOK
    <2>3. g' \in Globals /\ g'.bshTask = g.bshTask
      BY <1>1, <1>8 DEF AssignCode, Globals
    <2>4. TypeOK'
      BY <1>8, <2>2, <2>3 DEF AssignCode, TypeOK
    <2>5. ClearHasTarget'
      BY <1>8, <2>2, <2>3 DEF ClearHasTarget, Outstanding, AssignCode, Tasks
    <2> QED BY <2>4, <2>5
  <1>9. CASE ScriptEnds(t)
    <2>1. /\ buf' \in [Tasks -> Seq(Chunk)]
          /\ task' \in [Tasks -> Task]
          /\ \A u \in Tasks \ {t} : task'[u] = task[u]
      BY <1>1, <1>9, WritesType DEF ScriptEnds
    <2>2. TypeOK'
      BY <1>9, <2>1, PostType DEF ScriptEnds, TypeOK
    <2>3. ClearHasTarget'
      BY <1>9, <2>1 DEF ClearHasTarget, Outstanding, ScriptEnds, Tasks
    <2> QED BY <2>2, <2>3
  <1>10. CASE ToolEnds(t)
    <2>1. [task[t] EXCEPT !.pc = "posted"] \in Task
      BY <1>1 DEF Task
    <2>2. task' \in [Tasks -> Task] /\ \A u \in Tasks \ {t} : task'[u] = task[u]
      BY <1>10, <2>1 DEF ToolEnds, Moves, TypeOK
    <2>3. uiq' \in Seq(Message) /\ logFile' \in LogOutput \cup {Null}
      BY <1>10, PostType, LogType DEF ToolEnds, TypeOK
    <2>4. TypeOK'
      BY <1>10, <2>2, <2>3 DEF ToolEnds, TypeOK
    <2>5. ClearHasTarget'
      BY <1>10, <2>2 DEF ClearHasTarget, Outstanding, ToolEnds, Tasks
    <2> QED BY <2>4, <2>5
  <1> QED BY <1>2, <1>3, <1>4, <1>5, <1>6, <1>7, <1>8, <1>9, <1>10 DEF Background

(* The steps of the UI thread for task t.                                  *)
LEMMA FinishedType ==
  ASSUME TypeInv, NEW t \in Tasks, Finished(t)
  PROVE  /\ task' \in [Tasks -> Task]
         /\ \A u \in Tasks \ {t} : task'[u] = task[u]
         /\ task'[t].pc = "done"
         /\ task'[t].swos = FALSE
         /\ task'[t].dialog = "closed"
  <1>1. task[t] \in Task
    BY DEF TypeInv, TypeOK
  <1>2. [task[t] EXCEPT !.pc = "done", !.swos = FALSE, !.dialog = "closed"] \in Task
    BY <1>1 DEF Task
  <1> QED BY <1>1, <1>2 DEF Finished, TypeInv, TypeOK, Task

LEMMA ConcludedType ==
  ASSUME TypeOK, NEW a \in Main, NEW v \in Seq(Chunk)
  PROVE  Concluded(a, v) \in Main
  <1>1. [a EXCEPT !.bsh = v] \in Main
    BY DEF Main
  <1>2. Result(v) \in ResultExtras
    BY DEF Result, ResultExtras, TypeOK, Globals
  <1>3. \A c \in {"auto", "no"} :
          [a EXCEPT !.bsh = v, !.result = Result(v), !.closing = c] \in Main
    BY <1>2 DEF Main
  <1> QED BY <1>1, <1>3 DEF Concluded

LEMMA HandleClearType ==
  ASSUME TypeInv, NEW t \in Tasks, HandleClear(t)
  PROVE  TypeInv'
  <1> USE DEF TypeInv
  <1>1. uiq' \in Seq(Message)
    BY ReceiveType DEF HandleClear, Receives
  <1>2. buf' \in [Tasks -> Seq(Chunk)]
    <2>1. <<>> \in Seq(Chunk)
      OBVIOUS
    <2> QED BY <2>1 DEF HandleClear, TypeOK
  <1>3. act' \in [Mains -> Main]
    <2>1. CASE act' = act
      BY <2>1 DEF TypeOK
    <2>2. CASE act' = [act EXCEPT ![g.main].bsh = <<>>]
      <3>1. ASSUME g.main \in Mains
            PROVE  [act[g.main] EXCEPT !.bsh = <<>>] \in Main
        <4>1. act[g.main] \in Main /\ <<>> \in Seq(Chunk)
          BY <3>1 DEF TypeOK
        <4> QED BY <4>1 DEF Main
      <3> QED BY <2>2, <3>1 DEF TypeOK
    <2> QED BY <2>1, <2>2 DEF HandleClear
  <1>4. TypeOK'
    BY <1>1, <1>2, <1>3 DEF HandleClear, TypeOK
  <1>5. ClearHasTarget'
    BY DEF HandleClear, ClearHasTarget, Outstanding
  <1> QED BY <1>4, <1>5

LEMMA PostLogType ==
  ASSUME TypeInv, PostedOnce, NEW t \in Tasks, PostLog(t)
  PROVE  TypeInv'
  <1> USE DEF TypeInv
  <1> DEFINE warn == g.logOutput /\ g.pw
             after == IF warn THEN Emit(sys.err, Warning) ELSE buf
  <1>1. Warning \in Chunk /\ sys.err \in Tasks \cup {Null}
    BY DEF Chunk, TypeOK
  <1>2. after \in [Tasks -> Seq(Chunk)]
    BY <1>1, EmitType DEF TypeOK
  <1>3. /\ uiq' \in Seq(Message)
        /\ buf' = after
        /\ fnLogOutput(t, after)
        /\ task' = [task EXCEPT ![t].pc = "logged", ![t].warned = warn]
    BY ReceiveType DEF PostLog, Receives
  <1>4. logFile' \in LogOutput \cup {Null}
    BY <1>2, <1>3, LogType
  <1>5. /\ task' \in [Tasks -> Task]
        /\ \A u \in Tasks \ {t} : task'[u] = task[u]
    <2>1. task[t] \in Task /\ warn \in BOOLEAN
      BY DEF TypeOK, Globals
    <2>2. [task[t] EXCEPT !.pc = "logged", !.warned = warn] \in Task
      BY <2>1 DEF Task
    <2>3. task' = [task EXCEPT ![t] = [task[t] EXCEPT !.pc = "logged",
                                                      !.warned = warn]]
      BY <1>3 DEF TypeOK
    <2> QED BY <2>2, <2>3 DEF TypeOK
  <1>6. TypeOK'
    BY <1>2, <1>3, <1>4, <1>5 DEF PostLog, TypeOK
  <1>7. ClearHasTarget'
    <2>1. uiq # <<>> /\ Head(uiq) = [op |-> "post", task |-> t]
      BY DEF PostLog, Receives
    <2>2. 1 \in 1..Len(uiq) /\ uiq[1] = [op |-> "post", task |-> t]
      BY <2>1 DEF TypeOK
    <2>3. Outstanding(t)
      BY <2>2 DEF PostedOnce, Outstanding
    <2> QED BY <1>5, <2>3 DEF PostLog, ClearHasTarget, Outstanding, Tasks
  <1> QED BY <1>6, <1>7

LEMMA PostShowType ==
  ASSUME TypeInv, NEW t \in Tasks, PostShow(t)
  PROVE  TypeInv'
  <1> USE DEF TypeInv
  <1>1. CASE DialogDetached(t)
    BY <1>1, ProcessEndsType DEF PostShow
  <1>2. CASE ~DialogDetached(t)
    <2>1. /\ ui' = Null /\ Finished(t)
          /\ act' = [act EXCEPT ![g.main] = Concluded(@, @.bsh \o buf[t])]
          /\ UNCHANGED <<alive, g, sys, uiq, buf, logFile, flg>>
      BY <1>2 DEF PostShow
    <2>2. /\ task' \in [Tasks -> Task]
          /\ \A u \in Tasks \ {t} : task'[u] = task[u]
          /\ task'[t].pc = "done"
      BY <2>1, FinishedType
    <2>3. act' \in [Mains -> Main]
      <3>1. ASSUME g.main \in Mains
            PROVE  Concluded(act[g.main], act[g.main].bsh \o buf[t]) \in Main
        <4>1. act[g.main] \in Main /\ buf[t] \in Seq(Chunk)
          BY <3>1 DEF TypeOK
        <4>2. act[g.main].bsh \o buf[t] \in Seq(Chunk)
          BY <4>1 DEF Main
        <4> QED BY <4>1, <4>2, ConcludedType
      <3> QED BY <2>1, <3>1 DEF TypeOK
    <2>4. TypeOK'
      BY <2>1, <2>2, <2>3 DEF TypeOK
    <2>5. ClearHasTarget'
      BY <2>1, <2>2 DEF ClearHasTarget, Outstanding, Tasks
    <2> QED BY <2>4, <2>5
  <1> QED BY <1>1, <1>2

LEMMA PostToolType ==
  ASSUME TypeInv, NEW t \in Tasks, PostTool(t)
  PROVE  TypeInv'
  <1> USE DEF TypeInv
  <1>1. CASE DialogDetached(t)
    BY <1>1, ProcessEndsType DEF PostTool
  <1>2. CASE ~DialogDetached(t)
    <2>1. /\ Finished(t)
          /\ uiq # <<>> /\ uiq' = Tail(uiq)
          /\ act' = IF act[g.main].life = "gone" THEN act
                    ELSE [act EXCEPT ![g.main].tools = @ \o buf[t]]
          /\ UNCHANGED <<alive, ui, g, sys, buf, logFile, flg>>
      BY <1>2 DEF PostTool
    <2>2. /\ task' \in [Tasks -> Task]
          /\ \A u \in Tasks \ {t} : task'[u] = task[u]
          /\ task'[t].pc = "done"
      BY <2>1, FinishedType
    <2>3. act' \in [Mains -> Main]
      <3>1. ASSUME g.main \in Mains
            PROVE  [act[g.main] EXCEPT !.tools = @ \o buf[t]] \in Main
        <4>1. act[g.main] \in Main /\ buf[t] \in Seq(Chunk)
          BY <3>1 DEF TypeOK
        <4>2. act[g.main].tools \o buf[t] \in Seq(Chunk)
          BY <4>1 DEF Main
        <4> QED BY <4>1, <4>2 DEF Main
      <3>2. CASE act' = act
        BY <3>2 DEF TypeOK
      <3>3. CASE act' = [act EXCEPT ![g.main].tools = @ \o buf[t]]
        BY <3>1, <3>3 DEF TypeOK
      <3> QED BY <2>1, <3>2, <3>3
    <2>4. uiq' \in Seq(Message)
      BY <2>1, ReceiveType
    <2>5. TypeOK'
      BY <2>1, <2>2, <2>3, <2>4 DEF TypeOK
    <2>6. ClearHasTarget'
      BY <2>1, <2>2 DEF ClearHasTarget, Outstanding, Tasks
    <2> QED BY <2>5, <2>6
  <1> QED BY <1>1, <1>2

LEMMA NextType ==
  ASSUME TypeInv, PostedOnce, [Next]_vars
  PROVE  TypeInv'
  <1>1. CASE Lifecycle
    BY <1>1, LaunchType, RecreateType, onResumeType, onPauseType, onDestroyType,
       KillType DEF Lifecycle
  <1>2. CASE User
    BY <1>2, UserType
  <1>3. ASSUME NEW t \in Tasks, Background(t) PROVE TypeInv'
    BY <1>3, BackgroundType
  <1>4. ASSUME NEW t \in Tasks, UiThread(t) PROVE TypeInv'
    BY <1>4, HandleClearType, PostLogType, PostShowType, PostToolType DEF UiThread
  <1>5. CASE UNCHANGED vars
    BY <1>5 DEF TypeInv, TypeOK, ClearHasTarget, Outstanding, vars
  <1> QED BY <1>1, <1>2, <1>3, <1>4, <1>5 DEF Next

(***************************************************************************)
(* A task announces its end once.                                          *)
(***************************************************************************)

(* A step keeps the announcements that wait if it keeps the queue and      *)
(* moves no task that has posted.                                          *)
LEMMA PostedKept ==
  ASSUME TypeInv, PostedOnce, uiq' = uiq,
         \A u \in Tasks : task[u].pc = "posted" => task'[u].pc = "posted"
  PROVE  PostedOnce'
  <1>1. \A i \in 1..Len(uiq) : uiq[i].task \in Tasks
    BY DEF TypeInv, TypeOK, Message, Tasks
  <1> QED BY <1>1 DEF PostedOnce

(* So does one that adds a CLEAR, or the announcement of a task that has   *)
(* not posted.                                                             *)
LEMMA PostedAdded ==
  ASSUME TypeInv, PostedOnce, NEW msg \in Message, uiq' = Append(uiq, msg),
         \A u \in Tasks : task[u].pc = "posted" => task'[u].pc = "posted",
         msg.op = "post" => /\ task[msg.task].pc # "posted"
                            /\ task'[msg.task].pc = "posted"
  PROVE  PostedOnce'
  <1>1. uiq \in Seq(Message)
    BY DEF TypeInv, TypeOK
  <1>2. /\ Len(uiq') = Len(uiq) + 1
        /\ \A i \in 1..Len(uiq) : uiq'[i] = uiq[i]
        /\ uiq'[Len(uiq) + 1] = msg
    BY <1>1
  <1>3. \A i \in 1..Len(uiq) : uiq[i] \in Message /\ uiq[i].task \in Tasks
    BY <1>1 DEF Message, Tasks
  <1>4. ASSUME NEW i \in 1..Len(uiq'), uiq'[i].op = "post"
        PROVE  /\ task'[uiq'[i].task].pc = "posted"
               /\ \A j \in 1..Len(uiq') : uiq'[j] = uiq'[i] => j = i
    <2>1. CASE i \in 1..Len(uiq)
      <3>1. task[uiq[i].task].pc = "posted"
        BY <1>2, <1>4, <2>1 DEF PostedOnce
      <3>2. msg # uiq[i]
        BY <1>2, <1>4, <2>1, <3>1
      <3> QED BY <1>1, <1>2, <1>3, <1>4, <2>1, <3>1, <3>2 DEF PostedOnce
    <2>2. CASE i = Len(uiq) + 1
      <3>1. \A j \in 1..Len(uiq) : uiq[j] # msg
        BY <1>2, <1>4, <2>2 DEF PostedOnce
      <3> QED BY <1>1, <1>2, <1>4, <2>2, <3>1
    <2> QED BY <1>1, <1>2, <2>1, <2>2
  <1> QED BY <1>4 DEF PostedOnce

(* And one that takes a message and moves no task but the one announced.   *)
LEMMA PostedTaken ==
  ASSUME TypeInv, PostedOnce, uiq # <<>>, uiq' = Tail(uiq),
         \A u \in Tasks : task[u].pc = "posted" =>
            \/ task'[u].pc = "posted"
            \/ Head(uiq) = [op |-> "post", task |-> u]
  PROVE  PostedOnce'
  <1>1. uiq \in Seq(Message)
    BY DEF TypeInv, TypeOK
  <1>2. /\ Len(uiq') = Len(uiq) - 1
        /\ \A i \in 1..Len(uiq') : i + 1 \in 1..Len(uiq) /\ uiq'[i] = uiq[i + 1]
        /\ 1 \in 1..Len(uiq) /\ Head(uiq) = uiq[1]
    BY <1>1
  <1>3. \A i \in 1..Len(uiq) : uiq[i] \in Message /\ uiq[i].task \in Tasks
    BY <1>1 DEF Message, Tasks
  <1>4. ASSUME NEW i \in 1..Len(uiq'), uiq'[i].op = "post"
        PROVE  /\ task'[uiq'[i].task].pc = "posted"
               /\ \A j \in 1..Len(uiq') : uiq'[j] = uiq'[i] => j = i
    <2>1. /\ task[uiq[i + 1].task].pc = "posted"
          /\ \A j \in 1..Len(uiq) : uiq[j] = uiq[i + 1] => j = i + 1
      BY <1>2, <1>4 DEF PostedOnce
    <2>2. uiq[i + 1] = [op |-> "post", task |-> uiq[i + 1].task]
      BY <1>2, <1>3, <1>4 DEF Message
    <2>3. Head(uiq) # uiq[i + 1]
      BY <1>1, <1>2, <2>1
    <2> QED BY <1>1, <1>2, <1>3, <2>1, <2>2, <2>3
  <1> QED BY <1>4 DEF PostedOnce

LEMMA ProcessEndsPosted == ProcessEnds => PostedOnce'
  BY DEF ProcessEnds, PostedOnce

(* Starting a task moves no task that has posted.                          *)
LEMMA StartedPosted ==
  ASSUME TypeOK, NEW t \in Tasks, task[t].pc = "idle", NEW m, NEW current,
         task' = Started(t, m, current)
  PROVE  \A u \in Tasks : task[u].pc = "posted" => task'[u].pc = "posted"
  BY StartedOthers

LEMMA LifecyclePosted ==
  ASSUME TypeInv, PostedOnce, Lifecycle
  PROVE  PostedOnce'
  <1> USE DEF TypeInv
  <1>1. ASSUME NEW m \in Mains, NEW i, onCreate(m, i) PROVE PostedOnce'
    <2>1. \A u \in Tasks : task'[u].pc = task[u].pc
      BY <1>1, DisturbedFields DEF onCreate
    <2> QED BY <1>1, <2>1, PostedKept DEF onCreate
  <1>2. ASSUME NEW m \in Mains, onResume(m) PROVE PostedOnce'
    <2>1. CASE UNCHANGED task
      BY <1>2, <2>1, PostedKept DEF onResume
    <2>2. CASE \E t \in BshTasks : /\ task[t].pc = "idle"
                                   /\ task' = Started(t, m, InFront(m).current)
      BY <1>2, <2>2, StartedPosted, PostedKept DEF onResume, Tasks
    <2> QED BY <1>2, <2>1, <2>2 DEF onResume
  <1>3. ASSUME NEW m \in Mains, onPause(m) \/ onDestroy(m) PROVE PostedOnce'
    BY <1>3, PostedKept DEF onPause, onDestroy
  <1>4. CASE Kill
    BY <1>4, ProcessEndsPosted DEF Kill
  <1> QED BY <1>1, <1>2, <1>3, <1>4 DEF Lifecycle, Launch, Recreate

LEMMA UserPosted ==
  ASSUME TypeInv, PostedOnce, User
  PROVE  PostedOnce'
  <1> USE DEF TypeInv
  <1>1. ASSUME NEW m \in Mains,
               \/ onOptionsItemSelected_Exit(m)
               \/ Page_onResume(m)
               \/ onActivityResult_Settings(m)
               \/ PasswordActivity_onPause(m)
        PROVE  PostedOnce'
    BY <1>1, PostedKept DEF onOptionsItemSelected_Exit, Page_onResume,
       onActivityResult_Settings, PasswordActivity_onPause
  <1>2. ASSUME NEW m \in Mains, NEW t \in BshTasks, tabBeanshell_btnRun(m, t)
        PROVE  PostedOnce'
    BY <1>2, StartedPosted, PostedKept DEF tabBeanshell_btnRun, Tasks
  <1>3. ASSUME NEW m \in Mains, NEW t \in ToolTasks, tabTools_btnRun(m, t)
        PROVE  PostedOnce'
    BY <1>3, StartedPosted, PostedKept DEF tabTools_btnRun, Tasks
  <1>4. ASSUME NEW t \in Tasks, CancelDialog(t) PROVE PostedOnce'
    <2>1. \A u \in Tasks : task'[u].pc = task[u].pc
      BY <1>4 DEF CancelDialog, TypeOK, Task
    <2> QED BY <1>4, <2>1, PostedKept DEF CancelDialog
  <1> QED BY <1>1, <1>2, <1>3, <1>4 DEF User

LEMMA BackgroundPosted ==
  ASSUME TypeInv, PostedOnce, NEW t \in Tasks, Background(t)
  PROVE  PostedOnce'
  <1> USE DEF TypeInv
  <1>1. CASE SetOut(t) \/ SetErr(t) \/ ScriptBegins(t) \/ Prints(t)
             \/ \E c \in Codes : AssignCode(t, c)
    <2>1. uiq' = uiq /\ task[t].pc # "posted"
      BY <1>1 DEF SetOut, SetErr, ScriptBegins, Prints, AssignCode
    <2>2. \A u \in Tasks \ {t} : task'[u] = task[u]
      BY <1>1 DEF SetOut, SetErr, ScriptBegins, Prints, AssignCode, Moves,
                  Writes, TypeOK
    <2> QED BY <2>1, <2>2, PostedKept
  <1>2. CASE SetupFails(t)
    BY <1>2, ProcessEndsPosted DEF SetupFails
  <1>3. CASE fnClear(t)
    <2>1. g.bshTask \in BshTasks
      BY <1>3 DEF fnClear, ClearHasTarget, Outstanding, Globals, TypeOK
    <2>2. [op |-> "clear", task |-> g.bshTask] \in Message
      BY <2>1 DEF Message
    <2>3. \A u \in Tasks : task[u].pc = "posted" => task'[u].pc = "posted"
      BY <1>3 DEF fnClear, TypeOK
    <2> QED BY <1>3, <2>2, <2>3, PostedAdded DEF fnClear
  <1>4. CASE ScriptEnds(t) \/ ToolEnds(t)
    <2>1. /\ uiq' = Append(uiq, [op |-> "post", task |-> t])
          /\ task[t].pc = "running"
      BY <1>4 DEF ScriptEnds, ToolEnds, Post
    <2>2. task[t] \in Task
      BY DEF TypeOK
    <2>3. /\ \A u \in Tasks \ {t} : task'[u] = task[u]
          /\ task'[t].pc = "posted"
      BY <1>4, <2>2 DEF ScriptEnds, ToolEnds, Writes, Moves, TypeOK, Task
    <2>4. [op |-> "post", task |-> t] \in Message
      BY DEF Message
    <2> QED BY <2>1, <2>3, <2>4, PostedAdded
  <1> QED BY <1>1, <1>2, <1>3, <1>4 DEF Background

LEMMA UiThreadPosted ==
  ASSUME TypeInv, PostedOnce, NEW t \in Tasks, UiThread(t)
  PROVE  PostedOnce'
  <1> USE DEF TypeInv
  <1>1. CASE HandleClear(t)
    BY <1>1, PostedTaken DEF HandleClear, Receives
  <1>2. CASE PostLog(t)
    <2>1. \A u \in Tasks \ {t} : task'[u] = task[u]
      BY <1>2 DEF PostLog, TypeOK
    <2> QED BY <1>2, <2>1, PostedTaken DEF PostLog, Receives
  <1>3. CASE PostShow(t)
    <2>1. CASE DialogDetached(t)
      BY <1>3, <2>1, ProcessEndsPosted DEF PostShow
    <2>2. CASE ~DialogDetached(t)
      <3>1. /\ uiq' = uiq /\ Finished(t)
            /\ task[t].pc # "posted"
        BY <1>3, <2>2 DEF PostShow
      <3>2. \A u \in Tasks \ {t} : task'[u] = task[u]
        BY <3>1, FinishedType
      <3> QED BY <3>1, <3>2, PostedKept
    <2> QED BY <2>1, <2>2
  <1>4. CASE PostTool(t)
    <2>1. CASE DialogDetached(t)
      BY <1>4, <2>1, ProcessEndsPosted DEF PostTool
    <2>2. CASE ~DialogDetached(t)
      <3>1. /\ uiq # <<>> /\ uiq' = Tail(uiq) /\ Finished(t)
            /\ Head(uiq) = [op |-> "post", task |-> t]
        BY <1>4, <2>2 DEF PostTool
      <3>2. \A u \in Tasks \ {t} : task'[u] = task[u]
        BY <3>1, FinishedType
      <3> QED BY <3>1, <3>2, PostedTaken
    <2> QED BY <2>1, <2>2
  <1> QED BY <1>1, <1>2, <1>3, <1>4 DEF UiThread

LEMMA NextPosted ==
  ASSUME TypeInv, PostedOnce, [Next]_vars
  PROVE  PostedOnce'
  <1>1. CASE UNCHANGED vars
    BY <1>1, PostedKept DEF vars
  <1> QED BY <1>1, LifecyclePosted, UserPosted, BackgroundPosted, UiThreadPosted
          DEF Next

(***************************************************************************)
(* The state of the application keeps its types, a task announces its end  *)
(* to the UI thread once, and fnClear() always has a target: for any       *)
(* number of instances and tasks and any behaviour of Android.             *)
(***************************************************************************)
THEOREM TypeCorrect == Spec => [](TypeOK /\ PostedOnce /\ ClearHasTarget)
  <1>1. Init => TypeInv /\ PostedOnce
    <2>1. Init => PostedOnce
      BY DEF Init, PostedOnce
    <2> QED BY <2>1, InitType
  <1>2. TypeInv /\ PostedOnce /\ [Next]_vars => (TypeInv /\ PostedOnce)'
    BY NextType, NextPosted
  <1>3. TypeInv /\ PostedOnce => TypeOK /\ PostedOnce /\ ClearHasTarget
    BY DEF TypeInv
  <1> QED BY <1>1, <1>2, <1>3, PTL DEF Spec

(***************************************************************************)
(* What most steps leave alone.                                            *)
(***************************************************************************)

(* A step that neither creates, resumes, pauses nor destroys an instance,  *)
(* nor changes which instance and which flags class G refers to.           *)
Calm ==
  /\ \A m \in Mains : /\ act'[m].life = act[m].life
                      /\ act'[m].intent = act[m].intent
                      /\ act'[m].runs = act[m].runs
  /\ g'.main = g.main
  /\ g'.autoRun = g.autoRun
  /\ g'.autoExit = g.autoExit
  /\ g'.wantText = g.wantText
  /\ flg' = flg
  /\ ui' = ui \/ (ui \notin Mains /\ ui' \notin Mains)
  /\ g'.current = g.current \/ (NoneResumed /\ ui = Null)

LEMMA UserCalm == TypeInv /\ User => Calm
  <1> SUFFICES ASSUME TypeInv, User PROVE Calm
    OBVIOUS
  <1> USE DEF TypeInv
  <1>1. g \in Globals /\ \A m \in Mains : act[m] \in Main
    BY DEF TypeOK
  <1>2. ASSUME NEW m \in Mains, onOptionsItemSelected_Exit(m) PROVE Calm
    BY <1>1, <1>2 DEF onOptionsItemSelected_Exit, Calm, Main, TypeOK
  <1>3. ASSUME NEW m \in Mains, Page_onResume(m) PROVE Calm
    BY <1>1, <1>3 DEF Page_onResume, UiFree, Calm, Globals
  <1>4. ASSUME NEW m \in Mains, onActivityResult_Settings(m) PROVE Calm
    <2>1. PICK b \in Logging : g' = [g EXCEPT !.current = m, !.logOutput = b]
      BY <1>4 DEF onActivityResult_Settings
    <2> QED BY <1>1, <1>4, <2>1
            DEF onActivityResult_Settings, UiFree, Calm, Globals
  <1>5. ASSUME NEW m \in Mains, PasswordActivity_onPause(m) PROVE Calm
    <2>1. PICK b \in Passwords : g' = [g EXCEPT !.pw = b]
      BY <1>5 DEF PasswordActivity_onPause
    <2> QED BY <1>1, <1>5, <2>1 DEF PasswordActivity_onPause, Calm, Globals
  <1>6. ASSUME NEW m \in Mains, NEW t \in BshTasks, tabBeanshell_btnRun(m, t)
        PROVE  Calm
    BY <1>1, <1>6 DEF tabBeanshell_btnRun, BshCleared, Calm, Globals, Main, TypeOK
  <1>7. ASSUME NEW m \in Mains, NEW t \in ToolTasks, tabTools_btnRun(m, t)
        PROVE  Calm
    BY <1>1, <1>7 DEF tabTools_btnRun, Calm, Main, TypeOK
  <1>8. ASSUME NEW t \in Tasks, CancelDialog(t) PROVE Calm
    BY <1>8 DEF CancelDialog, Calm
  <1> QED BY <1>2, <1>3, <1>4, <1>5, <1>6, <1>7, <1>8 DEF User

LEMMA BackgroundCalm ==
  ASSUME TypeInv, NEW t \in Tasks, Background(t)
  PROVE  Calm \/ (ProcessEnds /\ UNCHANGED flg)
  <1> USE DEF TypeInv
  <1>1. ASSUME NEW c \in Codes, AssignCode(t, c) PROVE Calm
    BY <1>1 DEF AssignCode, Calm, TypeOK, Globals
  <1>2. CASE SetupFails(t)
    BY <1>2 DEF SetupFails
  <1>3. CASE SetOut(t) \/ SetErr(t) \/ ScriptBegins(t) \/ Prints(t) \/ fnClear(t)
             \/ ScriptEnds(t) \/ ToolEnds(t)
    <2>1. UNCHANGED <<ui, act, g, flg>>
      BY <1>3 DEF SetOut, SetErr, ScriptBegins, Prints, fnClear, ScriptEnds,
                  ToolEnds
    <2> QED BY <2>1 DEF Calm
  <1> QED BY <1>1, <1>2, <1>3 DEF Background

LEMMA UiThreadCalm ==
  ASSUME TypeInv, NEW t \in Tasks, UiThread(t)
  PROVE  Calm \/ (ProcessEnds /\ UNCHANGED flg)
  <1> USE DEF TypeInv
  <1>1. g \in Globals /\ \A m \in Mains : act[m] \in Main
    BY DEF TypeOK
  <1>2. CASE HandleClear(t)
    <2>1. \/ act' = act
          \/ act' = [act EXCEPT ![g.main].bsh = <<>>]
      BY <1>2 DEF HandleClear
    <2>2. \A m \in Mains : /\ act'[m].life = act[m].life
                           /\ act'[m].intent = act[m].intent
                           /\ act'[m].runs = act[m].runs
      <3>1. ASSUME NEW m \in Mains
            PROVE  \/ act'[m] = act[m]
                   \/ act'[m] = [act[m] EXCEPT !.bsh = <<>>]
        BY <2>1 DEF TypeOK
      <3> QED BY <1>1, <3>1 DEF Main
    <2> QED BY <1>2, <2>2 DEF HandleClear, Calm
  <1>3. CASE PostLog(t)
    BY <1>3, SessionAssumption DEF PostLog, Receives, UiFree, Calm, Tasks
  <1>4. CASE PostShow(t) /\ ~DialogDetached(t)
    <2>1. act' = [act EXCEPT ![g.main] = Concluded(@, @.bsh \o buf[t])]
      BY <1>4 DEF PostShow
    <2>2. \A m \in Mains : \A v :
             /\ Concluded(act[m], v).life = act[m].life
             /\ Concluded(act[m], v).intent = act[m].intent
             /\ Concluded(act[m], v).runs = act[m].runs
      BY <1>1 DEF Concluded, Main
    <2>3. \A m \in Mains : /\ act'[m].life = act[m].life
                           /\ act'[m].intent = act[m].intent
                           /\ act'[m].runs = act[m].runs
      BY <2>1, <2>2 DEF TypeOK
    <2> QED BY <1>4, <2>3, SessionAssumption DEF PostShow, Calm, Tasks
  <1>5. CASE PostTool(t) /\ ~DialogDetached(t)
    <2>1. \/ act' = act
          \/ act' = [act EXCEPT ![g.main].tools = @ \o buf[t]]
      BY <1>5 DEF PostTool
    <2>2. \A m \in Mains : /\ act'[m].life = act[m].life
                           /\ act'[m].intent = act[m].intent
                           /\ act'[m].runs = act[m].runs
      <3>1. ASSUME NEW m \in Mains
            PROVE  \/ act'[m] = act[m]
                   \/ act'[m] = [act[m] EXCEPT !.tools = act[m].tools \o buf[t]]
        BY <2>1 DEF TypeOK
      <3> QED BY <1>1, <3>1 DEF Main
    <2> QED BY <1>5, <2>2 DEF PostTool, Calm
  <1>6. CASE (PostShow(t) \/ PostTool(t)) /\ DialogDetached(t)
    BY <1>6 DEF PostShow, PostTool
  <1> QED BY <1>2, <1>3, <1>4, <1>5, <1>6 DEF UiThread

(* The kinds of steps the invariants below are kept by.                    *)
LEMMA StepKinds ==
  ASSUME TypeInv, [Next]_vars
  PROVE  \/ \E m \in Mains, i \in Intents : Launch(m, i)
         \/ \E old, m \in Mains : Recreate(old, m)
         \/ \E m \in Mains : onResume(m) \/ onPause(m) \/ onDestroy(m)
         \/ (ProcessEnds /\ UNCHANGED flg)
         \/ Calm
  <1>1. CASE UNCHANGED vars
    BY <1>1 DEF vars, Calm
  <1>2. CASE Kill
    BY <1>2 DEF Kill
  <1> QED BY <1>1, <1>2, UserCalm, BackgroundCalm, UiThreadCalm
          DEF Next, Lifecycle

(* Nobody is in front of, or in the making in, a process that has ended.   *)
LEMMA ProcessEndsLife ==
  ASSUME TypeInv, ProcessEnds
  PROVE  /\ ui' = Null
         /\ g' = NoGlobals
         /\ \A m \in Mains :
              /\ act'[m].intent = act[m].intent
              /\ act'[m].runs = act[m].runs
              /\ act'[m].life = CASE act[m].life = "unborn" -> "unborn"
                   [] act[m].life \in {"paused", "saved"}
                        /\ act[m].closing = "no" -> "saved"
                   [] OTHER -> "gone"
  <1>1. \A m \in Mains : act[m] \in Main
    BY DEF TypeInv, TypeOK
  <1> QED BY <1>1 DEF ProcessEnds, Destroyed, Main

LEMMA NextWindow ==
  ASSUME TypeInv, WindowInv, [Next]_vars
  PROVE  WindowInv'
  <1> USE DEF TypeInv
  <1>0. \A m \in Mains : act[m] \in Main
    BY DEF TypeOK
  <1>1. ASSUME NEW m \in Mains, NEW i \in Intents, Launch(m, i) PROVE WindowInv'
    <2>1. g'.current = Null
      BY <1>1 DEF Launch, onCreate
    <2>2. \A n \in Mains : act'[n].life # "resumed"
      BY <1>0, <1>1 DEF Launch, NoneResumed, NewMain, TypeOK
    <2> QED BY <2>1, <2>2 DEF WindowInv, DialogHasWindow
  <1>2. ASSUME NEW old \in Mains, NEW m \in Mains, Recreate(old, m)
        PROVE  WindowInv'
    <2>1. Destroyed(act[old]).life = "gone"
      BY <1>0 DEF Destroyed, Main
    <2>2. g'.current = Null
      BY <1>2 DEF Recreate, onCreate
    <2>3. \A n \in Mains : act'[n].life # "resumed"
      BY <1>0, <1>2, <2>1 DEF Recreate, NewMain, TypeOK
    <2> QED BY <2>2, <2>3 DEF WindowInv, DialogHasWindow
  <1>3. ASSUME NEW m \in Mains, onResume(m) PROVE WindowInv'
    <2>1. \A n \in Mains : act[n].life # "resumed"
      BY <1>3, SessionAssumption
      DEF onResume, NoneResumed, WindowInv, DialogHasWindow
    <2>2. g'.current = m
      BY <1>3 DEF onResume, InFront, AutoRuns, TypeOK, Globals
    <2>3. \A n \in Mains \ {m} : act'[n] = act[n]
      BY <1>3 DEF onResume, BshCleared, TypeOK
    <2>4. ui' \notin Mains
      BY <1>3, SessionAssumption DEF onResume
    <2> QED BY <2>1, <2>2, <2>3, <2>4 DEF WindowInv, DialogHasWindow
  <1>4. ASSUME NEW m \in Mains, onPause(m) PROVE WindowInv'
    <2>1. g'.current = g.current /\ ui' = ui
      BY <1>4 DEF onPause, TypeOK, Globals
    <2>2. \A n \in Mains : act'[n].life = "resumed" => act[n].life = "resumed"
      BY <1>0, <1>4 DEF onPause, TypeOK, Main
    <2> QED BY <2>1, <2>2 DEF WindowInv, DialogHasWindow
  <1>5. ASSUME NEW m \in Mains, onDestroy(m) PROVE WindowInv'
    <2>1. \A n \in Mains : act'[n].life = "resumed" => act[n].life = "resumed"
      BY <1>0, <1>5 DEF onDestroy, Destroyed, TypeOK, Main
    <2> QED BY <1>5, <2>1 DEF WindowInv, DialogHasWindow, onDestroy
  <1>6. CASE ProcessEnds
    BY <1>6, ProcessEndsLife, SessionAssumption DEF WindowInv, DialogHasWindow
  <1>7. CASE Calm
    BY <1>7, SessionAssumption DEF Calm, WindowInv, DialogHasWindow, NoneResumed
  <1> QED BY <1>1, <1>2, <1>3, <1>4, <1>5, <1>6, <1>7, StepKinds

(***************************************************************************)
(* Whatever the user does and however instances are stacked, re-created or *)
(* killed, an instance that is in front is the context of the next         *)
(* progress dialog.                                                        *)
(***************************************************************************)
THEOREM DialogAlwaysHasWindow == Spec => []DialogHasWindow
  <1> DEFINE Inv == TypeInv /\ PostedOnce /\ WindowInv
  <1>1. Init => Inv
    <2>1. Init => PostedOnce
      BY DEF Init, PostedOnce
    <2>2. Init => WindowInv
      BY SessionAssumption
      DEF Init, WindowInv, DialogHasWindow, NewMain, PlainIntent
    <2> QED BY <2>1, <2>2, InitType
  <1>2. Inv /\ [Next]_vars => Inv'
    BY NextType, NextPosted, NextWindow
  <1>3. Inv => DialogHasWindow
    BY DEF WindowInv
  <1> QED BY <1>1, <1>2, <1>3, PTL DEF Spec

(***************************************************************************)
(* A script runs by itself only where it was asked for, and once.          *)
(***************************************************************************)

LEMMA NextAutoRun ==
  ASSUME TypeInv, AutoRunInv, "nocard" \notin Platform, [Next]_vars
  PROVE  AutoRunInv'
  <1> USE DEF TypeInv
  <1>0. g \in Globals /\ \A m \in Mains : act[m] \in Main
    BY DEF TypeOK
  <1>1. ASSUME NEW m \in Mains, NEW i \in Intent, onCreate(m, i),
               act'[m] = NewMain(i),
               \A n \in Mains \ {m} : \/ act'[n] = act[n]
                                      \/ act'[n] = Destroyed(act[n])
        PROVE  AutoRunInv'
    <2>1. \A n \in Mains : /\ Destroyed(act[n]).life = "gone"
                           /\ Destroyed(act[n]).intent = act[n].intent
                           /\ Destroyed(act[n]).runs = act[n].runs
      BY <1>0 DEF Destroyed, Main
    <2>2. /\ ui' = m /\ ui = Null /\ flg' = flg
          /\ g'.main = m /\ g'.autoRun = i.autoRun
      BY <1>1 DEF onCreate
    <2>3. act'[m].life = "created" /\ act'[m].intent = i /\ act'[m].runs = 0
      BY <1>1 DEF NewMain
    <2>4. \A n \in Mains \ {m} :
             /\ act'[n].life \in {act[n].life, "gone"}
             /\ act'[n].intent = act[n].intent
             /\ act'[n].runs = act[n].runs
      BY <1>1, <2>1
    <2>5. \A n \in Mains : act[n].life # "created"
      BY <2>2, SessionAssumption DEF AutoRunInv
    <2> QED BY <2>2, <2>3, <2>4, <2>5 DEF AutoRunInv, AutoRunOnRequest
  <1>2. ASSUME NEW m \in Mains, NEW i \in Intents, Launch(m, i) PROVE AutoRunInv'
    <2>1. i \in Intent /\ onCreate(m, i)
      BY <1>2, SessionAssumption DEF Launch
    <2>2. act' = [act EXCEPT ![m] = NewMain(i)]
      BY <1>2 DEF Launch
    <2> QED BY <1>1, <2>1, <2>2 DEF TypeOK
  <1>3. ASSUME NEW old \in Mains, NEW m \in Mains, Recreate(old, m)
        PROVE  AutoRunInv'
    <2>1. act[old].intent \in Intent
      BY <1>0 DEF Main
    <2>2. act' = [act EXCEPT ![old] = Destroyed(@), ![m] = NewMain(act[old].intent)]
      BY <1>3 DEF Recreate
    <2>3. onCreate(m, act[old].intent)
      BY <1>3 DEF Recreate
    <2> QED BY <1>1, <2>1, <2>2, <2>3 DEF TypeOK
  <1>4. ASSUME NEW m \in Mains, onResume(m) PROVE AutoRunInv'
    <2>1. ui' = Null /\ Null \notin Mains /\ (ui \in Mains => ui = m)
      BY <1>4, SessionAssumption DEF onResume
    <2>2. InFront(m) \in Globals /\ InFront(m).main = g.main
                                 /\ InFront(m).autoRun = g.autoRun
      BY <1>0 DEF InFront, Globals
    <2>3. \A n \in Mains \ {m} : act'[n] = act[n]
      BY <1>4 DEF onResume, BshCleared, TypeOK
    <2>4. \A n \in Mains \ {m} : act[n].life # "created"
      BY <1>4, SessionAssumption DEF onResume, AutoRunInv
    <2>5. CASE ~flg
      <3>1. /\ ui = m /\ act[m].life = "created"
            /\ \A n \in Mains \ {m} : act[n].life \in {"unborn", "gone"}
        BY <1>4, <2>5, SessionAssumption DEF onResume, AutoRunInv
      <3>2. /\ flg' = TRUE
            /\ g' = InFront(m)
            /\ act' = [act EXCEPT ![m].life = "paused"]
        BY <1>4, <2>5 DEF onResume
      <3>3. /\ act'[m].life = "paused"
            /\ act'[m].intent = act[m].intent
            /\ act'[m].runs = act[m].runs
        BY <1>0, <3>2 DEF TypeOK, Main
      <3> QED BY <2>1, <2>2, <2>3, <2>4, <3>1, <3>2, <3>3
              DEF AutoRunInv, AutoRunOnRequest
    <2>6. CASE flg /\ ~g.autoRun
      <3>1. /\ flg' = flg
            /\ g' = InFront(m)
            /\ act' = [act EXCEPT ![m].life = "resumed"]
        BY <1>4, <2>6 DEF onResume
      <3>2. /\ act'[m].life = "resumed"
            /\ act'[m].intent = act[m].intent
            /\ act'[m].runs = act[m].runs
        BY <1>0, <3>1 DEF TypeOK, Main
      <3> QED BY <2>1, <2>2, <2>3, <2>4, <2>6, <3>1, <3>2
              DEF AutoRunInv, AutoRunOnRequest
    <2>7. CASE flg /\ g.autoRun
      <3>1. m = g.main
        BY <1>4, <2>1, <2>7, SessionAssumption DEF onResume, AutoRunInv
      <3>2. /\ flg' = flg
            /\ \E t \in BshTasks : g' = AutoRuns(m, t)
            /\ act' = [BshCleared(m) EXCEPT ![m].life = "resumed", ![m].runs = @ + 1]
        BY <1>4, <2>7 DEF onResume
      <3>3. ~g'.autoRun
        BY <2>2, <3>2 DEF AutoRuns, Globals
      <3>4. /\ act'[m].life = "resumed"
            /\ act'[m].intent = act[m].intent
            /\ act'[m].runs = act[m].runs + 1
        BY <1>0, <3>2 DEF BshCleared, TypeOK, Main
      <3>5. act'[m].runs = 1 /\ act[m].intent.autoRun
        BY <2>7, <3>1, <3>4 DEF AutoRunInv
      <3> QED BY <2>1, <2>3, <2>4, <2>7, <3>2, <3>3, <3>4, <3>5
              DEF AutoRunInv, AutoRunOnRequest
    <2> QED BY <2>5, <2>6, <2>7 DEF TypeOK
  <1>5. ASSUME NEW m \in Mains, onPause(m) \/ onDestroy(m) PROVE AutoRunInv'
    <2>1. /\ ui' = ui /\ flg' = flg /\ g'.main = g.main /\ g'.autoRun = g.autoRun
          /\ act[m].life \in {"resumed", "paused"} /\ ui = Null
      BY <1>0, <1>5 DEF onPause, onDestroy, UiFree, Globals
    <2>6. /\ \A n \in Mains \ {m} : act'[n] = act[n]
          /\ \/ act'[m] = [act[m] EXCEPT !.life = "paused"]
             \/ act'[m] = Destroyed(act[m])
      BY <1>5 DEF onPause, onDestroy, TypeOK
    <2>7. /\ act'[m].life \in {"paused", "gone"}
          /\ act'[m].intent = act[m].intent
          /\ act'[m].runs = act[m].runs
      BY <1>0, <2>6 DEF Destroyed, Main
    <2>2. \A n \in Mains : /\ act'[n].intent = act[n].intent
                           /\ act'[n].runs = act[n].runs
      BY <2>6, <2>7
    <2>3. /\ \A n \in Mains \ {m} : act'[n].life = act[n].life
          /\ act'[m].life \in {"paused", "gone"}
      BY <2>6, <2>7
    <2>4. flg
      BY <2>1, SessionAssumption DEF AutoRunInv
    <2>5. g.autoRun => m = g.main
      BY <2>1, SessionAssumption DEF AutoRunInv
    <2> QED BY <2>1, <2>2, <2>3, <2>4, <2>5, SessionAssumption
            DEF AutoRunInv, AutoRunOnRequest
  <1>6. CASE ProcessEnds /\ UNCHANGED flg
    <2>1. ~g'.autoRun
      BY <1>6, ProcessEndsLife DEF NoGlobals
    <2> QED BY <1>6, <2>1, ProcessEndsLife, SessionAssumption
            DEF AutoRunInv, AutoRunOnRequest
  <1>7. CASE Calm
    BY <1>7, SessionAssumption DEF Calm, AutoRunInv, AutoRunOnRequest
  <1> QED BY <1>2, <1>3, <1>4, <1>5, <1>6, <1>7, StepKinds

(***************************************************************************)
(* As long as the flag file can be written, the static request to run a    *)
(* script is taken by the instance it was made for, and once, although     *)
(* every instance that resumes looks at it.                                *)
(***************************************************************************)
THEOREM AutoRunsOnlyOnRequest ==
  ASSUME "nocard" \notin Platform
  PROVE  Spec => []AutoRunOnRequest
  <1> DEFINE Inv == TypeInv /\ PostedOnce /\ AutoRunInv
  <1>1. Init => Inv
    <2>1. Init => PostedOnce
      BY DEF Init, PostedOnce
    <2>2. Init => AutoRunInv
      BY SessionAssumption
      DEF Init, AutoRunInv, AutoRunOnRequest, NewMain, PlainIntent, NoGlobals
    <2> QED BY <2>1, <2>2, InitType
  <1>2. Inv /\ [Next]_vars => Inv'
    BY NextType, NextPosted, NextAutoRun
  <1>3. Inv => AutoRunOnRequest
    BY DEF AutoRunInv
  <1> QED BY <1>1, <1>2, <1>3, PTL DEF Spec

(***************************************************************************)
(* An instance is closed for its own caller, and with a result.            *)
(***************************************************************************)

(* A step that keeps the intents, the results and who called finish().     *)
SameResults ==
  /\ \A m \in Mains : /\ act'[m].intent = act[m].intent
                      /\ act'[m].result = act[m].result
                      /\ act'[m].closing = act[m].closing
  /\ g'.main = g.main
  /\ g'.autoExit = g.autoExit
  /\ g'.wantText = g.wantText

LEMMA SameResultsKeep ==
  ASSUME TypeInv, AutoExitInv, SameResults
  PROVE  AutoExitInv'
  <1>1. g.main # Null => g.main \in Mains
    BY DEF TypeInv, TypeOK, Globals
  <1> QED BY <1>1 DEF SameResults, AutoExitInv, AutoExitServesItsCaller

LEMMA ProcessEndsAutoExit ==
  ASSUME TypeInv, AutoExitInv, ProcessEnds
  PROVE  AutoExitInv'
  <1>1. \A m \in Mains : act[m] \in Main
    BY DEF TypeInv, TypeOK
  <1>2. \A m \in Mains : /\ act'[m].intent = act[m].intent
                         /\ act'[m].result = act[m].result
                         /\ act'[m].closing = act[m].closing
    BY <1>1 DEF ProcessEnds, Destroyed, Main
  <1>3. g'.main = Null
    BY DEF ProcessEnds, NoGlobals
  <1> QED BY <1>2, <1>3 DEF AutoExitInv, AutoExitServesItsCaller

LEMMA LifecycleAutoExit ==
  ASSUME TypeInv, AutoExitInv, Lifecycle
  PROVE  AutoExitInv'
  <1> USE DEF TypeInv
  <1>1. g \in Globals /\ \A m \in Mains : act[m] \in Main
    BY DEF TypeOK
  <1>2. \A m \in Mains : /\ Destroyed(act[m]).intent = act[m].intent
                         /\ Destroyed(act[m]).result = act[m].result
                         /\ Destroyed(act[m]).closing = act[m].closing
    BY <1>1 DEF Destroyed, Main
  <1>3. ASSUME NEW m \in Mains, NEW i \in Intent, onCreate(m, i),
               act'[m] = NewMain(i),
               \A n \in Mains \ {m} : \/ act'[n] = act[n]
                                      \/ act'[n] = Destroyed(act[n])
        PROVE  AutoExitInv'
    <2>1. /\ g'.main = m
          /\ g'.autoExit = i.autoExit
          /\ g'.wantText = i.wantText
      BY <1>3 DEF onCreate
    <2>2. /\ act'[m].intent = i
          /\ act'[m].result = Null
          /\ act'[m].closing = "no"
      BY <1>3 DEF NewMain
    <2>3. \A n \in Mains \ {m} : /\ act'[n].intent = act[n].intent
                                 /\ act'[n].result = act[n].result
                                 /\ act'[n].closing = act[n].closing
      BY <1>2, <1>3
    <2> QED BY <2>1, <2>2, <2>3 DEF AutoExitInv, AutoExitServesItsCaller
  <1>4. ASSUME NEW m \in Mains, NEW i \in Intents, Launch(m, i) PROVE AutoExitInv'
    <2>1. i \in Intent /\ onCreate(m, i) /\ act' = [act EXCEPT ![m] = NewMain(i)]
      BY <1>4, SessionAssumption DEF Launch
    <2> QED BY <1>3, <2>1 DEF TypeOK
  <1>5. ASSUME NEW old \in Mains, NEW m \in Mains, Recreate(old, m)
        PROVE  AutoExitInv'
    <2>1. /\ act[old].intent \in Intent
          /\ onCreate(m, act[old].intent)
          /\ act' = [act EXCEPT ![old] = Destroyed(@), ![m] = NewMain(act[old].intent)]
      BY <1>1, <1>5 DEF Recreate, Main
    <2> QED BY <1>3, <2>1 DEF TypeOK
  <1>6. ASSUME NEW m \in Mains, onResume(m) PROVE AutoExitInv'
    <2>1. /\ InFront(m).main = g.main
          /\ InFront(m).autoExit = g.autoExit
          /\ InFront(m).wantText = g.wantText
          /\ \A t : /\ AutoRuns(m, t).main = g.main
                    /\ AutoRuns(m, t).autoExit = g.autoExit
                    /\ AutoRuns(m, t).wantText = g.wantText
      BY <1>1 DEF InFront, AutoRuns, Globals
    <2>2. g' = InFront(m) \/ \E t : g' = AutoRuns(m, t)
      BY <1>6 DEF onResume
    <2>3. /\ \A n \in Mains \ {m} : act'[n] = act[n]
          /\ \/ act'[m] = [act[m] EXCEPT !.life = "paused"]
             \/ act'[m] = [act[m] EXCEPT !.life = "resumed"]
             \/ act'[m] = [act[m] EXCEPT !.bsh = <<>>, !.life = "resumed",
                                         !.runs = act[m].runs + 1]
      BY <1>1, <1>6 DEF onResume, BshCleared, TypeOK, Main
    <2>4. /\ act'[m].intent = act[m].intent
          /\ act'[m].result = act[m].result
          /\ act'[m].closing = act[m].closing
      BY <1>1, <2>3 DEF Main
    <2> QED BY <2>1, <2>2, <2>3, <2>4, SameResultsKeep DEF SameResults
  <1>7. ASSUME NEW m \in Mains, onPause(m) \/ onDestroy(m) PROVE AutoExitInv'
    <2>1. /\ \A n \in Mains \ {m} : act'[n] = act[n]
          /\ \/ act'[m] = [act[m] EXCEPT !.life = "paused"]
             \/ act'[m] = Destroyed(act[m])
      BY <1>7 DEF onPause, onDestroy, TypeOK
    <2>2. /\ act'[m].intent = act[m].intent
          /\ act'[m].result = act[m].result
          /\ act'[m].closing = act[m].closing
      BY <1>1, <1>2, <2>1 DEF Main
    <2>3. /\ g'.main = g.main
          /\ g'.autoExit = g.autoExit
          /\ g'.wantText = g.wantText
      BY <1>1, <1>7 DEF onPause, onDestroy, Globals
    <2> QED BY <2>1, <2>2, <2>3, SameResultsKeep DEF SameResults
  <1>8. CASE Kill
    BY <1>8, ProcessEndsAutoExit DEF Kill
  <1> QED BY <1>4, <1>5, <1>6, <1>7, <1>8 DEF Lifecycle

LEMMA UserAutoExit ==
  ASSUME TypeInv, AutoExitInv, User
  PROVE  AutoExitInv'
  <1> USE DEF TypeInv
  <1>1. g \in Globals /\ \A m \in Mains : act[m] \in Main
    BY DEF TypeOK
  <1>2. /\ g'.main = g.main
        /\ g'.autoExit = g.autoExit
        /\ g'.wantText = g.wantText
    BY UserCalm DEF Calm
  <1>3. ASSUME NEW m \in Mains, onOptionsItemSelected_Exit(m)
        PROVE  AutoExitInv'
    <2>1. /\ \A n \in Mains \ {m} : act'[n] = act[n]
          /\ act'[m].intent = act[m].intent
          /\ act'[m].result = act[m].result
          /\ act'[m].closing = "menu"
      BY <1>1, <1>3 DEF onOptionsItemSelected_Exit, TypeOK, Main
    <2>2. g.main # Null => g.main \in Mains
      BY <1>1 DEF Globals
    <2> QED BY <1>2, <2>1, <2>2 DEF AutoExitInv, AutoExitServesItsCaller
  <1>4. ASSUME NEW m \in Mains, NEW t \in BshTasks, tabBeanshell_btnRun(m, t)
        PROVE  AutoExitInv'
    <2>1. /\ \A n \in Mains \ {m} : act'[n] = act[n]
          /\ act'[m] = [act[m] EXCEPT !.bsh = <<>>]
      BY <1>4 DEF tabBeanshell_btnRun, BshCleared, TypeOK
    <2> QED BY <1>1, <1>2, <2>1, SameResultsKeep DEF SameResults, Main
  <1>5. ASSUME NEW m \in Mains, NEW t \in ToolTasks, tabTools_btnRun(m, t)
        PROVE  AutoExitInv'
    <2>1. /\ \A n \in Mains \ {m} : act'[n] = act[n]
          /\ act'[m] = [act[m] EXCEPT !.tools = <<>>]
      BY <1>5 DEF tabTools_btnRun, TypeOK
    <2> QED BY <1>1, <1>2, <2>1, SameResultsKeep DEF SameResults, Main
  <1>6. CASE UNCHANGED act
    BY <1>2, <1>6, SameResultsKeep DEF SameResults
  <1> QED BY <1>3, <1>4, <1>5, <1>6 DEF User, Page_onResume, CancelDialog,
          onActivityResult_Settings, PasswordActivity_onPause

LEMMA BackgroundAutoExit ==
  ASSUME TypeInv, AutoExitInv, NEW t \in Tasks, Background(t)
  PROVE  AutoExitInv'
  <1>1. CASE SetupFails(t)
    BY <1>1, ProcessEndsAutoExit DEF SetupFails
  <1>2. ASSUME NEW c \in Codes, AssignCode(t, c) PROVE AutoExitInv'
    <2>1. SameResults
      BY <1>2 DEF AssignCode, SameResults, TypeInv, TypeOK, Globals
    <2> QED BY <2>1, SameResultsKeep
  <1>3. CASE UNCHANGED <<act, g>>
    BY <1>3, SameResultsKeep DEF SameResults
  <1> QED BY <1>1, <1>2, <1>3 DEF Background, SetOut, SetErr, ScriptBegins,
          Prints, fnClear, ScriptEnds, ToolEnds

LEMMA UiThreadAutoExit ==
  ASSUME TypeInv, AutoExitInv, NEW t \in Tasks, UiThread(t)
  PROVE  AutoExitInv'
  <1> USE DEF TypeInv
  <1>1. g \in Globals /\ \A m \in Mains : act[m] \in Main
    BY DEF TypeOK
  <1>2. CASE HandleClear(t)
    <2>1. /\ \A n \in Mains : \/ act'[n] = act[n]
                              \/ act'[n] = [act[n] EXCEPT !.bsh = <<>>]
          /\ g' = g
      BY <1>2 DEF HandleClear, TypeOK
    <2> QED BY <1>1, <2>1, SameResultsKeep DEF SameResults, Main
  <1>3. CASE PostLog(t)
    BY <1>3, SameResultsKeep DEF PostLog, SameResults
  <1>4. CASE PostShow(t) /\ ~DialogDetached(t)
    <2> DEFINE a == act[g.main]
               v == a.bsh \o buf[t]
    <2>1. act' = [act EXCEPT ![g.main] = Concluded(a, v)] /\ g' = g
      BY <1>4 DEF PostShow, TypeOK
    <2>2. CASE g.main \notin Mains
      BY <2>1, <2>2, SameResultsKeep DEF SameResults, TypeOK
    <2>3. CASE g.main \in Mains
      <3>1. a \in Main /\ v \in Seq(Chunk) /\ v # Null
        <4>1. a \in Main /\ buf[t] \in Seq(Chunk)
          BY <2>3 DEF TypeOK
        <4>2. v \in Seq(Chunk)
          BY <4>1 DEF Main
        <4> QED BY <4>1, <4>2, SessionAssumption
      <3>2. Result(v) # Null /\ (Result(v).text # Null <=> g.wantText)
        <4>1. Result(v) \in ResultExtras
          BY <1>1, <3>1 DEF Result, ResultExtras, Globals
        <4> QED BY <3>1, <4>1, SessionAssumption DEF Result
      <3>3. \/ /\ Concluded(a, v).result = a.result
               /\ Concluded(a, v).closing = a.closing
               /\ Concluded(a, v).intent = a.intent
            \/ /\ Concluded(a, v).result = Result(v)
               /\ Concluded(a, v).closing = IF g.autoExit THEN "auto" ELSE "no"
               /\ Concluded(a, v).intent = a.intent
        BY <3>1 DEF Concluded, Main
      <3>4. /\ act'[g.main] = Concluded(a, v)
            /\ \A n \in Mains \ {g.main} : act'[n] = act[n]
        BY <2>1, <2>3 DEF TypeOK
      <3>5. /\ g.autoExit = a.intent.autoExit
            /\ g.wantText = a.intent.wantText
        BY <2>3, SessionAssumption DEF AutoExitInv
      <3> HIDE DEF a, v
      <3>6. /\ act'[g.main].intent = act[g.main].intent
            /\ act'[g.main].closing = "auto" =>
                 /\ act[g.main].intent.autoExit
                 /\ act'[g.main].result # Null
            /\ act'[g.main].result # Null =>
                 (act'[g.main].result.text # Null <=> act[g.main].intent.wantText)
        BY <2>3, <3>2, <3>3, <3>4, <3>5
        DEF AutoExitInv, AutoExitServesItsCaller, a
      <3> QED BY <2>1, <2>3, <3>4, <3>6 DEF AutoExitInv, AutoExitServesItsCaller
    <2> QED BY <2>2, <2>3
  <1>5. CASE PostTool(t) /\ ~DialogDetached(t)
    <2>1. /\ \A n \in Mains : \/ act'[n] = act[n]
                              \/ act'[n] = [act[n] EXCEPT !.tools =
                                              act[n].tools \o buf[t]]
          /\ g' = g
      BY <1>5 DEF PostTool, TypeOK
    <2> QED BY <1>1, <2>1, SameResultsKeep DEF SameResults, Main
  <1>6. CASE (PostShow(t) \/ PostTool(t)) /\ DialogDetached(t)
    BY <1>6, ProcessEndsAutoExit DEF PostShow, PostTool
  <1> QED BY <1>2, <1>3, <1>4, <1>5, <1>6 DEF UiThread

(***************************************************************************)
(* Although onPostExecute finishes G.main, whichever instance started the  *)
(* script, an instance is closed by a script only if its own caller asked  *)
(* for that, and then it has a result, with a text exactly if that caller  *)
(* wants one.                                                              *)
(***************************************************************************)
THEOREM AutoExitServes == Spec => []AutoExitServesItsCaller
  <1> DEFINE Inv == TypeInv /\ PostedOnce /\ AutoExitInv
  <1>1. Init => Inv
    <2>1. Init => PostedOnce
      BY DEF Init, PostedOnce
    <2>2. Init => AutoExitInv
      BY DEF Init, AutoExitInv, AutoExitServesItsCaller, NewMain, NoGlobals
    <2> QED BY <2>1, <2>2, InitType
  <1>2. Inv /\ [Next]_vars => Inv'
    <2> SUFFICES ASSUME Inv, [Next]_vars PROVE AutoExitInv'
      BY NextType, NextPosted
    <2>1. CASE UNCHANGED vars
      BY <2>1, SameResultsKeep DEF vars, SameResults
    <2> QED BY <2>1, LifecycleAutoExit, UserAutoExit, BackgroundAutoExit,
            UiThreadAutoExit DEF Next
  <1>3. Inv => AutoExitServesItsCaller
    BY DEF AutoExitInv
  <1> QED BY <1>1, <1>2, <1>3, PTL DEF Spec

(***************************************************************************)
(* The log file holds the beginning of a task's output.                    *)
(***************************************************************************)

LEMMA PrefixOfItself ==
  ASSUME NEW b \in Seq(Chunk)
  PROVE  IsPrefixOf(b, b)
  BY DEF IsPrefixOf

LEMMA PrefixOfAppended ==
  ASSUME NEW s \in Seq(Chunk), NEW b \in Seq(Chunk), NEW c \in Chunk,
         IsPrefixOf(s, b)
  PROVE  IsPrefixOf(s, Append(b, c))
  BY DEF IsPrefixOf

(* A task that has written the log file stays saved.                       *)
LEMMA ProcessEndsSaved ==
  ASSUME TypeInv, ProcessEnds, NEW t \in Tasks, Saved(t)
  PROVE  Saved(t)'
  <1>1. /\ task[t] \in Task
        /\ [NewTask EXCEPT !.pc = "lost"].pc = "lost"
        /\ [NewTask EXCEPT !.pc = "lost"].swos = FALSE
    BY DEF TypeInv, TypeOK, NewTask
  <1>2. task'[t] = IF Outstanding(t) THEN [NewTask EXCEPT !.pc = "lost"]
                                     ELSE task[t]
    BY DEF ProcessEnds
  <1> QED BY <1>1, <1>2 DEF Saved, Outstanding

LEMMA LifecycleSaved ==
  ASSUME TypeInv, Lifecycle, NEW t \in Tasks, Saved(t)
  PROVE  Saved(t)'
  <1> USE DEF TypeInv
  <1>1. ASSUME NEW m \in Mains, NEW i, onCreate(m, i) PROVE Saved(t)'
    <2>1. task'[t].pc = task[t].pc /\ task'[t].swos = task[t].swos
      BY <1>1, DisturbedFields DEF onCreate
    <2>2. ui # t
      BY <1>1, SessionAssumption DEF onCreate
    <2> QED BY <2>1, <2>2 DEF Saved
  <1>2. ASSUME NEW m \in Mains, onResume(m) PROVE Saved(t)'
    <2>1. ui # t
      BY <1>2, SessionAssumption DEF onResume
    <2>2. \/ task' = task
          \/ \E u \in BshTasks : /\ task[u].pc = "idle"
                                 /\ task' = Started(u, m, InFront(m).current)
      BY <1>2 DEF onResume
    <2>3. task'[t].pc = task[t].pc /\ task'[t].swos = task[t].swos
      BY <2>2, StartedOthers DEF Saved, Tasks
    <2> QED BY <2>1, <2>3 DEF Saved
  <1>3. ASSUME NEW m \in Mains, onPause(m) \/ onDestroy(m) PROVE Saved(t)'
    BY <1>3 DEF onPause, onDestroy, Saved
  <1>4. CASE Kill
    BY <1>4, ProcessEndsSaved DEF Kill
  <1> QED BY <1>1, <1>2, <1>3, <1>4 DEF Lifecycle, Launch, Recreate

LEMMA UserSaved ==
  ASSUME TypeInv, User, NEW t \in Tasks, Saved(t)
  PROVE  Saved(t)'
  <1> USE DEF TypeInv
  <1>1. ASSUME NEW m \in Mains, NEW u \in BshTasks, tabBeanshell_btnRun(m, u)
        PROVE  Saved(t)'
    <2>1. task'[t].pc = task[t].pc /\ task'[t].swos = task[t].swos
      BY <1>1, StartedOthers DEF tabBeanshell_btnRun, Saved, Tasks
    <2> QED BY <1>1, <2>1 DEF tabBeanshell_btnRun, Saved
  <1>2. ASSUME NEW m \in Mains, NEW u \in ToolTasks, tabTools_btnRun(m, u)
        PROVE  Saved(t)'
    <2>1. task'[t].pc = task[t].pc /\ task'[t].swos = task[t].swos
      BY <1>2, StartedOthers DEF tabTools_btnRun, Saved, Tasks
    <2> QED BY <1>2, <2>1 DEF tabTools_btnRun, Saved
  <1>3. ASSUME NEW u \in Tasks, CancelDialog(u) PROVE Saved(t)'
    <2>1. task[t] \in Task
      BY DEF TypeOK
    <2>2. task'[t].pc = task[t].pc /\ task'[t].swos = task[t].swos
      BY <1>3, <2>1 DEF CancelDialog, TypeOK, Task
    <2> QED BY <1>3, <2>2 DEF CancelDialog, Saved
  <1>4. CASE UNCHANGED <<ui, task>>
    BY <1>4 DEF Saved
  <1> QED BY <1>1, <1>2, <1>3, <1>4
          DEF User, onOptionsItemSelected_Exit, Page_onResume,
              onActivityResult_Settings, PasswordActivity_onPause

LEMMA BackgroundSaved ==
  ASSUME TypeInv, NEW u \in Tasks, Background(u), NEW t \in Tasks, Saved(t)
  PROVE  Saved(t)'
  <1>1. CASE SetupFails(u)
    BY <1>1, ProcessEndsSaved DEF SetupFails
  <1>2. CASE ~SetupFails(u)
    <2>1. /\ task[u].pc \in {"queued", "half", "redirected", "running"}
          /\ ui' = ui
      BY <1>2 DEF Background, SetOut, SetErr, ScriptBegins, Prints, fnClear,
                  AssignCode, ScriptEnds, ToolEnds
    <2>2. \A w \in Tasks \ {u} : task'[w] = task[w]
      BY <1>2 DEF Background, SetOut, SetErr, ScriptBegins, Prints, fnClear,
                  AssignCode, ScriptEnds, ToolEnds, Moves, Writes, TypeInv, TypeOK
    <2>3. t # u
      BY <2>1 DEF Saved
    <2> QED BY <2>1, <2>2, <2>3 DEF Saved
  <1> QED BY <1>1, <1>2

LEMMA UiThreadSaved ==
  ASSUME TypeInv, PostedOnce, NEW u \in Tasks, UiThread(u), NEW t \in Tasks, Saved(t)
  PROVE  Saved(t)'
  <1> USE DEF TypeInv
  <1>1. CASE HandleClear(u)
    BY <1>1 DEF HandleClear, Saved
  <1>2. CASE PostLog(u)
    <2>1. uiq # <<>> /\ Head(uiq) = [op |-> "post", task |-> u] /\ ui = Null
      BY <1>2 DEF PostLog, Receives, UiFree
    <2>2. 1 \in 1..Len(uiq) /\ uiq[1] = [op |-> "post", task |-> u]
      BY <2>1 DEF TypeOK
    <2>3. task[u].pc = "posted" /\ u \in BshTasks
      BY <1>2, <2>2 DEF PostedOnce, PostLog
    <2>4. t # u
      BY <2>3, SessionAssumption DEF Saved
    <2>5. task'[t] = task[t]
      BY <1>2, <2>4 DEF PostLog, TypeOK
    <2>6. ui # t
      BY <2>1, SessionAssumption
    <2> QED BY <2>5, <2>6 DEF Saved
  <1>3. CASE (PostShow(u) \/ PostTool(u)) /\ DialogDetached(u)
    BY <1>3, ProcessEndsSaved DEF PostShow, PostTool
  <1>4. CASE (PostShow(u) \/ PostTool(u)) /\ ~DialogDetached(u)
    <2>1. /\ \A w \in Tasks \ {u} : task'[w] = task[w]
          /\ task'[u].pc = "done"
          /\ task'[u].swos = FALSE
          /\ ui = u \/ ui = Null
      BY <1>4, FinishedType DEF PostShow, PostTool, UiFree
    <2>2. CASE t = u
      BY <2>1, <2>2 DEF Saved
    <2>3. CASE t # u
      BY <2>1, <2>3, SessionAssumption DEF Saved
    <2> QED BY <2>2, <2>3
  <1> QED BY <1>1, <1>2, <1>3, <1>4 DEF UiThread

LEMMA NextSaved ==
  ASSUME TypeInv, PostedOnce, [Next]_vars, NEW t \in Tasks, Saved(t)
  PROVE  Saved(t)'
  <1>1. CASE UNCHANGED vars
    BY <1>1 DEF vars, Saved
  <1> QED BY <1>1, LifecycleSaved, UserSaved, BackgroundSaved, UiThreadSaved DEF Next

(* Writing to any stream keeps what was saved.                             *)
LEMMA EmitKeepsLog ==
  ASSUME TypeOK, LogIsPrefix, NEW s \in Tasks \cup {Null}, NEW c \in Chunk,
         buf' = Emit(s, c), logFile' = logFile
  PROVE  LogIsPrefix'
  <1> SUFFICES ASSUME logFile # Null
               PROVE  IsPrefixOf(logFile.text, buf'[logFile.by])
    BY DEF LogIsPrefix
  <1> DEFINE by == logFile.by
  <1>1. by \in Tasks /\ logFile.text \in Seq(Chunk) /\ buf[by] \in Seq(Chunk)
    BY DEF TypeOK, LogOutput
  <1>2. IsPrefixOf(logFile.text, buf[by])
    BY DEF LogIsPrefix
  <1>3. buf'[by] = buf[by] \/ buf'[by] = Append(buf[by], c)
    BY <1>1 DEF Emit, TypeOK
  <1> QED BY <1>1, <1>2, <1>3, PrefixOfAppended

(* What has just been saved is all there is.                               *)
LEMMA SavingKeepsLog ==
  ASSUME TypeOK, NEW t \in Tasks, buf' \in [Tasks -> Seq(Chunk)],
         logFile' = [by |-> t, text |-> buf'[t]]
  PROVE  LogIsPrefix'
  BY PrefixOfItself DEF LogIsPrefix

(* A step that neither saves nor touches a buffer but by writing to it.    *)
LEMMA BackgroundLog ==
  ASSUME TypeInv, LogInv, NEW t \in Tasks, Background(t)
  PROVE  LogIsPrefix'
  <1> USE DEF TypeInv
  <1>1. CASE UNCHANGED <<buf, logFile>>
    BY <1>1 DEF LogInv, LogIsPrefix
  <1>2. ASSUME NEW s \in {sys.out, sys.err}, NEW pc, Writes(t, s, pc),
               logFile' = logFile
        PROVE  LogIsPrefix'
    <2>1. s \in Tasks \cup {Null}
      BY DEF TypeOK
    <2>2. <<t, task[t].printed + 1>> \in Chunk
      BY DEF TypeOK, Task, Chunk
    <2> QED BY <1>2, <2>1, <2>2, EmitKeepsLog DEF Writes, LogInv
  <1>3. CASE ToolEnds(t) /\ g.logOutput
    BY <1>3, SavingKeepsLog DEF ToolEnds, fnLogOutput, TypeOK
  <1>4. CASE ToolEnds(t) /\ ~g.logOutput
    BY <1>1, <1>4 DEF ToolEnds, fnLogOutput
  <1> QED BY <1>1, <1>2, <1>3, <1>4 DEF Background, SetOut, SetErr, SetupFails,
          ScriptBegins, Prints, fnClear, AssignCode, ScriptEnds

(* A CLEAR that finds its buffer cannot be for the task that was saved.    *)
LEMMA UiThreadLog ==
  ASSUME TypeInv, LogInv, NEW t \in Tasks, UiThread(t)
  PROVE  LogIsPrefix'
  <1> USE DEF TypeInv
  <1>1. CASE UNCHANGED <<buf, logFile>>
    BY <1>1 DEF LogInv, LogIsPrefix
  <1>2. CASE HandleClear(t) /\ task[t].swos
    <2>1. ui = Null /\ uiq # <<>> /\ Head(uiq) = [op |-> "clear", task |-> t]
      BY <1>2 DEF HandleClear, Receives, UiFree
    <2>2. t \in BshTasks
      BY <2>1, ReceiveType DEF Message
    <2>3. ~Saved(t)
      BY <1>2, <2>1, <2>2, SessionAssumption DEF Saved, Tasks
    <2>4. /\ buf' = [buf EXCEPT ![t] = <<>>]
          /\ logFile' = logFile
      BY <1>2 DEF HandleClear
    <2>5. logFile # Null => logFile.by \in Tasks \ {t}
      BY <2>3 DEF LogInv, TypeOK, LogOutput
    <2> QED BY <2>4, <2>5 DEF LogInv, LogIsPrefix, TypeOK
  <1>3. CASE PostLog(t)
    <2> DEFINE warn  == g.logOutput /\ g.pw
               after == IF warn THEN Emit(sys.err, Warning) ELSE buf
    <2>1. sys.err \in Tasks \cup {Null} /\ Warning \in Chunk
      BY DEF TypeOK, Chunk
    <2>2. after \in [Tasks -> Seq(Chunk)]
      BY <2>1, EmitType DEF TypeOK
    <2>3. buf' = after /\ fnLogOutput(t, after)
      BY <1>3 DEF PostLog
    <2>4. CASE g.logOutput
      BY <2>2, <2>3, <2>4, SavingKeepsLog DEF fnLogOutput
    <2>5. CASE ~g.logOutput
      BY <1>1, <2>3, <2>5 DEF fnLogOutput
    <2> QED BY <2>4, <2>5
  <1> QED BY <1>1, <1>2, <1>3 DEF UiThread, HandleClear, PostShow, PostTool

(* A task that has just written the log file is saved.                     *)
LEMMA WriterSaved ==
  ASSUME TypeInv, PostedOnce, LogInv, [Next]_vars, logFile' # logFile
  PROVE  \E t \in Tasks : logFile'.by = t /\ Saved(t)'
  <1> USE DEF TypeInv
  <1>1. ASSUME NEW t \in Tasks, ToolEnds(t) PROVE logFile'.by = t /\ Saved(t)'
    <2>1. logFile'.by = t
      BY <1>1 DEF ToolEnds, fnLogOutput
    <2>2. task'[t].pc = "posted"
      BY <1>1 DEF ToolEnds, Moves, TypeOK, Task
    <2> QED BY <1>1, <2>1, <2>2 DEF ToolEnds, Saved
  <1>2. ASSUME NEW t \in Tasks, PostLog(t) PROVE logFile'.by = t /\ Saved(t)'
    <2>1. logFile'.by = t /\ ui' = t /\ t \in BshTasks
      BY <1>2 DEF PostLog, fnLogOutput
    <2>2. task'[t].pc = "logged"
      BY <1>2 DEF PostLog, TypeOK, Task
    <2> QED BY <2>1, <2>2, SessionAssumption DEF Saved
  <1>3. \E t \in Tasks : ToolEnds(t) \/ PostLog(t)
    <2>1. CASE Lifecycle
      BY <2>1 DEF Lifecycle, Launch, Recreate, onCreate, onResume, onPause,
                  onDestroy, Kill
    <2>2. CASE User
      BY <2>2 DEF User, onOptionsItemSelected_Exit, Page_onResume,
                  onActivityResult_Settings, PasswordActivity_onPause,
                  tabBeanshell_btnRun, tabTools_btnRun, CancelDialog
    <2>3. ASSUME NEW t \in Tasks, Background(t), ~ToolEnds(t) PROVE FALSE
      BY <2>3 DEF Background, SetOut, SetErr, SetupFails, ScriptBegins, Prints,
                  fnClear, AssignCode, ScriptEnds
    <2>4. ASSUME NEW t \in Tasks, UiThread(t), ~PostLog(t) PROVE FALSE
      BY <2>4 DEF UiThread, HandleClear, PostShow, PostTool
    <2> QED BY <2>1, <2>2, <2>3, <2>4 DEF Next, vars
  <1> QED BY <1>1, <1>2, <1>3

LEMMA NextLog ==
  ASSUME TypeInv, PostedOnce, LogInv, [Next]_vars
  PROVE  LogInv'
  <1>1. LogIsPrefix'
    <2>1. CASE UNCHANGED <<buf, logFile>>
      BY <2>1 DEF LogInv, LogIsPrefix
    <2>2. CASE Lifecycle
      BY <2>1, <2>2 DEF Lifecycle, Launch, Recreate, onCreate, onResume, onPause,
                  onDestroy, Kill
    <2>3. CASE User
      BY <2>1, <2>3 DEF User, onOptionsItemSelected_Exit, Page_onResume,
                  onActivityResult_Settings, PasswordActivity_onPause,
                  tabBeanshell_btnRun, tabTools_btnRun, CancelDialog
    <2> QED BY <2>1, <2>2, <2>3, BackgroundLog, UiThreadLog DEF Next, vars
  <1>2. CASE logFile' = logFile
    <2>1. logFile # Null => logFile.by \in Tasks /\ Saved(logFile.by)
      BY DEF TypeInv, TypeOK, LogOutput, LogInv
    <2>2. \A t \in Tasks : Saved(t) => Saved(t)'
      BY NextSaved
    <2>3. logFile # Null => \E t \in Tasks : logFile.by = t /\ Saved(t)'
      BY <2>1, <2>2
    <2> QED BY <1>1, <1>2, <2>3 DEF LogInv, Saved
  <1>3. CASE logFile' # logFile
    <2>1. PICK t \in Tasks : logFile'.by = t /\ Saved(t)'
      BY <1>3, WriterSaved
    <2> QED BY <1>1, <2>1 DEF LogInv, Saved
  <1> QED BY <1>2, <1>3

(***************************************************************************)
(* What the log file holds of a task stays the beginning of that task's    *)
(* stream, however late a CLEAR arrives, however many scripts and tools    *)
(* share the two streams, and whichever instances come and go.             *)
(***************************************************************************)
THEOREM LogStaysPrefix == Spec => []LogIsPrefix
  <1> DEFINE Inv == TypeInv /\ PostedOnce /\ LogInv
  <1>1. Init => Inv
    <2>1. Init => PostedOnce
      BY DEF Init, PostedOnce
    <2>2. Init => LogInv
      BY DEF Init, LogInv, LogIsPrefix
    <2> QED BY <2>1, <2>2, InitType
  <1>2. Inv /\ [Next]_vars => Inv'
    BY NextType, NextPosted, NextLog
  <1>3. Inv => LogIsPrefix
    BY DEF LogInv
  <1> QED BY <1>1, <1>2, <1>3, PTL DEF Spec
==============================================================================
