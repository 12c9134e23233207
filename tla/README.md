# A verification development for JavaIDEdroid

JavaIDEdroid is an Android application (API 4 to 10) that turns a phone into an
Android development environment: it runs BeanShell scripts which call aapt, the
Eclipse compiler, dx, ApkBuilder and ZipSigner in the application's own process.
This directory holds TLA+ modules that model it, TLC configurations that check
them, and theorems proved with TLAPS. `PROJECT.json` is the machine-readable
index: components, runs, source map, hazards, findings, theorems.

## 1. The system

| Component | State it keeps | Operations | What makes it correct |
|---|---|---|---|
| `MainActivity` | its views (script output, tool output), whether it is finishing, its result | onCreate, onResume, onPause, onActivityResult, menu, the two Run buttons, fnSetResult | an unattended run happens once, for the caller that asked; the caller gets that run's code and text |
| `G` | static fields shared by every instance and thread: `main`, `currentActivity`, `bshTask`, `iScriptResultCode`, three flags, two passwords, `oSet`, `ide` | fnInit, fnIsFirstOpen, fnSetCurrentActivity, fnError | the fields describe the instance they are used for |
| `BeanShellTask`, `ToolTask` (AsyncTask) | its buffer `swos`, its progress dialog | onPreExecute and onPostExecute on the UI thread, doInBackground on a pool thread, messages between them | output of a task reaches its screen and the log, whole and alone; its dialog closes |
| `IDE` | none of its own; System.out and System.err, LogOutput.txt | fnRedirectOutput, fnRunBeanshellScript, fnLogOutput, fnAapt, fnCompile, fnDx, fnApkBuilder, fnSignApk | exit codes and output belong to the call |
| `Aapt`, `JNImain.c`, aapt's `main` | the C streams stdout and stderr, two files on the card, aapt's global list of errors | fnExecute, JNImain, doPackage, fnGetNativeOutput | what a call shows and returns is its own |
| `SignApk`, `taGetOpt` | the parsed options | fnParseOptions, paramsOK, fnCheckParams, main | a call that is accepted has what it needs |
| `FileBrowser`, `FileBrowserActivity` | current directory, list shown | setDirectory, getDirsAndFiles, getDirectoryTree, clicks | the path chosen is the path shown |
| `SettingActivity`, `PasswordActivity`, `HelpActivity`, `InfoActivity`, `UpgradeActivity` | preferences; two passwords | fnApplySettings, onPause, onResume | |
| build scripts (`build.bsh`, `0_setname.bsh` ... `3_dx.bsh`, `bsh-samples/`) | `G.iScriptResultCode`, files in `bin/` | the chain aapt, ecj, dx, ApkBuilder, ZipSigner | a build that reports 0 has run every step |
| aapt's packaging (`jni/aapt/jni/Package.cpp`) | the archive it has open, the marks of its entries | writeAPK, processAssets, processFile, processJarFile | a run that was content has packed the present sources |
| aapt's archives (`ZipFile`, `ZipEntry`) | the file, its entries, whether the directory must be written anew | open, add, remove, flush with crunchArchive, close | the entries that stay keep their data, in a file changed in place |
| aapt's resource compiler (`AaptAssets`, `Resource`, `ResourceTable`, `XMLNode`, `Images` ...) | resource tables | slurpFromArgs, buildResources | |
| vendored libraries (`jni/libpng`, `expat`, `libcutils`, `liblog`, `libhost`, `libutils`, `libs/*.jar`) and generated code (`gen/`) | | | not this program's own logic |

How they interact. The UI thread of the process serves every activity instance:
life cycle callbacks, buttons, and the messages (`publishProgress`, the result of
`doInBackground`) that tasks on pool threads send it. With target API 10, tasks
of the AsyncTask pool run in parallel, so a script, another script and a tool can
be at work at once; they share `System.out`, `System.err` and all of `G`. The
native aapt runs on the thread of the task that called it, in the same process,
and shares the C streams.

What is hard: a field of `G` that means another instance than the one that
uses it; redirection in two steps against another task's two steps; a message
that arrives later than the state it was sent about; an activity destroyed while
its task runs; a process killed, of which only files survive; a second call of a
program written to be run once per process; an archive that is changed in place,
so that it has no directory while it is changed; files that are edited while they
are packed.

## 2. Plan

In this order, most important first:

1. `Session` (written): instances, `G`, tasks, streams, messages, the log,
   process death. `SessionProofs` and `SoloProofs`: its theorems, those about
   every run and those about a run that nobody disturbs.
2. `AaptBridge` (written): concurrent calls of the native aapt, with
   `AaptBridgeProofs`.
3. `GetOpt` and `SignApk` (written): the option parser against the rules its
   documentation states, and SignApk on top of it; `GetOptProofs`, `SignApkProofs`.
4. `BuildScript` and `Pipeline` (written): `build.bsh` over tools that may fail or
   warn, implementing the abstract `Pipeline`; `BuildScriptProofs`.
5. `Archive`, `ZipFile` and `Package` (written): aapt's archive in the file, the map its
   users see, and `aapt package`, new or updating, over a project that is edited.

Theorems left: none of the safety properties that the passing runs check. The liveness
properties stay with TLC.

How the modules depend on each other: `SignApk` EXTENDS `GetOpt`, whose parser is its
first phase; `BuildScript` INSTANCEs `Pipeline` under its refinement mapping; `ZipFile` and `Package` both
INSTANCE `Archive`, the one as what it implements, the other as what it may use, and meet
there: `Package` knows of the archive's file only what `Archive` says; `Session` and
`AaptBridge` stand alone (to a task of `Session`, a
call of a tool is writing to its streams). Every `MC` module EXTENDS the module it
is named after and adds only the values its configurations need and the stuttering of
a finished instance. The `...Proofs` modules hold all theorems.

## 3. `Session`

One TLA+ step is what one thread does between two points where another thread
can interfere.

| Variable | Code |
|---|---|
| `act[m]` | one `MainActivity` instance: its place in Android's life cycle, who called `finish()`, its intent's extras, the result set with `setResult`, the text of its two output views |
| `g` | the static fields of `G` (`code` is `iScriptResultCode`; `pw` is "one of `stPw1`, `stPw2` is not empty"; `logOutput` is `oSet.bLogOutput`) |
| `task[t]`, `buf[t]` | one AsyncTask, its program counter, dialog and `swos`; what its `StringWriterOutputStream` holds |
| `sys` | whose buffers `System.out` and `System.err` write to |
| `uiq` | the messages to the UI thread, in order |
| `logFile`, `flg` | `LogOutput.txt`; `<versionCode>.flg` of fnIsFirstOpen |
| `ui` | the UI thread between the two halves of onPostExecute, or between onCreate and its onResume |
| `alive` | the process exists |

Actions carry the names of the handlers they model; the map in `PROJECT.json`
gives the lines. Android's side (starting, covering, destroying and re-creating
instances, cancelling dialogs with BACK, killing the process) is modelled from
what the code relies on and marked external. `Platform` switches these events:
`"stack"` (a second instance may be started: the manifest leaves `launchMode`
at `standard`), `"recreate"` (an instance is destroyed and created again, as on
a configuration change other than `orientation`), `"kill"`, `"nocard"`.

Fields marked *history* in the module are not in the code; they record what a
property has to compare with (the chunks a task wrote, the code it assigned,
whether any other task or onCreate came between: `solo`).

Abstractions: text is a sequence of chunks, one per write; progress messages,
toasts, fonts, tabs and paths have no state; the two passwords are one flag.
`fnError` on the background thread makes a toast there, which throws for lack
of a message loop: `SetupFails` ends the process.

### Runs

| Run | Instance | What it shows |
|---|---|---|
| `scripts` | 1 instance, 2 scripts, 2 writes and 1 fnClear each, log on | overlapping or successive scripts: log, screen, code and CLEAR |
| `instances` | 2 instances, 2 scripts of one write, plain and unattended callers that want the text or not, re-creation and kills, log and passwords | whose script runs, who is closed, with what result; dialogs have a window; log and screen agree after an undisturbed run |
| `live` | 1 instance, idle or unattended, a script and a tool, fairness | the type invariant; dialogs close; the instance closes itself |
| `twice` | 2 instances, the smallest that shows it | the finding below |

Bounds. Two tasks are what an interference needs (one disturbs, one is
disturbed), two instances likewise; two writes tell a lost, a doubled and a
reordered write apart; `MaxClears` is 1 because a second CLEAR meets the same
states as the first. `CHECK_DEADLOCK FALSE`: when every instance has been used
and closed nothing can happen any more.

Fairness (`live`, `twice`): the scheduler runs every thread, scripts and tools
end, Android delivers messages, and an instance that was left by the upgrade page
is resumed. No button is ever assumed to be pressed.

### Finding

- `twice`: a second instance resets the flags of a first one that waits behind the
  upgrade page; its script is never run and it never closes.

Also worth knowing, and visible in the model: `fnClear()` takes effect when the UI
thread gets to its message, and takes away what was written after the call as well; a
script that assigns no code returns that of the script before it, as the field is
reset only in fnInit (`SoloResult` says whose code it is; help.html:174 says 99); an
instance that the user exits while its script runs returns no result at all.

### Theorems (`SessionProofs`, `SoloProofs`)

All hold for any number of instances and tasks, from `SessionAssumption` alone:
the identities are distinct and the sets are typed.

- `TypeCorrect`: `TypeOK`, `PostedOnce` and `ClearHasTarget`. Typing is not inductive by
  itself: a CLEAR is sent to `g.bshTask`, which must not be null, and that
  needs `ClearHasTarget`. `PostedOnce` says that a waiting result belongs to a
  task that has posted and was not served yet; the later proofs use it to
  know the state of the task whose message is taken.
- `DialogAlwaysHasWindow`: strengthened by `WindowInv`: while an instance is being
  created nobody is in front.
- `AutoRunsOnlyOnRequest`: strengthened by `AutoRunInv`: a pending request belongs to
  `G.main`, and no other instance can come to the front before it is taken.
  Assumes the storage card is there; without it fnIsFirstOpen is always false and
  the argument about the first opening does not apply.
- `AutoExitServes`: strengthened by `AutoExitInv`: the flags are those of `G.main`.
- `LogStaysPrefix`: strengthened by `LogInv`: the task that wrote the log has no
  buffer any more that a CLEAR could empty, or is being served by the UI thread.

Each proof has the same layout: the initial states, one lemma per group of
actions (life cycle, user, background, UI thread), one step per action in it.
The invariants were checked with TLC first.

`SoloProofs` is about a run that nobody disturbs (`solo`: no other task was at work and no
instance was created since it began), whatever came before it and is still waiting:

- `ShownOutputIsOwn` (`ShownIsOwn`), `LoggedIsShown` (`LogIsShown`), `SoloCodeReturned`
  (`SoloResult`), `ClearAlwaysFindsBuffer` (`ClearFindsBuffer`), `SoloDialogStays`
  (`SoloDialogAttached`).

None of them is inductive: each speaks of the end of a run, whose beginning must be
remembered. `SoloInv` does so. `Active`: the task is the only one that is not over, both streams are
redirected to its buffer, and the instance of its dialog is `G.main`, which only the user
can close, and he only when the dialog is gone. `ActiveScript`: its buffer holds its
writes after the first k, all of them before fnClear() and only those after the call once no
CLEAR waits (`HoldsFrom`); the field holds the code it assigned. `Senders` and `Latest` say
why no CLEAR of an earlier run is left: a waiting CLEAR has a sender whose end is not
announced before it, and a running script is `G.bshTask` or a disturbed one has taken its
place. `ShownInv` says what stays on the screen and in the log when it is over. The steps are
sorted by what they do to a task (start one, end the process, serve a message, be the
task's own, none of these), and each part of the invariant is proved over these kinds.

Only model-checked: the liveness properties `DialogsClose` and `AutoExitHappens`, which are
out of the prover's reach.

## 4. `AaptBridge`

aapt was written to be run once per process. Here it is a function that any task
calls, so its globals and the process's streams live on. `IDE.fnAapt` makes an
`Aapt` object for each call, which is why `synchronized` on `fnExecute` excludes
nobody.

| Variable | Code |
|---|---|
| `call[c]` | one call of `fnAapt`: its program counter, exit value, what it showed; *history*: the errors reported, the calls it overlapped (`met`) |
| `loaded` | `Aapt.bInitialized` |
| `stream`, `file` | the C streams stdout and stderr (redirected or closed); the two files on the card |
| `errors` | `g_errors` of `SourcePos.cpp` |
| `wrote` | *history*: what each call's aapt printed |

Actions in program order: `fnCheckWorkDir`, `fnInit` (and their failures); `RedirectErr`,
`RedirectOut` (JNImain); `Prints`, `main_returns`, `doPackage`, `error`, `GivesUp`,
`hasErrors`, `writeAPK`, `bail` (aapt); `CloseErr`, `CloseOut`; `ReadOut`, `ReadErr`.

| Run | Instance | What it shows |
|---|---|---|
| `bridge_calls` | 2 calls, 1 line and 2 errors each, missing directory or library | a call that met no other shows its own output, all its errors, and its own exit value, whatever was left behind; nothing is shown of a call that was over before; the streams are released |
| `bridge_clear` | 2 calls | the finding below |

Bounds. Two calls, one after the other or overlapping in every way, are what a
disturbance needs; that a third one that overlaps both makes no difference to
`ShownIsContemporary` and `StreamsReleased` is what the theorems say, which hold for any
number. Two errors tell "all" from "the first".
Symmetry over the calls is sound: they are interchangeable and the runs that
use it check invariants only.

Not modelled: a `freopen` that fails; a `FILE` slot reused by another library after
`fclose`; the corruption of the `Vector` of errors by two threads that change it at the same
time (undefined behaviour that can end the process). A closed stream is taken
to lose what is printed to it.

Finding. `bridge_clear`: `doPackage` empties a list that another task is using; that
task's package is then taken to be free of errors. In the same way the call that ends
first closes the streams another one is still printing to (`CloseErr`, `CloseOut`): what
that one prints afterwards is lost, which is why `SoloOutput` speaks of calls that met
no other.

Theorems (`AaptBridgeProofs`), for any number of calls, lines and errors:

- `TypeCorrect`.
- `NothingOldIsShown`: `ShownIsContemporary`. The inductive invariant is `Recent`:
  calls that are between redirection and reading have met each other
  (`EngagedHaveMet`, `NewcomersAlone`), and the files and the list of errors hold only what
  those who use them have met (`ErrRecent`, `OutRecent`, `LinesRecent`,
  `ErrorsRecent`).
- `StreamsAreReleased`: inductive by itself.

- `ShowsExactlyItsOwn` (`SoloOutput`), `ShowsEveryError` (`SoloErrors`) and
  `ExitTellsTheOutcome` (`SoloExit`). The invariant they need is `AloneInv`, about a call
  that has met no other yet: between its redirections and its reading the two files hold
  what it printed and nothing else (`Files`), and from `doPackage` on the list of errors is
  its own and as long as what it reported (`Mistakes`), for `doPackage` empties what earlier calls left.

## 5. `GetOpt` and `SignApk`

`GetOpt` is `taGetOpt`: `aArgs` is the command line, `i` the loop index, and the other
variables are the fields and locals of the same names. One action per
branch of the loop body of `fnParseOptions`. An argument is a switch, another word or the
empty string; the word stored for a switch is its position. No switch is
in both lists (`GetOptAssumption`; SignApk's "MIO" and "hPKWCT" share none).

`SignApk` EXTENDS it: the parser runs first (`Parse`, `Throws`), `fnCheckParams` decides
(`CheckFails`, `CheckPasses`), `fnSignApk` signs or throws. The signing is the external
library, which succeeds or throws. `ExitValue` is what `IDE.fnSignApk` returns.

| Run | Instance | What it shows |
|---|---|---|
| `options_lines` | all command lines of up to 6 arguments: `-M`, `-h`, two key options, an unknown capital switch, a word, the empty string | the loop agrees with `Meant`, a definition without a loop of what a command line means; its counters count what they say; the keys of the command line are used all or not at all; exit values |

Bounds. Every decision of the loop depends on the argument and on the last switch only, so
lines of six arguments reach every pair of decisions twice; two key options
tell "none", "some" and "all" apart.

Worth knowing: `paramsOK` compares counts, and a mandatory switch given twice stands in for
one that is missing; with SignApk's two it takes a command line nobody would write.

Theorems, for all lists of switches and all command lines:

- `TypeCorrect`, `IndexAlwaysInRange`, `AcceptedHaveArguments` (`GetOptProofs`). The
  invariant they need is `OnlyLastWaits`: when no argument is missing but the one the
  loop is waiting for, only that switch is without its own. It rests on
  `IndexInRange`, and typing on it: `iReqArgMissing` is never negative.
- `SignsOnlyWithAllKeys` (`SignApkProofs`), from the same invariant and the
  cardinality of the set of keys given.

- `OptionsMeanWhatWasWritten` (`OptionsAsMeant`) and `CountersMeanWhatWasWritten`
  (`CountersAsMeant`): the reference definitions choose and count over the whole command
  line; `PrefixInv` says the same of the arguments before the loop index, where the last one
  may be a switch that still waits for its argument (`WaitsForNext`).
- `SignTypeCorrect` (`SignApkProofs`).

## 6. `BuildScript` and `Pipeline`

`build.bsh` calls five tools one after the other. Each exit value is assigned to the static
field `G.iScriptResultCode` and tested there, by a test of its own for each step (the
compiler may end with 1, warnings). Two things could carry a build past a step that has
failed: the field, which `fnInit` of any instance assigns, and the outputs of earlier builds in
`bin/`, which the next tool finds and takes.

| Variable | Code |
|---|---|
| `build`, `phase`, `step` | which build this is; where the script is (`ok` is false exactly in phase "failed"); the tool it is at |
| `code` | `G.iScriptResultCode` |
| `sources` | the source files of the project, which may change between builds |
| `bin` | the outputs: resources, class files, dex file, unsigned and signed package. An output is the number of the build that wrote it, 0 if missing; class and dex files are one such number per source file |
| `succeeded`, `disturbed`, `misled` | *history*: the steps whose tool said so; whether `fnInit` came in between; whether aapt said 0 and wrote nothing |

Actions: `Begin`, `ChecksFail`, `ChecksPass` (lines 1 to 58), `RunSucceeds` and `RunFails` (a
tool, and the assignment of its exit value), `RunMisleads` (aapt gives the package up with an
ERROR and exits with 0, section 7), `Stops`, `NextStep`, `Completes` (the test after it),
`fnInit` (an instance is created meanwhile). A tool that fails leaves the old output, none, or, the
compiler, some new class files. `fnCompile` is how class `IDE` makes an exit value of the
compiler's answer and its counts; that ecj answers "not ok" with warnings only when it
has counted an error too is an assumption about the external compiler (`Verdict`).

`Pipeline` is the promise: `done`, the steps that have succeeded, grows one by one from the
first, and a build is "built" only when all are done. `BuildScript` implements it with
`done <- succeeded` and `status <- Status` (the phases of a script at work are "building").

| Run | Instance | What it shows |
|---|---|---|
| `build_builds` | 2 source files, 3 builds | `CompletedIsBuilt`: a completed build has run every step and its package is of this build (its resources, unless aapt misled the script); `CodeTellsOutcome`: undisturbed, its code is 0 exactly then; `KeepsPromise`: it implements `Pipeline` |

Bounds. The second build meets what the first left behind, a third what a failed second
made of it; two source files tell "all", "some" and "none" of the class files apart.

Theorems (`BuildScriptProofs`), for any set of source files and any number of builds:
`TypeCorrect`, `CompletedBuildsAreFresh`, `CodeTellsTheOutcome` and `KeepsThePromise`. The
inductive invariant is `InOrder` (in each phase, which steps have succeeded, and that the
script stops where one has not) with `Fresh` (the output of each step that has succeeded
is of this build). The interesting step is `fnInit`: it changes the code between assignment and
test, and 99 fails every test, so that it can stop a build but not complete one.

Not modelled: two builds at a time. The class files of a source file that was removed stay in
`bin/` and reach the package; nothing in the code says otherwise and `CompletedIsBuilt` speaks
of the present source files.

## 7. `Archive`, `ZipFile` and `Package`

`Archive` is what class `ZipFile` promises to those who do not look into the file: a map from
names to contents that is changed while it is open and is found again as it was left; a name
that is taken must be removed before it is added. `Break` voids the promise until the file is
deleted.

### `ZipFile`

The class changes the file in place: an add writes the new entry over the central directory,
a flush moves the entries that stay down over the deleted ones (`crunchArchive`, `filemove`),
writes the directory and cuts the file off behind it.

| Variable | Code |
|---|---|
| `file`, `exists` | the file on the card, a row of cells: an entry takes as many as `Span` of its content, the first holds its local header; a record of the directory and the end record take one each |
| `entries`, `total`, `cd`, `dirty` | `mEntries`, `mEOCD.mTotalNumEntries`, `mEOCD.mCentralDirOffset`, `mNeedCDRewrite` |
| `pc` | no object ("closed"), or where it is: "open", in `addCommon`, in `crunchArchive`, behind it in `flush`, after it |
| `copy`, `crunch`, `closing` | the locals of `addCommon`; of `crunchArchive` and `filemove`; whether the destructor flushes |
| `adds`, `troubles` | counts for the bounds |
| `told`, `broken`, `torn` | *history*: a call returned an error; the file may not open or not show every entry; it may show an entry with another's data |

A step writes one cell, so that a crash comes between any two writes. `OpensAt` is
`readCentralDir`: the last end record counts, and each record must lead to a header. A full card
loses writes; a card error may hit any of them (`CopyFails`, `CompressStops`, `MoveFails`,
`WriteFails`), as does a kill (`Crash`). Which of these the caller hears of is the code's:
`copyFpToFp` reports, `compressFpToFp` adds a truncated entry without a word, the directory's
writes are not looked at.

| Run | Instance | What it shows |
|---|---|---|
| `zip_archive` | 2 names, a content of one cell and one of two, 7 cells, 4 adds to a file, 1 trouble | see the properties below |
| `zip_told` | 5 cells, 3 adds, no trouble but the full card | the finding below |

`EntriesIntact`: no write overwrites a cell of an entry that stays. `ClosedIsCompact`: what is closed
without trouble is exactly what its directory says. `NeverSilentlyWrong`: an archive killed at any
write before the crunch has moved something does not open, or shows right data; after that a crash
may leave the old directory pointing into moved entries, as ZipFile.h:39-44 admits. `IsArchive`: its
users see `Archive`. `FlushEnds`: under weak fairness of the flush's own steps, which wait for nothing,
the loop that removes entries while it counts them ends.

Bounds. Two names that are removed and added again make an archive of up to four entries, of which the
first, one in the middle and the last can be deleted, alone and together, and only two live; two
sizes make a move of two cells by one, which overlaps itself; in seven cells some of these
archives fit with their directory and some do not, so the card is full in some behaviours. One trouble per
file: after it nothing is promised but what `NeverSilentlyWrong` says.

Finding. `zip_told`: `flush` looks at no write of the directory, and returns NO_ERROR for an archive that
cannot be opened again.

Theorems (`ZipFileProofs`), for any names, contents, sizes of entries and of the card, numbers of adds
and troubles. They assume `ZipAssumption` alone.

- `TypeCorrect`, `EntriesAreKept` (`EntriesIntact`), `ClosedArchiveIsCompact` (`ClosedIsCompact`),
  `NothingShownIsWrong` (`NeverSilentlyWrong`), and `ImplementsArchive`: every step of the class is a
  step of `Archive` or a stutter (`IsArchive`).

The invariant of all but `NeverSilentlyWrong` is `Base /\ Layout /\ Saved`: types; what an open archive that is not broken looks like; what
its file holds when there is nothing to write. `EntriesIntact` is not inductive, for it does not say where
the entries are. `Layout` says so: they lie one behind the other up to the directory (`Placed`). While
`crunchArchive` runs that is not so, since some have moved down, others have not, and one is on its
way. It stays true of `Reach`, the offset plus what the entries already looked at have been moved by; and
what has been gained is never more than the offset of an entry to come (`InCrunch`), so a
move goes to cells between the entry before it and its own. `InAdd` and `InWrite` say what is written behind the last
entry; `Saved` carries it over the close and the next open, where `DirectoryIs` shows that a
file with entries and their directory opens in one way only. For the refinement, `Unique` (no two live entries
have one name) makes the map that `Archive` speaks of the same however the entries are numbered.

`NeverSilentlyWrong` is about the broken archives, and about every old directory record that is still in the
file, so it needs three invariants more. `Safe`: as long as a flush is to come (`Kept`), the entries keep
their order (`Ordered`; no longer one behind the other, `Adjacent`) and their cells as far as the card goes
(`Stays`), and no record lies in front of the directory (`Below`). This survives a full card and a move that failed
before anything was moved. `Recorded`: while nothing has been moved, each record in the file, old or new,
describes an entry that is whole and in front of the directory, and the offset of every entry, and the place the new
directory will have (`Edge`), are before that entry or behind it, never inside. So the new directory, which is
written from its start, meets the header of an entry before any other cell of it: a record that has lost a cell
has lost its header, and `readCentralDir` refuses it (`Right`). `GivenUp`: what closes the file or fails in
writing its directory leaves `Right` true; after a crunch that has moved something it is the cut behind the new directory that
takes every old record away. TLC checked the three on the instance of `zip_archive`, and with 8
cells and 3 troubles, before they were proved.

Only model-checked: `FlushEnds`, which is a liveness property.

Worth knowing: `crunchArchive` takes the entry at offset 0 for a directory and does not crunch it.
Its cells stay in the file for good (`ClosedIsCompact` says so), harmless but for the space.

### `Package`

One run of `aapt package` after the other, with -u or without, with -f or without, while the user edits.

| Variable | Code |
|---|---|
| `version`, `time`, `edits` | the source files and the classes of the jars: a content is the number of the edit that made it |
| `exists`, `content`, `stamp`, `isOpen`, `broken` | the archive, as `Archive` has it, with the times of its entries |
| `pc`, `update`, `todo` | where `doPackage` is; -u; the files still to process |
| `read` | what `buildResources` compiled, for the files whose data is generated |
| `marked`, `old` | the entries with `setMarked`; *history*: those there at the opening |
| `result`, `complained`, `began` | the exit code; whether ERROR was printed; *history*: the edits at the start |

Actions: `Start` and `CompileFails` (doPackage), `GiveUp`, `Prepare`, `Open` (writeAPK), `ExistsTwice`,
`KeepEntry`, `DropEntry`, `AddFile`, `FileFails` (processFile), `AddClass`, `LoseClass`, `JarFails`
(processJarFile, which does not look at the result of add), `Finish`, `FlushFails`, `Close`, `Unlink`,
`UnlinkFails`, and `Break`, `Killed`. `processFile` is two steps when it drops an entry and adds the new
one, and the user may edit or delete the file between them.

| Run | Instance | What it shows |
|---|---|---|
| `package_builds` | 2 source files of one name (x and x.gz), a generated one, a class; 3 edits, times 0 to 2 | see the properties below |
| `package_update` | 2 edits, times 0 and 1 | the finding below |

`PackagedIsCurrent`: a run without an ERROR has packed every file as it was when the run began, or, with
-u, left an older entry of the same file whose time, rounded up to even seconds, is not before the
file's. `FreshHasNoCruft`, `UpdateKeepsAll`: what may be left of earlier builds. `IsArchive`: it uses the archive as
`Archive` allows.

Bounds. A time of 1 is rounded to 2, so a file saved at 2 is taken for old; three edits change a file
before, between and during two runs, or give two files of one name each a version.

Finding. `package_update`: the loop that looks for entries whose source is gone has its condition
reversed (`getDeleted` for `!getDeleted`) and removes nothing, while the usage text of -u says
"remove deleted files". Set right, it would take the classes of the jars out too, which nothing marks.

Theorems (`PackageProofs`), for any source files, names, classes, edits and times. They assume
`PackageAssumption` alone.

- `TypeCorrect`, `PackagesTheSources` (`PackagedIsCurrent`), `FreshIsClean` (`FreshHasNoCruft`),
  `UpdateIsConservative` (`UpdateKeepsAll`), and `UsesTheArchive`: every step of a run is a step of
  `Archive` or leaves it alone.

`PackagedIsCurrent` is far from inductive: an entry is current at the end because of what happened to it
when its file was processed, with edits in between. The invariant `Inv` says that a version is the number
of an edit, no two items share one, and a content is found under no name but its own (`Numbered`,
`Distinct`, `Origin`), so that an edit during the run makes a version that is nowhere in the archive; that
a processed file has marked its name and has its content or an allowed older one there (`Processed`); and
that an entry with a mark is not touched again, so that a second file with this name can only fail.

Worth knowing, and an action of `BuildScript` too: where `writeAPK` cannot remove or open the old
archive it prints ERROR and returns NO_ERROR, aapt exits with 0, and build.bsh packs old resources.

## 8. Not modelled

- `FileBrowser`, the settings other than `log_output`, the other pages: they keep one directory, or
  preferences, and have no part in a build.
- The sample scripts: the steps of `build.bsh` in several files.
- Two builds in one directory at a time, and aapt's commands other than package.
- `SharedZip`, `RefBase`, `VectorImpl` and the other vendored libraries: not this program's own logic, and
  used by aapt from one thread. libpng, expat and zlib likewise: they make up most of the lines of the
  repository.
- aapt's resource tables and formats: data beyond a small model. Generated code, layouts, texts.

Hazards that no property covers are listed with the reason in `PROJECT.json`.
