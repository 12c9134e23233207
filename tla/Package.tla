------------------------------ MODULE Package ------------------------------
(***************************************************************************)
(* aapt package: doPackage compiles the resources and calls writeAPK, which*)
(* puts the files, and the classes of the jars, into an archive, new (-f)  *)
(* or old (-u).  Build follows build, while the sources are edited, between*)
(* two builds or during one, and may get an older time with it.            *)
(*                                                                         *)
(* Abstractions.  The archive is a map from names to contents, as module   *)
(* Archive has it and ZipFile implements it.  A content is the version of  *)
(* the file it was read from.  The files come in any order.  What buildRe- *)
(* sources generates is read when it runs; its entry has the time of the   *)
(* archive, which nothing compares.  No name ends in .EXCLUDE.             *)
(***************************************************************************)
EXTENDS Integers

CONSTANTS
  Files,      \* the source files that can exist
  Generated,  \* those whose data is in memory (AaptFile::hasData)
  NameOf,     \* their names in the archive; x and x.gz have the same
  Classes,    \* the names of classes in a jar
  Missing,    \* stands for no content
  MaxEdits,   \* bound: the edits
  MaxTime     \* bound: the times a file can have, in seconds

Names == {NameOf[f] : f \in Files} \cup Classes
Versions == 1 .. MaxEdits

ASSUME PackageAssumption ==
  /\ Generated \subseteq Files
  /\ DOMAIN NameOf = Files
  /\ Classes \cap {NameOf[f] : f \in Files} = {}
  /\ Classes \cap Files = {}
  /\ MaxEdits \in Nat /\ MaxTime \in Nat
  /\ Missing \notin Versions
  /\ \A f \in Generated, g \in Files : NameOf[f] = NameOf[g] => g \in Generated

VARIABLES
  version,   \* of every source file and class, or Missing
  time,      \* the time of every source file
  edits,     \* the edits so far
  exists,    \* whether the archive exists
  content,   \* the contents in it
  stamp,     \* the times in it
  isOpen,    \* whether writeAPK has it open
  broken,    \* whether it was left half written
  pc,        \* where doPackage is
  update,    \* -u
  todo,      \* the files still to process
  read,      \* the version of a generated file that was compiled
  marked,    \* the names whose entry is marked
  old,       \* the names whose entry was there when the archive was opened
  result,    \* the exit code, or that of writeAPK so far
  complained,\* whether an ERROR was printed
  began      \* history: the edits when doPackage started

archive == <<exists, content, stamp, isOpen, broken>>
project == <<version, time, edits>>
run == <<update, todo, read, marked, old>>
outcome == <<result, complained>>
vars == <<project, archive, pc, run, outcome, began>>

Items == Files \cup Classes
Present == {f \in Files : version[f] # Missing}
Empty == [n \in Names |-> Missing]
NoTime == [n \in Names |-> 0]

(* setModWhen keeps even seconds, rounded up.                              *)
Even(t) == t + (t % 2)

Init ==
  /\ version = [i \in Items |-> Missing] /\ time = [f \in Files |-> 0]
  /\ edits = 0
  /\ exists = FALSE /\ content = Empty /\ stamp = NoTime
  /\ isOpen = FALSE /\ broken = FALSE
  /\ pc = "idle" /\ update = FALSE /\ todo = {} /\ marked = {} /\ old = {}
  /\ read = [f \in Generated |-> Missing]
  /\ result = 0 /\ complained = FALSE /\ began = 0

(***************************************************************************)
(* The user                                                                *)
(***************************************************************************)
Edit(i, t) ==
  /\ edits < MaxEdits
  /\ edits' = edits + 1 /\ version' = [version EXCEPT ![i] = edits + 1]
  /\ time' = IF i \in Files THEN [time EXCEPT ![i] = t] ELSE time
  /\ UNCHANGED <<archive, pc, run, outcome, began>>

Delete(i) ==
  /\ version[i] # Missing
  /\ version' = [version EXCEPT ![i] = Missing]
  /\ UNCHANGED <<time, edits, archive, pc, run, outcome, began>>

(***************************************************************************)
(* doPackage                                                               *)
(***************************************************************************)

(* The files are looked up and compiled.                                   *)
Start(u) ==
  /\ pc = "idle"
  /\ update' = u /\ todo' = Present /\ marked' = {} /\ old' = {}
  /\ read' = [f \in Generated |-> version[f]]
  /\ pc' = "compiled" /\ result' = 0 /\ complained' = FALSE
  /\ began' = edits
  /\ UNCHANGED <<project, archive>>

CompileFails ==
  /\ pc = "compiled"
  /\ pc' = "idle" /\ result' = 1 /\ complained' = TRUE
  /\ UNCHANGED <<project, archive, run, began>>

(* writeAPK prepares the archive.  It leaves with an error message and with*)
(* result = NO_ERROR if there is one already that it may not touch, cannot *)
(* remove or cannot open.  A variant of Prepare that does not remove it.   *)
GiveUp ==
  /\ \/ pc = "compiled" /\ exists /\ ~update
     \/ pc = "opening"
  /\ pc' = "idle" /\ complained' = TRUE
  /\ UNCHANGED <<project, archive, run, result, began>>

Prepare_over(force) ==
  /\ pc = "compiled" /\ (exists /\ ~update => force)
  /\ pc' = "opening"
  /\ UNCHANGED <<project, archive, run, outcome, began>>

Prepare(force) ==
  /\ pc = "compiled"
  /\ IF exists /\ ~update
     THEN /\ force
          /\ exists' = FALSE /\ content' = Empty /\ stamp' = NoTime
          /\ broken' = FALSE
     ELSE UNCHANGED <<exists, content, stamp, broken>>
  /\ pc' = "opening"
  /\ UNCHANGED <<project, isOpen, run, outcome, began>>

Open ==
  /\ pc = "opening"
  /\ exists' = TRUE /\ isOpen' = TRUE
  /\ old' = {n \in Names : content[n] # Missing}
  /\ pc' = "packing"
  /\ UNCHANGED <<project, content, stamp, broken, update, todo, read, marked,
                 outcome, began>>

(* A step of writeAPK that fails: the archive is closed and removed.       *)
Fail ==
  /\ pc' = "failed" /\ result' = 1 /\ complained' = TRUE

(***************************************************************************)
(* processFile                                                             *)
(***************************************************************************)
Newer(f) == time[f] > stamp[NameOf[f]]

(* A variant that forgets the mark.                                        *)
KeepEntry_again(f) ==
  /\ pc = "packing" /\ f \in todo
  /\ update /\ content[NameOf[f]] # Missing
  /\ f \notin Generated /\ version[f] # Missing /\ ~Newer(f)
  /\ marked' = marked \cup {NameOf[f]} /\ todo' = todo \ {f}
  /\ UNCHANGED <<project, archive, pc, update, read, old, outcome, began>>

(* "File already exists in archive; there can be only one."                *)
ExistsTwice(f) ==
  /\ pc = "packing" /\ f \in todo
  /\ update /\ content[NameOf[f]] # Missing /\ NameOf[f] \in marked
  /\ Fail
  /\ UNCHANGED <<project, archive, run, began>>

(* The version in the archive is newer, or as new.                         *)
KeepEntry(f) ==
  /\ pc = "packing" /\ f \in todo
  /\ update /\ content[NameOf[f]] # Missing /\ NameOf[f] \notin marked
  /\ f \notin Generated /\ version[f] # Missing /\ ~Newer(f)
  /\ marked' = marked \cup {NameOf[f]} /\ todo' = todo \ {f}
  /\ UNCHANGED <<project, archive, pc, update, read, old, outcome, began>>

(* An entry that is older, or that was generated, makes room.  (If a file  *)
(* of the same name comes before it is added, that one gets the error.)    *)
DropEntry(f) ==
  /\ pc = "packing" /\ f \in todo
  /\ update /\ content[NameOf[f]] # Missing /\ NameOf[f] \notin marked
  /\ f \in Generated \/ (version[f] # Missing /\ Newer(f))
  /\ content' = [content EXCEPT ![NameOf[f]] = Missing]
  /\ UNCHANGED <<project, exists, stamp, isOpen, broken, pc, run, outcome,
                 began>>

(* A variant that does not ask whether the name is taken.                  *)
AddFile_over(f) ==
  /\ pc = "packing" /\ f \in todo
  /\ f \in Generated \/ version[f] # Missing
  /\ content' = [content EXCEPT ![NameOf[f]] =
                   IF f \in Generated THEN read[f] ELSE version[f]]
  /\ stamp' = [stamp EXCEPT ![NameOf[f]] =
                 IF f \in Generated THEN 0 ELSE Even(time[f])]
  /\ marked' = marked \cup {NameOf[f]} /\ todo' = todo \ {f}
  /\ UNCHANGED <<project, exists, isOpen, broken, pc, update, read, old,
                 outcome, began>>

AddFile(f) ==
  /\ pc = "packing" /\ f \in todo
  /\ content[NameOf[f]] = Missing
  /\ f \in Generated \/ version[f] # Missing
  /\ content' = [content EXCEPT ![NameOf[f]] =
                   IF f \in Generated THEN read[f] ELSE version[f]]
  /\ stamp' = [stamp EXCEPT ![NameOf[f]] =
                 IF f \in Generated THEN 0 ELSE Even(time[f])]
  /\ marked' = marked \cup {NameOf[f]} /\ todo' = todo \ {f}
  /\ UNCHANGED <<project, exists, isOpen, broken, pc, update, read, old,
                 outcome, began>>

(* Without -u the name is taken; or the source has gone since it was found,*)
(* or the archive cannot be written.                                       *)
FileFails(f) ==
  /\ pc = "packing" /\ f \in todo
  /\ Fail
  /\ UNCHANGED <<project, archive, run, began>>

(***************************************************************************)
(* processJarFile: the result of add is not looked at, so that a class     *)
(* whose name is taken, or that cannot be written, is left out.            *)
(***************************************************************************)
FilesDone ==
  /\ pc = "packing" /\ todo = {}
  /\ pc' = "jars" /\ todo' = {c \in Classes : version[c] # Missing}
  /\ UNCHANGED <<project, archive, update, read, marked, old, outcome, began>>

AddClass(c) ==
  /\ pc = "jars" /\ c \in todo
  /\ content' = [content EXCEPT ![c] = IF @ = Missing THEN version[c] ELSE @]
  /\ version[c] # Missing
  /\ todo' = todo \ {c}
  /\ UNCHANGED <<project, exists, stamp, isOpen, broken, pc, update, read,
                 marked, old, outcome, began>>

LoseClass(c) ==
  /\ pc = "jars" /\ c \in todo
  /\ todo' = todo \ {c}
  /\ UNCHANGED <<project, archive, pc, update, read, marked, old, outcome,
                 began>>

(* The jar cannot be opened, or an entry of it not be read.                *)
JarFails ==
  /\ pc = "jars"
  /\ Fail
  /\ UNCHANGED <<project, archive, run, began>>

(***************************************************************************)
(* The end of writeAPK                                                     *)
(***************************************************************************)

(* The loop over the entries removes those that are not marked and deleted *)
(* already; the flush may fail.  A variant as the comment has it, which    *)
(* would take the classes too.                                             *)
Cruft_meant == {n \in Names : n \notin marked}

Cruft == {n \in Names : n \notin marked /\ content[n] = Missing}

Finish ==
  /\ pc = "jars" /\ todo = {}
  /\ content' = [n \in Names |-> IF n \in Cruft THEN Missing ELSE content[n]]
  /\ pc' = "flushed"
  /\ UNCHANGED <<project, exists, stamp, isOpen, broken, run, outcome, began>>

FlushFails ==
  /\ pc = "jars" /\ todo = {}
  /\ Fail
  /\ broken' = TRUE
  /\ UNCHANGED <<project, exists, content, stamp, isOpen, run, began>>

(* An archive without entries is removed, like one that failed.  A variant *)
(* that removes it before it is closed.                                    *)
Close_late ==
  /\ pc \in {"flushed", "failed"}
  /\ pc' = IF pc = "failed" \/ content = Empty THEN "unlinking" ELSE "idle"
  /\ UNCHANGED <<project, archive, run, outcome, began>>

Close ==
  /\ pc \in {"flushed", "failed"}
  /\ isOpen' = FALSE
  /\ pc' = IF pc = "failed" \/ content = Empty THEN "unlinking" ELSE "idle"
  /\ UNCHANGED <<project, exists, content, stamp, broken, run, outcome, began>>

Unlink ==
  /\ pc = "unlinking"
  /\ exists' = FALSE /\ content' = Empty /\ stamp' = NoTime /\ broken' = FALSE
  /\ pc' = "idle"
  /\ UNCHANGED <<project, isOpen, run, outcome, began>>

(* "Warning: could not unlink".                                            *)
UnlinkFails ==
  /\ pc = "unlinking"
  /\ pc' = "idle"
  /\ UNCHANGED <<project, archive, run, outcome, began>>

(* ZipFile loses something without telling, or the process is killed.      *)
Break ==
  /\ isOpen /\ ~broken
  /\ broken' = TRUE
  /\ UNCHANGED <<project, exists, content, stamp, isOpen, pc, run, outcome,
                 began>>

Killed ==
  /\ pc # "idle"
  /\ pc' = "idle" /\ isOpen' = FALSE /\ broken' = (broken \/ isOpen)
  /\ result' = 1 /\ complained' = TRUE
  /\ UNCHANGED <<project, exists, content, stamp, run, began>>

ProcessFile ==
  \E f \in Files :
    \/ ExistsTwice(f) \/ KeepEntry(f) \/ DropEntry(f)
    \/ AddFile(f) \/ FileFails(f)

ProcessJars ==
  JarFails \/ \E c \in Classes : AddClass(c) \/ LoseClass(c)

Next ==
  \/ \E i \in Items : Delete(i) \/ \E t \in 0 .. MaxTime : Edit(i, t)
  \/ \E u \in BOOLEAN : Start(u)
  \/ CompileFails \/ GiveUp \/ (\E force \in BOOLEAN : Prepare(force)) \/ Open
  \/ ProcessFile \/ FilesDone \/ ProcessJars
  \/ Finish \/ FlushFails \/ Close \/ Unlink \/ UnlinkFails
  \/ Break \/ Killed

Spec == Init /\ [][Next]_vars

(***************************************************************************)
(* Properties                                                              *)
(***************************************************************************)

(* Every variable has its type; writeAPK has the archive open while it     *)
(* packs, and an archive with something in it exists.                      *)
TypeOK ==
  /\ version \in [Items -> Versions \cup {Missing}]
  /\ time \in [Files -> 0 .. MaxTime] /\ edits \in 0 .. MaxEdits
  /\ exists \in BOOLEAN /\ content \in [Names -> Versions \cup {Missing}]
  /\ stamp \in [Names -> Nat]
  /\ pc \in {"idle", "compiled", "opening", "packing", "jars", "flushed",
             "failed", "unlinking"}
  /\ isOpen \in BOOLEAN
  /\ isOpen <=> pc \in {"packing", "jars", "flushed", "failed"}
  /\ (isOpen \/ content # Empty => exists) /\ broken \in BOOLEAN
  /\ update \in BOOLEAN /\ todo \subseteq Items
  /\ read \in [Generated -> Versions \cup {Missing}]
  /\ marked \subseteq Names /\ old \subseteq Names
  /\ result \in {0, 1} /\ complained \in BOOLEAN /\ began \in 0 .. edits

(* When writeAPK has flushed, and after a run that printed no ERROR, every *)
(* source file that is as it was when the run began is in the archive as it*)
(* is, whatever was in there, and even if two files have the same name in  *)
(* it.  Only -u may leave an old version, not another file's, and only if  *)
(* the file's time is not past the one in the archive, which is rounded up.*)
(* The exit code is no help: writeAPK may give up, with an ERROR, and aapt *)
(* exit with 0.                                                            *)
PackagedIsCurrent ==
  pc = "flushed" \/ (pc = "idle" /\ ~complained) =>
    \A f \in Present :
      version[f] <= began =>
        \/ content[NameOf[f]] = version[f]
        \/ /\ update /\ f \notin Generated
           /\ content[NameOf[f]] # Missing /\ time[f] <= stamp[NameOf[f]]
           /\ \A g \in Present : content[NameOf[f]] # version[g]

(* Without -u nothing of an earlier build is left: what is in the archive  *)
(* was marked, for a source file of this run, or comes from a jar.         *)
FreshHasNoCruft ==
  pc = "flushed" /\ ~update =>
    {n \in Names : content[n] # Missing} \subseteq marked \cup Classes

(* -u takes nothing out: the loop that checks for cruft removes what is    *)
(* deleted already, so that the entry of a source file that is gone stays, *)
(* as does every class, which nothing marks.                               *)
UpdateKeepsAll ==
  pc = "flushed" /\ update => \A n \in old : content[n] # Missing

(* "-u  update existing packages (add new, replace older, remove deleted   *)
(* files)" (Main.cpp:121): an update leaves nothing whose source is gone.  *)
UpdateRemovesDeleted ==
  pc = "flushed" /\ update =>
    {n \in Names : content[n] # Missing} \subseteq marked \cup Classes

A == INSTANCE Archive WITH Contents <- Versions

(* aapt uses the archive as its interface allows: a name that is taken is  *)
(* removed before it is added again, and only while it is open.            *)
IsArchive == A!Spec
=============================================================================
