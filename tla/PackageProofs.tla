--------------------------- MODULE PackageProofs ---------------------------
(***************************************************************************)
(* Theorems about aapt package, for any files, names, classes and numbers  *)
(* of edits: what a run that was content has packed, what it may leave of  *)
(* earlier ones, and that it uses the archive as its interface allows.     *)
(*                                                                         *)
(* The argument for PackagedIsCurrent: versions are numbers of edits, so   *)
(* that no two items ever share one and an edit during the run makes one   *)
(* that is in no archive (Numbered, Distinct, Origin).  A file that has    *)
(* been processed has marked its name, and nothing touches a marked entry  *)
(* again (Processed); one whose name is marked by another can never be     *)
(* processed, and the run fails.                                           *)
(***************************************************************************)
EXTENDS Package, TLAPS

Preparing == pc \in {"compiled", "opening", "packing"}

(* No content is newer than the last edit; no two items share a version;   *)
(* the content of a file is under its own name.                            *)
Numbered ==
  /\ \A i \in Items : version[i] # Missing => version[i] <= edits
  /\ \A n \in Names : content[n] # Missing => content[n] <= edits
  /\ \A f \in Generated : read[f] # Missing => read[f] <= edits
Distinct ==
  \A i, j \in Items : version[i] # Missing /\ version[i] = version[j] => i = j
Origin ==
  /\ \A f \in Present, n \in Names : content[n] = version[f] => n = NameOf[f]
  /\ \A f \in Present, g \in Generated : read[g] = version[f] => f = g

(* What is still to be packed; the generated data is of this run.          *)
Compiled ==
  /\ Preparing =>
       /\ todo \subseteq Files
       /\ \A f \in todo \cap Generated :
            /\ read[f] # Missing
            /\ version[f] # Missing /\ version[f] <= began
                 => read[f] = version[f]
  /\ pc = "jars" => todo \subseteq Classes

(* An entry that is not marked is of an earlier run.                       *)
Older ==
  Preparing =>
    \A n \in Names : content[n] # Missing /\ n \notin marked
                       => content[n] <= began

(* What PackagedIsCurrent says of one file, while the files in T may still *)
(* turn out to have the same name.                                         *)
Kept(f, T) ==
  \/ content[NameOf[f]] = version[f]
  \/ /\ update /\ f \notin Generated
     /\ content[NameOf[f]] # Missing /\ time[f] <= stamp[NameOf[f]]
     /\ \A g \in Present : content[NameOf[f]] = version[g] => g \in T

Unprocessed ==
  pc \in {"compiled", "opening"} =>
    \A f \in Present : version[f] <= began => f \in todo
Processed ==
  pc = "packing" =>
    \A f \in Present : version[f] <= began /\ f \notin todo
                         => NameOf[f] \in marked /\ Kept(f, todo)
Ready ==
  pc \in {"jars", "flushed"} \/ (pc \in {"idle", "unlinking"} /\ ~complained)
    => \A f \in Present : version[f] <= began => Kept(f, {})
Emptied ==
  /\ pc = "unlinking" /\ ~complained => content = Empty
  /\ pc = "failed" => complained

(* For the other properties.                                               *)
Nameless ==
  /\ pc = "opening" /\ ~update => content = Empty
  /\ pc \in {"packing", "jars", "flushed"} /\ ~update =>
       {n \in Names : content[n] # Missing} \subseteq marked \cup Classes
OldKept ==
  /\ pc = "packing" /\ update =>
       \A n \in old : content[n] # Missing \/ \E f \in todo : NameOf[f] = n
  /\ pc \in {"jars", "flushed"} /\ update =>
       \A n \in old : content[n] # Missing

Base == TypeOK /\ Compiled
Sources == Numbered /\ Distinct /\ Origin
Progress == Older /\ Unprocessed /\ Processed /\ Ready /\ Emptied
Inv == Base /\ Sources /\ Progress /\ Nameless /\ OldKept

------------------------------------------------------------------------------
(* Facts about names and empty archives.                                   *)
LEMMA NamesTyped ==
  /\ \A f \in Files : NameOf[f] \in Names /\ NameOf[f] \notin Classes
  /\ Classes \subseteq Names
  /\ Classes \cap Files = {} /\ Generated \subseteq Files
BY PackageAssumption DEF Names

LEMMA EmptyTyped ==
  /\ Empty \in [Names -> Versions \cup {Missing}]
  /\ \A n \in Names : Empty[n] = Missing
  /\ NoTime \in [Names -> Nat]
BY DEF Empty, NoTime

LEMMA MissingIsNoVersion ==
  Missing \notin Versions /\ Versions \subseteq Nat \ {0}
BY PackageAssumption DEF Versions

LEMMA EditsGrow ==
  \A v \in Versions, e \in Nat : v <= e => v <= e + 1
BY PackageAssumption DEF Versions

(* Typing, and what is still to be packed.                                 *)
LEMMA BaseStep ==
  Base /\ [Next]_vars => Base'
<1> SUFFICES ASSUME Base, [Next]_vars PROVE Base'
  OBVIOUS
<1>1. ASSUME NEW i \in Items, Delete(i)
      PROVE  Base'
  BY <1>1 DEF Delete, archive, run, outcome, Base, TypeOK, Compiled, Preparing
<1>2. ASSUME NEW i \in Items, NEW t \in 0 .. MaxTime, Edit(i, t)
      PROVE  Base'
  BY <1>2, NamesTyped, PackageAssumption DEF Edit, archive, run, outcome,
     Versions, Base, TypeOK, Compiled, Preparing, Items, Present
<1>3. ASSUME NEW u \in BOOLEAN, Start(u)
      PROVE  Base'
  <2>1. read' \in [Generated -> Versions \cup {Missing}]
    BY <1>3, NamesTyped DEF Start, Base, TypeOK, Items
  <2>2. Compiled'
    BY <1>3, NamesTyped DEF Start, project, Base, TypeOK, Compiled, Preparing,
       Present, Items
  <2>3. /\ began' \in 0 .. edits' /\ todo' \subseteq Items
        /\ pc = "idle" /\ marked' \subseteq Names /\ old' \subseteq Names
    BY <1>3, PackageAssumption
       DEF Start, project, Base, TypeOK, Present, Items
  <2>4. TypeOK'
    BY <1>3, <2>1, <2>3 DEF Start, project, archive, Base, TypeOK
  <2> QED  BY <2>2, <2>4 DEF Base
<1>4. ASSUME CompileFails
      PROVE  Base'
  BY <1>4 DEF CompileFails, project, archive, run, Base, TypeOK, Compiled,
     Preparing
<1>5. ASSUME GiveUp
      PROVE  Base'
  BY <1>5 DEF GiveUp, project, archive, run, Base, TypeOK, Compiled, Preparing
<1>6. ASSUME NEW force \in BOOLEAN, Prepare(force)
      PROVE  Base'
  BY <1>6, NamesTyped, PackageAssumption, EmptyTyped DEF Prepare, project,
     run, outcome, Base, TypeOK, Compiled, Preparing, Items, Present
<1>7. ASSUME Open
      PROVE  Base'
  BY <1>7 DEF Open, project, outcome, Base, TypeOK, Compiled, Preparing
<1>8. ASSUME NEW f \in Files, ExistsTwice(f)
      PROVE  Base'
  BY <1>8 DEF ExistsTwice, Fail, project, archive, run, Base, TypeOK,
     Compiled, Preparing
<1>9. ASSUME NEW f \in Files, KeepEntry(f)
      PROVE  Base'
  BY <1>9, NamesTyped, PackageAssumption DEF KeepEntry, Newer, project,
     archive, outcome, Base, TypeOK, Compiled, Preparing, Items, Present
<1>10. ASSUME NEW f \in Files, DropEntry(f)
      PROVE  Base'
  BY <1>10 DEF DropEntry, Newer, project, run, outcome, Base, TypeOK,
     Compiled, Preparing
<1>11. ASSUME NEW f \in Files, AddFile(f)
      PROVE  Base'
  <2>1. NameOf[f] \in Names /\ f \in Items /\ pc = "packing"
    BY <1>11, NamesTyped DEF AddFile, Items
  <2>2. /\ content' \in [Names -> Versions \cup {Missing}]
        /\ marked' \subseteq Names
    BY <1>11, <2>1 DEF AddFile, Base, TypeOK
  <2>3. Even(time[f]) \in Nat
    BY DEF Even, Base, TypeOK
  <2>4. stamp' \in [Names -> Nat]
    BY <1>11, <2>1, <2>3 DEF AddFile, Base, TypeOK
  <2>5. TypeOK'
    BY <1>11, <2>1, <2>2, <2>4 DEF AddFile, project, outcome, Base, TypeOK
  <2>6. Compiled'
    BY <1>11 DEF AddFile, project, Base, Compiled, Preparing
  <2> QED  BY <2>5, <2>6 DEF Base
<1>12. ASSUME NEW f \in Files, FileFails(f)
      PROVE  Base'
  BY <1>12 DEF FileFails, Fail, project, archive, run, Base, TypeOK, Compiled,
     Preparing
<1>13. ASSUME FilesDone
      PROVE  Base'
  BY <1>13, NamesTyped, PackageAssumption DEF FilesDone, project, archive,
     outcome, Base, TypeOK, Compiled, Preparing, Items, Present
<1>14. ASSUME NEW c \in Classes, AddClass(c)
      PROVE  Base'
  BY <1>14 DEF AddClass, project, outcome, Base, TypeOK, Compiled, Preparing
<1>15. ASSUME NEW c \in Classes, LoseClass(c)
      PROVE  Base'
  BY <1>15 DEF LoseClass, project, archive, outcome, Base, TypeOK, Compiled,
     Preparing
<1>16. ASSUME JarFails
      PROVE  Base'
  BY <1>16 DEF JarFails, Fail, project, archive, run, Base, TypeOK, Compiled,
     Preparing
<1>17. ASSUME Finish
      PROVE  Base'
  BY <1>17 DEF Finish, Cruft, project, run, outcome, Base, TypeOK, Compiled,
     Preparing
<1>18. ASSUME FlushFails
      PROVE  Base'
  BY <1>18 DEF FlushFails, Fail, project, run, Base, TypeOK, Compiled,
     Preparing
<1>19. ASSUME Close
      PROVE  Base'
  BY <1>19 DEF Close, project, run, outcome, Base, TypeOK, Compiled, Preparing
<1>20. ASSUME Unlink
      PROVE  Base'
  BY <1>20, NamesTyped, PackageAssumption, EmptyTyped DEF Unlink, project,
     run, outcome, Base, TypeOK, Compiled, Preparing, Items, Present
<1>21. ASSUME UnlinkFails
      PROVE  Base'
  BY <1>21 DEF UnlinkFails, project, archive, run, outcome, Base, TypeOK,
     Compiled, Preparing
<1>22. ASSUME Break
      PROVE  Base'
  BY <1>22 DEF Break, project, run, outcome, Base, TypeOK, Compiled, Preparing
<1>23. ASSUME Killed
      PROVE  Base'
  BY <1>23 DEF Killed, project, run, Base, TypeOK, Compiled, Preparing
<1>24. CASE UNCHANGED vars
  BY <1>24 DEF vars, project, archive, run, outcome, Base, TypeOK, Compiled,
     Preparing
<1> QED
  BY <1>1, <1>2, <1>3, <1>4, <1>5, <1>6, <1>7, <1>8, <1>9, <1>10, <1>11,
     <1>12, <1>13, <1>14, <1>15, <1>16, <1>17, <1>18, <1>19, <1>20, <1>21,
     <1>22, <1>23, <1>24 DEF Next, ProcessFile, ProcessJars

(* Versions are numbers of edits, and identify what was edited.            *)
LEMMA SourcesStep ==
  Base /\ Sources /\ [Next]_vars => Sources'
<1> SUFFICES ASSUME Base /\ Sources, [Next]_vars PROVE Sources'
  OBVIOUS
<1>1. ASSUME NEW i \in Items, Delete(i)
      PROVE  Sources'
  BY <1>1 DEF Delete, archive, run, outcome, Numbered, Distinct, Origin,
     Sources, Present
<1>2. ASSUME NEW i \in Items, NEW t \in 0 .. MaxTime, Edit(i, t)
      PROVE  Sources'
  <2>1. /\ edits \in Nat /\ edits' = edits + 1
        /\ version'[i] = edits + 1 /\ edits + 1 \in Versions
        /\ \A j \in Items \ {i} : version'[j] = version[j]
        /\ UNCHANGED <<content, read>>
    BY <1>2, PackageAssumption
       DEF Edit, archive, run, Base, TypeOK, Versions
  <2>2. /\ \A j \in Items : version[j] \in Versions \cup {Missing}
        /\ \A n \in Names : content[n] \in Versions \cup {Missing}
        /\ \A f \in Generated : read[f] \in Versions \cup {Missing}
    BY DEF Base, TypeOK
  <2>3. Numbered'
    <3>1. \A j \in Items : version'[j] # Missing => version'[j] <= edits'
      BY <2>1, <2>2, EditsGrow DEF Sources, Numbered
    <3>2. \A n \in Names : content[n] # Missing => content[n] <= edits + 1
      BY <2>1, <2>2, EditsGrow DEF Sources, Numbered
    <3>3. \A f \in Generated : read[f] # Missing => read[f] <= edits + 1
      BY <2>1, <2>2, EditsGrow DEF Sources, Numbered
    <3> QED  BY <2>1, <3>1, <3>2, <3>3 DEF Numbered
  <2>4. Distinct'
    BY <2>1, <2>2, MissingIsNoVersion DEF Sources, Numbered, Distinct
  <2>5. Origin'
    <3>1. ASSUME NEW n \in Names, content[n] = edits + 1
          PROVE  FALSE
      BY <3>1, <2>1, <2>2, MissingIsNoVersion DEF Sources, Numbered
    <3>2. ASSUME NEW g \in Generated, read[g] = edits + 1
          PROVE  FALSE
      BY <3>2, <2>1, <2>2, MissingIsNoVersion DEF Sources, Numbered
    <3>3. \A f \in Present' :
            f = i \/ (f \in Present /\ version'[f] = version[f])
      BY <2>1 DEF Present, Items
    <3> QED  BY <2>1, <3>1, <3>2, <3>3 DEF Sources, Origin
  <2> QED  BY <2>3, <2>4, <2>5 DEF Sources
<1>3. ASSUME NEW u \in BOOLEAN, Start(u)
      PROVE  Sources'
  BY <1>3, NamesTyped, MissingIsNoVersion DEF Start, project, archive,
     Sources, Numbered, Distinct, Origin, Base, TypeOK, Compiled, Preparing,
     Items, Present
<1>4. ASSUME CompileFails
      PROVE  Sources'
  BY <1>4 DEF CompileFails, project, archive, run, Numbered, Distinct, Origin,
     Sources, Present
<1>5. ASSUME GiveUp
      PROVE  Sources'
  BY <1>5 DEF GiveUp, project, archive, run, Numbered, Distinct, Origin,
     Sources, Present
<1>6. ASSUME NEW force \in BOOLEAN, Prepare(force)
      PROVE  Sources'
  BY <1>6, NamesTyped, MissingIsNoVersion, EmptyTyped DEF Prepare, project,
     run, outcome, Sources, Numbered, Distinct, Origin, Base, TypeOK,
     Compiled, Preparing, Items, Present
<1>7. ASSUME Open
      PROVE  Sources'
  BY <1>7 DEF Open, project, outcome, Numbered, Distinct, Origin, Sources,
     Present
<1>8. ASSUME NEW f \in Files, ExistsTwice(f)
      PROVE  Sources'
  BY <1>8 DEF ExistsTwice, Fail, project, archive, run, Numbered, Distinct,
     Origin, Sources, Present
<1>9. ASSUME NEW f \in Files, KeepEntry(f)
      PROVE  Sources'
  BY <1>9 DEF KeepEntry, Newer, project, archive, outcome, Numbered, Distinct,
     Origin, Sources, Present
<1>10. ASSUME NEW f \in Files, DropEntry(f)
      PROVE  Sources'
  BY <1>10 DEF DropEntry, Newer, project, run, outcome, Numbered, Distinct,
     Origin, Sources, Present
<1>11. ASSUME NEW f \in Files, AddFile(f)
      PROVE  Sources'
  BY <1>11, NamesTyped, MissingIsNoVersion DEF AddFile, Even, project,
     outcome, Sources, Numbered, Distinct, Origin, Base, TypeOK, Compiled,
     Preparing, Items, Present
<1>12. ASSUME NEW f \in Files, FileFails(f)
      PROVE  Sources'
  BY <1>12 DEF FileFails, Fail, project, archive, run, Numbered, Distinct,
     Origin, Sources, Present
<1>13. ASSUME FilesDone
      PROVE  Sources'
  BY <1>13 DEF FilesDone, project, archive, outcome, Numbered, Distinct,
     Origin, Sources, Present
<1>14. ASSUME NEW c \in Classes, AddClass(c)
      PROVE  Sources'
  BY <1>14, NamesTyped, MissingIsNoVersion DEF AddClass, project, outcome,
     Sources, Numbered, Distinct, Origin, Base, TypeOK, Compiled, Preparing,
     Items, Present
<1>15. ASSUME NEW c \in Classes, LoseClass(c)
      PROVE  Sources'
  BY <1>15 DEF LoseClass, project, archive, outcome, Numbered, Distinct,
     Origin, Sources, Present
<1>16. ASSUME JarFails
      PROVE  Sources'
  BY <1>16 DEF JarFails, Fail, project, archive, run, Numbered, Distinct,
     Origin, Sources, Present
<1>17. ASSUME Finish
      PROVE  Sources'
  BY <1>17 DEF Finish, Cruft, project, run, outcome, Numbered, Distinct,
     Origin, Sources, Present
<1>18. ASSUME FlushFails
      PROVE  Sources'
  BY <1>18 DEF FlushFails, Fail, project, run, Numbered, Distinct, Origin,
     Sources, Present
<1>19. ASSUME Close
      PROVE  Sources'
  BY <1>19 DEF Close, project, run, outcome, Numbered, Distinct, Origin,
     Sources, Present
<1>20. ASSUME Unlink
      PROVE  Sources'
  BY <1>20, NamesTyped, MissingIsNoVersion, EmptyTyped DEF Unlink, project,
     run, outcome, Sources, Numbered, Distinct, Origin, Base, TypeOK,
     Compiled, Preparing, Items, Present
<1>21. ASSUME UnlinkFails
      PROVE  Sources'
  BY <1>21 DEF UnlinkFails, project, archive, run, outcome, Numbered,
     Distinct, Origin, Sources, Present
<1>22. ASSUME Break
      PROVE  Sources'
  BY <1>22 DEF Break, project, run, outcome, Numbered, Distinct, Origin,
     Sources, Present
<1>23. ASSUME Killed
      PROVE  Sources'
  BY <1>23 DEF Killed, project, run, Numbered, Distinct, Origin, Sources,
     Present
<1>24. CASE UNCHANGED vars
  BY <1>24 DEF vars, project, archive, run, outcome, Numbered, Distinct,
     Origin, Sources, Present
<1> QED
  BY <1>1, <1>2, <1>3, <1>4, <1>5, <1>6, <1>7, <1>8, <1>9, <1>10, <1>11,
     <1>12, <1>13, <1>14, <1>15, <1>16, <1>17, <1>18, <1>19, <1>20, <1>21,
     <1>22, <1>23, <1>24 DEF Next, ProcessFile, ProcessJars

(* What -u and -f leave of earlier builds.                                  *)
LEMMA NamelessStep ==
  Base /\ Nameless /\ [Next]_vars => Nameless'
<1> SUFFICES ASSUME Base /\ Nameless, [Next]_vars PROVE Nameless'
  OBVIOUS
<1>1. ASSUME NEW i \in Items, Delete(i)
      PROVE  Nameless'
  BY <1>1 DEF Delete, archive, run, outcome, Nameless
<1>2. ASSUME NEW i \in Items, NEW t \in 0 .. MaxTime, Edit(i, t)
      PROVE  Nameless'
  BY <1>2 DEF Edit, archive, run, outcome, Nameless
<1>3. ASSUME NEW u \in BOOLEAN, Start(u)
      PROVE  Nameless'
  BY <1>3 DEF Start, project, archive, Nameless
<1>4. ASSUME CompileFails
      PROVE  Nameless'
  BY <1>4 DEF CompileFails, project, archive, run, Nameless
<1>5. ASSUME GiveUp
      PROVE  Nameless'
  BY <1>5 DEF GiveUp, project, archive, run, Nameless
<1>6. ASSUME NEW force \in BOOLEAN, Prepare(force)
      PROVE  Nameless'
  BY <1>6, NamesTyped, EmptyTyped DEF Prepare, project, run, outcome,
     Nameless, Base, TypeOK, Preparing, Items, Present
<1>7. ASSUME Open
      PROVE  Nameless'
  BY <1>7, NamesTyped, EmptyTyped DEF Open, project, outcome, Nameless, Base,
     TypeOK, Preparing, Items, Present
<1>8. ASSUME NEW f \in Files, ExistsTwice(f)
      PROVE  Nameless'
  BY <1>8 DEF ExistsTwice, Fail, project, archive, run, Nameless
<1>9. ASSUME NEW f \in Files, KeepEntry(f)
      PROVE  Nameless'
  BY <1>9 DEF KeepEntry, Newer, project, archive, outcome, Nameless
<1>10. ASSUME NEW f \in Files, DropEntry(f)
      PROVE  Nameless'
  BY <1>10 DEF DropEntry, Newer, project, run, outcome, Nameless
<1>11. ASSUME NEW f \in Files, AddFile(f)
      PROVE  Nameless'
  BY <1>11 DEF AddFile, Even, project, outcome, Nameless
<1>12. ASSUME NEW f \in Files, FileFails(f)
      PROVE  Nameless'
  BY <1>12 DEF FileFails, Fail, project, archive, run, Nameless
<1>13. ASSUME FilesDone
      PROVE  Nameless'
  BY <1>13 DEF FilesDone, project, archive, outcome, Nameless
<1>14. ASSUME NEW c \in Classes, AddClass(c)
      PROVE  Nameless'
  BY <1>14 DEF AddClass, project, outcome, Nameless
<1>15. ASSUME NEW c \in Classes, LoseClass(c)
      PROVE  Nameless'
  BY <1>15 DEF LoseClass, project, archive, outcome, Nameless
<1>16. ASSUME JarFails
      PROVE  Nameless'
  BY <1>16 DEF JarFails, Fail, project, archive, run, Nameless
<1>17. ASSUME Finish
      PROVE  Nameless'
  BY <1>17 DEF Finish, Cruft, project, run, outcome, Nameless
<1>18. ASSUME FlushFails
      PROVE  Nameless'
  BY <1>18 DEF FlushFails, Fail, project, run, Nameless
<1>19. ASSUME Close
      PROVE  Nameless'
  BY <1>19 DEF Close, project, run, outcome, Nameless
<1>20. ASSUME Unlink
      PROVE  Nameless'
  BY <1>20 DEF Unlink, project, run, outcome, Nameless
<1>21. ASSUME UnlinkFails
      PROVE  Nameless'
  BY <1>21 DEF UnlinkFails, project, archive, run, outcome, Nameless
<1>22. ASSUME Break
      PROVE  Nameless'
  BY <1>22 DEF Break, project, run, outcome, Nameless
<1>23. ASSUME Killed
      PROVE  Nameless'
  BY <1>23 DEF Killed, project, run, Nameless
<1>24. CASE UNCHANGED vars
  BY <1>24 DEF vars, project, archive, run, outcome, Nameless
<1> QED
  BY <1>1, <1>2, <1>3, <1>4, <1>5, <1>6, <1>7, <1>8, <1>9, <1>10, <1>11,
     <1>12, <1>13, <1>14, <1>15, <1>16, <1>17, <1>18, <1>19, <1>20, <1>21,
     <1>22, <1>23, <1>24 DEF Next, ProcessFile, ProcessJars

LEMMA OldKeptStep ==
  Base /\ OldKept /\ [Next]_vars => OldKept'
<1> SUFFICES ASSUME Base /\ OldKept, [Next]_vars PROVE OldKept'
  OBVIOUS
<1>1. ASSUME NEW i \in Items, Delete(i)
      PROVE  OldKept'
  BY <1>1 DEF Delete, archive, run, outcome, OldKept
<1>2. ASSUME NEW i \in Items, NEW t \in 0 .. MaxTime, Edit(i, t)
      PROVE  OldKept'
  BY <1>2 DEF Edit, archive, run, outcome, OldKept
<1>3. ASSUME NEW u \in BOOLEAN, Start(u)
      PROVE  OldKept'
  BY <1>3 DEF Start, project, archive, OldKept
<1>4. ASSUME CompileFails
      PROVE  OldKept'
  BY <1>4 DEF CompileFails, project, archive, run, OldKept
<1>5. ASSUME GiveUp
      PROVE  OldKept'
  BY <1>5 DEF GiveUp, project, archive, run, OldKept
<1>6. ASSUME NEW force \in BOOLEAN, Prepare(force)
      PROVE  OldKept'
  BY <1>6 DEF Prepare, project, run, outcome, OldKept
<1>7. ASSUME Open
      PROVE  OldKept'
  BY <1>7 DEF Open, project, outcome, OldKept
<1>8. ASSUME NEW f \in Files, ExistsTwice(f)
      PROVE  OldKept'
  BY <1>8 DEF ExistsTwice, Fail, project, archive, run, OldKept
<1>9. ASSUME NEW f \in Files, KeepEntry(f)
      PROVE  OldKept'
  BY <1>9 DEF KeepEntry, Newer, project, archive, outcome, OldKept
<1>10. ASSUME NEW f \in Files, DropEntry(f)
      PROVE  OldKept'
  BY <1>10 DEF DropEntry, Newer, project, run, outcome, OldKept
<1>11. ASSUME NEW f \in Files, AddFile(f)
      PROVE  OldKept'
  BY <1>11, NamesTyped, MissingIsNoVersion DEF AddFile, Even, project,
     outcome, OldKept, Base, TypeOK, Compiled, Preparing, Items, Present
<1>12. ASSUME NEW f \in Files, FileFails(f)
      PROVE  OldKept'
  BY <1>12 DEF FileFails, Fail, project, archive, run, OldKept
<1>13. ASSUME FilesDone
      PROVE  OldKept'
  BY <1>13 DEF FilesDone, project, archive, outcome, OldKept
<1>14. ASSUME NEW c \in Classes, AddClass(c)
      PROVE  OldKept'
  BY <1>14 DEF AddClass, project, outcome, OldKept
<1>15. ASSUME NEW c \in Classes, LoseClass(c)
      PROVE  OldKept'
  BY <1>15 DEF LoseClass, project, archive, outcome, OldKept
<1>16. ASSUME JarFails
      PROVE  OldKept'
  BY <1>16 DEF JarFails, Fail, project, archive, run, OldKept
<1>17. ASSUME Finish
      PROVE  OldKept'
  BY <1>17, NamesTyped DEF Finish, Cruft, project, run, outcome, OldKept,
     Base, TypeOK, Preparing, Items, Present
<1>18. ASSUME FlushFails
      PROVE  OldKept'
  BY <1>18 DEF FlushFails, Fail, project, run, OldKept
<1>19. ASSUME Close
      PROVE  OldKept'
  BY <1>19 DEF Close, project, run, outcome, OldKept
<1>20. ASSUME Unlink
      PROVE  OldKept'
  BY <1>20 DEF Unlink, project, run, outcome, OldKept
<1>21. ASSUME UnlinkFails
      PROVE  OldKept'
  BY <1>21 DEF UnlinkFails, project, archive, run, outcome, OldKept
<1>22. ASSUME Break
      PROVE  OldKept'
  BY <1>22 DEF Break, project, run, outcome, OldKept
<1>23. ASSUME Killed
      PROVE  OldKept'
  BY <1>23 DEF Killed, project, run, OldKept
<1>24. CASE UNCHANGED vars
  BY <1>24 DEF vars, project, archive, run, outcome, OldKept
<1> QED
  BY <1>1, <1>2, <1>3, <1>4, <1>5, <1>6, <1>7, <1>8, <1>9, <1>10, <1>11,
     <1>12, <1>13, <1>14, <1>15, <1>16, <1>17, <1>18, <1>19, <1>20, <1>21,
     <1>22, <1>23, <1>24 DEF Next, ProcessFile, ProcessJars

(* Progress: what has been packed.                                         *)
LEMMA OlderStep ==
  Base /\ Sources /\ Older /\ [Next]_vars => Older'
<1> SUFFICES ASSUME Base /\ Sources /\ Older, [Next]_vars PROVE Older'
  OBVIOUS
<1>1. ASSUME NEW i \in Items, Delete(i)
      PROVE  Older'
  BY <1>1 DEF Delete, archive, run, outcome, Older, Preparing
<1>2. ASSUME NEW i \in Items, NEW t \in 0 .. MaxTime, Edit(i, t)
      PROVE  Older'
  BY <1>2 DEF Edit, archive, run, outcome, Older, Preparing
<1>3. ASSUME NEW u \in BOOLEAN, Start(u)
      PROVE  Older'
  BY <1>3, NamesTyped, MissingIsNoVersion DEF Start, project, archive, Older,
     Sources, Numbered, Base, TypeOK, Compiled, Preparing, Items, Present
<1>4. ASSUME CompileFails
      PROVE  Older'
  BY <1>4 DEF CompileFails, project, archive, run, Older, Preparing
<1>5. ASSUME GiveUp
      PROVE  Older'
  BY <1>5 DEF GiveUp, project, archive, run, Older, Preparing
<1>6. ASSUME NEW force \in BOOLEAN, Prepare(force)
      PROVE  Older'
  BY <1>6, NamesTyped, EmptyTyped DEF Prepare, project, run, outcome, Older,
     Numbered, Base, TypeOK, Preparing, Items, Present
<1>7. ASSUME Open
      PROVE  Older'
  BY <1>7 DEF Open, project, outcome, Older, Preparing
<1>8. ASSUME NEW f \in Files, ExistsTwice(f)
      PROVE  Older'
  BY <1>8 DEF ExistsTwice, Fail, project, archive, run, Older, Preparing
<1>9. ASSUME NEW f \in Files, KeepEntry(f)
      PROVE  Older'
  BY <1>9 DEF KeepEntry, Newer, project, archive, outcome, Older, Preparing
<1>10. ASSUME NEW f \in Files, DropEntry(f)
      PROVE  Older'
  BY <1>10 DEF DropEntry, Newer, project, run, outcome, Older, Preparing
<1>11. ASSUME NEW f \in Files, AddFile(f)
      PROVE  Older'
  BY <1>11 DEF AddFile, Even, project, outcome, Older, Preparing
<1>12. ASSUME NEW f \in Files, FileFails(f)
      PROVE  Older'
  BY <1>12 DEF FileFails, Fail, project, archive, run, Older, Preparing
<1>13. ASSUME FilesDone
      PROVE  Older'
  BY <1>13 DEF FilesDone, project, archive, outcome, Older, Preparing
<1>14. ASSUME NEW c \in Classes, AddClass(c)
      PROVE  Older'
  BY <1>14 DEF AddClass, project, outcome, Older, Preparing
<1>15. ASSUME NEW c \in Classes, LoseClass(c)
      PROVE  Older'
  BY <1>15 DEF LoseClass, project, archive, outcome, Older, Preparing
<1>16. ASSUME JarFails
      PROVE  Older'
  BY <1>16 DEF JarFails, Fail, project, archive, run, Older, Preparing
<1>17. ASSUME Finish
      PROVE  Older'
  BY <1>17 DEF Finish, Cruft, project, run, outcome, Older, Preparing
<1>18. ASSUME FlushFails
      PROVE  Older'
  BY <1>18 DEF FlushFails, Fail, project, run, Older, Preparing
<1>19. ASSUME Close
      PROVE  Older'
  BY <1>19 DEF Close, project, run, outcome, Older, Preparing
<1>20. ASSUME Unlink
      PROVE  Older'
  BY <1>20 DEF Unlink, project, run, outcome, Older, Preparing
<1>21. ASSUME UnlinkFails
      PROVE  Older'
  BY <1>21 DEF UnlinkFails, project, archive, run, outcome, Older, Preparing
<1>22. ASSUME Break
      PROVE  Older'
  BY <1>22 DEF Break, project, run, outcome, Older, Preparing
<1>23. ASSUME Killed
      PROVE  Older'
  BY <1>23 DEF Killed, project, run, Older, Preparing
<1>24. CASE UNCHANGED vars
  BY <1>24 DEF vars, project, archive, run, outcome, Older, Preparing
<1> QED
  BY <1>1, <1>2, <1>3, <1>4, <1>5, <1>6, <1>7, <1>8, <1>9, <1>10, <1>11,
     <1>12, <1>13, <1>14, <1>15, <1>16, <1>17, <1>18, <1>19, <1>20, <1>21,
     <1>22, <1>23, <1>24 DEF Next, ProcessFile, ProcessJars

LEMMA UnprocessedStep ==
  Base /\ Unprocessed /\ [Next]_vars => Unprocessed'
<1> SUFFICES ASSUME Base /\ Unprocessed, [Next]_vars PROVE Unprocessed'
  OBVIOUS
<1>1. ASSUME NEW i \in Items, Delete(i)
      PROVE  Unprocessed'
  BY <1>1 DEF Delete, archive, run, outcome, Unprocessed, Present
<1>2. ASSUME NEW i \in Items, NEW t \in 0 .. MaxTime, Edit(i, t)
      PROVE  Unprocessed'
  BY <1>2, NamesTyped DEF Edit, archive, run, outcome, Unprocessed, Base,
     TypeOK, Preparing, Items, Present
<1>3. ASSUME NEW u \in BOOLEAN, Start(u)
      PROVE  Unprocessed'
  BY <1>3 DEF Start, project, archive, Unprocessed, Present
<1>4. ASSUME CompileFails
      PROVE  Unprocessed'
  BY <1>4 DEF CompileFails, project, archive, run, Unprocessed, Present
<1>5. ASSUME GiveUp
      PROVE  Unprocessed'
  BY <1>5 DEF GiveUp, project, archive, run, Unprocessed, Present
<1>6. ASSUME NEW force \in BOOLEAN, Prepare(force)
      PROVE  Unprocessed'
  BY <1>6 DEF Prepare, project, run, outcome, Unprocessed, Present
<1>7. ASSUME Open
      PROVE  Unprocessed'
  BY <1>7 DEF Open, project, outcome, Unprocessed, Present
<1>8. ASSUME NEW f \in Files, ExistsTwice(f)
      PROVE  Unprocessed'
  BY <1>8 DEF ExistsTwice, Fail, project, archive, run, Unprocessed, Present
<1>9. ASSUME NEW f \in Files, KeepEntry(f)
      PROVE  Unprocessed'
  BY <1>9 DEF KeepEntry, Newer, project, archive, outcome, Unprocessed,
     Present
<1>10. ASSUME NEW f \in Files, DropEntry(f)
      PROVE  Unprocessed'
  BY <1>10 DEF DropEntry, Newer, project, run, outcome, Unprocessed, Present
<1>11. ASSUME NEW f \in Files, AddFile(f)
      PROVE  Unprocessed'
  BY <1>11 DEF AddFile, Even, project, outcome, Unprocessed, Present
<1>12. ASSUME NEW f \in Files, FileFails(f)
      PROVE  Unprocessed'
  BY <1>12 DEF FileFails, Fail, project, archive, run, Unprocessed, Present
<1>13. ASSUME FilesDone
      PROVE  Unprocessed'
  BY <1>13 DEF FilesDone, project, archive, outcome, Unprocessed, Present
<1>14. ASSUME NEW c \in Classes, AddClass(c)
      PROVE  Unprocessed'
  BY <1>14 DEF AddClass, project, outcome, Unprocessed, Present
<1>15. ASSUME NEW c \in Classes, LoseClass(c)
      PROVE  Unprocessed'
  BY <1>15 DEF LoseClass, project, archive, outcome, Unprocessed, Present
<1>16. ASSUME JarFails
      PROVE  Unprocessed'
  BY <1>16 DEF JarFails, Fail, project, archive, run, Unprocessed, Present
<1>17. ASSUME Finish
      PROVE  Unprocessed'
  BY <1>17 DEF Finish, Cruft, project, run, outcome, Unprocessed, Present
<1>18. ASSUME FlushFails
      PROVE  Unprocessed'
  BY <1>18 DEF FlushFails, Fail, project, run, Unprocessed, Present
<1>19. ASSUME Close
      PROVE  Unprocessed'
  BY <1>19 DEF Close, project, run, outcome, Unprocessed, Present
<1>20. ASSUME Unlink
      PROVE  Unprocessed'
  BY <1>20 DEF Unlink, project, run, outcome, Unprocessed, Present
<1>21. ASSUME UnlinkFails
      PROVE  Unprocessed'
  BY <1>21 DEF UnlinkFails, project, archive, run, outcome, Unprocessed,
     Present
<1>22. ASSUME Break
      PROVE  Unprocessed'
  BY <1>22 DEF Break, project, run, outcome, Unprocessed, Present
<1>23. ASSUME Killed
      PROVE  Unprocessed'
  BY <1>23 DEF Killed, project, run, Unprocessed, Present
<1>24. CASE UNCHANGED vars
  BY <1>24 DEF vars, project, archive, run, outcome, Unprocessed, Present
<1> QED
  BY <1>1, <1>2, <1>3, <1>4, <1>5, <1>6, <1>7, <1>8, <1>9, <1>10, <1>11,
     <1>12, <1>13, <1>14, <1>15, <1>16, <1>17, <1>18, <1>19, <1>20, <1>21,
     <1>22, <1>23, <1>24 DEF Next, ProcessFile, ProcessJars

LEMMA EmptiedStep ==
  Base /\ Emptied /\ [Next]_vars => Emptied'
<1> SUFFICES ASSUME Base /\ Emptied, [Next]_vars PROVE Emptied'
  OBVIOUS
<1>1. ASSUME NEW i \in Items, Delete(i)
      PROVE  Emptied'
  BY <1>1 DEF Delete, archive, run, outcome, Emptied
<1>2. ASSUME NEW i \in Items, NEW t \in 0 .. MaxTime, Edit(i, t)
      PROVE  Emptied'
  BY <1>2 DEF Edit, archive, run, outcome, Emptied
<1>3. ASSUME NEW u \in BOOLEAN, Start(u)
      PROVE  Emptied'
  BY <1>3 DEF Start, project, archive, Emptied
<1>4. ASSUME CompileFails
      PROVE  Emptied'
  BY <1>4 DEF CompileFails, project, archive, run, Emptied
<1>5. ASSUME GiveUp
      PROVE  Emptied'
  BY <1>5 DEF GiveUp, project, archive, run, Emptied
<1>6. ASSUME NEW force \in BOOLEAN, Prepare(force)
      PROVE  Emptied'
  BY <1>6 DEF Prepare, project, run, outcome, Emptied
<1>7. ASSUME Open
      PROVE  Emptied'
  BY <1>7 DEF Open, project, outcome, Emptied
<1>8. ASSUME NEW f \in Files, ExistsTwice(f)
      PROVE  Emptied'
  BY <1>8 DEF ExistsTwice, Fail, project, archive, run, Emptied
<1>9. ASSUME NEW f \in Files, KeepEntry(f)
      PROVE  Emptied'
  BY <1>9 DEF KeepEntry, Newer, project, archive, outcome, Emptied
<1>10. ASSUME NEW f \in Files, DropEntry(f)
      PROVE  Emptied'
  BY <1>10 DEF DropEntry, Newer, project, run, outcome, Emptied
<1>11. ASSUME NEW f \in Files, AddFile(f)
      PROVE  Emptied'
  BY <1>11 DEF AddFile, Even, project, outcome, Emptied
<1>12. ASSUME NEW f \in Files, FileFails(f)
      PROVE  Emptied'
  BY <1>12 DEF FileFails, Fail, project, archive, run, Emptied
<1>13. ASSUME FilesDone
      PROVE  Emptied'
  BY <1>13 DEF FilesDone, project, archive, outcome, Emptied
<1>14. ASSUME NEW c \in Classes, AddClass(c)
      PROVE  Emptied'
  BY <1>14 DEF AddClass, project, outcome, Emptied
<1>15. ASSUME NEW c \in Classes, LoseClass(c)
      PROVE  Emptied'
  BY <1>15 DEF LoseClass, project, archive, outcome, Emptied
<1>16. ASSUME JarFails
      PROVE  Emptied'
  BY <1>16 DEF JarFails, Fail, project, archive, run, Emptied
<1>17. ASSUME Finish
      PROVE  Emptied'
  BY <1>17 DEF Finish, Cruft, project, run, outcome, Emptied
<1>18. ASSUME FlushFails
      PROVE  Emptied'
  BY <1>18 DEF FlushFails, Fail, project, run, Emptied
<1>19. ASSUME Close
      PROVE  Emptied'
  BY <1>19 DEF Close, project, run, outcome, Emptied
<1>20. ASSUME Unlink
      PROVE  Emptied'
  BY <1>20 DEF Unlink, project, run, outcome, Emptied
<1>21. ASSUME UnlinkFails
      PROVE  Emptied'
  BY <1>21 DEF UnlinkFails, project, archive, run, outcome, Emptied
<1>22. ASSUME Break
      PROVE  Emptied'
  BY <1>22 DEF Break, project, run, outcome, Emptied
<1>23. ASSUME Killed
      PROVE  Emptied'
  BY <1>23 DEF Killed, project, run, Emptied
<1>24. CASE UNCHANGED vars
  BY <1>24 DEF vars, project, archive, run, outcome, Emptied
<1> QED
  BY <1>1, <1>2, <1>3, <1>4, <1>5, <1>6, <1>7, <1>8, <1>9, <1>10, <1>11,
     <1>12, <1>13, <1>14, <1>15, <1>16, <1>17, <1>18, <1>19, <1>20, <1>21,
     <1>22, <1>23, <1>24 DEF Next, ProcessFile, ProcessJars

(* An edit concerns the file that is edited, whose version is then newer   *)
(* than the run, and no other.                                             *)
LEMMA EditKeeps ==
  ASSUME Base, Sources, NEW i \in Items, NEW t \in 0 .. MaxTime, Edit(i, t),
         NEW f \in Present', version'[f] <= began
  PROVE  /\ f \in Present /\ f # i /\ version[f] <= began
         /\ Kept(f, todo) => Kept(f, todo)'
         /\ Kept(f, {}) => Kept(f, {})'
<1>1. /\ edits \in Nat /\ began \in 0 .. edits /\ edits + 1 \in Versions
      /\ version \in [Items -> Versions \cup {Missing}]
      /\ version' = [version EXCEPT ![i] = edits + 1]
      /\ i \in Files => time' = [time EXCEPT ![i] = t]
      /\ i \notin Files => time' = time
      /\ UNCHANGED <<content, stamp, update, todo>>
  BY PackageAssumption DEF Edit, archive, run, Base, TypeOK, Versions
<1>2. f # i
  BY <1>1
<1>3. f \in Present /\ version'[f] = version[f] /\ time'[f] = time[f]
  BY <1>1, <1>2 DEF Present, Items, Base, TypeOK
<1>4. NameOf[f] \in Names
  BY <1>3, NamesTyped DEF Present
<1>5. content[NameOf[f]] # edits + 1
  <2>1. content[NameOf[f]] \in Versions \cup {Missing}
    BY <1>4 DEF Base, TypeOK
  <2>2. content[NameOf[f]] # Missing => content[NameOf[f]] <= edits
    BY <1>4 DEF Sources, Numbered
  <2> QED  BY <1>1, <2>1, <2>2, MissingIsNoVersion DEF Versions
<1>6. \A g \in Present' : g = i \/ (g \in Present /\ version'[g] = version[g])
  BY <1>1 DEF Present, Items
<1>7. version'[i] = edits + 1
  BY <1>1
<1>8. Kept(f, todo) => Kept(f, todo)'
  BY <1>1, <1>3, <1>5, <1>6, <1>7 DEF Kept
<1>9. Kept(f, {}) => Kept(f, {})'
  BY <1>1, <1>3, <1>5, <1>6, <1>7 DEF Kept
<1> QED  BY <1>2, <1>3, <1>8, <1>9

LEMMA ProcessedStep ==
  Base /\ Sources /\ Older /\ Unprocessed /\ Processed /\ [Next]_vars
    => Processed'
<1> SUFFICES ASSUME Base /\ Sources /\ Older /\ Unprocessed /\ Processed,
    [Next]_vars PROVE Processed'
  OBVIOUS
<1>1. ASSUME NEW i \in Items, Delete(i)
      PROVE  Processed'
  BY <1>1 DEF Delete, archive, run, outcome, Processed, Kept, Present
<1>2. ASSUME NEW i \in Items, NEW t \in 0 .. MaxTime, Edit(i, t)
      PROVE  Processed'
  <2>1. UNCHANGED <<pc, todo, marked, began, complained>>
    BY <1>2 DEF Edit, run, outcome
  <2> QED  BY <1>2, <2>1, EditKeeps DEF Processed
<1>3. ASSUME NEW u \in BOOLEAN, Start(u)
      PROVE  Processed'
  BY <1>3 DEF Start, project, archive, Processed, Kept, Present
<1>4. ASSUME CompileFails
      PROVE  Processed'
  BY <1>4 DEF CompileFails, project, archive, run, Processed, Kept, Present
<1>5. ASSUME GiveUp
      PROVE  Processed'
  BY <1>5 DEF GiveUp, project, archive, run, Processed, Kept, Present
<1>6. ASSUME NEW force \in BOOLEAN, Prepare(force)
      PROVE  Processed'
  BY <1>6 DEF Prepare, project, run, outcome, Processed, Kept, Present
<1>7. ASSUME Open
      PROVE  Processed'
  BY <1>7, NamesTyped DEF Open, project, outcome, Origin, Older, Unprocessed,
     Processed, Kept, Base, TypeOK, Preparing, Items, Present
<1>8. ASSUME NEW f \in Files, ExistsTwice(f)
      PROVE  Processed'
  BY <1>8 DEF ExistsTwice, Fail, project, archive, run, Processed, Kept,
     Present
<1>9. ASSUME NEW f \in Files, KeepEntry(f)
      PROVE  Processed'
  BY <1>9, NamesTyped, MissingIsNoVersion DEF KeepEntry, Newer, project,
     archive, outcome, Sources, Origin, Older, Unprocessed, Processed, Kept,
     Base, TypeOK, Compiled, Preparing, Items, Present
<1>10. ASSUME NEW f \in Files, DropEntry(f)
      PROVE  Processed'
  BY <1>10 DEF DropEntry, Newer, project, run, outcome, Processed, Kept,
     Present
<1>11. ASSUME NEW f \in Files, AddFile(f)
      PROVE  Processed'
  BY <1>11, NamesTyped, MissingIsNoVersion DEF AddFile, Even, project,
     outcome, Sources, Origin, Older, Unprocessed, Processed, Kept, Base,
     TypeOK, Compiled, Preparing, Items, Present
<1>12. ASSUME NEW f \in Files, FileFails(f)
      PROVE  Processed'
  BY <1>12 DEF FileFails, Fail, project, archive, run, Processed, Kept,
     Present
<1>13. ASSUME FilesDone
      PROVE  Processed'
  BY <1>13 DEF FilesDone, project, archive, outcome, Processed, Kept, Present
<1>14. ASSUME NEW c \in Classes, AddClass(c)
      PROVE  Processed'
  BY <1>14 DEF AddClass, project, outcome, Processed, Kept, Present
<1>15. ASSUME NEW c \in Classes, LoseClass(c)
      PROVE  Processed'
  BY <1>15 DEF LoseClass, project, archive, outcome, Processed, Kept, Present
<1>16. ASSUME JarFails
      PROVE  Processed'
  BY <1>16 DEF JarFails, Fail, project, archive, run, Processed, Kept, Present
<1>17. ASSUME Finish
      PROVE  Processed'
  BY <1>17 DEF Finish, Cruft, project, run, outcome, Processed, Kept, Present
<1>18. ASSUME FlushFails
      PROVE  Processed'
  BY <1>18 DEF FlushFails, Fail, project, run, Processed, Kept, Present
<1>19. ASSUME Close
      PROVE  Processed'
  BY <1>19 DEF Close, project, run, outcome, Processed, Kept, Present
<1>20. ASSUME Unlink
      PROVE  Processed'
  BY <1>20 DEF Unlink, project, run, outcome, Processed, Kept, Present
<1>21. ASSUME UnlinkFails
      PROVE  Processed'
  BY <1>21 DEF UnlinkFails, project, archive, run, outcome, Processed, Kept,
     Present
<1>22. ASSUME Break
      PROVE  Processed'
  BY <1>22 DEF Break, project, run, outcome, Processed, Kept, Present
<1>23. ASSUME Killed
      PROVE  Processed'
  BY <1>23 DEF Killed, project, run, Processed, Kept, Present
<1>24. CASE UNCHANGED vars
  BY <1>24 DEF vars, project, archive, run, outcome, Processed, Kept, Present
<1> QED
  BY <1>1, <1>2, <1>3, <1>4, <1>5, <1>6, <1>7, <1>8, <1>9, <1>10, <1>11,
     <1>12, <1>13, <1>14, <1>15, <1>16, <1>17, <1>18, <1>19, <1>20, <1>21,
     <1>22, <1>23, <1>24 DEF Next, ProcessFile, ProcessJars

LEMMA ReadyStep ==
  Base /\ Sources /\ Processed /\ Ready /\ Emptied /\ [Next]_vars => Ready'
<1> SUFFICES ASSUME Base /\ Sources /\ Processed /\ Ready /\ Emptied,
    [Next]_vars PROVE Ready'
  OBVIOUS
<1>1. ASSUME NEW i \in Items, Delete(i)
      PROVE  Ready'
  BY <1>1 DEF Delete, archive, run, outcome, Ready, Kept, Present
<1>2. ASSUME NEW i \in Items, NEW t \in 0 .. MaxTime, Edit(i, t)
      PROVE  Ready'
  <2>1. UNCHANGED <<pc, todo, marked, began, complained>>
    BY <1>2 DEF Edit, run, outcome
  <2> QED  BY <1>2, <2>1, EditKeeps DEF Ready
<1>3. ASSUME NEW u \in BOOLEAN, Start(u)
      PROVE  Ready'
  BY <1>3 DEF Start, project, archive, Ready, Kept, Present
<1>4. ASSUME CompileFails
      PROVE  Ready'
  BY <1>4 DEF CompileFails, project, archive, run, Ready, Kept, Present
<1>5. ASSUME GiveUp
      PROVE  Ready'
  BY <1>5 DEF GiveUp, project, archive, run, Ready, Kept, Present
<1>6. ASSUME NEW force \in BOOLEAN, Prepare(force)
      PROVE  Ready'
  BY <1>6 DEF Prepare, project, run, outcome, Ready, Kept, Present
<1>7. ASSUME Open
      PROVE  Ready'
  BY <1>7 DEF Open, project, outcome, Ready, Kept, Present
<1>8. ASSUME NEW f \in Files, ExistsTwice(f)
      PROVE  Ready'
  BY <1>8 DEF ExistsTwice, Fail, project, archive, run, Ready, Kept, Present
<1>9. ASSUME NEW f \in Files, KeepEntry(f)
      PROVE  Ready'
  BY <1>9 DEF KeepEntry, Newer, project, archive, outcome, Ready, Kept,
     Present
<1>10. ASSUME NEW f \in Files, DropEntry(f)
      PROVE  Ready'
  BY <1>10 DEF DropEntry, Newer, project, run, outcome, Ready, Kept, Present
<1>11. ASSUME NEW f \in Files, AddFile(f)
      PROVE  Ready'
  BY <1>11 DEF AddFile, Even, project, outcome, Ready, Kept, Present
<1>12. ASSUME NEW f \in Files, FileFails(f)
      PROVE  Ready'
  BY <1>12 DEF FileFails, Fail, project, archive, run, Ready, Kept, Present
<1>13. ASSUME FilesDone
      PROVE  Ready'
  BY <1>13, NamesTyped DEF FilesDone, project, archive, outcome, Origin,
     Processed, Ready, Emptied, Kept, Base, TypeOK, Preparing, Items, Present
<1>14. ASSUME NEW c \in Classes, AddClass(c)
      PROVE  Ready'
  BY <1>14 DEF AddClass, project, outcome, Ready, Kept, Present
<1>15. ASSUME NEW c \in Classes, LoseClass(c)
      PROVE  Ready'
  BY <1>15 DEF LoseClass, project, archive, outcome, Ready, Kept, Present
<1>16. ASSUME JarFails
      PROVE  Ready'
  BY <1>16 DEF JarFails, Fail, project, archive, run, Ready, Kept, Present
<1>17. ASSUME Finish
      PROVE  Ready'
  BY <1>17, NamesTyped DEF Finish, Cruft, project, run, outcome, Origin,
     Processed, Ready, Emptied, Kept, Base, TypeOK, Preparing, Items, Present
<1>18. ASSUME FlushFails
      PROVE  Ready'
  BY <1>18 DEF FlushFails, Fail, project, run, Ready, Kept, Present
<1>19. ASSUME Close
      PROVE  Ready'
  BY <1>19, NamesTyped DEF Close, project, run, outcome, Origin, Processed,
     Ready, Emptied, Kept, Base, TypeOK, Preparing, Items, Present
<1>20. ASSUME Unlink
      PROVE  Ready'
  BY <1>20, NamesTyped, EmptyTyped DEF Unlink, project, run, outcome, Origin,
     Processed, Ready, Emptied, Kept, Base, TypeOK, Preparing, Items, Present
<1>21. ASSUME UnlinkFails
      PROVE  Ready'
  BY <1>21 DEF UnlinkFails, project, archive, run, outcome, Ready, Kept,
     Present
<1>22. ASSUME Break
      PROVE  Ready'
  BY <1>22 DEF Break, project, run, outcome, Ready, Kept, Present
<1>23. ASSUME Killed
      PROVE  Ready'
  BY <1>23 DEF Killed, project, run, Ready, Kept, Present
<1>24. CASE UNCHANGED vars
  BY <1>24 DEF vars, project, archive, run, outcome, Ready, Kept, Present
<1> QED
  BY <1>1, <1>2, <1>3, <1>4, <1>5, <1>6, <1>7, <1>8, <1>9, <1>10, <1>11,
     <1>12, <1>13, <1>14, <1>15, <1>16, <1>17, <1>18, <1>19, <1>20, <1>21,
     <1>22, <1>23, <1>24 DEF Next, ProcessFile, ProcessJars

------------------------------------------------------------------------------
(* The invariant.                                                          *)
LEMMA InvInit == Init => Inv
<1> SUFFICES ASSUME Init PROVE Inv
  OBVIOUS
<1>1. Base
  <2>1. /\ version \in [Items -> Versions \cup {Missing}]
        /\ time \in [Files -> 0 .. MaxTime]
        /\ read \in [Generated -> Versions \cup {Missing}]
    BY PackageAssumption DEF Init
  <2>2. edits \in 0 .. MaxEdits /\ began \in 0 .. edits
    BY PackageAssumption DEF Init
  <2>3. TypeOK
    BY <2>1, <2>2, EmptyTyped DEF Init, TypeOK
  <2>4. Compiled
    BY DEF Init, Compiled, Preparing
  <2> QED  BY <2>3, <2>4 DEF Base
<1>2. Present = {}
  BY DEF Init, Present, Items
<1>3. Sources
  BY <1>2, EmptyTyped
     DEF Init, Sources, Numbered, Distinct, Origin, Items
<1>4. Progress
  BY <1>2 DEF Init, Progress, Older, Unprocessed, Processed, Ready, Emptied,
              Preparing
<1>5. Nameless /\ OldKept
  BY DEF Init, Nameless, OldKept
<1> QED  BY <1>1, <1>3, <1>4, <1>5 DEF Inv

LEMMA InvStep == Inv /\ [Next]_vars => Inv'
BY BaseStep, SourcesStep, OlderStep, UnprocessedStep, ProcessedStep, ReadyStep,
   EmptiedStep, NamelessStep, OldKeptStep DEF Inv, Progress

LEMMA InvHolds == Spec => []Inv
BY InvInit, InvStep, PTL DEF Spec

(***************************************************************************)
(* The theorems                                                            *)
(***************************************************************************)

(* Types of all reachable states: in particular the archive is open exactly*)
(* while writeAPK packs, and what has contents exists.                     *)
THEOREM TypeCorrect == Spec => []TypeOK
<1>1. Inv => TypeOK
  BY DEF Inv, Base
<1> QED  BY <1>1, InvHolds, PTL

(* What a run without an ERROR has packed: see PackagedIsCurrent.          *)
THEOREM PackagesTheSources == Spec => []PackagedIsCurrent
<1>1. Inv => PackagedIsCurrent
  BY DEF Inv, Progress, Ready, Kept, PackagedIsCurrent
<1> QED  BY <1>1, InvHolds, PTL

(* Without -u no entry of an earlier build is left.                        *)
THEOREM FreshIsClean == Spec => []FreshHasNoCruft
<1>1. Inv => FreshHasNoCruft
  BY DEF Inv, Nameless, FreshHasNoCruft
<1> QED  BY <1>1, InvHolds, PTL

(* With -u every entry is left, or has been replaced.                      *)
THEOREM UpdateIsConservative == Spec => []UpdateKeepsAll
<1>1. Inv => UpdateKeepsAll
  BY DEF Inv, OldKept, UpdateKeepsAll
<1> QED  BY <1>1, InvHolds, PTL

LEMMA StepIsArchiveStep ==
  Base /\ [Next]_vars => [A!Next]_A!avars
<1> SUFFICES ASSUME Base, [Next]_vars PROVE [A!Next]_A!avars
  OBVIOUS
<1>1. ASSUME NEW i \in Items, Delete(i)
      PROVE  [A!Next]_A!avars
  BY <1>1 DEF Delete, archive, run, outcome, A!Next, A!avars, A!Open, A!Close,
     A!Put, A!Drop, A!Delete, A!Break, A!Broken, A!Empty, Empty
<1>2. ASSUME NEW i \in Items, NEW t \in 0 .. MaxTime, Edit(i, t)
      PROVE  [A!Next]_A!avars
  BY <1>2 DEF Edit, archive, run, outcome, A!Next, A!avars, A!Open, A!Close,
     A!Put, A!Drop, A!Delete, A!Break, A!Broken, A!Empty, Empty
<1>3. ASSUME NEW u \in BOOLEAN, Start(u)
      PROVE  [A!Next]_A!avars
  BY <1>3 DEF Start, project, archive, A!Next, A!avars, A!Open, A!Close,
     A!Put, A!Drop, A!Delete, A!Break, A!Broken, A!Empty, Empty
<1>4. ASSUME CompileFails
      PROVE  [A!Next]_A!avars
  BY <1>4 DEF CompileFails, project, archive, run, A!Next, A!avars, A!Open,
     A!Close, A!Put, A!Drop, A!Delete, A!Break, A!Broken, A!Empty, Empty
<1>5. ASSUME GiveUp
      PROVE  [A!Next]_A!avars
  BY <1>5 DEF GiveUp, project, archive, run, A!Next, A!avars, A!Open, A!Close,
     A!Put, A!Drop, A!Delete, A!Break, A!Broken, A!Empty, Empty
<1>6. ASSUME NEW force \in BOOLEAN, Prepare(force)
      PROVE  [A!Next]_A!avars
  BY <1>6, NamesTyped DEF Prepare, project, run, outcome, A!Next, A!avars,
     A!Open, A!Close, A!Put, A!Drop, A!Delete, A!Break, A!Broken, A!Empty,
     Empty, Base, TypeOK, Preparing, Items, Present
<1>7. ASSUME Open
      PROVE  [A!Next]_A!avars
  BY <1>7 DEF Open, project, outcome, A!Next, A!avars, A!Open, A!Close, A!Put,
     A!Drop, A!Delete, A!Break, A!Broken, A!Empty, Empty
<1>8. ASSUME NEW f \in Files, ExistsTwice(f)
      PROVE  [A!Next]_A!avars
  BY <1>8 DEF ExistsTwice, Fail, project, archive, run, A!Next, A!avars,
     A!Open, A!Close, A!Put, A!Drop, A!Delete, A!Break, A!Broken, A!Empty,
     Empty
<1>9. ASSUME NEW f \in Files, KeepEntry(f)
      PROVE  [A!Next]_A!avars
  BY <1>9 DEF KeepEntry, Newer, project, archive, outcome, A!Next, A!avars,
     A!Open, A!Close, A!Put, A!Drop, A!Delete, A!Break, A!Broken, A!Empty,
     Empty
<1>10. ASSUME NEW f \in Files, DropEntry(f)
      PROVE  [A!Next]_A!avars
  BY <1>10, NamesTyped DEF DropEntry, Newer, project, run, outcome, A!Next,
     A!avars, A!Open, A!Close, A!Put, A!Drop, A!Delete, A!Break, A!Broken,
     A!Empty, Empty, Base, TypeOK, Preparing, Items, Present
<1>11. ASSUME NEW f \in Files, AddFile(f)
      PROVE  [A!Next]_A!avars
  BY <1>11, NamesTyped DEF AddFile, Even, project, outcome, A!Next, A!avars,
     A!Open, A!Close, A!Put, A!Drop, A!Delete, A!Break, A!Broken, A!Empty,
     Empty, Base, TypeOK, Preparing, Items, Present
<1>12. ASSUME NEW f \in Files, FileFails(f)
      PROVE  [A!Next]_A!avars
  BY <1>12 DEF FileFails, Fail, project, archive, run, A!Next, A!avars,
     A!Open, A!Close, A!Put, A!Drop, A!Delete, A!Break, A!Broken, A!Empty,
     Empty
<1>13. ASSUME FilesDone
      PROVE  [A!Next]_A!avars
  BY <1>13 DEF FilesDone, project, archive, outcome, A!Next, A!avars, A!Open,
     A!Close, A!Put, A!Drop, A!Delete, A!Break, A!Broken, A!Empty, Empty
<1>14. ASSUME NEW c \in Classes, AddClass(c)
      PROVE  [A!Next]_A!avars
  BY <1>14, NamesTyped DEF AddClass, project, outcome, A!Next, A!avars,
     A!Open, A!Close, A!Put, A!Drop, A!Delete, A!Break, A!Broken, A!Empty,
     Empty, Base, TypeOK, Preparing, Items, Present
<1>15. ASSUME NEW c \in Classes, LoseClass(c)
      PROVE  [A!Next]_A!avars
  BY <1>15 DEF LoseClass, project, archive, outcome, A!Next, A!avars, A!Open,
     A!Close, A!Put, A!Drop, A!Delete, A!Break, A!Broken, A!Empty, Empty
<1>16. ASSUME JarFails
      PROVE  [A!Next]_A!avars
  BY <1>16 DEF JarFails, Fail, project, archive, run, A!Next, A!avars, A!Open,
     A!Close, A!Put, A!Drop, A!Delete, A!Break, A!Broken, A!Empty, Empty
<1>17. ASSUME Finish
      PROVE  [A!Next]_A!avars
  BY <1>17, NamesTyped DEF Finish, Cruft, project, run, outcome, A!Next,
     A!avars, A!Open, A!Close, A!Put, A!Drop, A!Delete, A!Break, A!Broken,
     A!Empty, Empty, Base, TypeOK, Preparing, Items, Present
<1>18. ASSUME FlushFails
      PROVE  [A!Next]_A!avars
  BY <1>18 DEF FlushFails, Fail, project, run, A!Next, A!avars, A!Open,
     A!Close, A!Put, A!Drop, A!Delete, A!Break, A!Broken, A!Empty, Empty
<1>19. ASSUME Close
      PROVE  [A!Next]_A!avars
  BY <1>19, NamesTyped DEF Close, project, run, outcome, A!Next, A!avars,
     A!Open, A!Close, A!Put, A!Drop, A!Delete, A!Break, A!Broken, A!Empty,
     Empty, Base, TypeOK, Preparing, Items, Present
<1>20. ASSUME Unlink
      PROVE  [A!Next]_A!avars
  BY <1>20, NamesTyped DEF Unlink, project, run, outcome, A!Next, A!avars,
     A!Open, A!Close, A!Put, A!Drop, A!Delete, A!Break, A!Broken, A!Empty,
     Empty, Base, TypeOK, Preparing, Items, Present
<1>21. ASSUME UnlinkFails
      PROVE  [A!Next]_A!avars
  BY <1>21 DEF UnlinkFails, project, archive, run, outcome, A!Next, A!avars,
     A!Open, A!Close, A!Put, A!Drop, A!Delete, A!Break, A!Broken, A!Empty,
     Empty
<1>22. ASSUME Break
      PROVE  [A!Next]_A!avars
  BY <1>22 DEF Break, project, run, outcome, A!Next, A!avars, A!Open, A!Close,
     A!Put, A!Drop, A!Delete, A!Break, A!Broken, A!Empty, Empty
<1>23. ASSUME Killed
      PROVE  [A!Next]_A!avars
  BY <1>23, NamesTyped DEF Killed, project, run, A!Next, A!avars, A!Open,
     A!Close, A!Put, A!Drop, A!Delete, A!Break, A!Broken, A!Empty, Empty,
     Base, TypeOK, Preparing, Items, Present
<1>24. CASE UNCHANGED vars
  BY <1>24 DEF vars, project, archive, run, outcome, A!Next, A!avars, A!Open,
     A!Close, A!Put, A!Drop, A!Delete, A!Break, A!Broken, A!Empty, Empty
<1> QED
  BY <1>1, <1>2, <1>3, <1>4, <1>5, <1>6, <1>7, <1>8, <1>9, <1>10, <1>11,
     <1>12, <1>13, <1>14, <1>15, <1>16, <1>17, <1>18, <1>19, <1>20, <1>21,
     <1>22, <1>23, <1>24 DEF Next, ProcessFile, ProcessJars

(* doPackage uses the archive as its interface allows: what it puts in was *)
(* missing, and it opens, closes and deletes in turn.                      *)
THEOREM UsesTheArchive == Spec => IsArchive
<1>1. Init => A!Init
  BY DEF Init, A!Init, Empty, A!Empty
<1>2. Inv /\ [Next]_vars => [A!Next]_A!avars
  BY StepIsArchiveStep DEF Inv
<1> QED  BY <1>1, <1>2, InvHolds, PTL DEF Spec, IsArchive, A!Spec
=============================================================================
