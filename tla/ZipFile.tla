------------------------------ MODULE ZipFile ------------------------------
(***************************************************************************)
(* aapt's archives: class ZipFile, which adds, removes and crunches in the *)
(* file itself, without a temporary copy.  An add overwrites the central   *)
(* directory ("we can put it back later"), a flush moves the entries that  *)
(* stay over the deleted ones and writes the directory anew.  The process  *)
(* may be killed at any write, and the card may fail or be full.           *)
(*                                                                         *)
(* Abstractions.  A file is a row of cells: an entry takes Span cells, its *)
(* header is in the first; an entry of the central directory and its end   *)
(* record take one each.  A step writes one cell.  What stdio has buffered *)
(* when the process dies is the file of an earlier step.  No data looks    *)
(* like a signature.  Fewer than 2^16 entries and 2^31 bytes; no comment.  *)
(* Archives that other tools wrote, in an order of their own, are left out.*)
(***************************************************************************)
EXTENDS Integers, Sequences

CONSTANTS
  Names,      \* the names of entries
  Contents,   \* what a file can hold
  Missing,    \* stands for no content
  Span,       \* the cells a content takes in the archive
  Capacity,   \* bound: the cells the card has room for
  MaxAdds,    \* bound: the adds to one file
  MaxTroubles \* bound: card errors and kills of the process, for one file

ASSUME ZipAssumption ==
  /\ Missing \notin Contents
  /\ Span \in [Contents -> Nat \ {0}]
  /\ Capacity \in Nat
  /\ MaxAdds \in Nat /\ MaxTroubles \in Nat

VARIABLES
  file,     \* the cells on the card
  exists,   \* whether the file exists, be it empty
  pc,       \* what is under way in the ZipFile object, if there is one
  entries,  \* mEntries
  total,    \* mEOCD.mTotalNumEntries
  cd,       \* mEOCD.mCentralDirOffset
  dirty,    \* mNeedCDRewrite
  copy,     \* the entry that is being added
  crunch,   \* the locals of crunchArchive and filemove
  closing,  \* whether it is the destructor that flushes
  adds,     \* the adds to the file
  troubles, \* card errors and kills since the file was made
  told,     \* history: a call returned an error, or the process died
  broken,   \* history: the file may not open, or not show all entries
  torn      \* history: the file may open and show data that is not the
            \* entry's, or it was changed after it was broken

disk == <<file, exists>>
memory == <<entries, total, cd, dirty>>
history == <<adds, troubles, told, broken, torn>>
locals == <<copy, crunch, closing>>
vars == <<disk, pc, memory, locals, history>>

Offsets == 0 .. Capacity - 1
None == [kind |-> "none"]
Unit(e, k) == [kind |-> "unit", name |-> e.name, data |-> e.data, k |-> k]
Cde(e) == [kind |-> "cde", name |-> e.name, data |-> e.data,
           off |-> e.off, span |-> e.span]
Eocd(n, c) == [kind |-> "eocd", total |-> n, cd |-> c]

(* Where the next entry begins, and the entry that a directory record of   *)
(* the file describes.                                                     *)
End(e) == e.off + e.span
Entry(c) == [name |-> c.name, data |-> c.data, off |-> c.off, span |-> c.span,
             deleted |-> FALSE]

(* fwrite: what does not fit on the card is lost.                          *)
Write(f, o, c) == IF o \in Offsets THEN [f EXCEPT ![o] = c] ELSE f

(* An error of the card, or a write beyond its end.                        *)
Trouble == troubles < MaxTroubles /\ troubles' = troubles + 1
Fails(o) == IF o \in Offsets THEN Trouble ELSE UNCHANGED troubles

(* readCentralDir looks for the last end record and takes as many entries  *)
(* as it says from where it says; each must lead to a header, and be       *)
(* followed by an end record.  A variant that does not look at the header. *)
IsHeader_any(f, o) == o \in Offsets

IsHeader(f, o) == o \in Offsets /\ f[o].kind = "unit" /\ f[o].k = 0

OpensAt(f, p) ==
  /\ f[p].kind = "eocd"
  /\ \A o \in Offsets : o > p => f[o].kind # "eocd"
  /\ \A j \in 1 .. f[p].total :
       /\ f[p].cd + j - 1 \in Offsets
       /\ f[f[p].cd + j - 1].kind = "cde"
       /\ IsHeader(f, f[f[p].cd + j - 1].off)
  /\ f[p].cd + f[p].total \in Offsets
  /\ f[f[p].cd + f[p].total].kind = "eocd"

Opens(f) == \E p \in Offsets : OpensAt(f, p)

Listed(f, p) == [j \in 1 .. f[p].total |-> Entry(f[f[p].cd + j - 1])]

(* getEntryByName does not see the deleted entries.                        *)
Live(n) == \E i \in 1 .. Len(entries) :
             entries[i].name = n /\ ~entries[i].deleted

Idle == [i |-> 0, adjust |-> 0, deleted |-> 0, moved |-> 0, at |-> 0,
         shifted |-> FALSE]
NoCopy == [name |-> Missing, data |-> Missing, deflate |-> FALSE, at |-> 0]

Init ==
  /\ file = [o \in Offsets |-> None] /\ exists = FALSE
  /\ pc = "closed"
  /\ entries = <<>> /\ total = 0 /\ cd = 0 /\ dirty = FALSE
  /\ copy = NoCopy /\ crunch = Idle /\ closing = FALSE
  /\ adds = 0 /\ troubles = 0 /\ told = FALSE /\ broken = FALSE /\ torn = FALSE

(* The object is gone: after fclose, or with the process.                  *)
Gone ==
  /\ pc' = "closed" /\ entries' = <<>> /\ total' = 0 /\ cd' = 0
  /\ dirty' = FALSE /\ copy' = NoCopy /\ crunch' = Idle /\ closing' = FALSE

(***************************************************************************)
(* open                                                                    *)
(***************************************************************************)
OpenNew ==
  /\ pc = "closed" /\ ~exists
  /\ exists' = TRUE /\ pc' = "open" /\ dirty' = TRUE
  /\ UNCHANGED <<file, entries, total, cd, locals, history>>

OpenOld ==
  /\ pc = "closed" /\ exists
  /\ \E p \in Offsets :
       /\ OpensAt(file, p)
       /\ entries' = Listed(file, p)
       /\ total' = file[p].total /\ cd' = file[p].cd
  /\ pc' = "open"
  /\ UNCHANGED <<disk, dirty, locals, history>>

OpenFails ==
  /\ pc = "closed" /\ exists /\ ~Opens(file)
  /\ told' = TRUE
  /\ UNCHANGED <<disk, pc, memory, locals, adds, troubles, broken, torn>>

(***************************************************************************)
(* addCommon                                                               *)
(***************************************************************************)

(* A live entry has the name, or the source cannot be opened.              *)
AddRefused ==
  /\ pc = "open"
  /\ told' = TRUE
  /\ UNCHANGED <<disk, pc, memory, locals, adds, troubles, broken, torn>>

(* The header goes over the central directory.  A variant in which the data*)
(* goes over the header.                                                   *)
BeginAdd_over(n, d, deflate) ==
  /\ pc = "open" /\ ~Live(n) /\ adds < MaxAdds
  /\ adds' = adds + 1
  /\ copy' = [name |-> n, data |-> d, deflate |-> deflate, at |-> 0]
  /\ file' = Write(file, cd, Unit(copy', 0))
  /\ broken' = (broken \/ cd \notin Offsets) /\ torn' = (torn \/ broken)
  /\ pc' = "adding" /\ dirty' = TRUE
  /\ UNCHANGED <<exists, entries, total, cd, crunch, closing, troubles, told>>

BeginAdd(n, d, deflate) ==
  /\ pc = "open" /\ ~Live(n) /\ adds < MaxAdds
  /\ adds' = adds + 1
  /\ copy' = [name |-> n, data |-> d, deflate |-> deflate, at |-> 1]
  /\ file' = Write(file, cd, Unit(copy', 0))
  /\ broken' = (broken \/ cd \notin Offsets) /\ torn' = (torn \/ broken)
  /\ pc' = "adding" /\ dirty' = TRUE
  /\ UNCHANGED <<exists, entries, total, cd, crunch, closing, troubles, told>>

CopyUnit ==
  /\ pc = "adding" /\ copy.at < Span[copy.data]
  /\ cd + copy.at \in Offsets
  /\ file' = Write(file, cd + copy.at, Unit(copy, copy.at))
  /\ copy' = [copy EXCEPT !.at = @ + 1]
  /\ UNCHANGED <<exists, pc, memory, crunch, closing, history>>

(* copyFpToFp and copyDataToFp report an error: the entry is not added and *)
(* the next flush writes the directory over what was copied.               *)
CopyFails ==
  /\ pc = "adding" /\ ~copy.deflate /\ copy.at < Span[copy.data]
  /\ Fails(cd + copy.at)
  /\ pc' = "open" /\ copy' = NoCopy /\ told' = TRUE
  /\ UNCHANGED <<disk, memory, crunch, closing, adds, broken, torn>>

(* deflate failed, or saved too little: the entry is stored after all, over*)
(* what was written, which may have been longer.                           *)
StoreInstead ==
  /\ pc = "adding" /\ copy.deflate
  /\ file' = Write(file, cd + copy.at, Unit(copy, copy.at))
  /\ copy' = [copy EXCEPT !.deflate = FALSE, !.at = 1]
  /\ UNCHANGED <<exists, pc, memory, crunch, closing, history>>

Appended ==
  /\ entries' = Append(entries, [name |-> copy.name, data |-> copy.data,
                                 off |-> cd, span |-> copy.at,
                                 deleted |-> FALSE])
  /\ total' = total + 1 /\ cd' = cd + copy.at
  /\ pc' = "open" /\ copy' = NoCopy

FinishAdd ==
  /\ pc = "adding" /\ copy.at = Span[copy.data]
  /\ Appended
  /\ file' = Write(file, cd, Unit(copy, 0))
  /\ UNCHANGED <<exists, dirty, crunch, closing, history>>

(* compressFpToFp leaves its loop on a read or a write error without       *)
(* setting the result: the entry is added with what it has.                *)
CompressStops ==
  /\ pc = "adding" /\ copy.deflate /\ copy.at < Span[copy.data]
  /\ Fails(cd + copy.at)
  /\ Appended
  /\ broken' = TRUE /\ torn' = TRUE
  /\ UNCHANGED <<disk, dirty, crunch, closing, adds, told>>

(* A variant that does not ask for a new directory.                        *)
Remove_quiet(n) ==
  /\ pc = "open"
  /\ \E i \in 1 .. Len(entries) :
       /\ entries[i].name = n /\ ~entries[i].deleted
       /\ entries' = [entries EXCEPT ![i].deleted = TRUE]
  /\ UNCHANGED <<disk, pc, total, cd, dirty, locals, history>>

Remove(n) ==
  /\ pc = "open"
  /\ \E i \in 1 .. Len(entries) :
       /\ entries[i].name = n /\ ~entries[i].deleted
       /\ \A j \in i + 1 .. Len(entries) :
            entries[j].name = n => entries[j].deleted
       /\ entries' = [entries EXCEPT ![i].deleted = TRUE]
  /\ dirty' = TRUE /\ torn' = (torn \/ broken)
  /\ UNCHANGED <<disk, pc, total, cd, locals, adds, troubles, told, broken>>

(***************************************************************************)
(* flush, called by its user or by the destructor                          *)
(***************************************************************************)
Flush(destroy) ==
  /\ IF destroy THEN pc \in {"open", "flushed"} ELSE pc = "open"
  /\ dirty
  /\ pc' = "crunching" /\ crunch' = [Idle EXCEPT !.i = 1] /\ closing' = destroy
  /\ UNCHANGED <<disk, memory, copy, history>>

CloseClean ==
  /\ pc \in {"open", "flushed"} /\ ~dirty
  /\ Gone
  /\ UNCHANGED <<disk, history>>

(* crunchArchive: an entry ends where the next one with an offset begins;  *)
(* the one at offset 0 is taken for a directory, without any cells.        *)
NextWithOffset(i) ==
  {k \in i + 1 .. Len(entries) :
     /\ entries[k].off # 0
     /\ \A m \in i + 1 .. k - 1 : entries[m].off = 0}

NextOffset(i) ==
  IF NextWithOffset(i) = {} THEN cd
  ELSE entries[CHOOSE k \in NextWithOffset(i) : TRUE].off
Extent(i) == IF entries[i].off = 0 THEN 0 ELSE NextOffset(i) - entries[i].off

CrunchDeleted ==
  /\ pc = "crunching" /\ crunch.i <= Len(entries)
  /\ entries[crunch.i].deleted
  /\ entries' = [k \in 1 .. Len(entries) - 1 |->
                   entries[IF k < crunch.i THEN k ELSE k + 1]]
  /\ crunch' = [crunch EXCEPT !.adjust = @ + Extent(crunch.i),
                              !.deleted = @ + 1]
  /\ UNCHANGED <<disk, pc, total, cd, dirty, copy, closing, history>>

Moves(i) == Extent(i) # 0 /\ crunch.adjust > 0

(* A variant whose loop does not go on after an entry that stays.          *)
CrunchKept_stays ==
  /\ pc = "crunching" /\ crunch.i <= Len(entries)
  /\ ~entries[crunch.i].deleted /\ ~Moves(crunch.i)
  /\ UNCHANGED vars

CrunchKept ==
  /\ pc = "crunching" /\ crunch.i <= Len(entries)
  /\ ~entries[crunch.i].deleted /\ ~Moves(crunch.i)
  /\ crunch' = [crunch EXCEPT !.i = @ + 1]
  /\ UNCHANGED <<disk, pc, memory, copy, closing, history>>

(* filemove                                                                *)
Source == entries[crunch.i].off + crunch.moved
Moving ==
  /\ pc = "crunching" /\ crunch.i <= Len(entries)
  /\ ~entries[crunch.i].deleted /\ Moves(crunch.i)
  /\ crunch.moved < Extent(crunch.i)

MoveUnit ==
  /\ Moving /\ Source \in Offsets
  /\ file' = Write(file, Source - crunch.adjust, file[Source])
  /\ crunch' = [crunch EXCEPT !.moved = @ + 1, !.shifted = TRUE]
  /\ UNCHANGED <<exists, pc, memory, copy, closing, history>>

(* A variant in which the entry that was moved keeps its offset.           *)
Moved_in_place ==
  /\ pc = "crunching" /\ crunch.i <= Len(entries)
  /\ ~entries[crunch.i].deleted /\ Moves(crunch.i)
  /\ crunch.moved = Extent(crunch.i)
  /\ crunch' = [crunch EXCEPT !.i = @ + 1, !.moved = 0]
  /\ UNCHANGED <<disk, pc, memory, copy, closing, history>>

Moved ==
  /\ pc = "crunching" /\ crunch.i <= Len(entries)
  /\ ~entries[crunch.i].deleted /\ Moves(crunch.i)
  /\ crunch.moved = Extent(crunch.i)
  /\ entries' = [entries EXCEPT ![crunch.i].off = @ - crunch.adjust]
  /\ crunch' = [crunch EXCEPT !.i = @ + 1, !.moved = 0]
  /\ UNCHANGED <<disk, pc, total, cd, dirty, copy, closing, history>>

(* What follows the flush.  Its callers do nothing then but close.         *)
Flushed(clean) ==
  IF closing THEN Gone
  ELSE /\ pc' = "flushed" /\ crunch' = Idle /\ dirty' = (dirty /\ ~clean)
       /\ UNCHANGED <<copy, closing, entries, total, cd>>

(* "This is why you use a temp file": the counts are not adjusted, and the *)
(* directory stays to be written.                                          *)
MoveFails ==
  /\ Moving /\ Fails(Source)
  /\ Flushed(FALSE)
  /\ told' = (told \/ ~closing)
  /\ broken' = TRUE /\ torn' = (torn \/ crunch.shifted)
  /\ UNCHANGED <<disk, adds>>

CrunchEnd ==
  /\ pc = "crunching" /\ crunch.i > Len(entries)
  /\ pc' = "writing"
  /\ cd' = cd - crunch.adjust /\ total' = total - crunch.deleted
  /\ UNCHANGED <<disk, entries, dirty, locals, history>>

(* The directory and its end record.                                       *)
WriteCd ==
  /\ pc = "writing" /\ crunch.at <= Len(entries) /\ cd + crunch.at \in Offsets
  /\ file' = Write(file, cd + crunch.at,
                   IF crunch.at < Len(entries) THEN Cde(entries[crunch.at + 1])
                   ELSE Eocd(total, cd))
  /\ crunch' = [crunch EXCEPT !.at = @ + 1]
  /\ UNCHANGED <<exists, pc, memory, copy, closing, history>>

Cut(f, o) == [x \in Offsets |-> IF x < o THEN f[x] ELSE None]

(* A variant that leaves what was behind the directory.                    *)
Truncate_none ==
  /\ pc = "writing" /\ crunch.at = Len(entries) + 1
  /\ Flushed(TRUE)
  /\ UNCHANGED <<disk, history>>

Truncate ==
  /\ pc = "writing" /\ crunch.at = Len(entries) + 1
  /\ file' = Cut(file, cd + crunch.at)
  /\ Flushed(TRUE)
  /\ UNCHANGED <<exists, history>>

(* The results of the writes are not looked at, nor that of ftruncate.     *)
WriteFails(cut) ==
  /\ pc = "writing"
  /\ \/ crunch.at <= Len(entries) /\ Fails(cd + crunch.at)
     \/ crunch.at > Len(entries) /\ ~cut /\ Trouble
  /\ file' = IF cut THEN Cut(file, cd + crunch.at) ELSE file
  /\ Flushed(TRUE)
  /\ broken' = TRUE /\ torn' = (torn \/ crunch.shifted)
  /\ UNCHANGED <<exists, adds, told>>

(***************************************************************************)
(* The process is killed; the file is deleted.                             *)
(***************************************************************************)
Crash ==
  /\ pc # "closed" /\ Trouble
  /\ Gone
  /\ broken' = (broken \/ dirty) /\ torn' = (torn \/ crunch.shifted)
  /\ told' = TRUE
  /\ UNCHANGED <<disk, adds>>

Unlink ==
  /\ pc = "closed" /\ exists
  /\ exists' = FALSE /\ file' = [o \in Offsets |-> None]
  /\ adds' = 0 /\ troubles' = 0
  /\ told' = FALSE /\ broken' = FALSE /\ torn' = FALSE
  /\ UNCHANGED <<pc, memory, locals>>

Add ==
  \/ AddRefused
  \/ \E n \in Names, d \in Contents, z \in BOOLEAN : BeginAdd(n, d, z)
  \/ CopyUnit \/ CopyFails \/ StoreInstead \/ FinishAdd \/ CompressStops

Crunching ==
  CrunchDeleted \/ CrunchKept \/ MoveUnit \/ Moved \/ MoveFails \/ CrunchEnd

Writing == WriteCd \/ Truncate \/ \E cut \in BOOLEAN : WriteFails(cut)

Next ==
  \/ OpenNew \/ OpenOld \/ OpenFails
  \/ Add
  \/ \E n \in Names : Remove(n)
  \/ \E destroy \in BOOLEAN : Flush(destroy)
  \/ CloseClean \/ Crunching \/ Writing
  \/ Crash \/ Unlink

(* A flush that has begun goes on: nothing in it waits.                    *)
Spec == Init /\ [][Next]_vars /\ WF_vars(Crunching \/ Writing)

(***************************************************************************)
(* Properties                                                              *)
(***************************************************************************)
EntryType == [name : Names, data : Contents, off : Int, span : Nat \ {0},
              deleted : BOOLEAN]
CellType ==
  {None} \cup [kind : {"unit"}, name : Names, data : Contents, k : Nat]
  \cup [kind : {"cde"}, name : Names, data : Contents, off : Int,
        span : Nat \ {0}]
  \cup [kind : {"eocd"}, total : Int, cd : Int]

(* Every variable has its type; only an open archive is dirty, and torn    *)
(* archives are among the broken ones.                                     *)
TypeOK ==
  /\ file \in [Offsets -> CellType] /\ exists \in BOOLEAN
  /\ pc \in {"closed", "open", "adding", "crunching", "writing", "flushed"}
  /\ entries \in Seq(EntryType)
  /\ total \in Int /\ cd \in Int /\ dirty \in BOOLEAN
  /\ copy \in {NoCopy} \cup [name : Names, data : Contents,
                             deflate : BOOLEAN, at : Nat \ {0}]
  /\ crunch \in [i : Nat, adjust : Int, deleted : Nat, moved : Nat, at : Nat,
                 shifted : BOOLEAN]
  /\ closing \in BOOLEAN
  /\ adds \in Nat /\ troubles \in 0 .. MaxTroubles /\ told \in BOOLEAN
  /\ broken \in BOOLEAN /\ torn \in BOOLEAN /\ (torn => broken)

(* Where the k-th cell of an entry is, while it may be on its way.         *)
Place(i, k) ==
  IF pc = "crunching" /\ i = crunch.i /\ k < crunch.moved
  THEN entries[i].off + k - crunch.adjust ELSE entries[i].off + k

(* An entry that stays keeps its data: neither the add of another one over *)
(* the directory, nor a failed add, nor the crunch over deleted ones, nor  *)
(* the new directory overwrites a cell of it.                              *)
EntriesIntact ==
  ~broken => \A i \in 1 .. Len(entries) :
    ~entries[i].deleted =>
      \A k \in 0 .. entries[i].span - 1 :
        /\ Place(i, k) \in Offsets
        /\ file[Place(i, k)] = Unit(entries[i], k)

(* An archive that was closed without trouble is what its directory says:  *)
(* entry after entry up to the directory, and nothing after the end record.*)
(* Crunching leaves no gap but where the entry at offset 0 was: it counts  *)
(* as a directory, and its cells stay in the file for good.                *)
ClosedIsCompact ==
  pc = "closed" /\ exists /\ ~broken =>
    \E p \in Offsets :
      /\ OpensAt(file, p)
      /\ \A o \in Offsets : o > p => file[o] = None
      /\ p = file[p].cd + file[p].total
      /\ LET L == Listed(file, p)
         IN  \A i \in 1 .. Len(L) :
               End(L[i]) = IF i = Len(L) THEN file[p].cd ELSE L[i + 1].off

(* Killed at any write but those of a crunch and the directory after it, or*)
(* stopped by the card: the file either does not open or shows entries with*)
(* their own data.                                                         *)
NeverSilentlyWrong ==
  pc = "closed" /\ ~torn =>
    \A p \in Offsets : OpensAt(file, p) =>
      \A i \in 1 .. file[p].total :
        LET e == Listed(file, p)[i]
        IN  \A k \in 0 .. e.span - 1 :
              e.off + k \in Offsets /\ file[e.off + k] = Unit(e, k)

(* "Flush changes.  If mNeedCDRewrite is set, this writes the central dir."*)
(* (ZipFile.h:143): when the file is closed and no call reported an error, *)
(* the file is there, with its directory and with all the data.            *)
BrokenIsTold == pc = "closed" /\ broken => told

(* A flush comes to its end: the loop that crunches removes an entry, or   *)
(* goes on to the next one.                                                *)
FlushEnds == pc \in {"crunching", "writing"} ~> pc \in {"flushed", "closed"}

(* The entries the file shows, those in memory that are not deleted, and   *)
(* the map from names to contents that they make.                          *)
InFile == UNION {{Listed(file, p)[i] : i \in 1 .. file[p].total} :
                   p \in {q \in Offsets : OpensAt(file, q)}}
InMemory == {entries[i] : i \in {j \in 1 .. Len(entries) :
                                  ~entries[j].deleted}}

Under(E, n) == IF \E e \in E : e.name = n
               THEN (CHOOSE e \in E : e.name = n).data ELSE Missing

A == INSTANCE Archive WITH
       content <- [n \in Names |->
                     Under(IF pc = "closed" THEN InFile ELSE InMemory, n)],
       isOpen <- pc # "closed"

(* Those who add, remove and close find the map again that they left,      *)
(* unless the card or the process failed them.                             *)
IsArchive == A!Spec
=============================================================================
