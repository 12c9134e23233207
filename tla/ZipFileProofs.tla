--------------------------- MODULE ZipFileProofs ---------------------------
(***************************************************************************)
(* Theorems about class ZipFile, for any names, contents, sizes of entries *)
(* and of the card, and numbers of adds and troubles: types, what becomes  *)
(* of the data of entries, what a closed file looks like, and that its     *)
(* users see module Archive.                                               *)
(*                                                                         *)
(* The argument: as long as nothing has failed (~broken) the entries lie   *)
(* one behind the other up to the directory.  While the archive is being   *)
(* crunched this is true of those already looked at, of those to come, and *)
(* of both once the former are moved back up by what they were moved down  *)
(* (Reach).  An add and the directory are written behind the last entry, a *)
(* move goes to cells between an entry and the one before it.  A file that *)
(* is not dirty holds the entries that are in memory (Saved).              *)
(*                                                                         *)
(* After a trouble (broken) less is left, as long as a flush is still to   *)
(* come (Kept): the entries keep their order, and their cells, as far as   *)
(* the card goes (Loose).  As long as no entry was moved this is true of   *)
(* the records of directories in the file as well (Recorded): none has lost*)
(* a cell of its entry, or it has lost the header (Right).                 *)
(***************************************************************************)
EXTENDS ZipFile, SequenceTheorems, TLAPS

CopyType == [name : Names, data : Contents, deflate : BOOLEAN,
             at : Nat \ {0}]
Indices == 1 .. Len(entries)

(* The types, by what they are of.                                         *)
DiskOK ==
  /\ file \in [Offsets -> CellType] /\ exists \in BOOLEAN
  /\ ~exists => file = [o \in Offsets |-> None]
MemoryOK ==
  /\ entries \in Seq(EntryType)
  /\ total \in Int /\ cd \in Int /\ dirty \in BOOLEAN
CopyOK ==
  copy \in {NoCopy} \cup CopyType /\ (pc = "adding" => copy \in CopyType)
CrunchType == [i : Nat, adjust : Int, deleted : Nat, moved : Nat, at : Nat,
               shifted : BOOLEAN]
CrunchOK ==
  /\ crunch \in CrunchType
  /\ pc = "crunching" => crunch.i >= 1
  /\ pc \notin {"crunching", "writing"} => crunch = Idle
ControlOK ==
  /\ pc \in {"closed", "open", "adding", "crunching", "writing", "flushed"}
  /\ closing \in BOOLEAN
  /\ pc = "closed" => /\ entries = <<>> /\ total = 0 /\ cd = 0 /\ ~dirty
                      /\ copy = NoCopy /\ closing = FALSE
  /\ pc # "closed" => exists
  /\ pc \in {"adding", "crunching", "writing"} => dirty
HistoryOK ==
  /\ adds \in Nat /\ troubles \in 0 .. MaxTroubles /\ told \in BOOLEAN
  /\ broken \in BOOLEAN /\ torn \in BOOLEAN /\ (torn => broken)

Base == DiskOK /\ MemoryOK /\ CopyOK /\ CrunchOK /\ ControlOK /\ HistoryOK

(* How far an entry, with what has been gained so far, reaches up.         *)
Shift(i) ==
  IF pc = "crunching" /\ i < crunch.i THEN crunch.adjust ELSE 0
Reach(i) == entries[i].off + Shift(i)

Ordered ==
  /\ \A i, j \in Indices : i < j => Reach(i) + entries[i].span <= Reach(j)
  /\ \A i \in Indices : /\ 0 <= entries[i].off
                        /\ Reach(i) + entries[i].span <= cd
  /\ 0 <= cd
Adjacent ==
  \A i \in Indices :
    Reach(i) + entries[i].span = IF i = Len(entries) THEN cd ELSE Reach(i + 1)

Counted ==
  total = Len(entries) + IF pc = "crunching" THEN crunch.deleted ELSE 0
Unique ==
  \A i, j \in Indices :
    entries[i].name = entries[j].name
      /\ ~entries[i].deleted /\ ~entries[j].deleted => i = j

(* The locals of crunchArchive and filemove.                               *)
InCrunch ==
  pc = "crunching" =>
    /\ crunch.i \in 1 .. Len(entries) + 1 /\ crunch.at = 0
    /\ 0 <= crunch.adjust /\ crunch.adjust <= cd
    /\ \A k \in Indices : k >= crunch.i => crunch.adjust <= entries[k].off
    /\ \A k \in Indices : k < crunch.i => ~entries[k].deleted
    /\ crunch.moved > 0 =>
         /\ crunch.i <= Len(entries) /\ crunch.adjust > 0
         /\ ~entries[crunch.i].deleted /\ entries[crunch.i].off # 0
         /\ crunch.moved <= Extent(crunch.i) /\ crunch.shifted

(* What addCommon has copied, and what of the directory is written.        *)
InAdd ==
  pc = "adding" =>
    /\ ~Live(copy.name)
    /\ \A k \in 0 .. copy.at - 1 :
         cd + k \in Offsets /\ file[cd + k] = Unit(copy, k)
Written ==
  pc = "writing" =>
    /\ \A i \in Indices : ~entries[i].deleted
    /\ crunch.at <= Len(entries) + 1
    /\ \A j \in 0 .. crunch.at - 1 :
         /\ cd + j \in Offsets
         /\ file[cd + j] = IF j < Len(entries) THEN Cde(entries[j + 1])
                           ELSE Eocd(total, cd)
InWrite ==
  Written /\ (pc = "flushed" => \A i \in Indices : ~entries[i].deleted)

(* The cells of the entries that stay, and what is not in front of the     *)
(* directory.                                                              *)
Stays ==
  \A i \in Indices :
    ~entries[i].deleted =>
      \A k \in 0 .. entries[i].span - 1 :
        Place(i, k) \in Offsets => file[Place(i, k)] = Unit(entries[i], k)
Below == \A x \in Offsets : x < cd => file[x].kind # "cde"
Fits == cd <= Capacity

(* What EntriesIntact says of a file that is not broken.                   *)
Intact ==
  \A i \in Indices :
    ~entries[i].deleted =>
      \A k \in 0 .. entries[i].span - 1 :
        Place(i, k) \in Offsets /\ file[Place(i, k)] = Unit(entries[i], k)

Placed == Ordered /\ Adjacent
Sane ==
  /\ Placed /\ Fits /\ Counted /\ Unique /\ InCrunch /\ InAdd /\ InWrite
  /\ Stays /\ Below
Layout == ~broken /\ pc # "closed" => Sane

(* What is left of it when the card was full or a move has failed, but no  *)
(* entry has been moved, or all are going to be (~torn).                   *)
Beyond == broken /\ pc = "adding" => cd \notin Offsets
Loose == Ordered /\ InCrunch /\ Beyond /\ Written /\ Stays /\ Below
Kept == pc # "closed" /\ ~torn /\ (dirty \/ ~broken)
Safe == Kept => Loose

(* The file f holds the entries E and their directory, and nothing else.   *)
Holds(f, E, c) ==
  /\ c >= 0 /\ c + Len(E) \in Offsets
  /\ f[c + Len(E)] = Eocd(Len(E), c)
  /\ \A o \in Offsets : /\ o > c + Len(E) => f[o] = None
                        /\ o < c => f[o].kind # "cde"
  /\ \A i \in 1 .. Len(E) :
       /\ f[c + i - 1] = Cde(E[i]) /\ ~E[i].deleted
       /\ E[i].off >= 0 /\ End(E[i]) <= c
       /\ End(E[i]) = IF i = Len(E) THEN c ELSE E[i + 1].off
       /\ \A k \in 0 .. E[i].span - 1 : f[E[i].off + k] = Unit(E[i], k)
  /\ \A i, j \in 1 .. Len(E) :
       /\ i < j => End(E[i]) <= E[j].off
       /\ E[i].name = E[j].name => i = j

Saved ==
  ~broken =>
    /\ pc \in {"open", "flushed"} /\ ~dirty => Holds(file, entries, cd)
    /\ pc = "closed" /\ exists =>
         \E E \in Seq(EntryType), c \in Nat : Holds(file, E, c)

Inv == Base /\ Layout /\ Saved

(* The directory records that are in the file, old ones too: as long as no *)
(* entry has been moved each describes an entry that is there, in front of *)
(* the directory, and no entry or new directory begins inside of it.  When *)
(* the new directory goes over it, its header is lost first.               *)
Cdes(f) == {f[x] : x \in {y \in Offsets : f[y].kind = "cde"}}
Whole(f, e) ==
  \A k \in 0 .. e.span - 1 :
    e.off + k \in Offsets /\ f[e.off + k] = Unit(e, k)
Spares(e, z) == End(e) <= z \/ e.off >= z
Edge ==
  (IF crunch.i <= Len(entries) THEN entries[crunch.i].off ELSE cd)
    - crunch.adjust
InFront(e) ==
  /\ Whole(file, e) /\ End(e) <= cd
  /\ \A k \in Indices : Spares(e, entries[k].off)
  /\ pc = "crunching" => Spares(e, Edge)
Overwritten(e) ==
  \/ End(e) <= cd /\ Whole(file, e)
  \/ e.off >= cd /\ (e.off < cd + crunch.at \/ Whole(file, e))
Recorded ==
  Kept /\ ~crunch.shifted =>
    \A e \in Cdes(file) :
      IF pc = "writing" THEN Overwritten(e) ELSE InFront(e)
Right ==
  ~torn /\ ~crunch.shifted =>
    \A e \in Cdes(file) : IsHeader(file, e.off) => Whole(file, e)

(* The same of a file that is closed, or was given up.                     *)
GivenUp == ~Kept => Right

LEMMA CellTyped ==
  /\ None \in CellType
  /\ \A e \in CopyType, k \in Nat : Unit(e, k) \in CellType
  /\ \A e \in EntryType : Cde(e) \in CellType
  /\ \A n, c \in Int : Eocd(n, c) \in CellType
BY DEF CellType, None, Unit, Cde, Eocd, CopyType, EntryType

LEMMA KindsDiffer ==
  /\ \A e, k : Unit(e, k).kind = "unit"
  /\ \A c \in CellType :
       /\ c.kind = "cde" => Entry(c) \in EntryType
       /\ c.kind = "eocd" => c.total \in Int /\ c.cd \in Int
BY DEF CellType, None, Unit, Entry, EntryType

LEMMA WriteTyped ==
  ASSUME NEW f \in [Offsets -> CellType], NEW o \in Int, NEW c \in CellType
  PROVE  /\ Write(f, o, c) \in [Offsets -> CellType]
         /\ Cut(f, o) \in [Offsets -> CellType]
BY CellTyped DEF Write, Cut, Offsets

LEMMA ListedTyped ==
  ASSUME DiskOK, NEW p \in Offsets, OpensAt(file, p)
  PROVE  /\ file[p].total \in Int /\ file[p].cd \in Int
         /\ Listed(file, p) \in Seq(EntryType)
<1>1. file[p].total \in Int /\ file[p].cd \in Int
  BY KindsDiffer DEF DiskOK, OpensAt
<1>2. \A j \in 1 .. file[p].total :
        Entry(file[file[p].cd + j - 1]) \in EntryType
  BY KindsDiffer DEF DiskOK, OpensAt
<1> DEFINE n == IF file[p].total >= 0 THEN file[p].total ELSE 0
<1>3. n \in Nat /\ 1 .. file[p].total = 1 .. n
  BY <1>1
<1>4. Listed(file, p) \in [1 .. n -> EntryType]
  BY <1>2, <1>3 DEF Listed
<1> QED  BY <1>1, <1>3, <1>4

LEMMA EntryTyped ==
  MemoryOK =>
    /\ Len(entries) \in Nat
    /\ \A i \in Indices :
         /\ entries[i] \in EntryType /\ entries[i].off \in Int
         /\ entries[i].span \in Nat \ {0} /\ entries[i].deleted \in BOOLEAN
         /\ entries[i].name \in Names /\ entries[i].data \in Contents
<1>1. MemoryOK => Len(entries) \in Nat
                /\ \A i \in Indices : entries[i] \in EntryType
  BY DEF MemoryOK, Indices
<1> QED  BY <1>1 DEF EntryType

LEMMA EntryTypedNext ==
  MemoryOK' =>
    /\ Len(entries') \in Nat
    /\ \A i \in Indices' :
         /\ entries'[i] \in EntryType /\ entries'[i].off \in Int
         /\ entries'[i].span \in Nat \ {0} /\ entries'[i].deleted \in BOOLEAN
<1>1. MemoryOK' => Len(entries') \in Nat
                /\ \A i \in Indices' : entries'[i] \in EntryType
  BY DEF MemoryOK, Indices
<1> QED  BY <1>1 DEF EntryType

LEMMA OffsetTyped ==
  ASSUME MemoryOK, NEW i \in Indices
  PROVE  Extent(i) \in Int
<1>1. cd \in Int /\ i \in Nat /\ i >= 1
  BY EntryTyped DEF MemoryOK, Indices
<1>2. NextWithOffset(i) \subseteq Indices
  BY <1>1, EntryTyped DEF NextWithOffset, Indices
<1>3. NextOffset(i) \in Int
  BY <1>1, <1>2, EntryTyped DEF NextOffset
<1> QED  BY <1>3, EntryTyped DEF Extent

(* A write, or the end of the file, of an archive that is open.            *)
LEMMA WriteKeepsDisk ==
  ASSUME Base, pc # "closed", exists' = exists,
         NEW o \in Int, NEW c \in CellType,
         file' = Write(file, o, c) \/ file' = Cut(file, o) \/ file' = file
  PROVE  DiskOK'
<1>1. file \in [Offsets -> CellType] /\ exists
  BY DEF Base, DiskOK, ControlOK
<1>2. file' \in [Offsets -> CellType]
  BY <1>1, WriteTyped
<1> QED  BY <1>1, <1>2 DEF DiskOK

(* The entry that addCommon appends.                                       *)
LEMMA AppendedTyped ==
  ASSUME Base, pc = "adding", Appended
  PROVE  /\ entries' \in Seq(EntryType)
         /\ total' \in Int /\ cd' \in Int
<1>1. copy \in CopyType /\ cd \in Int /\ total \in Int
  BY DEF Base, CopyOK, MemoryOK
<1>2. [name |-> copy.name, data |-> copy.data, off |-> cd,
       span |-> copy.at, deleted |-> FALSE] \in EntryType
  BY <1>1 DEF CopyType, EntryType
<1>3. entries' \in Seq(EntryType)
  BY <1>2, AppendProperties DEF Appended, Base, MemoryOK
<1> QED  BY <1>1, <1>3 DEF Appended, CopyType

LEMMA CrunchTyped ==
  /\ Idle \in CrunchType
  /\ [Idle EXCEPT !.i = 1] \in CrunchType
  /\ \A c \in CrunchType, m \in Nat :
       /\ [c EXCEPT !.moved = m, !.shifted = TRUE] \in CrunchType
       /\ [c EXCEPT !.i = m, !.moved = 0] \in CrunchType
       /\ [c EXCEPT !.i = m] \in CrunchType
       /\ [c EXCEPT !.at = m] \in CrunchType
  /\ \A c \in CrunchType, m \in Nat, a \in Int :
       [c EXCEPT !.adjust = a, !.deleted = m] \in CrunchType
<1>1. Idle \in CrunchType
  BY DEF Idle, CrunchType
<1>2. [Idle EXCEPT !.i = 1] \in CrunchType
  BY <1>1 DEF CrunchType
<1>3. \A c \in CrunchType, m \in Nat :
        /\ [c EXCEPT !.moved = m, !.shifted = TRUE] \in CrunchType
        /\ [c EXCEPT !.i = m, !.moved = 0] \in CrunchType
        /\ [c EXCEPT !.i = m] \in CrunchType
        /\ [c EXCEPT !.at = m] \in CrunchType
  BY DEF CrunchType
<1>4. \A c \in CrunchType, m \in Nat, a \in Int :
        [c EXCEPT !.adjust = a, !.deleted = m] \in CrunchType
  BY DEF CrunchType
<1> QED  BY <1>1, <1>2, <1>3, <1>4

(* What is left when the object is gone.                                   *)
LEMMA GoneTyped ==
  Gone => MemoryOK' /\ CopyOK' /\ CrunchOK'
<1> SUFFICES ASSUME Gone PROVE MemoryOK' /\ CopyOK' /\ CrunchOK'
  OBVIOUS
<1>1. MemoryOK'
  <2>1. entries' \in Seq(EntryType)
    BY DEF Gone
  <2>2. dirty' \in BOOLEAN
    BY DEF Gone
  <2> QED  BY <2>1, <2>2 DEF Gone, MemoryOK
<1>2. CopyOK'
  BY DEF Gone, CopyOK
<1>3. CrunchOK'
  BY CrunchTyped DEF Gone, CrunchOK
<1> QED  BY <1>1, <1>2, <1>3

LEMMA DiskStep ==
  Base /\ [Next]_vars => DiskOK'
<1> SUFFICES ASSUME Base, [Next]_vars PROVE DiskOK'
  OBVIOUS
<1>1. ASSUME OpenNew
      PROVE  DiskOK'
  BY <1>1 DEF OpenNew, disk, memory, history, locals, Base, DiskOK
<1>2. ASSUME OpenOld
      PROVE  DiskOK'
  BY <1>2 DEF OpenOld, disk, memory, history, locals, Base, DiskOK
<1>3. ASSUME OpenFails
      PROVE  DiskOK'
  BY <1>3 DEF OpenFails, disk, memory, history, locals, Base, DiskOK
<1>4. ASSUME AddRefused
      PROVE  DiskOK'
  BY <1>4 DEF AddRefused, disk, memory, history, locals, Base, DiskOK
<1>5. ASSUME NEW n \in Names, NEW d \in Contents, NEW z \in BOOLEAN,
             BeginAdd(n, d, z)
      PROVE  DiskOK'
  <2>1. cd \in Int
    BY <1>5 DEF BeginAdd, Base, MemoryOK, CopyOK, CrunchOK, CopyType, Offsets
  <2>2. Unit(copy', 0) \in CellType
    BY <1>5, CellTyped, EntryTyped DEF BeginAdd, Base, DiskOK, MemoryOK,
       CopyOK, CrunchOK, CopyType, Indices
  <2> QED  BY <1>5, <2>1, <2>2, WriteKeepsDisk DEF BeginAdd
<1>6. ASSUME CopyUnit
      PROVE  DiskOK'
  <2>1. cd + copy.at \in Int
    BY <1>6 DEF CopyUnit, Base, MemoryOK, CopyOK, CrunchOK, CopyType, Offsets
  <2>2. Unit(copy, copy.at) \in CellType
    BY <1>6, CellTyped, EntryTyped DEF CopyUnit, Base, DiskOK, MemoryOK,
       CopyOK, CrunchOK, CopyType, Indices
  <2> QED  BY <1>6, <2>1, <2>2, WriteKeepsDisk DEF CopyUnit
<1>7. ASSUME CopyFails
      PROVE  DiskOK'
  BY <1>7 DEF CopyFails, disk, memory, history, locals, Base, DiskOK
<1>8. ASSUME StoreInstead
      PROVE  DiskOK'
  <2>1. cd + copy.at \in Int
    BY <1>8 DEF StoreInstead, Base, MemoryOK, CopyOK, CrunchOK, CopyType,
       Offsets
  <2>2. Unit(copy, copy.at) \in CellType
    BY <1>8, CellTyped, EntryTyped DEF StoreInstead, Base, DiskOK, MemoryOK,
       CopyOK, CrunchOK, CopyType, Indices
  <2> QED  BY <1>8, <2>1, <2>2, WriteKeepsDisk DEF StoreInstead
<1>9. ASSUME FinishAdd
      PROVE  DiskOK'
  <2>1. cd \in Int
    BY <1>9 DEF FinishAdd, Base, MemoryOK, CopyOK, CrunchOK, CopyType, Offsets
  <2>2. Unit(copy, 0) \in CellType
    BY <1>9, CellTyped, EntryTyped DEF FinishAdd, Base, DiskOK, MemoryOK,
       CopyOK, CrunchOK, CopyType, Indices
  <2> QED  BY <1>9, <2>1, <2>2, WriteKeepsDisk DEF FinishAdd
<1>10. ASSUME CompressStops
      PROVE  DiskOK'
  BY <1>10 DEF CompressStops, Appended, disk, memory, history, locals, Base,
     DiskOK
<1>11. ASSUME NEW n \in Names, Remove(n)
      PROVE  DiskOK'
  BY <1>11 DEF Remove, disk, memory, history, locals, Base, DiskOK
<1>12. ASSUME NEW b \in BOOLEAN, Flush(b)
      PROVE  DiskOK'
  BY <1>12 DEF Flush, disk, memory, history, locals, Base, DiskOK
<1>13. ASSUME CloseClean
      PROVE  DiskOK'
  BY <1>13 DEF CloseClean, Gone, disk, memory, history, locals, Base, DiskOK
<1>14. ASSUME CrunchDeleted
      PROVE  DiskOK'
  BY <1>14 DEF CrunchDeleted, disk, memory, history, locals, Base, DiskOK
<1>15. ASSUME CrunchKept
      PROVE  DiskOK'
  BY <1>15 DEF CrunchKept, disk, memory, history, locals, Base, DiskOK
<1>16. ASSUME MoveUnit
      PROVE  DiskOK'
  <2>1. Source \in Int /\ crunch.adjust \in Int /\ file[Source] \in CellType
    BY <1>16 DEF MoveUnit, Base, DiskOK, CrunchOK, CrunchType, Offsets
  <2>2. Source - crunch.adjust \in Int
    BY <2>1
  <2> QED  BY <1>16, <2>1, <2>2, WriteKeepsDisk DEF MoveUnit, Moving
<1>17. ASSUME Moved
      PROVE  DiskOK'
  BY <1>17 DEF Moved, disk, memory, history, locals, Base, DiskOK
<1>18. ASSUME MoveFails
      PROVE  DiskOK'
  BY <1>18 DEF MoveFails, Moving, Flushed, Gone, disk, memory, history,
     locals, Base, DiskOK
<1>19. ASSUME CrunchEnd
      PROVE  DiskOK'
  BY <1>19 DEF CrunchEnd, disk, memory, history, locals, Base, DiskOK
<1>20. ASSUME WriteCd
      PROVE  DiskOK'
  <2> DEFINE c == IF crunch.at < Len(entries) THEN Cde(entries[crunch.at + 1])
                  ELSE Eocd(total, cd)
  <2>1. cd + crunch.at \in Int
    BY DEF Base, MemoryOK, CrunchOK, CrunchType
  <2>2. crunch.at < Len(entries) => crunch.at + 1 \in Indices
    BY EntryTyped DEF Base, CrunchOK, CrunchType, Indices
  <2>3. c \in CellType
    BY <2>2, CellTyped, EntryTyped DEF Base, MemoryOK
  <2> HIDE DEF c
  <2>4. file' = Write(file, cd + crunch.at, c)
    BY <1>20 DEF WriteCd, c
  <2> QED  BY <1>20, <2>1, <2>3, <2>4, WriteKeepsDisk DEF WriteCd
<1>21. ASSUME Truncate
      PROVE  DiskOK'
  <2>1. cd + crunch.at \in Int
    BY DEF Base, MemoryOK, CrunchOK, CrunchType
  <2> QED  BY <1>21, <2>1, CellTyped, WriteKeepsDisk DEF Truncate
<1>22. ASSUME NEW cut \in BOOLEAN, WriteFails(cut)
      PROVE  DiskOK'
  <2>1. cd + crunch.at \in Int
    BY DEF Base, MemoryOK, CrunchOK, CrunchType
  <2> QED  BY <1>22, <2>1, CellTyped, WriteKeepsDisk DEF WriteFails
<1>23. ASSUME Crash
      PROVE  DiskOK'
  BY <1>23 DEF Crash, Gone, disk, memory, history, locals, Base, DiskOK
<1>24. ASSUME Unlink
      PROVE  DiskOK'
  BY <1>24, CellTyped DEF Unlink, DiskOK
<1>25. CASE UNCHANGED vars
  BY <1>25 DEF vars, disk, memory, history, locals, Base, DiskOK
<1> QED
  BY <1>1, <1>2, <1>3, <1>4, <1>5, <1>6, <1>7, <1>8, <1>9, <1>10, <1>11,
     <1>12, <1>13, <1>14, <1>15, <1>16, <1>17, <1>18, <1>19, <1>20, <1>21,
     <1>22, <1>23, <1>24, <1>25 DEF Next, Add, Crunching, Writing

LEMMA MemoryStep ==
  Base /\ [Next]_vars => MemoryOK'
<1> SUFFICES ASSUME Base, [Next]_vars PROVE MemoryOK'
  OBVIOUS
<1>1. ASSUME OpenNew
      PROVE  MemoryOK'
  BY <1>1 DEF OpenNew, MemoryOK, OpenNew, Base
<1>2. ASSUME OpenOld
      PROVE  MemoryOK'
  <2>1. PICK p \in Offsets :
          /\ OpensAt(file, p) /\ entries' = Listed(file, p)
          /\ total' = file[p].total /\ cd' = file[p].cd
    BY <1>2 DEF OpenOld
  <2> QED  BY <1>2, <2>1, ListedTyped DEF OpenOld, Base, MemoryOK
<1>3. ASSUME OpenFails
      PROVE  MemoryOK'
  BY <1>3 DEF OpenFails, disk, memory, history, locals, Base, MemoryOK
<1>4. ASSUME AddRefused
      PROVE  MemoryOK'
  BY <1>4 DEF AddRefused, disk, memory, history, locals, Base, MemoryOK
<1>5. ASSUME NEW n \in Names, NEW d \in Contents, NEW z \in BOOLEAN,
             BeginAdd(n, d, z)
      PROVE  MemoryOK'
  BY <1>5 DEF BeginAdd, disk, memory, history, locals, Base, MemoryOK
<1>6. ASSUME CopyUnit
      PROVE  MemoryOK'
  BY <1>6 DEF CopyUnit, disk, memory, history, locals, Base, MemoryOK
<1>7. ASSUME CopyFails
      PROVE  MemoryOK'
  BY <1>7 DEF CopyFails, disk, memory, history, locals, Base, MemoryOK
<1>8. ASSUME StoreInstead
      PROVE  MemoryOK'
  BY <1>8 DEF StoreInstead, disk, memory, history, locals, Base, MemoryOK
<1>9. ASSUME FinishAdd
      PROVE  MemoryOK'
  BY <1>9, AppendedTyped DEF FinishAdd, Base, MemoryOK
<1>10. ASSUME CompressStops
      PROVE  MemoryOK'
  BY <1>10, AppendedTyped DEF CompressStops, Base, MemoryOK
<1>11. ASSUME NEW n \in Names, Remove(n)
      PROVE  MemoryOK'
  <2>1. PICK i \in Indices : entries' = [entries EXCEPT ![i].deleted = TRUE]
    BY <1>11 DEF Remove, Indices
  <2>2. [entries[i] EXCEPT !.deleted = TRUE] \in EntryType
    BY EntryTyped DEF Base, EntryType
  <2>3. entries' \in Seq(EntryType)
    BY <2>1, <2>2, ExceptSeq DEF Base, MemoryOK, Indices
  <2> QED  BY <1>11, <2>3 DEF Remove, Base, MemoryOK
<1>12. ASSUME NEW b \in BOOLEAN, Flush(b)
      PROVE  MemoryOK'
  BY <1>12 DEF Flush, disk, memory, history, locals, Base, MemoryOK
<1>13. ASSUME CloseClean
      PROVE  MemoryOK'
  BY <1>13, GoneTyped DEF CloseClean
<1>14. ASSUME CrunchDeleted
      PROVE  MemoryOK'
  <2>1. crunch.i \in Indices
    BY <1>14, EntryTyped DEF CrunchDeleted, Indices, Base, CrunchOK,
       CrunchType
  <2>2. Len(entries) - 1 \in Nat
    BY <2>1, EntryTyped DEF Base, Indices
  <2>3. entries' \in [1 .. Len(entries) - 1 -> EntryType]
    BY <1>14, <2>1, EntryTyped DEF CrunchDeleted, Base, Indices
  <2>4. entries' \in Seq(EntryType)
    BY <2>2, <2>3
  <2> QED  BY <1>14, <2>4 DEF CrunchDeleted, Base, MemoryOK
<1>15. ASSUME CrunchKept
      PROVE  MemoryOK'
  BY <1>15 DEF CrunchKept, disk, memory, history, locals, Base, MemoryOK
<1>16. ASSUME MoveUnit
      PROVE  MemoryOK'
  BY <1>16 DEF MoveUnit, Moving, disk, memory, history, locals, Base, MemoryOK
<1>17. ASSUME Moved
      PROVE  MemoryOK'
  <2>1. crunch.i \in Indices
    BY <1>17, EntryTyped DEF Moved, Indices, Base, CrunchOK,
       CrunchType
  <2>2. [entries[crunch.i] EXCEPT !.off = @ - crunch.adjust] \in EntryType
    BY <2>1, EntryTyped DEF Base, EntryType, CrunchOK, CrunchType
  <2>3. entries' \in Seq(EntryType)
    BY <1>17, <2>1, <2>2, ExceptSeq DEF Moved, Base, MemoryOK, Indices
  <2> QED  BY <1>17, <2>3 DEF Moved, Base, MemoryOK
<1>18. ASSUME MoveFails
      PROVE  MemoryOK'
  BY <1>18, GoneTyped DEF MoveFails, Flushed, Base, MemoryOK
<1>19. ASSUME CrunchEnd
      PROVE  MemoryOK'
  BY <1>19 DEF CrunchEnd, CrunchEnd, Base, MemoryOK, CrunchOK
<1>20. ASSUME WriteCd
      PROVE  MemoryOK'
  BY <1>20 DEF WriteCd, disk, memory, history, locals, Base, MemoryOK
<1>21. ASSUME Truncate
      PROVE  MemoryOK'
  BY <1>21, GoneTyped DEF Truncate, Flushed, Base, MemoryOK
<1>22. ASSUME NEW cut \in BOOLEAN, WriteFails(cut)
      PROVE  MemoryOK'
  BY <1>22, GoneTyped DEF WriteFails, Flushed, Base, MemoryOK
<1>23. ASSUME Crash
      PROVE  MemoryOK'
  BY <1>23, GoneTyped DEF Crash
<1>24. ASSUME Unlink
      PROVE  MemoryOK'
  BY <1>24 DEF Unlink, disk, memory, history, locals, Base, MemoryOK
<1>25. CASE UNCHANGED vars
  BY <1>25 DEF vars, disk, memory, history, locals, Base, MemoryOK
<1> QED
  BY <1>1, <1>2, <1>3, <1>4, <1>5, <1>6, <1>7, <1>8, <1>9, <1>10, <1>11,
     <1>12, <1>13, <1>14, <1>15, <1>16, <1>17, <1>18, <1>19, <1>20, <1>21,
     <1>22, <1>23, <1>24, <1>25 DEF Next, Add, Crunching, Writing

LEMMA CopyStep ==
  Base /\ [Next]_vars => CopyOK'
<1> SUFFICES ASSUME Base, [Next]_vars PROVE CopyOK'
  OBVIOUS
<1>1. ASSUME OpenNew
      PROVE  CopyOK'
  BY <1>1 DEF OpenNew, disk, memory, history, locals, Base, CopyOK
<1>2. ASSUME OpenOld
      PROVE  CopyOK'
  BY <1>2 DEF OpenOld, disk, memory, history, locals, Base, CopyOK
<1>3. ASSUME OpenFails
      PROVE  CopyOK'
  BY <1>3 DEF OpenFails, disk, memory, history, locals, Base, CopyOK
<1>4. ASSUME AddRefused
      PROVE  CopyOK'
  BY <1>4 DEF AddRefused, disk, memory, history, locals, Base, CopyOK
<1>5. ASSUME NEW n \in Names, NEW d \in Contents, NEW z \in BOOLEAN,
             BeginAdd(n, d, z)
      PROVE  CopyOK'
  BY <1>5 DEF BeginAdd, BeginAdd, CopyOK, CopyType
<1>6. ASSUME CopyUnit
      PROVE  CopyOK'
  BY <1>6 DEF CopyUnit, CopyUnit, CopyOK, CopyType, Base
<1>7. ASSUME CopyFails
      PROVE  CopyOK'
  BY <1>7 DEF CopyFails, disk, memory, history, locals, Base, CopyOK
<1>8. ASSUME StoreInstead
      PROVE  CopyOK'
  <2>1. \A c \in CopyType, z \in BOOLEAN, m \in Nat \ {0} :
          [c EXCEPT !.deflate = z, !.at = m] \in CopyType
    BY DEF CopyType
  <2>2. copy \in CopyType /\ 1 \in Nat \ {0} /\ FALSE \in BOOLEAN
    BY <1>8 DEF StoreInstead, Base, CopyOK
  <2>3. [copy EXCEPT !.deflate = FALSE, !.at = 1] \in CopyType
    BY <2>1, <2>2, Zenon
  <2> QED  BY <1>8, <2>3 DEF StoreInstead, CopyOK
<1>9. ASSUME FinishAdd
      PROVE  CopyOK'
  BY <1>9 DEF FinishAdd, Appended, disk, memory, history, locals, Base, CopyOK
<1>10. ASSUME CompressStops
      PROVE  CopyOK'
  BY <1>10 DEF CompressStops, Appended, disk, memory, history, locals, Base,
     CopyOK
<1>11. ASSUME NEW n \in Names, Remove(n)
      PROVE  CopyOK'
  BY <1>11 DEF Remove, disk, memory, history, locals, Base, CopyOK
<1>12. ASSUME NEW b \in BOOLEAN, Flush(b)
      PROVE  CopyOK'
  BY <1>12 DEF Flush, disk, memory, history, locals, Base, CopyOK
<1>13. ASSUME CloseClean
      PROVE  CopyOK'
  BY <1>13 DEF CloseClean, Gone, disk, memory, history, locals, Base, CopyOK
<1>14. ASSUME CrunchDeleted
      PROVE  CopyOK'
  BY <1>14 DEF CrunchDeleted, disk, memory, history, locals, Base, CopyOK
<1>15. ASSUME CrunchKept
      PROVE  CopyOK'
  BY <1>15 DEF CrunchKept, disk, memory, history, locals, Base, CopyOK
<1>16. ASSUME MoveUnit
      PROVE  CopyOK'
  BY <1>16 DEF MoveUnit, Moving, disk, memory, history, locals, Base, CopyOK
<1>17. ASSUME Moved
      PROVE  CopyOK'
  BY <1>17 DEF Moved, disk, memory, history, locals, Base, CopyOK
<1>18. ASSUME MoveFails
      PROVE  CopyOK'
  BY <1>18 DEF MoveFails, Moving, Flushed, Gone, disk, memory, history,
     locals, Base, CopyOK
<1>19. ASSUME CrunchEnd
      PROVE  CopyOK'
  BY <1>19 DEF CrunchEnd, disk, memory, history, locals, Base, CopyOK
<1>20. ASSUME WriteCd
      PROVE  CopyOK'
  BY <1>20 DEF WriteCd, disk, memory, history, locals, Base, CopyOK
<1>21. ASSUME Truncate
      PROVE  CopyOK'
  BY <1>21 DEF Truncate, Flushed, Gone, disk, memory, history, locals, Base,
     CopyOK
<1>22. ASSUME NEW cut \in BOOLEAN, WriteFails(cut)
      PROVE  CopyOK'
  BY <1>22 DEF WriteFails, Flushed, Gone, disk, memory, history, locals, Base,
     CopyOK
<1>23. ASSUME Crash
      PROVE  CopyOK'
  BY <1>23 DEF Crash, Gone, disk, memory, history, locals, Base, CopyOK
<1>24. ASSUME Unlink
      PROVE  CopyOK'
  BY <1>24 DEF Unlink, disk, memory, history, locals, Base, CopyOK
<1>25. CASE UNCHANGED vars
  BY <1>25 DEF vars, disk, memory, history, locals, Base, CopyOK
<1> QED
  BY <1>1, <1>2, <1>3, <1>4, <1>5, <1>6, <1>7, <1>8, <1>9, <1>10, <1>11,
     <1>12, <1>13, <1>14, <1>15, <1>16, <1>17, <1>18, <1>19, <1>20, <1>21,
     <1>22, <1>23, <1>24, <1>25 DEF Next, Add, Crunching, Writing

LEMMA CrunchStep ==
  Base /\ [Next]_vars => CrunchOK'
<1> SUFFICES ASSUME Base, [Next]_vars PROVE CrunchOK'
  OBVIOUS
<1>1. ASSUME OpenNew
      PROVE  CrunchOK'
  BY <1>1 DEF OpenNew, disk, memory, history, locals, Base, CrunchOK,
     CrunchType
<1>2. ASSUME OpenOld
      PROVE  CrunchOK'
  BY <1>2 DEF OpenOld, disk, memory, history, locals, Base, CrunchOK,
     CrunchType
<1>3. ASSUME OpenFails
      PROVE  CrunchOK'
  BY <1>3 DEF OpenFails, disk, memory, history, locals, Base, CrunchOK,
     CrunchType
<1>4. ASSUME AddRefused
      PROVE  CrunchOK'
  BY <1>4 DEF AddRefused, disk, memory, history, locals, Base, CrunchOK,
     CrunchType
<1>5. ASSUME NEW n \in Names, NEW d \in Contents, NEW z \in BOOLEAN,
             BeginAdd(n, d, z)
      PROVE  CrunchOK'
  BY <1>5 DEF BeginAdd, disk, memory, history, locals, Base, CrunchOK,
     CrunchType
<1>6. ASSUME CopyUnit
      PROVE  CrunchOK'
  BY <1>6 DEF CopyUnit, disk, memory, history, locals, Base, CrunchOK,
     CrunchType
<1>7. ASSUME CopyFails
      PROVE  CrunchOK'
  BY <1>7 DEF CopyFails, disk, memory, history, locals, Base, CrunchOK,
     CrunchType
<1>8. ASSUME StoreInstead
      PROVE  CrunchOK'
  BY <1>8 DEF StoreInstead, disk, memory, history, locals, Base, CrunchOK,
     CrunchType
<1>9. ASSUME FinishAdd
      PROVE  CrunchOK'
  BY <1>9 DEF FinishAdd, Appended, disk, memory, history, locals, Base,
     CrunchOK, CrunchType
<1>10. ASSUME CompressStops
      PROVE  CrunchOK'
  BY <1>10 DEF CompressStops, Appended, disk, memory, history, locals, Base,
     CrunchOK, CrunchType
<1>11. ASSUME NEW n \in Names, Remove(n)
      PROVE  CrunchOK'
  BY <1>11 DEF Remove, disk, memory, history, locals, Base, CrunchOK,
     CrunchType
<1>12. ASSUME NEW b \in BOOLEAN, Flush(b)
      PROVE  CrunchOK'
  <2>1. crunch' \in CrunchType /\ pc' = "crunching"
    BY <1>12, CrunchTyped DEF Flush
  <2>2. crunch'.i = 1
    BY <1>12 DEF Flush, Idle
  <2> QED  BY <2>1, <2>2 DEF CrunchOK
<1>13. ASSUME CloseClean
      PROVE  CrunchOK'
  BY <1>13, GoneTyped DEF CloseClean
<1>14. ASSUME CrunchDeleted
      PROVE  CrunchOK'
  <2>1. crunch.i \in Indices
    BY <1>14, EntryTyped DEF CrunchDeleted, Indices, Base, CrunchOK, CrunchType
  <2>2. Extent(crunch.i) \in Int
    BY <2>1, OffsetTyped DEF Base
  <2>3. crunch \in CrunchType /\ crunch.i >= 1
        /\ crunch.adjust + Extent(crunch.i) \in Int
        /\ crunch.deleted + 1 \in Nat
    BY <1>14, <2>2 DEF CrunchDeleted, Base, CrunchOK, CrunchType
  <2>4. crunch' \in CrunchType /\ crunch'.i = crunch.i
    BY <1>14, <2>3, CrunchTyped DEF CrunchDeleted, CrunchType
  <2> QED  BY <1>14, <2>3, <2>4 DEF CrunchDeleted, CrunchOK
<1>15. ASSUME CrunchKept
      PROVE  CrunchOK'
  <2>1. crunch \in CrunchType /\ crunch.i + 1 \in Nat
    BY <1>15 DEF Base, CrunchOK, CrunchType
  <2>2. crunch' \in CrunchType /\ crunch'.i = crunch.i + 1
    BY <1>15, <2>1, CrunchTyped DEF CrunchKept, CrunchType
  <2> QED  BY <1>15, <2>1, <2>2 DEF CrunchKept, Base, CrunchOK, CrunchType
<1>16. ASSUME MoveUnit
      PROVE  CrunchOK'
  <2>1. crunch \in CrunchType /\ crunch.i >= 1 /\ crunch.moved + 1 \in Nat
    BY <1>16 DEF MoveUnit, Moving, Base, CrunchOK, CrunchType
  <2>2. crunch' \in CrunchType /\ crunch'.i = crunch.i
    BY <1>16, <2>1, CrunchTyped DEF MoveUnit, CrunchType
  <2> QED  BY <1>16, <2>1, <2>2 DEF MoveUnit, Moving, CrunchOK
<1>17. ASSUME Moved
      PROVE  CrunchOK'
  <2>1. crunch \in CrunchType /\ crunch.i + 1 \in Nat
    BY <1>17 DEF Base, CrunchOK, CrunchType
  <2>2. crunch' \in CrunchType /\ crunch'.i = crunch.i + 1
    BY <1>17, <2>1, CrunchTyped DEF Moved, CrunchType
  <2> QED  BY <1>17, <2>1, <2>2 DEF Moved, Base, CrunchOK, CrunchType
<1>18. ASSUME MoveFails
      PROVE  CrunchOK'
  BY <1>18, GoneTyped, CrunchTyped DEF MoveFails, Flushed, CrunchOK
<1>19. ASSUME CrunchEnd
      PROVE  CrunchOK'
  BY <1>19 DEF CrunchEnd, disk, memory, history, locals, Base, CrunchOK,
     CrunchType
<1>20. ASSUME WriteCd
      PROVE  CrunchOK'
  <2>1. crunch \in CrunchType /\ crunch.at + 1 \in Nat
    BY DEF Base, CrunchOK, CrunchType
  <2>2. crunch' \in CrunchType
    BY <1>20, <2>1, CrunchTyped DEF WriteCd
  <2> QED  BY <1>20, <2>2 DEF WriteCd, CrunchOK
<1>21. ASSUME Truncate
      PROVE  CrunchOK'
  BY <1>21, GoneTyped, CrunchTyped DEF Truncate, Flushed, CrunchOK
<1>22. ASSUME NEW cut \in BOOLEAN, WriteFails(cut)
      PROVE  CrunchOK'
  BY <1>22, GoneTyped, CrunchTyped DEF WriteFails, Flushed, CrunchOK
<1>23. ASSUME Crash
      PROVE  CrunchOK'
  BY <1>23, GoneTyped DEF Crash
<1>24. ASSUME Unlink
      PROVE  CrunchOK'
  BY <1>24 DEF Unlink, disk, memory, history, locals, Base, CrunchOK,
     CrunchType
<1>25. CASE UNCHANGED vars
  BY <1>25 DEF vars, disk, memory, history, locals, Base, CrunchOK, CrunchType
<1> QED
  BY <1>1, <1>2, <1>3, <1>4, <1>5, <1>6, <1>7, <1>8, <1>9, <1>10, <1>11,
     <1>12, <1>13, <1>14, <1>15, <1>16, <1>17, <1>18, <1>19, <1>20, <1>21,
     <1>22, <1>23, <1>24, <1>25 DEF Next, Add, Crunching, Writing

LEMMA ControlStep ==
  Base /\ [Next]_vars => ControlOK'
<1> SUFFICES ASSUME Base, [Next]_vars PROVE ControlOK'
  OBVIOUS
<1>1. ASSUME OpenNew
      PROVE  ControlOK'
  BY <1>1 DEF OpenNew, disk, memory, history, locals, Base, ControlOK
<1>2. ASSUME OpenOld
      PROVE  ControlOK'
  BY <1>2 DEF OpenOld, disk, memory, history, locals, Base, ControlOK
<1>3. ASSUME OpenFails
      PROVE  ControlOK'
  BY <1>3 DEF OpenFails, disk, memory, history, locals, Base, ControlOK
<1>4. ASSUME AddRefused
      PROVE  ControlOK'
  BY <1>4 DEF AddRefused, disk, memory, history, locals, Base, ControlOK
<1>5. ASSUME NEW n \in Names, NEW d \in Contents, NEW z \in BOOLEAN,
             BeginAdd(n, d, z)
      PROVE  ControlOK'
  BY <1>5 DEF BeginAdd, disk, memory, history, locals, Base, ControlOK
<1>6. ASSUME CopyUnit
      PROVE  ControlOK'
  BY <1>6 DEF CopyUnit, disk, memory, history, locals, Base, ControlOK
<1>7. ASSUME CopyFails
      PROVE  ControlOK'
  BY <1>7 DEF CopyFails, disk, memory, history, locals, Base, ControlOK
<1>8. ASSUME StoreInstead
      PROVE  ControlOK'
  BY <1>8 DEF StoreInstead, disk, memory, history, locals, Base, ControlOK
<1>9. ASSUME FinishAdd
      PROVE  ControlOK'
  BY <1>9 DEF FinishAdd, Appended, disk, memory, history, locals, Base,
     ControlOK
<1>10. ASSUME CompressStops
      PROVE  ControlOK'
  BY <1>10 DEF CompressStops, Appended, disk, memory, history, locals, Base,
     ControlOK
<1>11. ASSUME NEW n \in Names, Remove(n)
      PROVE  ControlOK'
  BY <1>11 DEF Remove, disk, memory, history, locals, Base, ControlOK
<1>12. ASSUME NEW b \in BOOLEAN, Flush(b)
      PROVE  ControlOK'
  BY <1>12 DEF Flush, disk, memory, history, locals, Base, ControlOK
<1>13. ASSUME CloseClean
      PROVE  ControlOK'
  BY <1>13 DEF CloseClean, Gone, disk, memory, history, locals, Base,
     ControlOK
<1>14. ASSUME CrunchDeleted
      PROVE  ControlOK'
  BY <1>14 DEF CrunchDeleted, disk, memory, history, locals, Base, ControlOK
<1>15. ASSUME CrunchKept
      PROVE  ControlOK'
  BY <1>15 DEF CrunchKept, disk, memory, history, locals, Base, ControlOK
<1>16. ASSUME MoveUnit
      PROVE  ControlOK'
  BY <1>16 DEF MoveUnit, Moving, disk, memory, history, locals, Base,
     ControlOK
<1>17. ASSUME Moved
      PROVE  ControlOK'
  BY <1>17 DEF Moved, disk, memory, history, locals, Base, ControlOK
<1>18. ASSUME MoveFails
      PROVE  ControlOK'
  BY <1>18 DEF MoveFails, Moving, Flushed, Gone, disk, memory, history,
     locals, Base, ControlOK
<1>19. ASSUME CrunchEnd
      PROVE  ControlOK'
  BY <1>19 DEF CrunchEnd, disk, memory, history, locals, Base, ControlOK
<1>20. ASSUME WriteCd
      PROVE  ControlOK'
  BY <1>20 DEF WriteCd, disk, memory, history, locals, Base, ControlOK
<1>21. ASSUME Truncate
      PROVE  ControlOK'
  BY <1>21 DEF Truncate, Flushed, Gone, disk, memory, history, locals, Base,
     ControlOK
<1>22. ASSUME NEW cut \in BOOLEAN, WriteFails(cut)
      PROVE  ControlOK'
  BY <1>22 DEF WriteFails, Flushed, Gone, disk, memory, history, locals, Base,
     ControlOK
<1>23. ASSUME Crash
      PROVE  ControlOK'
  BY <1>23 DEF Crash, Gone, disk, memory, history, locals, Base, ControlOK
<1>24. ASSUME Unlink
      PROVE  ControlOK'
  BY <1>24 DEF Unlink, disk, memory, history, locals, Base, ControlOK
<1>25. CASE UNCHANGED vars
  BY <1>25 DEF vars, disk, memory, history, locals, Base, ControlOK
<1> QED
  BY <1>1, <1>2, <1>3, <1>4, <1>5, <1>6, <1>7, <1>8, <1>9, <1>10, <1>11,
     <1>12, <1>13, <1>14, <1>15, <1>16, <1>17, <1>18, <1>19, <1>20, <1>21,
     <1>22, <1>23, <1>24, <1>25 DEF Next, Add, Crunching, Writing

LEMMA HistoryStep ==
  Base /\ [Next]_vars => HistoryOK'
<1> SUFFICES ASSUME Base, [Next]_vars PROVE HistoryOK'
  OBVIOUS
<1>1. ASSUME OpenNew
      PROVE  HistoryOK'
  BY <1>1, ZipAssumption DEF OpenNew, disk, memory, history, locals, Base,
     HistoryOK
<1>2. ASSUME OpenOld
      PROVE  HistoryOK'
  BY <1>2, ZipAssumption DEF OpenOld, disk, memory, history, locals, Base,
     HistoryOK
<1>3. ASSUME OpenFails
      PROVE  HistoryOK'
  BY <1>3, ZipAssumption DEF OpenFails, disk, memory, history, locals, Base,
     HistoryOK
<1>4. ASSUME AddRefused
      PROVE  HistoryOK'
  BY <1>4, ZipAssumption DEF AddRefused, disk, memory, history, locals, Base,
     HistoryOK
<1>5. ASSUME NEW n \in Names, NEW d \in Contents, NEW z \in BOOLEAN,
             BeginAdd(n, d, z)
      PROVE  HistoryOK'
  BY <1>5, ZipAssumption DEF BeginAdd, disk, memory, history, locals, Base,
     HistoryOK
<1>6. ASSUME CopyUnit
      PROVE  HistoryOK'
  BY <1>6, ZipAssumption DEF CopyUnit, disk, memory, history, locals, Base,
     HistoryOK
<1>7. ASSUME CopyFails
      PROVE  HistoryOK'
  BY <1>7, ZipAssumption DEF CopyFails, disk, memory, history, locals, Base,
     HistoryOK, Fails, Trouble
<1>8. ASSUME StoreInstead
      PROVE  HistoryOK'
  BY <1>8, ZipAssumption DEF StoreInstead, disk, memory, history, locals,
     Base, HistoryOK
<1>9. ASSUME FinishAdd
      PROVE  HistoryOK'
  BY <1>9, ZipAssumption DEF FinishAdd, Appended, disk, memory, history,
     locals, Base, HistoryOK
<1>10. ASSUME CompressStops
      PROVE  HistoryOK'
  BY <1>10, ZipAssumption DEF CompressStops, Appended, disk, memory, history,
     locals, Base, HistoryOK, Fails, Trouble
<1>11. ASSUME NEW n \in Names, Remove(n)
      PROVE  HistoryOK'
  BY <1>11, ZipAssumption DEF Remove, disk, memory, history, locals, Base,
     HistoryOK
<1>12. ASSUME NEW b \in BOOLEAN, Flush(b)
      PROVE  HistoryOK'
  BY <1>12, ZipAssumption DEF Flush, disk, memory, history, locals, Base,
     HistoryOK
<1>13. ASSUME CloseClean
      PROVE  HistoryOK'
  BY <1>13, ZipAssumption DEF CloseClean, Gone, disk, memory, history, locals,
     Base, HistoryOK
<1>14. ASSUME CrunchDeleted
      PROVE  HistoryOK'
  BY <1>14, ZipAssumption DEF CrunchDeleted, disk, memory, history, locals,
     Base, HistoryOK
<1>15. ASSUME CrunchKept
      PROVE  HistoryOK'
  BY <1>15, ZipAssumption DEF CrunchKept, disk, memory, history, locals, Base,
     HistoryOK
<1>16. ASSUME MoveUnit
      PROVE  HistoryOK'
  BY <1>16, ZipAssumption DEF MoveUnit, Moving, disk, memory, history, locals,
     Base, HistoryOK
<1>17. ASSUME Moved
      PROVE  HistoryOK'
  BY <1>17, ZipAssumption DEF Moved, disk, memory, history, locals, Base,
     HistoryOK
<1>18. ASSUME MoveFails
      PROVE  HistoryOK'
  BY <1>18, ZipAssumption DEF MoveFails, Moving, Flushed, Gone, disk, memory,
     history, locals, Base, HistoryOK, Fails, Trouble
<1>19. ASSUME CrunchEnd
      PROVE  HistoryOK'
  BY <1>19, ZipAssumption DEF CrunchEnd, disk, memory, history, locals, Base,
     HistoryOK
<1>20. ASSUME WriteCd
      PROVE  HistoryOK'
  BY <1>20, ZipAssumption DEF WriteCd, disk, memory, history, locals, Base,
     HistoryOK
<1>21. ASSUME Truncate
      PROVE  HistoryOK'
  BY <1>21, ZipAssumption DEF Truncate, Flushed, Gone, disk, memory, history,
     locals, Base, HistoryOK
<1>22. ASSUME NEW cut \in BOOLEAN, WriteFails(cut)
      PROVE  HistoryOK'
  BY <1>22, ZipAssumption DEF WriteFails, Flushed, Gone, disk, memory,
     history, locals, Base, HistoryOK, Fails, Trouble
<1>23. ASSUME Crash
      PROVE  HistoryOK'
  <2>1. troubles' \in 0 .. MaxTroubles /\ adds' = adds
    BY <1>23, ZipAssumption DEF Crash, Trouble, Base, HistoryOK
  <2>2. told' \in BOOLEAN /\ broken' \in BOOLEAN /\ torn' \in BOOLEAN
        /\ (torn' => broken')
    BY <1>23 DEF Crash, Base, HistoryOK, ControlOK, CrunchOK, CrunchType,
       MemoryOK, Idle
  <2> QED  BY <2>1, <2>2 DEF Base, HistoryOK
<1>24. ASSUME Unlink
      PROVE  HistoryOK'
  <2>1. troubles' \in 0 .. MaxTroubles /\ adds' = 0
    BY <1>24, ZipAssumption DEF Unlink
  <2>2. told' = FALSE /\ broken' = FALSE /\ torn' = FALSE
    BY <1>24 DEF Unlink
  <2> QED  BY <2>1, <2>2 DEF HistoryOK
<1>25. CASE UNCHANGED vars
  BY <1>25, ZipAssumption DEF vars, disk, memory, history, locals, Base,
     HistoryOK
<1> QED
  BY <1>1, <1>2, <1>3, <1>4, <1>5, <1>6, <1>7, <1>8, <1>9, <1>10, <1>11,
     <1>12, <1>13, <1>14, <1>15, <1>16, <1>17, <1>18, <1>19, <1>20, <1>21,
     <1>22, <1>23, <1>24, <1>25 DEF Next, Add, Crunching, Writing

(* The types hold always.                                                  *)
LEMMA BaseHolds == Spec => []Base
<1>1. Init => Base
  <2> SUFFICES ASSUME Init PROVE Base
    OBVIOUS
  <2>1. DiskOK
    BY DEF Init, DiskOK, CellType
  <2>2. CopyOK
    BY DEF Init, CopyOK
  <2>3. CrunchOK
    BY CrunchTyped DEF Init, CrunchOK
  <2>4. ControlOK
    BY DEF Init, ControlOK
  <2>5. HistoryOK
    <3>1. troubles \in 0 .. MaxTroubles /\ adds = 0
      BY ZipAssumption DEF Init
    <3>2. told = FALSE /\ broken = FALSE /\ torn = FALSE
      BY DEF Init
    <3> QED  BY <3>1, <3>2 DEF HistoryOK
  <2>6. MemoryOK
    <3>1. entries \in Seq(EntryType)
      BY DEF Init
    <3>2. total \in Int /\ cd \in Int
      BY DEF Init
    <3>3. dirty \in BOOLEAN
      BY DEF Init
    <3> QED  BY <3>1, <3>2, <3>3 DEF MemoryOK
  <2> QED  BY <2>1, <2>2, <2>3, <2>4, <2>5, <2>6 DEF Base
<1>2. Base /\ [Next]_vars => Base'
  BY DiskStep, MemoryStep, CopyStep, CrunchStep, ControlStep, HistoryStep
     DEF Base
<1> QED  BY <1>1, <1>2, PTL DEF Spec

LEMMA BaseIsTyped == Base => TypeOK
<1> SUFFICES ASSUME Base PROVE TypeOK
  OBVIOUS
<1> QED
  BY DEF Base, DiskOK, MemoryOK, CopyOK, CrunchOK, ControlOK, HistoryOK,
     TypeOK, CopyType, CrunchType

------------------------------------------------------------------------------
(* The steps of an archive that is open, stays open and does not break, and*)
(* those of them that leave the entries where they are.                    *)
Quiet ==
  \/ AddRefused
  \/ \E n \in Names, d \in Contents, z \in BOOLEAN : BeginAdd(n, d, z)
  \/ CopyUnit \/ CopyFails \/ StoreInstead \/ WriteCd
  \/ ~closing /\ Truncate
Inner ==
  \/ Quiet \/ FinishAdd
  \/ \E n \in Names : Remove(n)
  \/ \E destroy \in BOOLEAN : Flush(destroy)
  \/ CrunchDeleted \/ CrunchKept \/ MoveUnit \/ Moved \/ CrunchEnd
  \/ UNCHANGED vars

LEMMA InnerSteps ==
  ASSUME Base, [Next]_vars, ~broken', pc # "closed", pc' # "closed"
  PROVE  Inner
<1>1. CASE OpenNew \/ OpenOld \/ OpenFails \/ Unlink
  BY <1>1 DEF OpenNew, OpenOld, OpenFails, Unlink
<1>2. CASE CompressStops \/ MoveFails \/ \E cut \in BOOLEAN : WriteFails(cut)
  BY <1>2 DEF CompressStops, MoveFails, WriteFails
<1>3. CASE CloseClean \/ Crash
  BY <1>3 DEF CloseClean, Crash, Gone
<1>4. CASE Truncate
  <2>1. closing = FALSE
    BY <1>4 DEF Truncate, Flushed, Gone, Base, ControlOK
  <2> QED  BY <1>4, <2>1 DEF Inner, Quiet
<1>5. CASE Add
  BY <1>2, <1>5 DEF Add, Inner, Quiet
<1>6. CASE Crunching
  BY <1>2, <1>6 DEF Crunching, Inner
<1>7. CASE Writing
  BY <1>2, <1>4, <1>7 DEF Writing, Inner, Quiet
<1>8. CASE \/ \E n \in Names : Remove(n)
           \/ \E destroy \in BOOLEAN : Flush(destroy)
           \/ UNCHANGED vars
  BY <1>8 DEF Inner
<1> QED
  BY <1>1, <1>2, <1>3, <1>5, <1>6, <1>7, <1>8 DEF Next

LEMMA InnerUnbroken ==
  ASSUME Inner, ~broken'
  PROVE  ~broken
BY DEF Inner, Quiet, AddRefused, BeginAdd, CopyUnit, CopyFails,
   StoreInstead, WriteCd, Truncate, FinishAdd, Remove, Flush, CrunchDeleted,
   CrunchKept, MoveUnit, Moving, Moved, CrunchEnd, vars, history

LEMMA QuietKeeps ==
  ASSUME Quiet
  PROVE  /\ UNCHANGED <<entries, total, cd>>
         /\ pc # "crunching" /\ pc' # "crunching"
BY DEF Quiet, AddRefused, BeginAdd, CopyUnit, CopyFails, StoreInstead,
   WriteCd, Truncate, Flushed, disk, memory, history

(* What crunchArchive takes for the extent of the entry it is at: as far as*)
(* the next one, if its offset is not 0.                                   *)
LEMMA ExtentCovers ==
  ASSUME Base, Ordered, pc = "crunching", crunch.i \in Indices
  PROVE  LET i == crunch.i
         IN  /\ entries[i].off = 0 => Extent(i) = 0
             /\ entries[i].off # 0 =>
                  /\ entries[i].off + Extent(i) =
                       IF i = Len(entries) THEN cd ELSE entries[i + 1].off
                  /\ Extent(i) >= entries[i].span
                  /\ entries[i].off + Extent(i) <= cd
                  /\ \A k \in Indices :
                       k > i => entries[i].off + Extent(i) <= entries[k].off
             /\ entries[i].span > 0
<1> DEFINE i == crunch.i
<1>1. /\ i \in Nat /\ i >= 1 /\ i <= Len(entries) /\ Len(entries) \in Nat
      /\ entries[i].off \in Int /\ entries[i].span \in Nat \ {0}
      /\ entries[i].off >= 0 /\ cd \in Int
  BY EntryTyped DEF Base, Ordered, Indices, MemoryOK
<1>2. \A k \in Indices : k >= i => Reach(k) = entries[k].off
  BY <1>1, EntryTyped DEF Reach, Shift, Base, Indices
<1>3. \A k \in Indices : /\ k \in Nat /\ k <= Len(entries)
                         /\ entries[k].off \in Int /\ entries[k].span \in Nat
                         /\ k >= i => entries[k].off + entries[k].span <= cd
  BY <1>2, EntryTyped DEF Base, Ordered, Indices
<1>4. \A k, m \in Indices :
        k >= i /\ k < m => entries[k].off + entries[k].span <= entries[m].off
  <2> SUFFICES ASSUME NEW k \in Indices, NEW m \in Indices, k >= i, k < m
               PROVE  entries[k].off + entries[k].span <= entries[m].off
    OBVIOUS
  <2>1. m >= i
    BY <1>1, <1>3
  <2> QED  BY <1>2, <2>1 DEF Ordered
<1>5. CASE i = Len(entries)
  <2>1. NextWithOffset(i) = {}
    BY <1>1, <1>5 DEF NextWithOffset
  <2>2. entries[i].off # 0 => Extent(i) = cd - entries[i].off
    BY <2>1 DEF NextOffset, Extent
  <2>3. entries[i].off + entries[i].span <= cd
    BY <1>1, <1>3
  <2>4. \A k \in Indices : ~(k > i)
    BY <1>1, <1>3, <1>5
  <2> QED  BY <1>1, <1>5, <2>2, <2>3, <2>4 DEF Extent
<1>6. CASE i # Len(entries)
  <2>1. i + 1 \in Indices
    BY <1>1, <1>6 DEF Indices
  <2>2. entries[i].off + entries[i].span <= entries[i + 1].off
    BY <1>1, <1>4, <2>1
  <2>3. entries[i + 1].off # 0
    BY <1>1, <1>3, <2>1, <2>2
  <2>4. \A k \in i + 2 .. Len(entries) : i + 1 \in i + 1 .. k - 1
    BY <1>1
  <2>5. NextWithOffset(i) = {i + 1}
    BY <1>1, <1>3, <2>1, <2>3, <2>4 DEF NextWithOffset
  <2>6. NextOffset(i) = entries[i + 1].off
    BY <2>5 DEF NextOffset
  <2>7. entries[i].off # 0 => Extent(i) = entries[i + 1].off - entries[i].off
    BY <2>6 DEF Extent
  <2>8. entries[i + 1].off <= cd
    BY <1>1, <1>3, <2>1
  <2>9. \A k \in Indices : k > i => entries[i + 1].off <= entries[k].off
    <3> SUFFICES ASSUME NEW k \in Indices, k > i
                 PROVE  entries[i + 1].off <= entries[k].off
      OBVIOUS
    <3>1. k = i + 1 \/ k > i + 1
      BY <1>1, <1>3
    <3>2. k > i + 1 =>
            entries[i + 1].off + entries[i + 1].span <= entries[k].off
      BY <1>1, <1>4, <2>1
    <3>3. entries[i + 1].span \in Nat /\ entries[k].off \in Int
          /\ entries[i + 1].off \in Int
      BY <1>3, <2>1
    <3> QED  BY <3>1, <3>2, <3>3
  <2> QED  BY <1>1, <1>3, <1>6, <2>1, <2>2, <2>7, <2>8, <2>9 DEF Extent
<1> QED  BY <1>5, <1>6

LEMMA ExtentIs ==
  ASSUME Base, Placed, pc = "crunching", crunch.i \in Indices
  PROVE  LET i == crunch.i
         IN  /\ entries[i].off = 0 => Extent(i) = 0
             /\ entries[i].off # 0 => Extent(i) = entries[i].span
             /\ entries[i].off + entries[i].span =
                  IF i = Len(entries) THEN cd ELSE entries[i + 1].off
             /\ entries[i].span > 0
<1> DEFINE i == crunch.i
<1>1. /\ i \in Nat /\ i >= 1 /\ i <= Len(entries) /\ Len(entries) \in Nat
      /\ entries[i].off \in Int /\ entries[i].span \in Nat \ {0}
      /\ Extent(i) \in Int
  BY EntryTyped, OffsetTyped DEF Base, Indices
<1>2. i # Len(entries) =>
        i + 1 \in Indices /\ Reach(i + 1) = entries[i + 1].off
  BY <1>1, EntryTyped DEF Base, Indices, Reach, Shift
<1>3. Reach(i) = entries[i].off
  BY <1>1 DEF Reach, Shift
<1>4. entries[i].off + entries[i].span =
        IF i = Len(entries) THEN cd ELSE entries[i + 1].off
  BY <1>2, <1>3 DEF Placed, Adjacent
<1>5. /\ entries[i].off = 0 => Extent(i) = 0
      /\ entries[i].off # 0 =>
           entries[i].off + Extent(i) = entries[i].off + entries[i].span
  BY <1>4, ExtentCovers DEF Placed
<1> QED  BY <1>1, <1>4, <1>5

(* The entry that the crunch is at, or the one past the last.              *)
LEMMA Crunched ==
  ASSUME Base, pc = "crunching", crunch.i <= Len(entries)
  PROVE  crunch.i \in Indices
BY EntryTyped DEF Base, CrunchOK, CrunchType, Indices

(* The entries without the one that is deleted.                            *)
LEMMA Without ==
  ASSUME Base, CrunchDeleted
  PROVE  /\ crunch.i \in Indices /\ entries[crunch.i].deleted
         /\ Len(entries') = Len(entries) - 1
         /\ \A k \in Indices' : /\ k \in Indices
                                /\ k >= crunch.i => k + 1 \in Indices
                                /\ entries'[k] = IF k < crunch.i
                                                 THEN entries[k]
                                                 ELSE entries[k + 1]
         /\ \A k \in Indices :
              /\ k < crunch.i => k \in Indices'
              /\ k > crunch.i => k - 1 \in Indices'
         /\ crunch'.i = crunch.i /\ crunch'.at = crunch.at
         /\ crunch'.moved = crunch.moved
         /\ crunch'.adjust = crunch.adjust + Extent(crunch.i)
         /\ crunch'.deleted = crunch.deleted + 1
         /\ pc = "crunching" /\ UNCHANGED <<pc, cd, total, file, broken>>
<1>1. crunch.i \in Indices /\ entries[crunch.i].deleted
  BY Crunched DEF CrunchDeleted
<1>2. Len(entries) - 1 \in Nat /\ Len(entries) \in Nat /\ crunch.i \in Nat
  BY <1>1, EntryTyped DEF Base, Indices
<1>3. entries' = [k \in 1 .. Len(entries) - 1 |->
                    entries[IF k < crunch.i THEN k ELSE k + 1]]
  BY DEF CrunchDeleted
<1>4. Len(entries') = Len(entries) - 1
  BY <1>2, <1>3
<1>5. Indices' = 1 .. Len(entries) - 1
  BY <1>4 DEF Indices
<1>6. \A k \in Indices' : /\ k \in Indices
                          /\ k >= crunch.i => k + 1 \in Indices
                          /\ entries'[k] = IF k < crunch.i THEN entries[k]
                                           ELSE entries[k + 1]
  BY <1>2, <1>3, <1>5 DEF Indices
<1>7. \A k \in Indices : /\ k < crunch.i => k \in Indices'
                         /\ k > crunch.i => k - 1 \in Indices'
  BY <1>1, <1>2, <1>5 DEF Indices
<1>8. crunch'.i = crunch.i /\ crunch'.at = crunch.at
      /\ crunch'.moved = crunch.moved
      /\ crunch'.adjust = crunch.adjust + Extent(crunch.i)
      /\ crunch'.deleted = crunch.deleted + 1
  BY DEF CrunchDeleted, Base, CrunchOK, CrunchType
<1>9. pc = "crunching" /\ UNCHANGED <<pc, cd, total, file, broken>>
  BY DEF CrunchDeleted, disk, history
<1> QED  BY <1>1, <1>4, <1>6, <1>7, <1>8, <1>9

(* The entries with one behind them.                                       *)
LEMMA With ==
  ASSUME Base, FinishAdd
  PROVE  /\ Len(entries') = Len(entries) + 1
         /\ \A k \in Indices : k \in Indices' /\ entries'[k] = entries[k]
         /\ \A k \in Indices' : k \in Indices \/ k = Len(entries) + 1
         /\ Len(entries) + 1 \in Indices'
         /\ entries'[Len(entries) + 1] =
              [name |-> copy.name, data |-> copy.data, off |-> cd,
               span |-> copy.at, deleted |-> FALSE]
         /\ cd' = cd + copy.at /\ total' = total + 1
         /\ copy \in CopyType /\ pc = "adding" /\ pc' = "open"
         /\ broken' = broken
<1>1. /\ pc = "adding" /\ pc' = "open" /\ cd' = cd + copy.at
      /\ total' = total + 1 /\ broken' = broken
  BY DEF FinishAdd, Appended, history
<1>2. copy \in CopyType /\ cd \in Int
  BY <1>1 DEF Base, CopyOK, MemoryOK
<1> DEFINE e == [name |-> copy.name, data |-> copy.data, off |-> cd,
                 span |-> copy.at, deleted |-> FALSE]
<1>3. e \in EntryType
  BY <1>2 DEF CopyType, EntryType
<1>4. entries' = Append(entries, e)
  BY DEF FinishAdd, Appended
<1> HIDE DEF e
<1>5. /\ Len(entries') = Len(entries) + 1 /\ Len(entries) \in Nat
      /\ \A k \in 1 .. Len(entries) : entries'[k] = entries[k]
      /\ entries'[Len(entries) + 1] = e
  BY <1>3, <1>4, AppendProperties DEF Base, MemoryOK
<1> QED  BY <1>1, <1>2, <1>5 DEF Indices, e

(* The entries with one deleted, and with one moved.                       *)
LEMMA Removed ==
  ASSUME Base, NEW n \in Names, Remove(n)
  PROVE  /\ Len(entries') = Len(entries) /\ Indices' = Indices
         /\ \E i \in Indices :
              /\ entries[i].name = n /\ ~entries[i].deleted
              /\ \A k \in Indices :
                   entries'[k] = IF k = i
                                 THEN [entries[i] EXCEPT !.deleted = TRUE]
                                 ELSE entries[k]
         /\ UNCHANGED <<pc, cd, total, file, crunch, broken>> /\ pc = "open"
<1>1. PICK i \in Indices : /\ entries[i].name = n /\ ~entries[i].deleted
                           /\ entries' = [entries EXCEPT ![i].deleted = TRUE]
  BY DEF Remove, Indices
<1>2. /\ Len(entries') = Len(entries)
      /\ \A k \in Indices :
           entries'[k] = IF k = i THEN [entries[i] EXCEPT !.deleted = TRUE]
                         ELSE entries[k]
  BY <1>1 DEF Base, MemoryOK, Indices
<1>3. UNCHANGED <<pc, cd, total, file, crunch, broken>> /\ pc = "open"
  BY DEF Remove, disk, locals
<1> QED  BY <1>1, <1>2, <1>3 DEF Indices

LEMMA MovedOn ==
  ASSUME Base, Moved
  PROVE  /\ crunch.i \in Indices /\ ~entries[crunch.i].deleted
         /\ Moves(crunch.i) /\ crunch.moved = Extent(crunch.i)
         /\ Len(entries') = Len(entries) /\ Indices' = Indices
         /\ \A k \in Indices :
              entries'[k] =
                IF k = crunch.i
                THEN [entries[k] EXCEPT !.off = @ - crunch.adjust]
                ELSE entries[k]
         /\ crunch'.i = crunch.i + 1 /\ crunch'.at = crunch.at
         /\ crunch'.moved = 0 /\ crunch'.adjust = crunch.adjust
         /\ crunch'.deleted = crunch.deleted
         /\ pc = "crunching" /\ UNCHANGED <<pc, cd, total, file, broken>>
<1>1. crunch.i \in Indices /\ ~entries[crunch.i].deleted
  BY Crunched DEF Moved
<1>2. /\ Len(entries') = Len(entries)
      /\ \A k \in Indices :
           entries'[k] =
             IF k = crunch.i
             THEN [entries[k] EXCEPT !.off = @ - crunch.adjust]
             ELSE entries[k]
  BY <1>1 DEF Moved, Base, MemoryOK, Indices
<1>3. /\ crunch'.i = crunch.i + 1 /\ crunch'.at = crunch.at
      /\ crunch'.moved = 0 /\ crunch'.adjust = crunch.adjust
      /\ crunch'.deleted = crunch.deleted
  BY DEF Moved, Base, CrunchOK, CrunchType
<1>4. pc = "crunching" /\ UNCHANGED <<pc, cd, total, file, broken>>
  BY DEF Moved, disk, history
<1>5. Moves(crunch.i) /\ crunch.moved = Extent(crunch.i)
  BY DEF Moved
<1> QED  BY <1>1, <1>2, <1>3, <1>4, <1>5 DEF Indices

------------------------------------------------------------------------------
(* The entries keep their order and lie one behind the other.              *)
LEMMA SameReach ==
  ASSUME Base, Ordered, UNCHANGED <<entries, cd>>,
         \A k \in Indices : Reach(k)' = Reach(k)
  PROVE  Ordered' /\ (Adjacent => Adjacent')
<1>1. Indices' = Indices
  BY DEF Indices
<1>2. \A i \in Indices : Len(entries) # i => i + 1 \in Indices
  BY EntryTyped DEF Base, Indices
<1> QED  BY <1>1, <1>2 DEF Ordered, Adjacent

LEMMA SamePlaces ==
  ASSUME Base, Ordered, UNCHANGED <<entries, cd>>,
         \/ pc # "crunching" /\ pc' # "crunching"
         \/ UNCHANGED <<pc, crunch>>
         \/ /\ pc = "crunching" /\ pc' = "crunching"
            /\ crunch'.i = crunch.i /\ crunch'.adjust = crunch.adjust
  PROVE  Ordered' /\ (Adjacent => Adjacent')
<1>1. \A i \in Indices : Reach(i)' = Reach(i)
  BY DEF Reach, Shift
<1> QED  BY <1>1, SameReach

(* An entry that stays has nothing to move down by.                        *)
LEMMA KeptStays ==
  ASSUME Base, Ordered, InCrunch, CrunchKept
  PROVE  /\ crunch.adjust = 0 /\ crunch.moved = 0
         /\ crunch.i \in Indices
<1>1. crunch.i \in Indices /\ pc = "crunching" /\ ~Moves(crunch.i)
  BY Crunched DEF CrunchKept
<1>2. crunch.adjust >= 0 /\ crunch.adjust <= entries[crunch.i].off
      /\ crunch.adjust \in Int /\ crunch.i \in Nat /\ crunch.moved \in Nat
  BY <1>1 DEF InCrunch, Base, CrunchOK, CrunchType, Indices
<1>3. entries[crunch.i].off # 0 => Extent(crunch.i) > 0
  BY <1>1, ExtentCovers, EntryTyped, OffsetTyped DEF Base
<1>4. crunch.adjust = 0
  BY <1>1, <1>2, <1>3, EntryTyped, OffsetTyped DEF Moves, Base
<1> QED  BY <1>1, <1>2, <1>4 DEF InCrunch

(* What stays for the entries that are not looked at, and the ones before. *)
LEMMA DeletedReach ==
  ASSUME Base, Ordered, InCrunch, CrunchDeleted
  PROVE  LET i == crunch.i
             gain == Extent(i)
         IN  /\ i \in Indices /\ i \in Nat /\ gain \in Int /\ cd \in Int
             /\ crunch.adjust \in Int /\ Len(entries) \in Nat
             /\ \A k \in Indices :
                  /\ Reach(k) \in Int /\ entries[k].span \in Nat
                  /\ k >= i => Reach(k) = entries[k].off
                  /\ k < i => entries[i].off # 0
             /\ \A k \in Indices' :
                  Reach(k)' = IF k < i THEN Reach(k) + gain ELSE Reach(k + 1)
<1> DEFINE i == crunch.i
           gain == Extent(i)
<1>1. /\ gain \in Int /\ i \in Indices /\ i \in Nat /\ cd \in Int
      /\ crunch.adjust \in Int /\ Len(entries) \in Nat
  BY Without, OffsetTyped, EntryTyped DEF Base, CrunchOK, CrunchType, MemoryOK
<1>2. \A k \in Indices :
        Reach(k) = entries[k].off + IF k < i THEN crunch.adjust ELSE 0
  BY Without DEF Reach, Shift
<1>3. \A k \in Indices' :
        Reach(k)' = entries'[k].off
                    + IF k < i THEN crunch.adjust + gain ELSE 0
  BY Without DEF Reach, Shift
<1> HIDE DEF gain
<1>4. \A k \in Indices : /\ Reach(k) \in Int /\ entries[k].span \in Nat \ {0}
                         /\ entries[k].off \in Int
                         /\ k >= i => Reach(k) = entries[k].off
  BY <1>1, <1>2, EntryTyped DEF Base, Indices
<1>5. ASSUME NEW k \in Indices, k < i
      PROVE  entries[i].off # 0
  <2>1. 0 <= entries[k].off /\ Reach(k) + entries[k].span <= Reach(i)
    BY <1>1, <1>5 DEF Ordered
  <2>2. 0 <= crunch.adjust
    BY Without DEF InCrunch
  <2>3. Reach(k) = entries[k].off + crunch.adjust
    BY <1>2, <1>5
  <2>4. i >= i /\ Reach(i) = entries[i].off /\ entries[i].off \in Int
    BY <1>1, <1>4
  <2>5. entries[k].off \in Int /\ entries[k].span \in Nat \ {0}
    BY <1>4
  <2> QED  BY <1>1, <2>1, <2>2, <2>3, <2>4, <2>5
<1>6. ASSUME NEW k \in Indices'
      PROVE  Reach(k)' = IF k < i THEN Reach(k) + gain ELSE Reach(k + 1)
  <2>1. CASE k < i
    <3>1. k \in Indices /\ entries'[k] = entries[k]
      BY <2>1, Without
    <3> QED  BY <1>1, <1>2, <1>3, <1>4, <2>1, <3>1
  <2>2. CASE ~(k < i)
    <3>1. k + 1 \in Indices /\ entries'[k] = entries[k + 1]
          /\ k \in Nat /\ ~(k + 1 < i)
      BY <1>1, <2>2, Without DEF Indices
    <3> QED  BY <1>1, <1>2, <1>3, <1>4, <2>2, <3>1
  <2> QED  BY <2>1, <2>2
<1> QED  BY <1>1, <1>4, <1>5, <1>6 DEF gain

LEMMA OrderedStep ==
  ASSUME Base, Base', Ordered, InCrunch, Inner
  PROVE  Ordered'
<1>1. CASE Quiet
  BY <1>1, QuietKeeps, SamePlaces
<1>2. CASE FinishAdd
  <2> DEFINE n == Len(entries) + 1
  <2>1. \A k \in Indices : Reach(k) = entries[k].off
    BY <1>2, With, EntryTyped DEF Reach, Shift, Base
  <2>2. \A k \in Indices' : Reach(k)' = entries'[k].off
    BY <1>2, With, EntryTypedNext DEF Reach, Shift, Base
  <2>3. n \in Nat /\ cd \in Int /\ copy.at \in Nat \ {0} /\ cd >= 0
    BY <1>2, With, EntryTyped DEF Base, MemoryOK, CopyType, Ordered
  <2>4. entries'[n].off = cd /\ entries'[n].span = copy.at
    BY <1>2, With
  <2>5. \A k \in Indices : /\ k < n /\ 0 <= entries[k].off
                           /\ entries[k].off + entries[k].span <= cd
    BY <2>1, EntryTyped DEF Ordered, Base, Indices
  <2>6. \A i, j \in Indices : i < j =>
          entries[i].off + entries[i].span <= entries[j].off
    BY <2>1, EntryTyped DEF Ordered, Base, Indices
  <2>7. \A k \in Indices' :
          k = n \/ (k \in Indices /\ entries'[k] = entries[k])
    <3>1. \A k \in Indices' : k \in Indices \/ k = n
      BY <1>2, With
    <3>2. \A k \in Indices : entries'[k] = entries[k]
      BY <1>2, With
    <3> QED  BY <3>1, <3>2
  <2>8. Ordered'
    <3> HIDE DEF n
    <3>1. cd' = cd + copy.at
      BY <1>2, With
    <3>2. \A k \in Indices' : /\ 0 <= entries'[k].off
                              /\ entries'[k].off + entries'[k].span <= cd'
      BY <2>3, <2>4, <2>5, <2>7, <3>1, EntryTyped DEF Base
    <3>3. ASSUME NEW i \in Indices', NEW j \in Indices', i < j
          PROVE  entries'[i].off + entries'[i].span <= entries'[j].off
      <4>1. i \in Indices /\ entries'[i] = entries[i]
        <5>1. i # n
          BY <2>3, <2>5, <2>7, <3>3 DEF Indices
        <5> QED  BY <2>7, <5>1
      <4>2. CASE j = n
        BY <2>4, <2>5, <4>1, <4>2
      <4>3. CASE j # n
        BY <2>6, <2>7, <3>3, <4>1, <4>3
      <4> QED  BY <4>2, <4>3
    <3> QED  BY <2>2, <2>3, <3>1, <3>2, <3>3 DEF Ordered
  <2> QED  BY <2>8
<1>3. ASSUME NEW n \in Names, Remove(n)
      PROVE  Ordered'
  <2>1. \A k \in Indices : /\ entries'[k].off = entries[k].off
                           /\ entries'[k].span = entries[k].span
                           /\ Reach(k)' = Reach(k)
    <3>1. PICK i \in Indices : \A k \in Indices :
            entries'[k] = IF k = i THEN [entries[i] EXCEPT !.deleted = TRUE]
                          ELSE entries[k]
      BY <1>3, Removed
    <3>2. \A k \in Indices : /\ entries'[k].off = entries[k].off
                             /\ entries'[k].span = entries[k].span
      BY <3>1, EntryTyped DEF Base, EntryType
    <3>3. UNCHANGED <<pc, crunch>>
      BY <1>3, Removed
    <3> QED  BY <3>2, <3>3 DEF Reach, Shift
  <2>3. cd' = cd /\ Len(entries') = Len(entries) /\ Indices' = Indices
    BY <1>3, Removed
  <2> QED  BY <2>1, <2>3 DEF Ordered
<1>4. ASSUME NEW b \in BOOLEAN, Flush(b)
      PROVE  Ordered'
  <2>1. pc # "crunching" /\ UNCHANGED <<entries, cd>>
        /\ crunch'.i = 1 /\ crunch'.adjust = 0
    BY <1>4 DEF Flush, memory, Idle
  <2>2. \A k \in Indices : Reach(k)' = Reach(k)
    BY <2>1 DEF Reach, Shift, Indices
  <2> QED  BY <2>1, <2>2, SameReach
<1>5. CASE CrunchDeleted
  <2> DEFINE i == crunch.i
             gain == Extent(i)
  <2>1. /\ i \in Indices /\ i \in Nat /\ gain \in Int /\ cd \in Int
        /\ Len(entries) \in Nat
        /\ \A k \in Indices :
             /\ Reach(k) \in Int /\ entries[k].span \in Nat
             /\ k >= i => Reach(k) = entries[k].off
             /\ k < i => entries[i].off # 0
        /\ \A k \in Indices' :
             Reach(k)' = IF k < i THEN Reach(k) + gain ELSE Reach(k + 1)
    BY <1>5, DeletedReach
  <2>2. entries[i].off # 0 =>
          /\ entries[i].off + gain <= cd
          /\ \A k \in Indices :
               k > i => entries[i].off + gain <= entries[k].off
    BY <1>5, ExtentCovers, Without
  <2> HIDE DEF gain, i
  <2>3. \A k \in Indices' :
          /\ k \in Indices /\ (k >= i => k + 1 \in Indices)
          /\ entries'[k] = IF k < i THEN entries[k] ELSE entries[k + 1]
          /\ k \in Nat
    BY <1>5, Without DEF Indices, i
  <2>4. \A k, m \in Indices : k < m => Reach(k) + entries[k].span <= Reach(m)
    BY DEF Ordered
  <2>5. ASSUME NEW k \in Indices, k < i
        PROVE  /\ Reach(k) + gain + entries[k].span <= cd
               /\ \A m \in Indices :
                    m > i => Reach(k) + gain + entries[k].span <= Reach(m)
    <3>1. Reach(k) + entries[k].span <= entries[i].off
      BY <2>1, <2>4, <2>5
    <3>2. entries[i].off \in Int /\ \A m \in Indices : m \in Nat
      BY <2>1, EntryTyped DEF Base, Indices
    <3>3. entries[i].off # 0
      BY <2>1, <2>5
    <3>4. Reach(k) + gain + entries[k].span <= cd
      BY <2>1, <2>2, <3>1, <3>2, <3>3
    <3>5. ASSUME NEW m \in Indices, m > i
          PROVE  Reach(k) + gain + entries[k].span <= Reach(m)
      <4>1. entries[i].off + gain <= entries[m].off
        BY <2>2, <3>3, <3>5
      <4>2. Reach(m) = entries[m].off /\ Reach(m) \in Int
        BY <2>1, <3>2, <3>5
      <4>3. /\ Reach(k) \in Int /\ entries[k].span \in Nat
            /\ gain \in Int /\ entries[i].off \in Int
        BY <2>1, <3>2
      <4>4. Reach(k) + entries[k].span + gain <= Reach(m)
        BY <3>1, <4>1, <4>2, <4>3
      <4> QED  BY <4>3, <4>4
    <3> QED  BY <3>4, <3>5
  <2>6. ASSUME NEW k \in Indices', NEW m \in Indices', k < m
        PROVE  Reach(k)' + entries'[k].span <= Reach(m)'
    <3>1. CASE m < i
      <4>1. k < i /\ k \in Indices /\ m \in Indices
        BY <2>1, <2>3, <2>6, <3>1
      <4>2. Reach(k)' = Reach(k) + gain /\ Reach(m)' = Reach(m) + gain
            /\ entries'[k] = entries[k]
        BY <2>1, <2>3, <3>1, <4>1
      <4>3. Reach(k) + entries[k].span <= Reach(m)
        BY <2>4, <2>6, <4>1
      <4>4. Reach(k) \in Int /\ Reach(m) \in Int /\ entries[k].span \in Nat
        BY <2>1, <4>1
      <4> QED  BY <2>1, <4>2, <4>3, <4>4
    <3>2. CASE k >= i
      <4>1. /\ k + 1 \in Indices /\ m + 1 \in Indices /\ k + 1 < m + 1
            /\ ~(k < i) /\ ~(m < i)
        BY <2>1, <2>3, <2>6, <3>2
      <4> QED  BY <2>1, <2>3, <2>4, <2>6, <3>2, <4>1
    <3>3. CASE k < i /\ m >= i
      <4>1. m + 1 \in Indices /\ k \in Indices /\ m + 1 > i /\ ~(m < i)
        BY <2>1, <2>3, <3>3
      <4>2. Reach(k)' = Reach(k) + gain /\ Reach(m)' = Reach(m + 1)
            /\ entries'[k] = entries[k]
        BY <2>1, <2>3, <3>3, <4>1
      <4> QED  BY <2>5, <3>3, <4>1, <4>2
    <3> QED  BY <2>1, <2>3, <3>1, <3>2, <3>3
  <2>7. \A k \in Indices : 0 <= entries[k].off
                           /\ Reach(k) + entries[k].span <= cd
    BY DEF Ordered
  <2>8. ASSUME NEW k \in Indices'
        PROVE  0 <= entries'[k].off /\ Reach(k)' + entries'[k].span <= cd
    <3>1. CASE k < i
      <4>1. Reach(k)' = Reach(k) + gain /\ entries'[k] = entries[k]
            /\ k \in Indices
        BY <2>1, <2>3, <3>1
      <4> QED  BY <2>5, <2>7, <3>1, <4>1
    <3>2. CASE ~(k < i)
      <4>1. k + 1 \in Indices /\ entries'[k] = entries[k + 1]
            /\ Reach(k)' = Reach(k + 1)
        BY <2>1, <2>3, <3>2
      <4> QED  BY <2>7, <4>1
    <3> QED  BY <3>1, <3>2
  <2>9. cd' = cd
    BY <1>5, Without
  <2> QED  BY <2>6, <2>8, <2>9 DEF Ordered
<1>6. CASE CrunchKept
  <2> DEFINE i == crunch.i
  <2>1. /\ i \in Indices /\ ~Moves(i) /\ pc = "crunching" /\ pc' = "crunching"
        /\ crunch'.i = i + 1 /\ crunch'.adjust = crunch.adjust
        /\ UNCHANGED <<entries, cd>>
    BY <1>6, Crunched DEF CrunchKept, memory, Base, CrunchOK, CrunchType
  <2>2. crunch.adjust = 0
    BY <1>6, <2>1, KeptStays
  <2>3. \A k \in Indices : Reach(k)' = Reach(k)
    BY <2>1, <2>2, EntryTyped DEF Reach, Shift, Base
  <2> QED  BY <2>1, <2>3, SameReach
<1>7. CASE MoveUnit
  <2>1. /\ UNCHANGED <<entries, cd, pc>> /\ crunch'.i = crunch.i
        /\ crunch'.adjust = crunch.adjust /\ pc = "crunching"
    BY <1>7 DEF MoveUnit, Moving, memory, Base, CrunchOK, CrunchType
  <2> QED  BY <2>1, SamePlaces
<1>8. CASE Moved
  <2> DEFINE i == crunch.i
  <2>1. \A k \in Indices :
          /\ entries'[k].off =
               IF k = i THEN entries[k].off - crunch.adjust ELSE entries[k].off
          /\ entries'[k].span = entries[k].span
    BY <1>8, MovedOn, EntryTyped DEF Base, EntryType
  <2>2. crunch.adjust \in Int /\ i \in Nat
    BY DEF Base, CrunchOK, CrunchType
  <2>3. \A k \in Indices : Reach(k)' = Reach(k)
    <3>1. \A k \in Indices : (k < i + 1) <=> (k < i \/ k = i)
      BY <2>2 DEF Indices
    <3>2. crunch'.i = i + 1 /\ pc = "crunching" /\ pc' = "crunching"
          /\ crunch'.adjust = crunch.adjust
      BY <1>8, MovedOn
    <3> QED  BY <2>1, <2>2, <3>1, <3>2, EntryTyped DEF Reach, Shift, Base
  <2>4. crunch.adjust <= entries[i].off /\ i \in Indices
    BY <1>8, <2>2, MovedOn DEF InCrunch
  <2>5. cd' = cd /\ Indices' = Indices /\ Len(entries') = Len(entries)
    BY <1>8, MovedOn
  <2>6. \A k \in Indices : 0 <= entries'[k].off
    BY <2>1, <2>2, <2>4, EntryTyped DEF Base, Ordered
  <2> QED  BY <2>1, <2>3, <2>5, <2>6 DEF Ordered
<1>9. CASE CrunchEnd
  <2>1. /\ UNCHANGED <<entries, crunch>> /\ cd' = cd - crunch.adjust
        /\ pc = "crunching" /\ pc' = "writing" /\ crunch.i > Len(entries)
    BY <1>9 DEF CrunchEnd, locals
  <2>2. crunch.adjust \in Int /\ crunch.adjust <= cd /\ cd \in Int
        /\ crunch.i \in Nat /\ Len(entries) \in Nat
    BY <2>1, EntryTyped
       DEF Base, CrunchOK, CrunchType, MemoryOK, InCrunch
  <2>3. \A k \in Indices : k < crunch.i
    BY <2>1, <2>2 DEF Indices
  <2>4. \A k \in Indices : Reach(k) = entries[k].off + crunch.adjust
                           /\ Reach(k)' = entries[k].off
    BY <2>1, <2>3, EntryTyped DEF Reach, Shift, Base
  <2>6. Indices' = Indices
    BY <2>1 DEF Indices
  <2>7. \A k \in Indices : entries[k].off \in Int /\ entries[k].span \in Nat
    BY EntryTyped DEF Base
  <2>8. Ordered'
    <3>1. ASSUME NEW k \in Indices, NEW m \in Indices, k < m
          PROVE  Reach(k)' + entries[k].span <= Reach(m)'
      <4>1. Reach(k) + entries[k].span <= Reach(m)
        BY <3>1 DEF Ordered
      <4>2. /\ Reach(k) = entries[k].off + crunch.adjust
            /\ Reach(m) = entries[m].off + crunch.adjust
            /\ Reach(k)' = entries[k].off /\ Reach(m)' = entries[m].off
        BY <2>4
      <4>3. entries[k].off \in Int /\ entries[k].span \in Nat
            /\ entries[m].off \in Int
        BY <2>7
      <4> QED  BY <2>2, <4>1, <4>2, <4>3
    <3>2. ASSUME NEW k \in Indices
          PROVE  0 <= entries[k].off /\ Reach(k)' + entries[k].span <= cd'
      <4>1. 0 <= entries[k].off /\ Reach(k) + entries[k].span <= cd
        BY DEF Ordered
      <4> QED  BY <2>1, <2>2, <2>4, <2>7, <4>1
    <3> QED  BY <2>1, <2>2, <2>6, <3>1, <3>2 DEF Ordered
  <2> QED  BY <2>8
<1>10. CASE UNCHANGED vars
  BY <1>10, SamePlaces DEF vars, memory, locals
<1> QED
  BY <1>1, <1>2, <1>3, <1>4, <1>5, <1>6, <1>7, <1>8, <1>9, <1>10 DEF Inner

LEMMA AdjacentStep ==
  ASSUME Base, Base', Placed, InCrunch, Inner
  PROVE  Adjacent'
<1>1. CASE Quiet
  BY <1>1, QuietKeeps, SamePlaces DEF Placed
<1>2. CASE FinishAdd
  <2> DEFINE n == Len(entries) + 1
  <2>1. \A k \in Indices : Reach(k) = entries[k].off
    BY <1>2, With, EntryTyped DEF Reach, Shift, Base
  <2>2. \A k \in Indices' : Reach(k)' = entries'[k].off
    BY <1>2, With, EntryTypedNext DEF Reach, Shift, Base
  <2>3. n \in Nat /\ cd \in Int /\ copy.at \in Nat \ {0} /\ cd >= 0
    BY <1>2, With, EntryTyped DEF Base, MemoryOK, CopyType, Placed, Ordered
  <2>4. entries'[n].off = cd /\ entries'[n].span = copy.at
    BY <1>2, With
  <2>7. \A k \in Indices' :
          k = n \/ (k \in Indices /\ entries'[k] = entries[k])
    <3>1. \A k \in Indices' : k \in Indices \/ k = n
      BY <1>2, With
    <3>2. \A k \in Indices : entries'[k] = entries[k]
      BY <1>2, With
    <3> QED  BY <3>1, <3>2
  <2>9. \A k \in Indices' : k # n => k + 1 \in Indices'
    BY <1>2, <2>3, With DEF Indices
  <2>10. \A k \in Indices : entries[k].off + entries[k].span =
           IF k = Len(entries) THEN cd ELSE entries[k + 1].off
    <3>1. \A k \in Indices : k # Len(entries) => k + 1 \in Indices
      BY EntryTyped DEF Base, Indices
    <3> QED  BY <2>1, <3>1 DEF Placed, Adjacent
  <2>11. \A k \in Indices' : entries'[k].off + entries'[k].span =
           IF k = n THEN cd' ELSE entries'[k + 1].off
    <3>1. \A k \in Indices : k # Len(entries) => k + 1 \in Indices
      BY EntryTyped DEF Base, Indices
    <3> QED  BY <1>2, <2>3, <2>4, <2>7, <2>10, <3>1, With
  <2> QED
    BY <1>2, <2>2, <2>9, <2>11, With DEF Adjacent
<1>3. ASSUME NEW n \in Names, Remove(n)
      PROVE  Adjacent'
  <2>1. \A k \in Indices : /\ entries'[k].off = entries[k].off
                           /\ entries'[k].span = entries[k].span
                           /\ Reach(k)' = Reach(k)
    <3>1. PICK i \in Indices : \A k \in Indices :
            entries'[k] = IF k = i THEN [entries[i] EXCEPT !.deleted = TRUE]
                          ELSE entries[k]
      BY <1>3, Removed
    <3>2. \A k \in Indices : /\ entries'[k].off = entries[k].off
                             /\ entries'[k].span = entries[k].span
      BY <3>1, EntryTyped DEF Base, EntryType
    <3>3. UNCHANGED <<pc, crunch>>
      BY <1>3, Removed
    <3> QED  BY <3>2, <3>3 DEF Reach, Shift
  <2>2. \A k \in Indices : k # Len(entries) => k + 1 \in Indices
    BY EntryTyped DEF Base, Indices
  <2>3. cd' = cd /\ Len(entries') = Len(entries) /\ Indices' = Indices
    BY <1>3, Removed
  <2> QED  BY <2>1, <2>2, <2>3 DEF Placed, Adjacent
<1>4. ASSUME NEW b \in BOOLEAN, Flush(b)
      PROVE  Adjacent'
  <2>1. pc # "crunching" /\ UNCHANGED <<entries, cd>>
        /\ crunch'.i = 1 /\ crunch'.adjust = 0
    BY <1>4 DEF Flush, memory, Idle
  <2>2. \A k \in Indices : Reach(k)' = Reach(k)
    BY <2>1 DEF Reach, Shift, Indices
  <2> QED  BY <2>1, <2>2, SameReach DEF Placed
<1>5. CASE CrunchDeleted
  <2> DEFINE i == crunch.i
             gain == Extent(i)
  <2>1. /\ i \in Indices /\ i \in Nat /\ gain \in Int /\ cd \in Int
        /\ Len(entries) \in Nat
        /\ \A k \in Indices :
             /\ Reach(k) \in Int /\ entries[k].span \in Nat
             /\ k >= i => Reach(k) = entries[k].off
             /\ k < i => entries[i].off # 0
        /\ \A k \in Indices' :
             Reach(k)' = IF k < i THEN Reach(k) + gain ELSE Reach(k + 1)
    BY <1>5, DeletedReach DEF Placed
  <2>2. entries[i].off # 0 => gain = entries[i].span
    BY <1>5, ExtentIs, Without
  <2> HIDE DEF gain, i
  <2>3. \A k \in Indices' :
          /\ k \in Indices /\ (k >= i => k + 1 \in Indices)
          /\ entries'[k] = IF k < i THEN entries[k] ELSE entries[k + 1]
          /\ k \in Nat
    BY <1>5, Without DEF Indices, i
  <2>4. Len(entries') = Len(entries) - 1 /\ cd' = cd /\ i >= 1
        /\ i <= Len(entries)
    BY <1>5, <2>1, Without DEF Indices, i
  <2>5. \A k \in Indices : Reach(k) + entries[k].span =
          IF k = Len(entries) THEN cd ELSE Reach(k + 1)
    BY DEF Placed, Adjacent
  <2>6. \A k \in Indices : k < i => gain = entries[i].span
    BY <2>1, <2>2
  <2>7. ASSUME NEW k \in Indices'
         PROVE  Reach(k)' + entries'[k].span =
                  IF k = Len(entries') THEN cd ELSE Reach(k + 1)'
    <3>1. k # Len(entries') => k + 1 \in Indices'
      BY <2>1, <2>4 DEF Indices
    <3>2. CASE k + 1 < i
      <4>1. /\ k < i /\ k # Len(entries) /\ k # Len(entries')
            /\ k + 1 \in Indices'
        BY <2>1, <2>4, <2>3, <3>1, <3>2
      <4>2. Reach(k) + entries[k].span = Reach(k + 1)
        BY <2>3, <2>5, <4>1
      <4>3. Reach(k)' = Reach(k) + gain /\ Reach(k + 1)' = Reach(k + 1) + gain
            /\ entries'[k] = entries[k]
        BY <2>1, <2>3, <3>2, <4>1
      <4>4. k \in Indices /\ k + 1 \in Indices
        BY <2>3, <4>1
      <4> QED  BY <2>1, <4>1, <4>2, <4>3, <4>4
    <3>3. CASE k + 1 = i
      <4>1. k < i /\ k # Len(entries) /\ k \in Indices /\ k + 1 \in Indices
        BY <2>1, <2>4, <2>3, <3>3
      <4>2. Reach(k) + entries[k].span = Reach(i)
            /\ Reach(k)' = Reach(k) + entries[i].span
            /\ entries'[k] = entries[k]
        BY <2>6, <2>1, <2>3, <2>5, <3>3, <4>1
      <4>3. Reach(i) + entries[i].span =
              IF i = Len(entries) THEN cd ELSE Reach(i + 1)
        BY <2>1, <2>5
      <4>4. IF i = Len(entries) THEN k = Len(entries')
            ELSE /\ k # Len(entries') /\ k + 1 \in Indices'
                 /\ Reach(k + 1)' = Reach(i + 1)
        BY <2>1, <2>4, <3>1, <3>3, <4>1
      <4>5. Reach(k) \in Int /\ Reach(i) \in Int
            /\ entries[k].span \in Nat /\ entries[i].span \in Nat
        BY <2>1, <4>1
      <4>6. Reach(k)' + entries'[k].span = Reach(i) + entries[i].span
        BY <4>2, <4>5
      <4> QED  BY <4>3, <4>4, <4>6
    <3>4. CASE k >= i
      <4>1. k + 1 \in Indices /\ ~(k < i) /\ ~(k + 1 < i)
            /\ entries'[k] = entries[k + 1] /\ Reach(k)' = Reach(k + 1)
        BY <2>1, <2>3, <3>4
      <4>2. Reach(k + 1) + entries[k + 1].span =
              IF k + 1 = Len(entries) THEN cd ELSE Reach(k + 2)
        BY <2>3, <2>5, <4>1
      <4>3. (k + 1 = Len(entries)) <=> (k = Len(entries'))
        <5>1. k \in Nat /\ Len(entries) \in Nat
              /\ Len(entries') = Len(entries) - 1
          BY <2>1, <2>3, <2>4
        <5> QED  BY <5>1
      <4>4. k # Len(entries') => Reach(k + 1)' = Reach(k + 2)
        BY <2>1, <2>3, <3>1, <4>1
      <4> QED  BY <4>1, <4>2, <4>3, <4>4
    <3> QED  BY <2>1, <2>3, <3>2, <3>3, <3>4
  <2> QED  BY <2>4, <2>7 DEF Adjacent
<1>6. CASE CrunchKept
  <2> DEFINE i == crunch.i
  <2>1. /\ i \in Indices /\ ~Moves(i) /\ pc = "crunching" /\ pc' = "crunching"
        /\ crunch'.i = i + 1 /\ crunch'.adjust = crunch.adjust
        /\ UNCHANGED <<entries, cd>>
    BY <1>6, Crunched DEF CrunchKept, memory, Base, CrunchOK, CrunchType
  <2>2. crunch.adjust = 0
    BY <1>6, <2>1, KeptStays DEF Placed
  <2>3. \A k \in Indices : Reach(k)' = Reach(k)
    BY <2>1, <2>2, EntryTyped DEF Reach, Shift, Base
  <2> QED  BY <2>1, <2>3, SameReach DEF Placed
<1>7. CASE MoveUnit
  <2>1. /\ UNCHANGED <<entries, cd, pc>> /\ crunch'.i = crunch.i
        /\ crunch'.adjust = crunch.adjust /\ pc = "crunching"
    BY <1>7 DEF MoveUnit, Moving, memory, Base, CrunchOK, CrunchType
  <2> QED  BY <2>1, SamePlaces DEF Placed
<1>8. CASE Moved
  <2> DEFINE i == crunch.i
  <2>1. \A k \in Indices :
          /\ entries'[k].off =
               IF k = i THEN entries[k].off - crunch.adjust ELSE entries[k].off
          /\ entries'[k].span = entries[k].span
    BY <1>8, MovedOn, EntryTyped DEF Base, EntryType
  <2>2. crunch.adjust \in Int /\ i \in Nat
    BY DEF Base, CrunchOK, CrunchType
  <2>3. \A k \in Indices : Reach(k)' = Reach(k)
    <3>1. \A k \in Indices : (k < i + 1) <=> (k < i \/ k = i)
      BY <2>2 DEF Indices
    <3>2. crunch'.i = i + 1 /\ pc = "crunching" /\ pc' = "crunching"
          /\ crunch'.adjust = crunch.adjust
      BY <1>8, MovedOn
    <3> QED  BY <2>1, <2>2, <3>1, <3>2, EntryTyped DEF Reach, Shift, Base
  <2>5. cd' = cd /\ Indices' = Indices /\ Len(entries') = Len(entries)
    BY <1>8, MovedOn
  <2>7. \A k \in Indices : k # Len(entries) => k + 1 \in Indices
    BY EntryTyped DEF Base, Indices
  <2> QED  BY <2>1, <2>3, <2>5, <2>7 DEF Placed, Adjacent
<1>9. CASE CrunchEnd
  <2>1. /\ UNCHANGED <<entries, crunch>> /\ cd' = cd - crunch.adjust
        /\ pc = "crunching" /\ pc' = "writing" /\ crunch.i > Len(entries)
    BY <1>9 DEF CrunchEnd, locals
  <2>2. crunch.adjust \in Int /\ crunch.adjust <= cd /\ cd \in Int
        /\ crunch.i \in Nat /\ Len(entries) \in Nat
    BY <2>1, EntryTyped
       DEF Base, CrunchOK, CrunchType, MemoryOK, InCrunch
  <2>3. \A k \in Indices : k < crunch.i
    BY <2>1, <2>2 DEF Indices
  <2>4. \A k \in Indices : Reach(k) = entries[k].off + crunch.adjust
                           /\ Reach(k)' = entries[k].off
    BY <2>1, <2>3, EntryTyped DEF Reach, Shift, Base
  <2>5. \A k \in Indices : k # Len(entries) => k + 1 \in Indices
    BY EntryTyped DEF Base, Indices
  <2>6. Indices' = Indices
    BY <2>1 DEF Indices
  <2>7. \A k \in Indices : entries[k].off \in Int /\ entries[k].span \in Nat
    BY EntryTyped DEF Base
  <2>9. Adjacent'
    <3>1. ASSUME NEW k \in Indices
          PROVE  Reach(k)' + entries[k].span =
                   IF k = Len(entries) THEN cd' ELSE Reach(k + 1)'
      <4>1. Reach(k) + entries[k].span =
              IF k = Len(entries) THEN cd ELSE Reach(k + 1)
        BY DEF Placed, Adjacent
      <4>2. /\ Reach(k) = entries[k].off + crunch.adjust
            /\ Reach(k)' = entries[k].off
            /\ entries[k].off \in Int /\ entries[k].span \in Nat
        BY <2>4, <2>7
      <4>3. CASE k = Len(entries)
        BY <2>1, <2>2, <4>1, <4>2, <4>3
      <4>4. CASE k # Len(entries)
        <5>1. /\ Reach(k + 1) = entries[k + 1].off + crunch.adjust
              /\ Reach(k + 1)' = entries[k + 1].off
              /\ entries[k + 1].off \in Int
          BY <2>4, <2>5, <2>7, <4>4
        <5>2. Reach(k) + entries[k].span = Reach(k + 1)
          BY <4>1, <4>4
        <5>3. entries[k].off + entries[k].span = entries[k + 1].off
          <6>1. entries[k].off + crunch.adjust + entries[k].span
                  = entries[k + 1].off + crunch.adjust
            BY <4>2, <5>1, <5>2
          <6>2. /\ entries[k].off \in Int /\ entries[k].span \in Nat
                /\ crunch.adjust \in Int /\ entries[k + 1].off \in Int
            BY <2>2, <4>2, <5>1
          <6> QED  BY <6>1, <6>2
        <5>4. Reach(k)' + entries[k].span = Reach(k + 1)'
          BY <4>2, <5>1, <5>3
        <5> QED  BY <4>4, <5>4
      <4> QED  BY <4>3, <4>4
    <3> QED  BY <2>1, <2>6, <3>1 DEF Adjacent
  <2> QED  BY <2>9
<1>10. CASE UNCHANGED vars
  BY <1>10, SamePlaces DEF vars, memory, locals, Placed
<1> QED
  BY <1>1, <1>2, <1>3, <1>4, <1>5, <1>6, <1>7, <1>8, <1>9, <1>10 DEF Inner

------------------------------------------------------------------------------
(* The counts, and that a name is used once.                               *)
LEMMA CountedStep ==
  ASSUME Base, Sane, Inner
  PROVE  Counted'
<1>1. CASE Quiet
  BY <1>1, QuietKeeps DEF Sane, Counted
<1>2. CASE FinishAdd
  BY <1>2, With, EntryTyped DEF Sane, Counted, Base
<1>3. ASSUME NEW n \in Names, Remove(n)
      PROVE  Counted'
  BY <1>3, Removed DEF Sane, Counted
<1>4. ASSUME NEW b \in BOOLEAN, Flush(b)
      PROVE  Counted'
  BY <1>4 DEF Flush, memory, Idle, Sane, Counted
<1>5. CASE CrunchDeleted
  <2>1. total = Len(entries) + crunch.deleted
    BY <1>5, Without DEF Sane, Counted
  <2>2. /\ Len(entries') = Len(entries) - 1 /\ total' = total
        /\ crunch'.deleted = crunch.deleted + 1 /\ pc' = "crunching"
    BY <1>5, Without
  <2>3. Len(entries) \in Nat /\ crunch.deleted \in Nat
    BY EntryTyped DEF Base, CrunchOK, CrunchType
  <2> QED  BY <2>1, <2>2, <2>3 DEF Counted
<1>6. CASE CrunchKept \/ MoveUnit
  BY <1>6 DEF CrunchKept, MoveUnit, Moving, memory, Sane, Counted, Base,
     CrunchOK, CrunchType
<1>7. CASE Moved
  BY <1>7, MovedOn DEF Sane, Counted
<1>8. CASE CrunchEnd
  BY <1>8, EntryTyped
     DEF CrunchEnd, locals, Sane, Counted, Base, CrunchOK, CrunchType
<1>9. CASE UNCHANGED vars
  BY <1>9 DEF vars, memory, locals, Sane, Counted
<1> QED
  BY <1>1, <1>2, <1>3, <1>4, <1>5, <1>6, <1>7, <1>8, <1>9 DEF Inner

LEMMA UniqueStep ==
  ASSUME Base, Sane, Inner
  PROVE  Unique'
<1>1. CASE UNCHANGED entries
  BY <1>1 DEF Sane, Unique, Indices
<1>2. CASE FinishAdd
  <2>1. \A k \in Indices : entries[k].deleted \/ entries[k].name # copy.name
    BY <1>2, With DEF Sane, InAdd, Live, Indices
  <2>2. entries'[Len(entries) + 1].name = copy.name
    BY <1>2, With
  <2>3. \A k \in Indices' : k = Len(entries) + 1 \/ entries'[k] = entries[k]
    BY <1>2, With
  <2>4. \A k \in Indices' : k \in Indices \/ k = Len(entries) + 1
    BY <1>2, With
  <2> QED  BY <2>1, <2>2, <2>3, <2>4 DEF Sane, Unique
<1>3. ASSUME NEW n \in Names, Remove(n)
      PROVE  Unique'
  <2>1. PICK i \in Indices : \A k \in Indices :
          entries'[k] = IF k = i THEN [entries[i] EXCEPT !.deleted = TRUE]
                        ELSE entries[k]
    BY <1>3, Removed
  <2>2. \A k \in Indices : /\ entries'[k].name = entries[k].name
                           /\ ~entries'[k].deleted => ~entries[k].deleted
    BY <2>1, EntryTyped DEF Base, EntryType
  <2> QED  BY <1>3, <2>2, Removed DEF Sane, Unique
<1>4. CASE CrunchDeleted
  <2> DEFINE old(k) == IF k < crunch.i THEN k ELSE k + 1
  <2>1. \A k \in Indices' : old(k) \in Indices /\ entries'[k] = entries[old(k)]
    BY <1>4, Without DEF Indices
  <2>2. \A k, m \in Indices' : old(k) = old(m) => k = m
    BY <1>4, Without, EntryTyped DEF Indices, Base
  <2> HIDE DEF old
  <2> QED  BY <2>1, <2>2 DEF Sane, Unique
<1>5. CASE Moved
  <2>1. \A k \in Indices : /\ entries'[k].name = entries[k].name
                           /\ entries'[k].deleted = entries[k].deleted
    BY <1>5, MovedOn, EntryTyped DEF Base, EntryType
  <2> QED  BY <1>5, <2>1, MovedOn DEF Sane, Unique
<1>6. CASE CrunchKept \/ MoveUnit \/ CrunchEnd \/ UNCHANGED vars
  BY <1>1, <1>6 DEF CrunchKept, MoveUnit, CrunchEnd, vars, memory
<1>7. ASSUME NEW b \in BOOLEAN, Flush(b)
      PROVE  Unique'
  BY <1>1, <1>7 DEF Flush, memory
<1>8. CASE Quiet
  BY <1>1, <1>8, QuietKeeps
<1> QED
  BY <1>2, <1>3, <1>4, <1>5, <1>6, <1>7, <1>8 DEF Inner

(* The locals of crunchArchive and filemove.                               *)
LEMMA InCrunchStep ==
  ASSUME Base, Base', Ordered, InCrunch, Inner
  PROVE  InCrunch'
<1>1. CASE Quiet \/ FinishAdd \/ CrunchEnd
  <2>1. pc' # "crunching"
    BY <1>1, QuietKeeps DEF FinishAdd, Appended, CrunchEnd
  <2> QED  BY <2>1 DEF InCrunch
<1>2. ASSUME NEW n \in Names, Remove(n)
      PROVE  InCrunch'
  BY <1>2, Removed DEF InCrunch
<1>3. ASSUME NEW b \in BOOLEAN, Flush(b)
      PROVE  InCrunch'
  <2>1. crunch'.i = 1 /\ crunch'.adjust = 0 /\ crunch'.moved = 0
        /\ crunch'.at = 0 /\ UNCHANGED <<entries, cd>>
    BY <1>3 DEF Flush, Idle, memory
  <2>2. 1 \in 1 .. Len(entries) + 1 /\ 0 <= cd /\ Indices' = Indices
    BY <2>1, EntryTyped DEF Base, Ordered, Indices
  <2>3. \A k \in Indices : 0 <= entries[k].off /\ ~(k < 1)
    BY DEF Ordered, Indices
  <2> QED  BY <2>1, <2>2, <2>3 DEF InCrunch
<1>4. CASE CrunchDeleted
  <2> DEFINE i == crunch.i
             gain == Extent(i)
  <2>1. /\ i \in Indices /\ i \in Nat /\ Len(entries) \in Nat
        /\ crunch.adjust \in Int /\ gain \in Int /\ cd \in Int
        /\ crunch.moved \in Nat
    BY <1>4, Without, OffsetTyped, EntryTyped
       DEF Base, CrunchOK, CrunchType, MemoryOK
  <2>2. /\ entries[i].off = 0 => gain = 0
        /\ entries[i].off # 0 =>
             /\ gain >= entries[i].span /\ entries[i].off + gain <= cd
             /\ \A k \in Indices :
               k > i => entries[i].off + gain <= entries[k].off
        /\ entries[i].span > 0
    BY <1>4, ExtentCovers, Without
  <2>3. /\ 0 <= crunch.adjust /\ crunch.adjust <= cd /\ crunch.at = 0
        /\ crunch.moved = 0
        /\ \A k \in Indices : k >= i => crunch.adjust <= entries[k].off
        /\ \A k \in Indices : k < i => ~entries[k].deleted
    BY <1>4, <2>1, Without DEF InCrunch
  <2> HIDE DEF gain
  <2>5. crunch.adjust + gain >= 0 /\ crunch.adjust + gain <= cd
    <3>1. crunch.adjust <= entries[i].off /\ entries[i].off \in Int
          /\ entries[i].span \in Nat
      BY <2>1, <2>3, EntryTyped DEF Base
    <3> QED  BY <2>1, <2>2, <2>3, <3>1
  <2>6. ASSUME NEW k \in Indices, k > i
        PROVE  crunch.adjust + gain <= entries[k].off
    <3>1. crunch.adjust <= entries[i].off /\ crunch.adjust <= entries[k].off
      BY <2>1, <2>3, <2>6 DEF Indices
    <3>2. entries[i].off \in Int /\ entries[k].off \in Int
      BY <2>1, EntryTyped DEF Base
    <3> QED  BY <2>1, <2>2, <2>6, <3>1, <3>2
  <2>7. /\ Len(entries') = Len(entries) - 1 /\ crunch'.i = i
        /\ crunch'.at = crunch.at /\ crunch'.moved = crunch.moved
        /\ crunch'.adjust = crunch.adjust + gain /\ cd' = cd
    BY <1>4, Without DEF gain
  <2>8. \A k \in Indices' :
          /\ k \in Indices /\ (k >= i => k + 1 \in Indices) /\ k \in Nat
          /\ entries'[k] = IF k < i THEN entries[k] ELSE entries[k + 1]
    BY <1>4, Without DEF Indices
  <2>9. \A k \in Indices' : k >= crunch'.i => crunch'.adjust <= entries'[k].off
    BY <2>1, <2>6, <2>7, <2>8
  <2>10. \A k \in Indices' : k < crunch'.i => ~entries'[k].deleted
    BY <2>3, <2>7, <2>8
  <2>11. crunch'.i \in 1 .. Len(entries') + 1
    BY <2>1, <2>7 DEF Indices
  <2> QED  BY <2>3, <2>5, <2>7, <2>9, <2>10, <2>11 DEF InCrunch
<1>5. CASE CrunchKept
  <2>1. /\ UNCHANGED <<entries, cd, pc>> /\ pc = "crunching"
        /\ crunch'.i = crunch.i + 1 /\ crunch'.adjust = crunch.adjust
        /\ crunch'.moved = crunch.moved /\ crunch'.at = crunch.at
        /\ ~entries[crunch.i].deleted
    BY <1>5 DEF CrunchKept, memory, Base, CrunchOK, CrunchType
  <2>2. /\ crunch.moved = 0 /\ crunch.i \in Indices /\ crunch.i \in Nat
        /\ Len(entries) \in Nat
    BY <1>5, KeptStays, EntryTyped DEF Base, CrunchOK, CrunchType
  <2>3. Indices' = Indices /\ \A k \in Indices : k \in Nat
    BY <2>1 DEF Indices
  <2>4. crunch.i + 1 \in 1 .. Len(entries) + 1
    BY <2>2 DEF Indices
  <2>5. \A k \in Indices : k < crunch.i + 1 => k < crunch.i \/ k = crunch.i
    BY <2>2, <2>3
  <2>6. \A k \in Indices : k >= crunch.i + 1 => k >= crunch.i
    BY <2>2, <2>3
  <2> QED  BY <2>1, <2>2, <2>3, <2>4, <2>5, <2>6 DEF InCrunch
<1>6. CASE MoveUnit
  <2> DEFINE i == crunch.i
  <2>1. /\ UNCHANGED <<entries, cd, pc>> /\ pc = "crunching"
        /\ crunch'.i = i /\ crunch'.adjust = crunch.adjust
        /\ crunch'.moved = crunch.moved + 1 /\ crunch'.at = crunch.at
    BY <1>6 DEF MoveUnit, Moving, memory, Base, CrunchOK, CrunchType
  <2>2. /\ ~entries[i].deleted /\ Extent(i) # 0 /\ crunch.adjust > 0
        /\ crunch.moved < Extent(i) /\ i \in Indices /\ i <= Len(entries)
    BY <1>6, Crunched DEF MoveUnit, Moving, Moves
  <2>3. entries[i].off # 0
    BY <2>2 DEF Extent
  <2>4. crunch.moved \in Nat /\ Extent(i) \in Int
    BY <2>2, OffsetTyped DEF Base, CrunchOK, CrunchType
  <2>5. Indices' = Indices /\ Extent(i)' = Extent(i)
    BY <2>1 DEF Indices, Extent, NextOffset, NextWithOffset
  <2>6. crunch'.shifted
    BY <1>6 DEF MoveUnit, Base, CrunchOK, CrunchType
  <2>7. crunch.moved + 1 <= Extent(i)
    BY <2>2, <2>4
  <2> QED  BY <2>1, <2>2, <2>3, <2>5, <2>6, <2>7 DEF InCrunch
<1>7. CASE Moved
  <2> DEFINE i == crunch.i
  <2>1. i \in Indices /\ i \in Nat /\ Len(entries) \in Nat
    BY <1>7, MovedOn, EntryTyped DEF Base, CrunchOK, CrunchType
  <2>2. \A k \in Indices :
          /\ k \in Nat /\ entries'[k].deleted = entries[k].deleted
          /\ k # i => entries'[k].off = entries[k].off
    <3>1. \A k \in Indices : k \in Nat
      BY DEF Indices
    <3>2. \A k \in Indices :
            entries'[k] = IF k = i
                          THEN [entries[k] EXCEPT !.off = @ - crunch.adjust]
                          ELSE entries[k]
      BY <1>7, MovedOn
    <3> QED  BY <3>1, <3>2, EntryTyped DEF Base, EntryType
  <2>3. /\ crunch'.i = i + 1 /\ crunch'.at = crunch.at /\ crunch'.moved = 0
        /\ crunch'.adjust = crunch.adjust /\ cd' = cd /\ Indices' = Indices
        /\ Len(entries') = Len(entries) /\ ~entries[i].deleted
        /\ pc = "crunching"
    BY <1>7, MovedOn
  <2>4. \A k \in Indices : k < i + 1 => k < i \/ k = i
    BY <2>1, <2>2
  <2>5. \A k \in Indices : k >= i + 1 => k >= i /\ k # i
    BY <2>1, <2>2
  <2>6. i + 1 \in 1 .. Len(entries) + 1
    BY <2>1 DEF Indices
  <2> QED  BY <2>2, <2>3, <2>4, <2>5, <2>6 DEF InCrunch
<1>8. CASE UNCHANGED vars
  <2>1. UNCHANGED <<pc, entries, cd, crunch>>
    BY <1>8 DEF vars, memory, locals
  <2>2. Indices' = Indices /\ Extent(crunch.i)' = Extent(crunch.i)
    BY <2>1 DEF Indices, Extent, NextOffset, NextWithOffset
  <2> QED  BY <2>1, <2>2 DEF InCrunch
<1> QED
  BY <1>1, <1>2, <1>3, <1>4, <1>5, <1>6, <1>7, <1>8 DEF Inner

------------------------------------------------------------------------------
(* What is copied into the file, and what is written of its directory.     *)
LEMMA WriteIs ==
  ASSUME Base, NEW o \in Int, NEW c, file' = Write(file, o, c)
  PROVE  \A x \in Offsets : file'[x] = IF x = o THEN c ELSE file[x]
BY DEF Write, Base, DiskOK

LEMMA InAddStep ==
  ASSUME Base, Sane, Inner, ~broken'
  PROVE  InAdd'
<1>1. ASSUME NEW n \in Names, NEW d \in Contents, NEW z \in BOOLEAN,
             BeginAdd(n, d, z)
      PROVE  InAdd'
  <2>1. /\ copy' = [name |-> n, data |-> d, deflate |-> z, at |-> 1]
        /\ file' = Write(file, cd, Unit(copy', 0)) /\ cd' = cd
        /\ entries' = entries /\ ~Live(n) /\ cd \in Offsets
    BY <1>1 DEF BeginAdd
  <2>2. ~Live(copy.name)'
    BY <2>1 DEF Live
  <2>3. file'[cd] = Unit(copy', 0)
    BY <2>1, WriteIs DEF Offsets
  <2>4. cd \in Int /\ copy'.at = 1
    BY <2>1 DEF Offsets
  <2>5. \A k \in 0 .. copy'.at - 1 : k = 0
    BY <2>4
  <2>6. cd + 0 = cd
    BY <2>4
  <2> QED  BY <2>1, <2>2, <2>3, <2>5, <2>6 DEF InAdd
<1>2. CASE CopyUnit
  <2>1. /\ file' = Write(file, cd + copy.at, Unit(copy, copy.at)) /\ cd' = cd
        /\ cd + copy.at \in Offsets /\ entries' = entries /\ pc = "adding"
    BY <1>2 DEF CopyUnit, memory
  <2>2. copy \in CopyType /\ cd \in Int
    BY <2>1 DEF Base, CopyOK, MemoryOK
  <2>3. /\ copy'.name = copy.name /\ copy'.at = copy.at + 1
        /\ copy'.data = copy.data /\ copy.at \in Nat
    BY <1>2, <2>2 DEF CopyUnit, CopyType
  <2>4. \A x \in Offsets :
          file'[x] = IF x = cd + copy.at THEN Unit(copy, copy.at) ELSE file[x]
    BY <2>1, <2>2, <2>3, WriteIs
  <2>5. \A k : Unit(copy', k) = Unit(copy, k)
    BY <2>3 DEF Unit
  <2>6. ASSUME NEW k \in 0 .. copy'.at - 1
        PROVE  cd + k \in Offsets /\ file'[cd + k] = Unit(copy', k)
    <3>1. CASE k = copy.at
      BY <2>1, <2>4, <2>5, <3>1
    <3>2. CASE k # copy.at
      <4>1. k \in 0 .. copy.at - 1 /\ cd + k # cd + copy.at
        BY <2>2, <2>3, <3>2
      <4> QED  BY <2>1, <2>4, <2>5, <4>1 DEF Sane, InAdd
    <3> QED  BY <3>1, <3>2
  <2>7. ~Live(copy.name)'
    BY <2>1, <2>3 DEF Live, Sane, InAdd
  <2> QED  BY <2>1, <2>6, <2>7 DEF InAdd
<1>3. CASE StoreInstead
  <2>1. /\ file' = Write(file, cd + copy.at, Unit(copy, copy.at)) /\ cd' = cd
        /\ entries' = entries /\ pc = "adding"
    BY <1>3 DEF StoreInstead, memory
  <2>2. copy \in CopyType /\ cd \in Int
    BY <2>1 DEF Base, CopyOK, MemoryOK
  <2>3. /\ copy'.name = copy.name /\ copy'.at = 1
        /\ copy'.data = copy.data /\ copy.at \in Nat \ {0}
    BY <1>3, <2>2 DEF StoreInstead, CopyType
  <2>4. \A x \in Offsets :
          file'[x] = IF x = cd + copy.at THEN Unit(copy, copy.at) ELSE file[x]
    BY <2>1, <2>2, <2>3, WriteIs
  <2>5. Unit(copy', 0) = Unit(copy, 0)
    BY <2>3 DEF Unit
  <2>6. cd + 0 \in Offsets /\ file'[cd + 0] = Unit(copy', 0)
    <3>1. 0 \in 0 .. copy.at - 1 /\ cd + 0 # cd + copy.at
      BY <2>2, <2>3
    <3>2. cd + 0 \in Offsets /\ file[cd + 0] = Unit(copy, 0)
      BY <2>1, <3>1 DEF Sane, InAdd
    <3> QED  BY <2>4, <2>5, <3>1, <3>2
  <2>7. \A k \in 0 .. copy'.at - 1 : k = 0
    BY <2>3
  <2>8. ~Live(copy.name)'
    BY <2>1, <2>3 DEF Live, Sane, InAdd
  <2> QED  BY <2>1, <2>6, <2>7, <2>8 DEF InAdd
<1>4. CASE UNCHANGED vars
  BY <1>4 DEF vars, disk, memory, locals, Sane, InAdd, Live
<1>5. CASE /\ ~UNCHANGED vars /\ ~CopyUnit /\ ~StoreInstead
           /\ ~\E n \in Names, d \in Contents, z \in BOOLEAN :
                 BeginAdd(n, d, z)
  <2>1. pc' # "adding"
    BY <1>5 DEF Inner, Quiet, AddRefused, CopyFails, WriteCd, Truncate,
       Flushed, Gone, FinishAdd, Appended, Remove, Flush, CrunchDeleted,
       CrunchKept, MoveUnit, Moving, Moved, CrunchEnd
  <2> QED  BY <2>1 DEF InAdd
<1> QED  BY <1>1, <1>2, <1>3, <1>4, <1>5

LEMMA WrittenStep ==
  ASSUME Base, InCrunch, Written, Inner
  PROVE  Written'
<1>1. CASE CrunchEnd
  <2>1. /\ crunch' = crunch /\ entries' = entries /\ pc = "crunching"
        /\ crunch.i > Len(entries) /\ pc' = "writing"
    BY <1>1 DEF CrunchEnd, locals
  <2>2. crunch.i \in Nat /\ Len(entries) \in Nat /\ crunch.at = 0
    BY <2>1, EntryTyped DEF Base, CrunchOK, CrunchType, InCrunch
  <2>3. \A k \in Indices : k < crunch.i
    BY <2>1, <2>2 DEF Indices
  <2>4. Indices' = Indices /\ 0 .. crunch.at - 1 = {}
        /\ crunch.at <= Len(entries) + 1
    BY <2>1, <2>2 DEF Indices
  <2> QED  BY <2>1, <2>3, <2>4 DEF InCrunch, Written
<1>2. CASE WriteCd
  <2> DEFINE c(j) == IF j < Len(entries) THEN Cde(entries[j + 1])
                     ELSE Eocd(total, cd)
  <2>1. /\ pc = "writing" /\ pc' = "writing" /\ crunch.at <= Len(entries)
        /\ cd + crunch.at \in Offsets /\ UNCHANGED <<entries, total, cd>>
        /\ file' = Write(file, cd + crunch.at, c(crunch.at))
        /\ crunch'.at = crunch.at + 1
    BY <1>2 DEF WriteCd, memory, Base, CrunchOK, CrunchType
  <2>2. cd \in Int /\ crunch.at \in Nat /\ Len(entries) \in Nat
    BY EntryTyped DEF Base, MemoryOK, CrunchOK, CrunchType
  <2> HIDE DEF c
  <2>3. \A x \in Offsets :
          file'[x] = IF x = cd + crunch.at THEN c(crunch.at) ELSE file[x]
    BY <2>1, <2>2, WriteIs
  <2>4. \A j \in 0 .. crunch.at - 1 :
          cd + j \in Offsets /\ file[cd + j] = c(j)
    BY <2>1 DEF Written, c
  <2>5. ASSUME NEW j \in 0 .. crunch'.at - 1
        PROVE  cd + j \in Offsets /\ file'[cd + j] = c(j)
    <3>1. CASE j = crunch.at
      BY <2>1, <2>3, <3>1
    <3>2. CASE j # crunch.at
      <4>1. j \in 0 .. crunch.at - 1 /\ cd + j # cd + crunch.at
        BY <2>1, <2>2, <3>2
      <4> QED  BY <2>3, <2>4, <4>1
    <3> QED  BY <3>1, <3>2
  <2>6. \A j \in 0 .. crunch'.at - 1 :
          /\ cd' + j \in Offsets
          /\ file'[cd' + j] = IF j < Len(entries') THEN Cde(entries'[j + 1])
                              ELSE Eocd(total', cd')
    BY <2>1, <2>5 DEF c
  <2>7. \A i \in Indices' : ~entries'[i].deleted
    BY <2>1 DEF Written, Indices
  <2>8. crunch'.at <= Len(entries') + 1
    BY <2>1, <2>2
  <2> QED  BY <2>1, <2>6, <2>7, <2>8 DEF Written
<1>3. CASE UNCHANGED vars
  BY <1>3 DEF vars, disk, memory, locals, Written, Indices
<1>4. CASE ~UNCHANGED vars /\ ~WriteCd /\ ~CrunchEnd
  <2>1. pc' # "writing"
    BY <1>4 DEF Inner, Quiet, AddRefused, BeginAdd, CopyUnit, CopyFails,
       StoreInstead, Truncate, Flushed, FinishAdd, Appended, Remove, Flush,
       CrunchDeleted, CrunchKept, MoveUnit, Moving, Moved
  <2> QED  BY <2>1 DEF Written
<1> QED  BY <1>1, <1>2, <1>3, <1>4

LEMMA InWriteStep ==
  ASSUME Base, Sane, Inner
  PROVE  InWrite'
<1>1. Written'
  BY WrittenStep DEF Sane, InWrite
<1>2. CASE ~closing /\ Truncate
  <2>1. pc = "writing" /\ entries' = entries
    BY <1>2 DEF Truncate, Flushed
  <2> QED  BY <1>1, <2>1 DEF Sane, InWrite, Written, Indices
<1>3. CASE UNCHANGED vars
  BY <1>1, <1>3 DEF vars, memory, Sane, InWrite, Indices
<1>4. CASE ~UNCHANGED vars /\ ~(~closing /\ Truncate)
  <2>1. pc' # "flushed"
    BY <1>4 DEF Inner, Quiet, AddRefused, BeginAdd, CopyUnit, CopyFails,
       StoreInstead, WriteCd, FinishAdd, Appended, Remove, Flush,
       CrunchDeleted, CrunchKept, MoveUnit, Moving, Moved, CrunchEnd
  <2> QED  BY <1>1, <2>1 DEF InWrite
<1> QED  BY <1>1, <1>2, <1>3, <1>4

(* The card has had room for all of it.                                    *)
LEMMA FitsStep ==
  ASSUME Base, Sane, Inner
  PROVE  Fits'
<1>1. CASE UNCHANGED cd
  BY <1>1 DEF Sane, Fits
<1>2. CASE FinishAdd
  <2>1. /\ pc = "adding" /\ copy.at \in Nat \ {0} /\ cd \in Int
        /\ cd' = cd + copy.at
    BY <1>2, With DEF Base, MemoryOK, CopyType
  <2> DEFINE k == copy.at - 1
  <2>2. k \in 0 .. copy.at - 1 /\ cd + k + 1 = cd'
    BY <2>1
  <2>3. cd + k \in Offsets
    BY <2>1, <2>2 DEF Sane, InAdd
  <2> QED  BY <2>1, <2>2, <2>3, ZipAssumption DEF Offsets, Fits
<1>3. CASE CrunchEnd
  <2>1. cd' = cd - crunch.adjust /\ pc = "crunching"
    BY <1>3 DEF CrunchEnd
  <2>2. 0 <= crunch.adjust /\ cd <= Capacity
    BY <2>1 DEF Sane, InCrunch, Fits
  <2>3. cd \in Int /\ crunch.adjust \in Int /\ Capacity \in Int
    BY ZipAssumption DEF Base, MemoryOK, CrunchOK, CrunchType
  <2> QED  BY <2>1, <2>2, <2>3 DEF Fits
<1>4. CASE ~FinishAdd /\ ~CrunchEnd
  BY <1>1, <1>4, QuietKeeps
     DEF Inner, Remove, Flush, CrunchDeleted, CrunchKept, MoveUnit, Moved,
         vars, memory
<1> QED  BY <1>2, <1>3, <1>4

------------------------------------------------------------------------------
(* The cells of the entries that stay.                                     *)
LEMMA CellsBelow ==
  ASSUME Base, Ordered, NEW i \in Indices, NEW k \in 0 .. entries[i].span - 1
  PROVE  /\ entries[i].off + k \in Int /\ entries[i].off + k >= 0
         /\ pc # "crunching" => entries[i].off + k < cd
<1>1. entries[i].off \in Int /\ entries[i].span \in Nat /\ k \in Nat
      /\ entries[i].off >= 0 /\ k < entries[i].span
  BY EntryTyped DEF Base, Ordered
<1>2. pc # "crunching" => entries[i].off + entries[i].span <= cd
  BY <1>1 DEF Ordered, Reach, Shift
<1>3. cd \in Int
  BY DEF Base, MemoryOK
<1> QED  BY <1>1, <1>2, <1>3

LEMMA QuietBelow ==
  ASSUME Base, Quiet
  PROVE  \A x \in Offsets : x < cd => file'[x] = file[x]
<1>1. cd \in Int /\ crunch.at \in Nat /\ \A x \in Offsets : x \in Int
  BY DEF Base, MemoryOK, CrunchOK, CrunchType, Offsets
<1>2. CASE AddRefused \/ CopyFails
  BY <1>2 DEF AddRefused, CopyFails, disk
<1>3. ASSUME NEW n \in Names, NEW d \in Contents, NEW z \in BOOLEAN,
             BeginAdd(n, d, z)
      PROVE  \A x \in Offsets : x < cd => file'[x] = file[x]
  BY <1>1, <1>3, WriteIs DEF BeginAdd
<1>4. CASE CopyUnit \/ StoreInstead
  <2>1. copy.at \in Nat
    BY <1>4 DEF CopyUnit, StoreInstead, Base, CopyOK, CopyType
  <2>2. file' = Write(file, cd + copy.at, Unit(copy, copy.at))
    BY <1>4 DEF CopyUnit, StoreInstead
  <2>3. \A x \in Offsets : x = cd + copy.at \/ file'[x] = file[x]
    BY <1>1, <2>1, <2>2, WriteIs
  <2> QED  BY <1>1, <2>1, <2>3
<1>5. CASE WriteCd
  <2> DEFINE c == IF crunch.at < Len(entries) THEN Cde(entries[crunch.at + 1])
                  ELSE Eocd(total, cd)
  <2> HIDE DEF c
  <2>1. file' = Write(file, cd + crunch.at, c)
    BY <1>5 DEF WriteCd, c
  <2>2. \A x \in Offsets : x = cd + crunch.at \/ file'[x] = file[x]
    BY <1>1, <2>1, WriteIs
  <2> QED  BY <1>1, <2>2
<1>6. CASE Truncate
  BY <1>1, <1>6 DEF Truncate, Cut
<1> QED  BY <1>2, <1>3, <1>4, <1>5, <1>6 DEF Quiet

LEMMA PlaceIs ==
  ASSUME Base, pc # "crunching" \/ crunch.moved = 0
               \/ crunch.i > Len(entries)
  PROVE  \A i \in Indices : \A k \in 0 .. entries[i].span - 1 :
           Place(i, k) = entries[i].off + k
<1>1. \A i \in Indices : \A k \in 0 .. entries[i].span - 1 :
        k >= 0 /\ i <= Len(entries)
  BY EntryTyped DEF Base, Indices
<1>2. crunch.i \in Nat /\ crunch.moved \in Nat /\ Len(entries) \in Nat
  BY EntryTyped DEF Base, CrunchOK, CrunchType
<1> QED  BY <1>1, <1>2 DEF Place, Indices

LEMMA StaysIs ==
  ASSUME Base, Stays, pc # "crunching" \/ crunch.moved = 0
                      \/ crunch.i > Len(entries),
         NEW i \in Indices, ~entries[i].deleted,
         NEW k \in 0 .. entries[i].span - 1, entries[i].off + k \in Offsets
  PROVE  file[entries[i].off + k] = Unit(entries[i], k)
<1>1. Place(i, k) = entries[i].off + k
  BY PlaceIs
<1> QED  BY <1>1 DEF Stays

(* What addCommon has copied, as far as the card goes.                     *)
Copied ==
  pc = "adding" =>
    \A k \in 0 .. copy.at - 1 :
      cd + k \in Offsets => file[cd + k] = Unit(copy, k)

LEMMA CopiedIs ==
  /\ Sane => Copied
  /\ Base /\ Loose /\ broken => Copied
<1>1. Sane => Copied
  BY DEF Sane, InAdd, Copied
<1>2. ASSUME Base, Loose, broken, pc = "adding", NEW k \in 0 .. copy.at - 1
      PROVE  cd + k \notin Offsets
  <2>1. cd \notin Offsets /\ 0 <= cd /\ cd \in Int
    BY <1>2 DEF Loose, Beyond, Ordered, Base, MemoryOK
  <2>2. k \in Nat
    OBVIOUS
  <2> QED  BY <2>1, <2>2, ZipAssumption DEF Offsets
<1> QED  BY <1>1, <1>2 DEF Copied

LEMMA StaysStep ==
  ASSUME Base, Base', Ordered, InCrunch, Stays, Copied, Inner
  PROVE  Stays'
<1>1. CASE Quiet
  <2>1. UNCHANGED entries /\ pc # "crunching" /\ pc' # "crunching"
    BY <1>1, QuietKeeps
  <2>2. ASSUME NEW i \in Indices, ~entries[i].deleted,
               NEW k \in 0 .. entries[i].span - 1
        PROVE  /\ Place(i, k)' = entries[i].off + k
               /\ entries[i].off + k \in Offsets =>
                    file'[entries[i].off + k] = Unit(entries[i], k)
    <3>1. Place(i, k)' = entries[i].off + k
      BY <2>1 DEF Place
    <3>2. entries[i].off + k \in Offsets =>
            file[entries[i].off + k] = Unit(entries[i], k)
      BY <2>1, <2>2, StaysIs
    <3>3. entries[i].off + k < cd
      BY <2>1, CellsBelow
    <3> QED  BY <1>1, <3>1, <3>2, <3>3, QuietBelow
  <2> QED  BY <2>1, <2>2 DEF Stays, Indices
<1>2. CASE FinishAdd
  <2> DEFINE n == Len(entries) + 1
  <2>1. /\ pc = "adding" /\ pc' = "open" /\ copy \in CopyType
        /\ file' = Write(file, cd, Unit(copy, 0)) /\ cd \in Int
    BY <1>2, With DEF FinishAdd, Base, MemoryOK
  <2>2. \A x \in Offsets :
          file'[x] = IF x = cd THEN Unit(copy, 0) ELSE file[x]
    BY <2>1, WriteIs
  <2>3. ASSUME NEW i \in Indices', ~entries'[i].deleted,
               NEW k \in 0 .. entries'[i].span - 1,
               entries'[i].off + k \in Offsets
        PROVE  file'[entries'[i].off + k] = Unit(entries'[i], k)
    <3>1. CASE i = n
      <4>1. /\ entries'[i].off = cd /\ entries'[i].span = copy.at
            /\ entries'[i].name = copy.name /\ entries'[i].data = copy.data
        BY <1>2, <3>1, With
      <4>2. file[cd + k] = Unit(copy, k)
        BY <2>1, <2>3, <4>1 DEF Copied
      <4>3. Unit(entries'[i], k) = Unit(copy, k)
        BY <4>1 DEF Unit
      <4>4. cd + k = cd => k = 0
        BY <2>1
      <4> QED  BY <2>2, <2>3, <4>1, <4>2, <4>3, <4>4
    <3>2. CASE i # n
      <4>1. i \in Indices /\ entries'[i] = entries[i]
        BY <1>2, <3>2, With
      <4>2. file[entries[i].off + k] = Unit(entries[i], k)
        BY <2>1, <2>3, <4>1, StaysIs
      <4>3. entries[i].off + k < cd /\ entries[i].off + k \in Int
        BY <2>1, <4>1, CellsBelow
      <4>4. entries[i].off + k # cd
        BY <2>1, <4>3
      <4> QED  BY <2>2, <2>3, <4>1, <4>2, <4>4
    <3> QED  BY <3>1, <3>2
  <2> QED  BY <2>1, <2>3 DEF Stays, Place
<1>3. ASSUME NEW n \in Names, Remove(n)
      PROVE  Stays'
  <2>1. PICK r \in Indices : \A k \in Indices :
          entries'[k] = IF k = r THEN [entries[r] EXCEPT !.deleted = TRUE]
                        ELSE entries[k]
    BY <1>3, Removed
  <2>2. entries'[r].deleted
    BY <2>1, EntryTyped DEF Base, EntryType
  <2>3. pc = "open" /\ UNCHANGED <<pc, file>> /\ Indices' = Indices
    BY <1>3, Removed
  <2>4. ASSUME NEW i \in Indices, ~entries'[i].deleted,
               NEW k \in 0 .. entries'[i].span - 1,
               entries'[i].off + k \in Offsets
        PROVE  file'[entries'[i].off + k] = Unit(entries'[i], k)
    <3>1. entries'[i] = entries[i]
      BY <2>1, <2>2, <2>4
    <3> QED  BY <2>3, <2>4, <3>1, StaysIs
  <2> QED  BY <2>3, <2>4 DEF Stays, Place
<1>4. ASSUME NEW b \in BOOLEAN, Flush(b)
      PROVE  Stays'
  <2>1. /\ pc # "crunching" /\ UNCHANGED <<entries, file>>
        /\ crunch'.moved = 0
    BY <1>4 DEF Flush, disk, memory, Idle
  <2>2. ASSUME NEW i \in Indices, ~entries[i].deleted,
               NEW k \in 0 .. entries[i].span - 1
        PROVE  /\ Place(i, k)' = entries[i].off + k
               /\ entries[i].off + k \in Offsets =>
                    file[entries[i].off + k] = Unit(entries[i], k)
    <3>1. ~(k < 0)
      OBVIOUS
    <3> QED  BY <2>1, <2>2, <3>1, StaysIs DEF Place
  <2> QED  BY <2>1, <2>2 DEF Stays, Indices
<1>5. CASE CrunchDeleted
  <2> DEFINE old(k) == IF k < crunch.i THEN k ELSE k + 1
  <2>1. \A k \in Indices' : old(k) \in Indices /\ entries'[k] = entries[old(k)]
    BY <1>5, Without DEF Indices
  <2>2. crunch.moved = 0
    BY <1>5, Without DEF InCrunch, Base, CrunchOK, CrunchType
  <2>3. crunch'.moved = 0 /\ file' = file
    BY <1>5, <2>2, Without
  <2> HIDE DEF old
  <2>4. ASSUME NEW i \in Indices', ~entries'[i].deleted,
               NEW k \in 0 .. entries'[i].span - 1
        PROVE  /\ Place(i, k)' = entries'[i].off + k
               /\ entries'[i].off + k \in Offsets =>
                    file'[entries'[i].off + k] = Unit(entries'[i], k)
    <3>1. ~(k < 0)
      OBVIOUS
    <3> QED  BY <2>1, <2>2, <2>3, <2>4, <3>1, StaysIs DEF Place
  <2> QED  BY <2>4 DEF Stays
<1>6. CASE CrunchKept
  <2>1. crunch.moved = 0 /\ crunch'.moved = 0 /\ UNCHANGED <<entries, file>>
    BY <1>6, KeptStays
       DEF CrunchKept, disk, memory, Base, CrunchOK, CrunchType
  <2>2. ASSUME NEW i \in Indices, ~entries[i].deleted,
               NEW k \in 0 .. entries[i].span - 1
        PROVE  /\ Place(i, k)' = entries[i].off + k
               /\ entries[i].off + k \in Offsets =>
                    file[entries[i].off + k] = Unit(entries[i], k)
    <3>1. ~(k < 0)
      OBVIOUS
    <3> QED  BY <2>1, <2>2, <3>1, StaysIs DEF Place
  <2> QED  BY <2>1, <2>2 DEF Stays, Indices
<1>7. CASE MoveUnit
  <2> DEFINE i == crunch.i
             dest == Source - crunch.adjust
  <2>1. /\ UNCHANGED <<entries, pc>> /\ pc = "crunching" /\ crunch'.i = i
        /\ crunch'.adjust = crunch.adjust /\ crunch'.moved = crunch.moved + 1
    BY <1>7 DEF MoveUnit, Moving, memory, Base, CrunchOK, CrunchType
  <2>2. /\ ~entries[i].deleted /\ Extent(i) # 0 /\ crunch.adjust > 0
        /\ crunch.moved < Extent(i) /\ i \in Indices
        /\ Source \in Offsets /\ file' = Write(file, dest, file[Source])
    BY <1>7, Crunched DEF MoveUnit, Moving, Moves
  <2>3. /\ entries[i].off # 0 /\ Extent(i) \in Int
        /\ \A j \in Indices :
             j > i => entries[i].off + Extent(i) <= entries[j].off
    <3>1. entries[i].off # 0
      BY <2>2 DEF Extent
    <3> QED  BY <2>1, <2>2, <3>1, ExtentCovers, OffsetTyped DEF Base
  <2>4. /\ crunch.moved \in Nat /\ crunch.adjust \in Int /\ i \in Nat
        /\ entries[i].off \in Int /\ entries[i].span \in Nat
        /\ Source = entries[i].off + crunch.moved
    BY <2>2, EntryTyped DEF Base, CrunchOK, CrunchType, Source
  <2>5. \A x \in Offsets :
          file'[x] = IF x = dest THEN file[Source] ELSE file[x]
    BY <2>2, <2>4, WriteIs
  <2>6. crunch.adjust <= entries[i].off
    BY <2>1, <2>2, <2>4 DEF InCrunch
  <2>7. dest \in Offsets
    BY <2>2, <2>4, <2>6, ZipAssumption DEF Offsets
  <2>8. ASSUME NEW j \in Indices, ~entries[j].deleted,
               NEW k \in 0 .. entries[j].span - 1, Place(j, k)' \in Offsets
        PROVE  file'[Place(j, k)'] = Unit(entries[j], k)
    <3>1. Place(j, k) \in Offsets => file[Place(j, k)] = Unit(entries[j], k)
      BY <2>8 DEF Stays
    <3>2. k \in Nat /\ j \in Nat /\ entries[j].off \in Int
          /\ entries[j].span \in Nat /\ k < entries[j].span
      BY EntryTyped DEF Base, Indices
    <3>3. CASE j = i /\ k = crunch.moved
      <4>1. Place(j, k) = Source /\ Place(j, k)' = dest
        BY <2>1, <2>4, <3>2, <3>3 DEF Place
      <4> QED  BY <2>2, <2>5, <2>7, <3>1, <4>1
    <3>4. CASE ~(j = i /\ k = crunch.moved)
      <4>1. Place(j, k)' = Place(j, k)
        BY <2>1, <2>4, <3>2, <3>4 DEF Place
      <4>2. Place(j, k) # dest
        <5>1. CASE j = i
          BY <2>1, <2>2, <2>4, <3>2, <3>4, <5>1 DEF Place
        <5>2. CASE j < i
          <6>1. entries[j].off + crunch.adjust + entries[j].span
                  <= entries[i].off
            BY <2>1, <2>2, <2>4, <3>2, <5>2 DEF Ordered, Reach, Shift
          <6> QED  BY <2>4, <3>2, <5>2, <6>1 DEF Place
        <5>3. CASE j > i
          <6>1. entries[i].off + Extent(i) <= entries[j].off
            BY <2>3, <5>3
          <6> QED  BY <2>2, <2>3, <2>4, <3>2, <5>3, <6>1 DEF Place
        <5> QED  BY <2>4, <3>2, <5>1, <5>2, <5>3
      <4> QED  BY <2>5, <2>8, <3>1, <4>1, <4>2
    <3> QED  BY <3>3, <3>4
  <2> QED  BY <2>1, <2>8 DEF Stays, Indices
<1>8. CASE Moved
  <2> DEFINE i == crunch.i
  <2>1. /\ i \in Indices /\ Moves(i) /\ crunch.moved = Extent(i)
        /\ crunch'.i = i + 1 /\ crunch'.moved = 0
        /\ pc = "crunching" /\ UNCHANGED <<pc, file>> /\ Indices' = Indices
    BY <1>8, MovedOn
  <2>2. \A j \in Indices :
          entries'[j] = IF j = i
                        THEN [entries[j] EXCEPT !.off = @ - crunch.adjust]
                        ELSE entries[j]
    BY <1>8, MovedOn
  <2>3. \A j \in Indices :
          /\ entries'[j].name = entries[j].name
          /\ entries'[j].data = entries[j].data
          /\ entries'[j].span = entries[j].span
          /\ entries'[j].deleted = entries[j].deleted
          /\ entries'[j].off =
               IF j = i THEN entries[j].off - crunch.adjust ELSE entries[j].off
    BY <2>2, EntryTyped DEF Base, EntryType
  <2>4. crunch.moved >= entries[i].span
    <3>1. entries[i].off # 0
      BY <2>1 DEF Moves, Extent
    <3> QED  BY <2>1, <3>1, ExtentCovers
  <2>5. /\ crunch.adjust \in Int /\ entries[i].off \in Int
        /\ entries[i].span \in Nat /\ crunch.moved \in Nat
    BY <2>1, EntryTyped DEF Base, CrunchOK, CrunchType
  <2>6. ASSUME NEW j \in Indices, ~entries'[j].deleted,
               NEW k \in 0 .. entries'[j].span - 1
        PROVE  /\ Place(j, k)' = Place(j, k)
               /\ Unit(entries'[j], k) = Unit(entries[j], k)
               /\ Place(j, k) \in Offsets =>
                    file[Place(j, k)] = Unit(entries[j], k)
    <3>1. k \in Nat /\ k < entries[j].span
      BY <2>3, EntryTyped DEF Base
    <3>2. Place(j, k)' = entries'[j].off + k
      BY <2>1, <3>1 DEF Place
    <3>3. Place(j, k) = IF j = i THEN entries[i].off + k - crunch.adjust
                        ELSE entries[j].off + k
      BY <2>1, <2>4, <2>5, <3>1 DEF Place
    <3>4. Place(j, k)' = Place(j, k)
      BY <2>3, <2>5, <3>1, <3>2, <3>3
    <3>5. Unit(entries'[j], k) = Unit(entries[j], k)
      BY <2>3 DEF Unit
    <3>6. Place(j, k) \in Offsets => file[Place(j, k)] = Unit(entries[j], k)
      BY <2>3, <2>6 DEF Stays
    <3> QED  BY <3>4, <3>5, <3>6
  <2> QED  BY <2>1, <2>6 DEF Stays
<1>9. CASE CrunchEnd
  <2>1. /\ pc = "crunching" /\ pc' = "writing" /\ UNCHANGED <<entries, file>>
        /\ crunch.i > Len(entries)
    BY <1>9 DEF CrunchEnd, disk
  <2>2. ASSUME NEW i \in Indices, ~entries[i].deleted,
               NEW k \in 0 .. entries[i].span - 1
        PROVE  /\ Place(i, k)' = entries[i].off + k
               /\ entries[i].off + k \in Offsets =>
                    file[entries[i].off + k] = Unit(entries[i], k)
    BY <2>1, <2>2, StaysIs DEF Place
  <2> QED  BY <2>1, <2>2 DEF Stays, Indices
<1>10. CASE UNCHANGED vars
  BY <1>10 DEF vars, disk, memory, locals, Stays, Place, Indices
<1> QED
  BY <1>1, <1>2, <1>3, <1>4, <1>5, <1>6, <1>7, <1>8, <1>9, <1>10 DEF Inner

(* All of it is there when the card had room for it.                       *)
LEMMA SaneIsIntact ==
  ASSUME Base, Sane
  PROVE  Intact
<1> SUFFICES ASSUME NEW i \in Indices, ~entries[i].deleted,
                    NEW k \in 0 .. entries[i].span - 1
             PROVE  Place(i, k) \in Offsets
  BY DEF Intact, Sane, Stays
<1>1. /\ entries[i].off \in Int /\ entries[i].span \in Nat /\ k \in Nat
      /\ entries[i].off >= 0 /\ k < entries[i].span /\ i \in Nat
  BY EntryTyped DEF Base, Sane, Placed, Ordered, Indices
<1>2. Reach(i) + entries[i].span <= cd /\ cd <= Capacity /\ cd \in Int
      /\ Capacity \in Nat
  BY ZipAssumption DEF Sane, Placed, Ordered, Fits, Base, MemoryOK
<1>3. crunch.i \in Nat /\ crunch.adjust \in Int /\ crunch.moved \in Nat
  BY DEF Base, CrunchOK, CrunchType
<1>4. pc = "crunching" => 0 <= crunch.adjust
  BY DEF Sane, InCrunch
<1>5. CASE pc = "crunching" /\ i = crunch.i /\ k < crunch.moved
  <2>1. crunch.adjust <= entries[i].off
    BY <1>1, <1>3, <1>5 DEF Sane, InCrunch
  <2>2. Reach(i) = entries[i].off
    BY <1>1, <1>3, <1>5 DEF Reach, Shift
  <2>3. Place(i, k) = entries[i].off + k - crunch.adjust
    BY <1>5 DEF Place
  <2> QED  BY <1>1, <1>2, <1>3, <1>4, <1>5, <2>1, <2>2, <2>3 DEF Offsets
<1>6. CASE ~(pc = "crunching" /\ i = crunch.i /\ k < crunch.moved)
  <2>1. entries[i].off <= Reach(i) /\ Reach(i) \in Int
    BY <1>1, <1>3, <1>4 DEF Reach, Shift
  <2>2. Place(i, k) = entries[i].off + k
    BY <1>6 DEF Place
  <2> QED  BY <1>1, <1>2, <2>1, <2>2 DEF Offsets
<1> QED  BY <1>5, <1>6

LEMMA IntactIs ==
  ASSUME Base, Sane, pc # "crunching" \/ crunch.moved = 0
                     \/ crunch.i > Len(entries),
         NEW i \in Indices, ~entries[i].deleted,
         NEW k \in 0 .. entries[i].span - 1
  PROVE  /\ entries[i].off + k \in Offsets
         /\ file[entries[i].off + k] = Unit(entries[i], k)
<1>1. Place(i, k) = entries[i].off + k
  BY PlaceIs
<1> QED  BY <1>1, SaneIsIntact DEF Intact

(* No record of a directory is in front of the directory.                  *)
LEMMA BelowStep ==
  ASSUME Base, Base', Ordered, InCrunch, Below, Copied, Inner
  PROVE  Below'
<1>1. CASE UNCHANGED <<file, cd>>
  BY <1>1 DEF Below
<1>2. CASE Quiet
  BY <1>2, QuietBelow, QuietKeeps DEF Below
<1>3. CASE FinishAdd
  <2>1. /\ pc = "adding" /\ copy.at \in Nat \ {0} /\ cd \in Int
        /\ cd' = cd + copy.at /\ file' = Write(file, cd, Unit(copy, 0))
    BY <1>3, With DEF FinishAdd, Base, MemoryOK, CopyType
  <2>2. \A x \in Offsets :
          file'[x] = IF x = cd THEN Unit(copy, 0) ELSE file[x]
    BY <2>1, WriteIs
  <2>3. ASSUME NEW x \in Offsets, x < cd'
        PROVE  file'[x].kind # "cde"
    <3>1. x \in Int
      BY DEF Offsets
    <3>2. CASE x < cd
      BY <2>1, <2>2, <3>1, <3>2 DEF Below
    <3>3. CASE x = cd
      BY <2>2, <3>3 DEF Unit
    <3>4. CASE x > cd
      <4> DEFINE k == x - cd
      <4>1. k \in 0 .. copy.at - 1 /\ cd + k = x
        BY <2>1, <2>3, <3>1, <3>4
      <4>2. file[x] = Unit(copy, k)
        BY <2>1, <4>1 DEF Copied
      <4>3. file'[x] = file[x]
        BY <2>1, <2>2, <3>4
      <4> QED  BY <4>2, <4>3 DEF Unit
    <3> QED  BY <2>1, <3>1, <3>2, <3>3, <3>4
  <2> QED  BY <2>3 DEF Below
<1>4. CASE MoveUnit
  <2> DEFINE i == crunch.i
             dest == Source - crunch.adjust
  <2>1. /\ cd' = cd /\ pc = "crunching" /\ i \in Indices /\ Extent(i) # 0
        /\ crunch.moved < Extent(i) /\ Source \in Offsets
        /\ file' = Write(file, dest, file[Source])
    BY <1>4, Crunched DEF MoveUnit, Moving, Moves, memory
  <2>2. entries[i].off # 0
    BY <2>1 DEF Extent
  <2>3. entries[i].off + Extent(i) <= cd
    BY <2>1, <2>2, ExtentCovers
  <2>4. /\ entries[i].off \in Int /\ Extent(i) \in Int /\ crunch.moved \in Nat
        /\ crunch.adjust \in Int /\ cd \in Int
    BY <2>1, EntryTyped, OffsetTyped
       DEF Base, CrunchOK, CrunchType, MemoryOK
  <2>5. Source < cd /\ Source \in Int
    BY <2>1, <2>3, <2>4 DEF Source
  <2>6. file[Source].kind # "cde"
    BY <2>1, <2>5 DEF Below
  <2>7. dest \in Int
    BY <2>4, <2>5
  <2>8. \A x \in Offsets :
          file'[x] = IF x = dest THEN file[Source] ELSE file[x]
    BY <2>1, <2>7, WriteIs
  <2> QED  BY <2>1, <2>6, <2>8 DEF Below
<1>5. CASE CrunchEnd
  <2>1. file' = file /\ cd' = cd - crunch.adjust /\ 0 <= crunch.adjust
    BY <1>5 DEF CrunchEnd, disk, InCrunch
  <2>2. cd \in Int /\ crunch.adjust \in Int /\ \A x \in Offsets : x \in Int
    BY DEF Base, MemoryOK, CrunchOK, CrunchType, Offsets
  <2> QED  BY <2>1, <2>2 DEF Below
<1>6. CASE ~Quiet /\ ~FinishAdd /\ ~MoveUnit /\ ~CrunchEnd
  BY <1>1, <1>6 DEF Inner, Remove, Flush, CrunchDeleted, CrunchKept, Moved,
     vars, disk, memory
<1> QED  BY <1>2, <1>3, <1>4, <1>5, <1>6

------------------------------------------------------------------------------
(* A file that holds entries and their directory is opened with them.      *)
LEMMA RecordsAre ==
  /\ None.kind = "none"
  /\ \A n, c : Eocd(n, c).kind = "eocd" /\ Eocd(n, c).total = n
               /\ Eocd(n, c).cd = c
  /\ \A e : Cde(e).kind = "cde" /\ Cde(e).off = e.off
  /\ \A e \in EntryType : ~e.deleted => Entry(Cde(e)) = e
<1>1. /\ None.kind = "none"
      /\ \A n, c : Eocd(n, c).kind = "eocd" /\ Eocd(n, c).total = n
                   /\ Eocd(n, c).cd = c
      /\ \A e : Cde(e).kind = "cde" /\ Cde(e).off = e.off
  BY DEF None, Eocd, Cde
<1>2. ASSUME NEW e \in EntryType, ~e.deleted
      PROVE  Entry(Cde(e)) = e
  <2>1. Entry(Cde(e)) = [name |-> e.name, data |-> e.data, off |-> e.off,
                         span |-> e.span, deleted |-> FALSE]
    BY DEF Entry, Cde
  <2>2. e.deleted = FALSE
    BY <1>2 DEF EntryType
  <2> QED  BY <2>1, <2>2 DEF EntryType
<1> QED  BY <1>1, <1>2

LEMMA DirectoryIs ==
  ASSUME NEW f, NEW E \in Seq(EntryType), NEW c \in Int, Holds(f, E, c)
  PROVE  /\ OpensAt(f, c + Len(E))
         /\ \A p \in Offsets : OpensAt(f, p) => p = c + Len(E)
         /\ f[c + Len(E)].total = Len(E) /\ f[c + Len(E)].cd = c
         /\ Listed(f, c + Len(E)) = E
<1> DEFINE n == Len(E)
           d == c + n
<1>1. /\ n \in Nat /\ d \in Offsets /\ d \in Int /\ c >= 0
      /\ \A i \in 1 .. n : E[i] \in EntryType /\ E[i].off \in Int
                           /\ E[i].span \in Nat \ {0}
      /\ DOMAIN E = 1 .. n
  <2>1. n \in Nat /\ DOMAIN E = 1 .. n /\ \A i \in 1 .. n : E[i] \in EntryType
    OBVIOUS
  <2>2. c >= 0 /\ d \in Offsets
    BY DEF Holds
  <2>3. \A e \in EntryType : e.off \in Int /\ e.span \in Nat \ {0}
    BY DEF EntryType
  <2> HIDE DEF n
  <2>4. d \in Int
    BY <2>1
  <2> QED  BY <2>1, <2>2, <2>3, <2>4
<1>2. f[d].kind = "eocd" /\ f[d].total = n /\ f[d].cd = c
  <2>1. f[d] = Eocd(n, c)
    BY DEF Holds
  <2> QED  BY <2>1, RecordsAre
<1>3. \A o \in Offsets : o > d => f[o].kind = "none"
  BY RecordsAre DEF Holds
<1>4. ASSUME NEW j \in 1 .. n
      PROVE  /\ c + j - 1 \in Offsets /\ f[c + j - 1] = Cde(E[j])
             /\ E[j].off \in Offsets /\ IsHeader(f, E[j].off)
  <2>1. c + j - 1 \in Offsets /\ f[c + j - 1] = Cde(E[j])
    <3>1. f[c + j - 1] = Cde(E[j])
      BY DEF Holds
    <3>2. c + n <= Capacity - 1 /\ Capacity \in Nat
      BY <1>1, ZipAssumption DEF Offsets
    <3>3. c + j - 1 \in 0 .. Capacity - 1
      <4> HIDE DEF n
      <4> QED  BY <1>1, <3>2
    <3> QED  BY <3>1, <3>3 DEF Offsets
  <2>2. /\ E[j].off >= 0 /\ E[j].off + E[j].span <= c
        /\ \A k \in 0 .. E[j].span - 1 : f[E[j].off + k] = Unit(E[j], k)
    BY DEF Holds, End
  <2>3. 0 \in 0 .. E[j].span - 1 /\ E[j].off + 0 = E[j].off
    BY <1>1
  <2>4. f[E[j].off] = Unit(E[j], 0)
    BY <2>2, <2>3
  <2>5. E[j].off \in Offsets
    <3>1. c + n <= Capacity - 1 /\ Capacity \in Nat
      BY <1>1, ZipAssumption DEF Offsets
    <3>2. E[j].off \in 0 .. Capacity - 1
      <4> HIDE DEF n
      <4> QED  BY <1>1, <2>2, <3>1
    <3> QED  BY <3>2 DEF Offsets
  <2>6. f[E[j].off].kind = "unit" /\ f[E[j].off].k = 0
    BY <2>4 DEF Unit
  <2> QED  BY <2>1, <2>5, <2>6 DEF IsHeader
<1>5. OpensAt(f, d)
  BY <1>1, <1>2, <1>3, <1>4, RecordsAre DEF OpensAt
<1>6. \A p \in Offsets : OpensAt(f, p) => p = d
  <2> SUFFICES ASSUME NEW p \in Offsets, OpensAt(f, p) PROVE p = d
    OBVIOUS
  <2>1. f[p].kind = "eocd" /\ \A o \in Offsets : o > p => f[o].kind # "eocd"
    BY DEF OpensAt
  <2>2. p \in Int
    BY ZipAssumption DEF Offsets
  <2> HIDE DEF d, n
  <2>3. ~(p > d)
    BY <1>3, <2>1
  <2>4. ~(d > p)
    BY <1>1, <1>2, <2>1
  <2> QED  BY <1>1, <2>2, <2>3, <2>4
<1>7. Listed(f, d) = E
  <2>1. Listed(f, d) = [j \in 1 .. n |-> Entry(f[c + j - 1])]
    BY <1>2 DEF Listed
  <2>2. ASSUME NEW j \in 1 .. n
        PROVE  Entry(f[c + j - 1]) = E[j]
    <3>1. ~E[j].deleted
      BY DEF Holds
    <3>2. f[c + j - 1] = Cde(E[j]) /\ E[j] \in EntryType
      BY <1>1, <1>4
    <3> QED  BY <3>1, <3>2, RecordsAre
  <2>3. E = [j \in 1 .. n |-> E[j]]
    BY <1>1
  <2> QED  BY <2>1, <2>2, <2>3
<1> QED  BY <1>2, <1>5, <1>6, <1>7

LEMMA OldIsHeld ==
  ASSUME Base, Saved, OpenOld, ~broken'
  PROVE  /\ Holds(file', entries', cd') /\ total' = Len(entries')
         /\ pc' = "open" /\ ~dirty'
<1>1. /\ pc = "closed" /\ exists /\ ~broken /\ pc' = "open"
      /\ dirty' = dirty /\ file' = file
  BY DEF OpenOld, disk, history
<1>2. PICK E \in Seq(EntryType), c \in Nat : Holds(file, E, c)
  BY <1>1 DEF Saved
<1>3. PICK p \in Offsets :
        /\ OpensAt(file, p) /\ entries' = Listed(file, p)
        /\ total' = file[p].total /\ cd' = file[p].cd
  BY DEF OpenOld
<1>4. p = c + Len(E) /\ entries' = E /\ total' = Len(E) /\ cd' = c
  BY <1>2, <1>3, DirectoryIs
<1>5. ~dirty
  BY <1>1 DEF Base, ControlOK
<1> QED  BY <1>1, <1>2, <1>4, <1>5

LEMMA OpenedIsSane ==
  ASSUME Base, Base', Saved, OpenNew \/ OpenOld, ~broken'
  PROVE  Sane'
<1>1. /\ pc = "closed" /\ pc' = "open" /\ crunch' = crunch
  BY DEF OpenNew, OpenOld, locals
<1>2. InCrunch' /\ InAdd' /\ InWrite'
  BY <1>1 DEF InCrunch, InAdd, InWrite, Written
<1>3. CASE OpenNew
  <2>1. entries' = <<>> /\ total' = 0 /\ cd' = 0
    BY <1>1, <1>3 DEF OpenNew, Base, ControlOK
  <2>3. Fits' /\ Below'
    BY <2>1, ZipAssumption DEF Fits, Below, Offsets
  <2>2. Len(entries') = 0 /\ Indices' = {}
    BY <2>1 DEF Indices
  <2> QED
    BY <1>1, <1>2, <2>1, <2>2, <2>3 DEF Sane, Placed, Ordered, Adjacent,
       Counted, Unique, Stays
<1>4. CASE OpenOld
  <2>1. Holds(file', entries', cd') /\ total' = Len(entries')
    BY <1>4, OldIsHeld
  <2>2. \A i \in Indices' : Reach(i)' = entries'[i].off
    BY <1>1, EntryTypedNext DEF Reach, Shift, Base
  <2>3. Ordered'
    BY <2>1, <2>2 DEF Holds, Ordered, Indices, End
  <2>4. \A i \in Indices' : i # Len(entries') => i + 1 \in Indices'
    BY EntryTypedNext DEF Base, Indices
  <2>5. Adjacent'
    BY <2>1, <2>2, <2>4 DEF Holds, Adjacent, Indices, End
  <2>6. Unique'
    BY <2>1 DEF Holds, Unique, Indices
  <2>7. Counted'
    BY <1>1, <2>1, EntryTypedNext DEF Counted, Base
  <2>8. Stays'
    <3>1. ASSUME NEW i \in Indices', NEW k \in 0 .. entries'[i].span - 1
          PROVE  /\ entries'[i].off + k \in Offsets
                 /\ file'[entries'[i].off + k] = Unit(entries'[i], k)
      <4>1. /\ entries'[i].off >= 0
            /\ entries'[i].off + entries'[i].span <= cd'
            /\ file'[entries'[i].off + k] = Unit(entries'[i], k)
            /\ cd' + Len(entries') \in Offsets
        BY <2>1 DEF Holds, Indices, End
      <4>2. /\ entries'[i].off \in Int /\ entries'[i].span \in Nat
            /\ k \in Nat /\ k < entries'[i].span
            /\ Len(entries') \in Nat /\ cd' \in Int
        BY EntryTypedNext DEF Base, MemoryOK
      <4> QED  BY <4>1, <4>2, ZipAssumption DEF Offsets
    <3> QED  BY <1>1, <3>1 DEF Stays, Place
  <2>9. Below'
    BY <2>1 DEF Holds, Below
  <2>10. Fits'
    <3>1. /\ cd' + Len(entries') \in Offsets /\ cd' \in Int
          /\ Len(entries') \in Nat
      BY <2>1, EntryTypedNext DEF Holds, Base, MemoryOK
    <3> QED  BY <3>1, ZipAssumption DEF Offsets, Fits
  <2> QED  BY <1>2, <2>3, <2>5, <2>6, <2>7, <2>8, <2>9, <2>10 DEF Sane, Placed
<1> QED  BY <1>3, <1>4

(* What an archive that is open looks like.                                *)
LEMMA LayoutStep ==
  ASSUME Base, Base', Layout, Saved, [Next]_vars
  PROVE  Layout'
<1> SUFFICES ASSUME ~broken', pc' # "closed" PROVE Sane'
  BY DEF Layout
<1>1. CASE pc # "closed"
  <2>1. Inner /\ ~broken
    BY <1>1, InnerSteps, InnerUnbroken
  <2>2. Sane
    BY <1>1, <2>1 DEF Layout
  <2>3. Ordered /\ InCrunch /\ Stays /\ Below /\ Copied
    BY <2>2, CopiedIs DEF Sane, Placed
  <2>4. Ordered' /\ Adjacent' /\ InCrunch' /\ Stays' /\ Below'
    BY <2>1, <2>2, <2>3, OrderedStep, AdjacentStep, InCrunchStep, StaysStep,
       BelowStep DEF Sane
  <2> QED
    BY <2>1, <2>2, <2>4, FitsStep, CountedStep, UniqueStep, InAddStep,
       InWriteStep DEF Sane, Placed
<1>2. CASE pc = "closed"
  <2>1. OpenNew \/ OpenOld
    BY <1>2 DEF Next, Add, Crunching, Writing, vars, OpenFails, AddRefused,
       BeginAdd, CopyUnit, CopyFails, StoreInstead, FinishAdd, CompressStops,
       Remove, Flush, CloseClean, CrunchDeleted, CrunchKept, MoveUnit, Moving,
       Moved, MoveFails, CrunchEnd, WriteCd, Truncate, WriteFails, Crash,
       Unlink
  <2> QED  BY <2>1, OpenedIsSane
<1> QED  BY <1>1, <1>2

------------------------------------------------------------------------------
(* The end of a flush leaves a file that holds the entries in memory.      *)
LEMMA TruncateHolds ==
  ASSUME Base, Sane, Truncate
  PROVE  Holds(file', entries, cd)
<1> DEFINE n == Len(entries)
<1>1. /\ pc = "writing" /\ crunch.at = n + 1 /\ file' = Cut(file, cd + n + 1)
  <2>1. /\ pc = "writing" /\ crunch.at = n + 1
        /\ file' = Cut(file, cd + crunch.at)
    BY DEF Truncate
  <2>2. cd + crunch.at = cd + n + 1
    BY <2>1, EntryTyped DEF Base, MemoryOK
  <2> QED  BY <2>1, <2>2
<1>2. cd \in Int /\ n \in Nat /\ 0 <= cd /\ total = n
  BY <1>1, EntryTyped DEF Base, MemoryOK, Sane, Placed, Ordered, Counted
<1>3. \A j \in 0 .. n :
        /\ cd + j \in Offsets
        /\ file[cd + j] = IF j < n THEN Cde(entries[j + 1]) ELSE Eocd(n, cd)
  <2>1. 0 .. crunch.at - 1 = 0 .. n
    BY <1>1, <1>2
  <2> QED  BY <1>1, <1>2, <2>1 DEF Sane, InWrite, Written
<1>4. \A x \in Offsets : file'[x] = IF x < cd + n + 1 THEN file[x] ELSE None
  BY <1>1 DEF Cut
<1>5. \A i \in 1 .. n : /\ entries[i].off \in Int /\ entries[i].span \in Nat
                        /\ ~entries[i].deleted /\ Reach(i) = entries[i].off
                        /\ i \in Indices
  BY <1>1, <1>2, EntryTyped
     DEF Base, Sane, InWrite, Written, Indices, Reach, Shift
<1>6. n \in 0 .. n /\ cd + n \in Offsets /\ file[cd + n] = Eocd(n, cd)
  BY <1>2, <1>3
<1>7. file'[cd + n] = Eocd(n, cd)
  BY <1>2, <1>4, <1>6
<1>8. \A o \in Offsets : /\ o > cd + n => file'[o] = None
                         /\ o < cd => file'[o].kind # "cde"
  BY <1>2, <1>4 DEF Offsets, Sane, Below
<1>9. ASSUME NEW i \in 1 .. n
      PROVE  /\ file'[cd + i - 1] = Cde(entries[i])
             /\ entries[i].off >= 0 /\ End(entries[i]) <= cd
             /\ End(entries[i]) = IF i = n THEN cd ELSE entries[i + 1].off
             /\ \A k \in 0 .. entries[i].span - 1 :
                  file'[entries[i].off + k] = Unit(entries[i], k)
  <2>1. file'[cd + i - 1] = Cde(entries[i])
    <3> DEFINE j == i - 1
    <3>1. j \in 0 .. n /\ j < n /\ j + 1 = i /\ cd + j = cd + i - 1
      BY <1>2
    <3>2. cd + j \in Offsets /\ file[cd + j] = Cde(entries[j + 1])
      BY <1>3, <3>1
    <3>3. cd + j < cd + n + 1
      BY <1>2, <3>1
    <3> QED  BY <1>4, <3>1, <3>2, <3>3
  <2>2. entries[i].off >= 0 /\ entries[i].off + entries[i].span <= cd
    BY <1>5 DEF Sane, Placed, Ordered
  <2>3. End(entries[i]) = IF i = n THEN cd ELSE entries[i + 1].off
    <3>1. i # n => i + 1 \in 1 .. n
      BY <1>2
    <3> QED  BY <1>5, <3>1 DEF Sane, Placed, Adjacent, End
  <2>4. ASSUME NEW k \in 0 .. entries[i].span - 1
        PROVE  file'[entries[i].off + k] = Unit(entries[i], k)
    <3>1. /\ entries[i].off + k \in Offsets
          /\ file[entries[i].off + k] = Unit(entries[i], k)
      BY <1>1, <1>5, IntactIs
    <3>2. entries[i].off + k < cd + n + 1
      BY <1>2, <1>5, <2>2
    <3> QED  BY <1>4, <3>1, <3>2
  <2> QED  BY <2>1, <2>2, <2>3, <2>4 DEF End
<1>10. \A i, j \in 1 .. n :
         /\ i < j => End(entries[i]) <= entries[j].off
         /\ entries[i].name = entries[j].name => i = j
  BY <1>5 DEF Sane, Placed, Ordered, Unique, End
<1> QED  BY <1>2, <1>5, <1>6, <1>7, <1>8, <1>9, <1>10 DEF Holds

(* What is closed without trouble.                                         *)
LEMMA CloseHolds ==
  ASSUME Base, Layout, Saved, [Next]_vars, ~broken',
         pc # "closed", pc' = "closed"
  PROVE  Holds(file', entries, cd) /\ cd \in Nat /\ exists' = exists
<1>1. CloseClean \/ Crash \/ Truncate
  BY DEF Next, Add, Crunching, Writing, vars, OpenNew, OpenOld,
     OpenFails, AddRefused, BeginAdd, CopyUnit, CopyFails, StoreInstead,
     FinishAdd, Appended, CompressStops, Remove, Flush, CrunchDeleted,
     CrunchKept, MoveUnit, Moving, Moved, MoveFails, CrunchEnd, WriteCd,
     WriteFails, Unlink
<1>2. ~broken
  BY <1>1 DEF CloseClean, Crash, Truncate, history
<1>3. Sane
  BY <1>2 DEF Layout
<1>4. Holds(file', entries, cd)
  <2>1. CASE CloseClean
    BY <1>2, <2>1 DEF CloseClean, disk, Saved
  <2>2. CASE Crash
    <3>1. ~dirty /\ file' = file
      BY <2>2 DEF Crash, disk
    <3>2. pc \in {"open", "flushed"}
      BY <3>1 DEF Base, ControlOK
    <3> QED  BY <1>2, <3>1, <3>2 DEF Saved
  <2>3. CASE Truncate
    BY <1>3, <2>3, TruncateHolds
  <2> QED  BY <1>1, <2>1, <2>2, <2>3
<1>5. cd \in Int /\ cd >= 0
  BY <1>4 DEF Holds, Base, MemoryOK
<1>6. cd \in Nat
  BY <1>5
<1>7. exists' = exists
  BY <1>1 DEF CloseClean, Crash, Truncate, disk
<1> QED  BY <1>4, <1>6, <1>7

(* An archive that is closed, or has nothing to write, is in its file.     *)
LEMMA SavedStep ==
  ASSUME Base, Base', Layout, Saved, [Next]_vars
  PROVE  Saved'
<1> SUFFICES ASSUME ~broken'
             PROVE  /\ pc' \in {"open", "flushed"} /\ ~dirty' =>
                         Holds(file', entries', cd')
                    /\ pc' = "closed" /\ exists' =>
                         \E E \in Seq(EntryType), c \in Nat :
                           Holds(file', E, c)
  BY DEF Saved
<1>1. ASSUME pc # "closed", pc' # "closed", ~dirty',
             pc' \in {"open", "flushed"}
      PROVE  Holds(file', entries', cd')
  <2>1. Inner /\ ~broken
    BY <1>1, InnerSteps, InnerUnbroken
  <2>2. Sane
    BY <1>1, <2>1 DEF Layout
  <2>3. CASE Truncate
    <3>1. UNCHANGED <<entries, cd>>
      BY <1>1, <2>3 DEF Truncate, Flushed, Gone
    <3> QED  BY <2>2, <2>3, <3>1, TruncateHolds
  <2>4. CASE AddRefused \/ UNCHANGED vars
    <3>1. UNCHANGED <<file, pc, entries, cd, dirty>>
      BY <2>4 DEF AddRefused, vars, disk, memory
    <3> QED  BY <1>1, <2>1, <3>1 DEF Saved
  <2>5. CASE ~Truncate /\ ~AddRefused /\ ~UNCHANGED vars
    <3>1. dirty' = dirty \/ dirty' = TRUE
      BY <2>1, <2>5 DEF Inner, Quiet, BeginAdd, CopyUnit, CopyFails,
         StoreInstead, WriteCd, FinishAdd, Appended, Remove, Flush,
         CrunchDeleted, CrunchKept, MoveUnit, Moving, Moved, CrunchEnd, memory
    <3>2. pc \in {"adding", "crunching", "writing"} \/ dirty \/ dirty' = TRUE
      BY <2>1, <2>5 DEF Inner, Quiet, BeginAdd, CopyUnit, CopyFails,
         StoreInstead, WriteCd, FinishAdd, Remove, Flush, CrunchDeleted,
         CrunchKept, MoveUnit, Moving, Moved, CrunchEnd
    <3>3. dirty \/ dirty' = TRUE
      BY <3>2 DEF Base, ControlOK
    <3> QED  BY <1>1, <3>1, <3>3
  <2> QED  BY <2>3, <2>4, <2>5
<1>2. ASSUME pc # "closed", pc' = "closed"
      PROVE  \E E \in Seq(EntryType), c \in Nat : Holds(file', E, c)
  BY <1>2, CloseHolds DEF Base, MemoryOK
<1>3. ASSUME pc = "closed", pc' # "closed", ~dirty'
      PROVE  Holds(file', entries', cd')
  <2>1. OpenNew \/ OpenOld
    BY <1>3 DEF Next, Add, Crunching, Writing, vars, OpenFails, AddRefused,
       BeginAdd, CopyUnit, CopyFails, StoreInstead, FinishAdd, CompressStops,
       Remove, Flush, CloseClean, CrunchDeleted, CrunchKept, MoveUnit, Moving,
       Moved, MoveFails, CrunchEnd, WriteCd, Truncate, WriteFails, Crash,
       Unlink
  <2>2. OpenOld
    BY <1>3, <2>1 DEF OpenNew
  <2> QED  BY <2>2, OldIsHeld
<1>4. ASSUME pc = "closed", pc' = "closed", exists'
      PROVE  \E E \in Seq(EntryType), c \in Nat : Holds(file', E, c)
  <2>1. UNCHANGED vars \/ OpenFails
    BY <1>4 DEF Next, Add, Crunching, Writing, OpenNew, OpenOld, AddRefused,
       BeginAdd, CopyUnit, CopyFails, StoreInstead, FinishAdd, CompressStops,
       Remove, Flush, CloseClean, CrunchDeleted, CrunchKept, MoveUnit, Moving,
       Moved, MoveFails, CrunchEnd, WriteCd, Truncate, WriteFails, Crash,
       Unlink
  <2>2. UNCHANGED <<file, exists, broken>>
    BY <2>1 DEF vars, OpenFails, disk, history
  <2> QED  BY <1>4, <2>2 DEF Saved
<1> QED  BY <1>1, <1>2, <1>3, <1>4

LEMMA InvHolds == Spec => []Inv
<1>1. Init => Layout /\ Saved
  BY DEF Init, Layout, Saved
<1>2. Base /\ Base' /\ Layout /\ Saved /\ [Next]_vars => Layout' /\ Saved'
  BY LayoutStep, SavedStep
<1> QED  BY <1>1, <1>2, BaseHolds, PTL DEF Spec, Inv

------------------------------------------------------------------------------
(* The variables of ZipFile have their types, and only an open archive is  *)
(* dirty.                                                                  *)
THEOREM TypeCorrect == Spec => []TypeOK
BY BaseHolds, BaseIsTyped, PTL

(* Adds, failed adds, crunches and new directories (addCommon,             *)
(* crunchArchive, flush) leave every cell of the entries that stay.        *)
THEOREM EntriesAreKept == Spec => []EntriesIntact
<1>1. Inv => EntriesIntact
  <2> SUFFICES ASSUME Inv, ~broken PROVE EntriesIntact
    BY DEF EntriesIntact
  <2>1. CASE pc = "closed"
    <3>1. 1 .. Len(entries) = {}
      BY <2>1 DEF Inv, Base, ControlOK
    <3> QED  BY <3>1 DEF EntriesIntact
  <2>2. CASE pc # "closed"
    BY <2>2, SaneIsIntact DEF Inv, Layout, Intact, Indices, EntriesIntact
  <2> QED  BY <2>1, <2>2
<1> QED  BY <1>1, InvHolds, PTL

(* A file that was closed without trouble is opened at its last record, and*)
(* its entries lie one behind the other up to the directory (flush).       *)
THEOREM ClosedArchiveIsCompact == Spec => []ClosedIsCompact
<1>1. Inv => ClosedIsCompact
  <2> SUFFICES ASSUME Inv, pc = "closed", exists, ~broken
               PROVE  ClosedIsCompact
    BY DEF ClosedIsCompact
  <2>1. PICK E \in Seq(EntryType), c \in Nat : Holds(file, E, c)
    BY DEF Inv, Saved
  <2> DEFINE p == c + Len(E)
  <2>2. /\ p \in Offsets /\ OpensAt(file, p) /\ Listed(file, p) = E
        /\ file[p].total = Len(E) /\ file[p].cd = c
    <3>1. p \in Offsets
      BY <2>1 DEF Holds
    <3>2. c \in Int
      OBVIOUS
    <3> QED  BY <2>1, <3>1, <3>2, DirectoryIs
  <2>3. \A o \in Offsets : o > p => file[o] = None
    BY <2>1 DEF Holds
  <2>4. \A i \in 1 .. Len(E) :
          End(E[i]) = IF i = Len(E) THEN c ELSE E[i + 1].off
    BY <2>1 DEF Holds
  <2>5. p = file[p].cd + file[p].total
    BY <2>2
  <2> HIDE DEF p
  <2>6. LET L == Listed(file, p)
        IN  \A i \in 1 .. Len(L) :
              End(L[i]) = IF i = Len(L) THEN file[p].cd ELSE L[i + 1].off
    BY <2>2, <2>4
  <2> QED  BY <2>2, <2>3, <2>5, <2>6 DEF ClosedIsCompact
<1> QED  BY <1>1, InvHolds, PTL

------------------------------------------------------------------------------
(* What stays when the card was full or a move has failed.                 *)
LEMMA MoveFailsStep ==
  ASSUME Base, Loose, MoveFails, ~torn', pc' # "closed"
  PROVE  Loose'
<1>1. /\ pc = "crunching" /\ pc' = "flushed" /\ ~crunch.shifted
      /\ UNCHANGED <<file, entries, cd>>
  BY DEF MoveFails, Moving, Flushed, Gone, disk
<1>2. crunch.moved = 0 /\ 0 <= crunch.adjust /\ crunch.adjust \in Int
  BY <1>1 DEF Loose, InCrunch, Base, CrunchOK, CrunchType
<1>3. Indices' = Indices
  BY <1>1 DEF Indices
<1>4. \A k \in Indices : /\ Reach(k)' = entries[k].off
                         /\ entries[k].off \in Int /\ k \in Nat
                         /\ entries[k].span \in Nat
                         /\ Reach(k) = entries[k].off \/
                              Reach(k) = entries[k].off + crunch.adjust
                         /\ k < crunch.i \/ Reach(k) = entries[k].off
                         /\ k < crunch.i =>
                              Reach(k) = entries[k].off + crunch.adjust
  BY <1>1, EntryTyped DEF Reach, Shift, Base, Indices
<1>5. ASSUME NEW k \in Indices
      PROVE  /\ 0 <= entries[k].off /\ entries[k].off + entries[k].span <= cd
             /\ \A m \in Indices :
                  k < m => entries[k].off + entries[k].span <= entries[m].off
  <2>1. /\ entries[k].off \in Int /\ entries[k].span \in Nat /\ k \in Nat
        /\ cd \in Int /\ crunch.i \in Nat
    BY <1>4 DEF Base, MemoryOK, CrunchOK, CrunchType
  <2>2. 0 <= entries[k].off /\ Reach(k) + entries[k].span <= cd
    BY DEF Loose, Ordered
  <2>3. entries[k].off + entries[k].span <= cd
    BY <1>2, <1>4, <2>1, <2>2
  <2>4. ASSUME NEW m \in Indices, k < m
        PROVE  entries[k].off + entries[k].span <= entries[m].off
    <3>1. Reach(k) + entries[k].span <= Reach(m)
      BY <2>4 DEF Loose, Ordered
    <3>2. entries[m].off \in Int /\ m \in Nat
      BY <1>4
    <3>3. CASE m < crunch.i
      <4>1. Reach(m) = entries[m].off + crunch.adjust
        BY <1>4, <3>3
      <4>2. k < crunch.i
        BY <2>1, <2>4, <3>2, <3>3
      <4>3. Reach(k) = entries[k].off + crunch.adjust
        BY <1>4, <4>2
      <4> QED  BY <1>2, <2>1, <3>1, <3>2, <4>1, <4>3
    <3>4. CASE ~(m < crunch.i)
      <4>1. Reach(m) = entries[m].off
        BY <1>4, <3>4
      <4> QED  BY <1>2, <1>4, <2>1, <3>1, <3>2, <4>1
    <3> QED  BY <3>3, <3>4
  <2> QED  BY <2>2, <2>3, <2>4
<1>6. Ordered'
  BY <1>1, <1>3, <1>4, <1>5 DEF Ordered, Loose
<1>7. Stays'
  <2>1. ASSUME NEW i \in Indices, ~entries[i].deleted,
               NEW k \in 0 .. entries[i].span - 1,
               entries[i].off + k \in Offsets
        PROVE  file[entries[i].off + k] = Unit(entries[i], k)
    BY <1>2, <2>1, StaysIs DEF Loose
  <2>2. \A i, k : Place(i, k)' = entries[i].off + k
    BY <1>1 DEF Place
  <2> QED  BY <1>1, <1>3, <2>1, <2>2 DEF Stays
<1>8. Below' /\ InCrunch' /\ Beyond' /\ Written'
  BY <1>1 DEF Loose, Below, InCrunch, Beyond, Written
<1> QED  BY <1>6, <1>7, <1>8 DEF Loose

LEMMA BeyondStep ==
  ASSUME Base, Beyond, Inner, ~torn'
  PROVE  Beyond'
<1>1. ASSUME NEW n \in Names, NEW d \in Contents, NEW z \in BOOLEAN,
             BeginAdd(n, d, z)
      PROVE  Beyond'
  <2>1. broken' = (broken \/ cd \notin Offsets) /\ torn' = (torn \/ broken)
        /\ cd' = cd
    BY <1>1 DEF BeginAdd
  <2> QED  BY <2>1 DEF Beyond
<1>2. CASE CopyUnit \/ StoreInstead
  BY <1>2 DEF CopyUnit, StoreInstead, memory, history, Beyond
<1>3. CASE UNCHANGED vars
  BY <1>3 DEF vars, memory, history, Beyond
<1>4. CASE /\ ~UNCHANGED vars /\ ~CopyUnit /\ ~StoreInstead
           /\ ~\E n \in Names, d \in Contents, z \in BOOLEAN :
                 BeginAdd(n, d, z)
  <2>1. pc' # "adding"
    BY <1>4 DEF Inner, Quiet, AddRefused, CopyFails, WriteCd, Truncate,
       Flushed, Gone, FinishAdd, Appended, Remove, Flush, CrunchDeleted,
       CrunchKept, MoveUnit, Moving, Moved, CrunchEnd
  <2> QED  BY <2>1 DEF Beyond
<1> QED  BY <1>1, <1>2, <1>3, <1>4

(* The steps of an archive that was not given up.                          *)
LEMMA KeptSteps ==
  ASSUME Base, Base', [Next]_vars, pc # "closed", Kept'
  PROVE  Kept /\ (Inner \/ MoveFails)
<1>1. pc' # "closed" /\ ~torn' /\ (dirty' \/ ~broken')
  BY DEF Kept
<1>2. CASE ~broken'
  <2>1. Inner /\ ~broken
    BY <1>1, <1>2, InnerSteps, InnerUnbroken
  <2> QED  BY <2>1 DEF Kept, Base, HistoryOK
<1>3. CASE broken' /\ dirty'
  <2>1. ~WriteFails(TRUE) /\ ~WriteFails(FALSE) /\ ~(~closing /\ Truncate)
    BY <1>3 DEF WriteFails, Truncate, Flushed, Gone
  <2>2. ~OpenNew /\ ~OpenOld /\ ~OpenFails /\ ~Unlink /\ ~CompressStops
        /\ ~CloseClean /\ ~Crash /\ ~Truncate
    <3>1. ~OpenNew /\ ~OpenOld /\ ~OpenFails /\ ~Unlink
      BY DEF OpenNew, OpenOld, OpenFails, Unlink
    <3>2. ~CompressStops
      BY <1>1 DEF CompressStops
    <3>3. ~CloseClean /\ ~Crash
      BY <1>1 DEF CloseClean, Crash, Gone
    <3>4. ~Truncate
      BY <1>1, <2>1 DEF Truncate, Flushed, Gone
    <3> QED  BY <3>1, <3>2, <3>3, <3>4
  <2>3. ~\E cut \in BOOLEAN : WriteFails(cut)
    BY <2>1
  <2>4. Inner \/ MoveFails
    BY <2>2, <2>3 DEF Next, Add, Crunching, Writing, Inner, Quiet
  <2>5. ASSUME NEW n \in Names, NEW d \in Contents, NEW z \in BOOLEAN,
               BeginAdd(n, d, z)
        PROVE  Kept
    BY <1>1, <2>5 DEF BeginAdd, Kept
  <2>6. ASSUME NEW n \in Names, Remove(n)
        PROVE  Kept
    BY <1>1, <2>6 DEF Remove, Kept
  <2>7. CASE MoveFails
    BY <1>1, <1>3, <2>7
       DEF MoveFails, Moving, Flushed, Gone, Kept, Base, ControlOK
  <2>8. CASE AddRefused \/ CopyUnit \/ CopyFails \/ StoreInstead \/ WriteCd
             \/ FinishAdd
    <3>1. torn' = torn /\ dirty' = dirty
      BY <2>8 DEF AddRefused, CopyUnit, CopyFails, StoreInstead, WriteCd,
         FinishAdd, memory, history
    <3>2. ~torn /\ dirty
      BY <1>1, <1>3, <3>1, Zenon
    <3> QED  BY <2>4, <3>2 DEF Kept
  <2>9. CASE CrunchDeleted \/ CrunchKept \/ MoveUnit \/ Moved \/ CrunchEnd
             \/ \E b \in BOOLEAN : Flush(b)
    <3>1. torn' = torn /\ dirty' = dirty
      BY <2>9 DEF CrunchDeleted, CrunchKept, MoveUnit, Moved, CrunchEnd,
         Flush, memory, history
    <3>2. ~torn /\ dirty
      BY <1>1, <1>3, <3>1, Zenon
    <3> QED  BY <2>4, <3>2 DEF Kept
  <2>10. CASE UNCHANGED vars
    <3>1. torn' = torn /\ dirty' = dirty
      BY <2>10 DEF vars, memory, history
    <3>2. ~torn /\ dirty
      BY <1>1, <1>3, <3>1, Zenon
    <3> QED  BY <2>4, <3>2 DEF Kept
  <2> QED
    BY <2>2, <2>4, <2>5, <2>6, <2>7, <2>8, <2>9, <2>10 DEF Inner, Quiet
<1> QED  BY <1>1, <1>2, <1>3 DEF Base, HistoryOK

LEMMA SaneIsLoose == Sane /\ ~broken => Loose
BY DEF Sane, Placed, InWrite, Loose, Beyond

LEMMA SafeStep ==
  ASSUME Base, Base', Layout, Layout', Saved, Safe, [Next]_vars
  PROVE  Safe'
<1> SUFFICES ASSUME Kept' PROVE Loose'
  BY DEF Safe
<1>1. CASE pc # "closed"
  <2>1. Kept /\ Loose /\ (Inner \/ MoveFails) /\ ~torn' /\ pc' # "closed"
    BY <1>1, KeptSteps DEF Safe, Kept
  <2>2. CASE MoveFails
    BY <2>1, <2>2, MoveFailsStep
  <2>3. CASE Inner
    <3>1. Copied
      BY <1>1, <2>1, CopiedIs DEF Layout
    <3>2. Ordered /\ InCrunch /\ Beyond /\ Written /\ Stays /\ Below
      BY <2>1 DEF Loose
    <3>3. Ordered' /\ InCrunch' /\ Beyond' /\ Written' /\ Stays' /\ Below'
      BY <2>1, <2>3, <3>1, <3>2, OrderedStep, InCrunchStep, BeyondStep,
         WrittenStep, StaysStep, BelowStep
    <3> QED  BY <3>3 DEF Loose
  <2> QED  BY <2>1, <2>2, <2>3
<1>2. CASE pc = "closed"
  <2>1. OpenNew \/ OpenOld
    BY <1>2 DEF Kept, Next, Add, Crunching, Writing, vars, OpenFails,
       AddRefused, BeginAdd, CopyUnit, CopyFails, StoreInstead, FinishAdd,
       CompressStops, Remove, Flush, CloseClean, CrunchDeleted, CrunchKept,
       MoveUnit, Moving, Moved, MoveFails, CrunchEnd, WriteCd, Truncate,
       WriteFails, Crash, Unlink
  <2>2. CASE ~broken'
    BY <2>1, <2>2, OpenedIsSane, SaneIsLoose DEF Loose, Sane, Placed, InWrite,
       Beyond
  <2>3. CASE broken'
    <3>1. OpenNew
      BY <1>2, <2>1, <2>3 DEF OpenOld, Kept, Base, ControlOK
    <3>2. pc' = "open" /\ entries' = <<>> /\ cd' = 0
      BY <1>2, <3>1 DEF OpenNew, Base, ControlOK
    <3>3. Indices' = {}
      BY <3>2 DEF Indices
    <3> QED  BY <3>2, <3>3, ZipAssumption DEF Loose, Ordered, InCrunch,
             Beyond, Written, Stays, Below, Offsets
  <2> QED  BY <2>2, <2>3
<1> QED  BY <1>1, <1>2

------------------------------------------------------------------------------
(* The records of the directory that are in the file.                      *)
LEMMA CdesAre ==
  ASSUME NEW f \in [Offsets -> CellType], NEW e \in Cdes(f)
  PROVE  /\ e.off \in Int /\ e.span \in Nat \ {0}
         /\ \E x \in Offsets : f[x] = e /\ f[x].kind = "cde"
<1>1. PICK x \in Offsets : f[x] = e /\ f[x].kind = "cde"
  BY DEF Cdes
<1>2. Entry(e) \in EntryType
  BY <1>1, KindsDiffer
<1> QED  BY <1>1, <1>2 DEF Entry, EntryType

LEMMA HeldRecords ==
  ASSUME NEW f \in [Offsets -> CellType], NEW E \in Seq(EntryType),
         NEW c \in Int, Holds(f, E, c), NEW e \in Cdes(f)
  PROVE  /\ Whole(f, e) /\ End(e) <= c
         /\ \A k \in 1 .. Len(E) : Spares(e, E[k].off)
<1> DEFINE n == Len(E)
<1>1. PICK x \in Offsets : f[x] = e /\ f[x].kind = "cde"
  BY CdesAre
<1>2. n \in Nat /\ x \in Int /\ c >= 0 /\ c + n \in Offsets
  BY DEF Holds, Offsets
<1>3. x >= c /\ x <= c + n
  BY <1>1, <1>2, RecordsAre DEF Holds
<1>4. x # c + n
  BY <1>1, RecordsAre DEF Holds
<1> DEFINE i == x - c + 1
<1>5. i \in 1 .. n /\ c + i - 1 = x
  BY <1>2, <1>3, <1>4
<1>6. e = Cde(E[i])
  BY <1>1, <1>5 DEF Holds
<1>7. e.off = E[i].off /\ e.span = E[i].span
      /\ \A k : Unit(e, k) = Unit(E[i], k)
  BY <1>6 DEF Cde, Unit
<1>8. /\ E[i].off >= 0 /\ End(E[i]) <= c
      /\ \A k \in 0 .. E[i].span - 1 : f[E[i].off + k] = Unit(E[i], k)
      /\ \A k, m \in 1 .. n : k < m => End(E[k]) <= E[m].off
  BY <1>5 DEF Holds
<1>9. \A k \in 1 .. n :
        E[k].off \in Int /\ E[k].span \in Nat \ {0} /\ k \in Nat
  <2>1. \A k \in 1 .. n : E[k] \in EntryType
    OBVIOUS
  <2> QED  BY <2>1 DEF EntryType
<1> HIDE DEF i, n
<1>10. Whole(f, e)
  <2>1. ASSUME NEW k \in 0 .. e.span - 1
        PROVE  e.off + k \in Offsets /\ f[e.off + k] = Unit(e, k)
    <3>1. k \in 0 .. E[i].span - 1 /\ f[e.off + k] = Unit(e, k)
      BY <1>7, <1>8
    <3>2. E[i].off \in Int /\ E[i].span \in Nat
      BY <1>5, <1>9
    <3>3. E[i].off + k >= 0 /\ E[i].off + k < c
      BY <1>8, <3>1, <3>2 DEF End
    <3> QED  BY <1>2, <1>7, <3>1, <3>2, <3>3, ZipAssumption DEF Offsets
  <2> QED  BY <2>1 DEF Whole
<1>11. ASSUME NEW k \in 1 .. n
       PROVE  Spares(e, E[k].off)
  <2>1. i < k \/ i = k \/ k < i
    BY <1>5, <1>9
  <2>2. CASE i < k
    BY <1>5, <1>7, <1>8, <2>2 DEF Spares, End
  <2>3. CASE i = k
    BY <1>7, <1>9, <2>3 DEF Spares
  <2>4. CASE k < i
    <3>1. E[k].off + E[k].span <= E[i].off
      BY <1>5, <1>8, <2>4 DEF End
    <3>2. E[k].off \in Int /\ E[k].span \in Nat /\ E[i].off \in Int
      BY <1>5, <1>9
    <3> QED  BY <1>7, <3>1, <3>2 DEF Spares
  <2> QED  BY <2>1, <2>2, <2>3, <2>4
<1> QED  BY <1>7, <1>8, <1>10, <1>11 DEF End, n

(* When the file is cut behind the new directory, no older one is left.    *)
LEMMA CutRecords ==
  ASSUME Base, Loose, Truncate, NEW e \in Cdes(file')
  PROVE  Whole(file', e)
<1> DEFINE n == Len(entries)
<1>1. /\ pc = "writing" /\ crunch.at = n + 1
      /\ file' = Cut(file, cd + crunch.at)
  BY DEF Truncate
<1>2. cd \in Int /\ n \in Nat /\ 0 <= cd
  BY EntryTyped DEF Base, MemoryOK, Loose, Ordered
<1>3. \A x \in Offsets : file'[x] = IF x < cd + n + 1 THEN file[x] ELSE None
  <2>1. cd + crunch.at = cd + n + 1
    BY <1>1, <1>2
  <2> QED  BY <1>1, <2>1 DEF Cut
<1>4. \A j \in 0 .. n :
        /\ cd + j \in Offsets
        /\ file[cd + j] = IF j < n THEN Cde(entries[j + 1])
                          ELSE Eocd(total, cd)
  <2>1. 0 .. crunch.at - 1 = 0 .. n
    BY <1>1, <1>2
  <2> QED  BY <1>1, <2>1 DEF Loose, Written
<1>5. PICK x \in Offsets : file'[x] = e /\ file'[x].kind = "cde"
  BY DEF Cdes
<1>6. x \in Int /\ x < cd + n + 1 /\ file[x] = e /\ file[x].kind = "cde"
  BY <1>3, <1>5, RecordsAre DEF Offsets
<1>7. x >= cd
  BY <1>2, <1>6 DEF Loose, Below
<1> DEFINE j == x - cd
<1>8. j \in 0 .. n /\ cd + j = x
  BY <1>2, <1>6, <1>7
<1> HIDE DEF j
<1>9. j < n /\ e = Cde(entries[j + 1])
  BY <1>4, <1>6, <1>8, RecordsAre
<1>10. j + 1 \in Indices /\ ~entries[j + 1].deleted
  <2>1. j + 1 \in Indices
    BY <1>2, <1>8, <1>9 DEF Indices
  <2> QED  BY <1>1, <2>1 DEF Loose, Written
<1>11. e.off = entries[j + 1].off /\ e.span = entries[j + 1].span
       /\ \A k : Unit(e, k) = Unit(entries[j + 1], k)
  BY <1>9 DEF Cde, Unit
<1>12. ASSUME NEW k \in 0 .. entries[j + 1].span - 1
       PROVE  /\ entries[j + 1].off + k \in Offsets
              /\ file'[entries[j + 1].off + k] = Unit(entries[j + 1], k)
  <2> DEFINE y == entries[j + 1].off + k
  <2>1. y \in Int /\ y >= 0 /\ y < cd
    BY <1>1, <1>10, CellsBelow DEF Loose
  <2>2. n \in 0 .. n /\ cd + n \in Offsets
    BY <1>2, <1>4
  <2>3. y \in Offsets /\ y < cd + n + 1
    BY <1>2, <2>1, <2>2, ZipAssumption DEF Offsets
  <2>4. file[y] = Unit(entries[j + 1], k)
    BY <1>1, <1>10, <2>3, StaysIs DEF Loose
  <2> QED  BY <1>3, <2>3, <2>4
<1> QED  BY <1>11, <1>12 DEF Whole

(* Steps that leave the directory records that are in front of it, when    *)
(* the entries begin where they began or at the old directory.             *)
LEMMA InFrontStays ==
  ASSUME Base, Base', \A e \in Cdes(file) : InFront(e),
         \A x \in Offsets : file'[x] = file[x] \/ file'[x].kind # "cde",
         \A x \in Offsets : x < cd => file'[x] = file[x],
         cd <= cd',
         \A k \in Indices' : entries'[k].off = cd
           \/ \E m \in Indices : entries'[k].off = entries[m].off,
         pc' = "crunching" =>
           \/ Edge' = cd
           \/ \E m \in Indices : Edge' = entries[m].off
           \/ pc = "crunching" /\ Edge' = Edge,
         NEW e \in Cdes(file')
  PROVE  InFront(e)'
<1>1. file \in [Offsets -> CellType] /\ file' \in [Offsets -> CellType]
      /\ cd \in Int /\ cd' \in Int
  BY DEF Base, DiskOK, MemoryOK
<1>2. e.off \in Int /\ e.span \in Nat \ {0}
  BY <1>1, CdesAre
<1>3. e \in Cdes(file)
  BY DEF Cdes
<1>4. /\ Whole(file, e) /\ End(e) <= cd
      /\ \A k \in Indices : Spares(e, entries[k].off)
      /\ pc = "crunching" => Spares(e, Edge)
  BY <1>3 DEF InFront
<1>5. Spares(e, cd)
  BY <1>4 DEF Spares
<1>6. Whole(file', e)
  <2>1. ASSUME NEW k \in 0 .. e.span - 1
        PROVE  e.off + k \in Offsets /\ file'[e.off + k] = Unit(e, k)
    <3>1. e.off + k \in Offsets /\ file[e.off + k] = Unit(e, k)
      BY <1>4 DEF Whole
    <3>2. e.off + k < cd
      BY <1>1, <1>2, <1>4 DEF End
    <3> QED  BY <3>1, <3>2
  <2> QED  BY <2>1 DEF Whole
<1>7. End(e) <= cd'
  BY <1>1, <1>2, <1>4 DEF End
<1>8. \A k \in Indices' : Spares(e, entries'[k].off)
  BY <1>4, <1>5
<1>9. pc' = "crunching" => Spares(e, Edge')
  BY <1>4, <1>5
<1> QED  BY <1>6, <1>7, <1>8, <1>9 DEF InFront, Spares

(* An add writes no record of the directory.                               *)
LEMMA QuietWrites ==
  ASSUME Base, Quiet, pc # "writing"
  PROVE  \A x \in Offsets : file'[x] = file[x] \/ file'[x].kind # "cde"
<1>1. cd \in Int
  BY DEF Base, MemoryOK
<1>2. CASE AddRefused \/ CopyFails
  BY <1>2 DEF AddRefused, CopyFails, disk
<1>3. ASSUME NEW n \in Names, NEW d \in Contents, NEW z \in BOOLEAN,
             BeginAdd(n, d, z)
      PROVE  \A x \in Offsets : file'[x] = file[x] \/ file'[x].kind # "cde"
  <2>1. file' = Write(file, cd, Unit(copy', 0))
    BY <1>3 DEF BeginAdd
  <2>2. \A x \in Offsets :
          file'[x] = IF x = cd THEN Unit(copy', 0) ELSE file[x]
    BY <1>1, <2>1, WriteIs
  <2> QED  BY <2>2, KindsDiffer
<1>4. CASE CopyUnit \/ StoreInstead
  <2>1. copy.at \in Nat
    BY <1>4 DEF CopyUnit, StoreInstead, Base, CopyOK, CopyType
  <2>2. file' = Write(file, cd + copy.at, Unit(copy, copy.at))
    BY <1>4 DEF CopyUnit, StoreInstead
  <2>3. \A x \in Offsets :
          file'[x] = IF x = cd + copy.at THEN Unit(copy, copy.at) ELSE file[x]
    BY <1>1, <2>1, <2>2, WriteIs
  <2> QED  BY <2>3, KindsDiffer
<1> QED  BY <1>2, <1>3, <1>4 DEF Quiet, WriteCd, Truncate

(* What a crunch that has not moved anything does to the records.          *)
LEMMA DeletedEdge ==
  ASSUME Base, Ordered, InCrunch, CrunchDeleted
  PROVE  /\ \A k \in Indices' :
              \E m \in Indices : entries'[k].off = entries[m].off
         /\ \/ Edge' = cd
            \/ \E m \in Indices : Edge' = entries[m].off
            \/ pc = "crunching" /\ Edge' = Edge
<1> DEFINE i == crunch.i
           gain == Extent(i)
<1>1. /\ i \in Indices /\ i \in Nat /\ gain \in Int /\ cd \in Int
      /\ crunch.adjust \in Int /\ Len(entries) \in Nat
      /\ entries[i].off \in Int /\ i <= Len(entries)
  BY Without, OffsetTyped, EntryTyped
     DEF Base, CrunchOK, CrunchType, MemoryOK, CrunchDeleted
<1>2. /\ pc = "crunching" /\ crunch'.i = i
      /\ crunch'.adjust = crunch.adjust + gain /\ cd' = cd
      /\ Len(entries') = Len(entries) - 1
      /\ \A k \in Indices' :
           /\ k \in Indices /\ (k >= i => k + 1 \in Indices)
           /\ entries'[k] = IF k < i THEN entries[k] ELSE entries[k + 1]
           /\ k \in Nat
  BY Without DEF Indices
<1>3. \A k \in Indices' : \E m \in Indices : entries'[k].off = entries[m].off
  BY <1>1, <1>2
<1> DEFINE next == IF i = Len(entries) THEN cd ELSE entries[i + 1].off
<1>4. entries[i].off = 0 => gain = 0
  BY <1>1, <1>2, ExtentCovers
<1>5. entries[i].off # 0 => entries[i].off + gain = next
  BY <1>1, <1>2, ExtentCovers
<1>6. entries[i].off = 0 => crunch.adjust = 0
  BY <1>1, <1>2 DEF InCrunch
<1>7. next \in Int /\ (i # Len(entries) => i + 1 \in Indices)
  BY <1>1, EntryTyped DEF Base, Indices
<1> HIDE DEF gain
<1>8. Edge' = next - (crunch.adjust + gain)
  <2>1. CASE i = Len(entries)
    BY <1>1, <1>2, <2>1 DEF Edge
  <2>2. CASE i # Len(entries)
    <3>1. i \in Indices' /\ i <= Len(entries') /\ ~(i < i)
      BY <1>1, <1>2, <2>2 DEF Indices
    <3>2. entries'[i] = entries[i + 1]
      BY <1>1, <1>2, <3>1
    <3> QED  BY <1>2, <2>2, <3>1, <3>2 DEF Edge
  <2> QED  BY <2>1, <2>2
<1>9. Edge = entries[i].off - crunch.adjust
  BY <1>1 DEF Edge
<1> HIDE DEF next
<1>10. CASE entries[i].off # 0
  <2>1. next - (crunch.adjust + gain) = entries[i].off - crunch.adjust
    BY <1>1, <1>5, <1>7, <1>10
  <2> QED  BY <1>2, <1>3, <1>8, <1>9, <2>1
<1>11. CASE entries[i].off = 0
  <2>1. Edge' = next
    BY <1>4, <1>6, <1>7, <1>8, <1>11
  <2>2. next = cd \/ \E m \in Indices : next = entries[m].off
    <3>1. CASE i = Len(entries)
      BY <3>1 DEF next
    <3>2. CASE i # Len(entries)
      BY <1>7, <3>2 DEF next
    <3> QED  BY <3>1, <3>2
  <2>3. Edge' = cd \/ \E m \in Indices : Edge' = entries[m].off
    BY <2>1, <2>2
  <2> QED  BY <1>3, <2>3
<1> QED  BY <1>10, <1>11

LEMMA InFrontSteps ==
  ASSUME Base, Base', Ordered, InCrunch, Inner \/ MoveFails, pc' # "closed",
         pc # "writing", pc' # "writing", ~crunch'.shifted
  PROVE  /\ \A x \in Offsets : file'[x] = file[x] \/ file'[x].kind # "cde"
         /\ \A x \in Offsets : x < cd => file'[x] = file[x]
         /\ cd <= cd'
         /\ \A k \in Indices' : entries'[k].off = cd
              \/ \E m \in Indices : entries'[k].off = entries[m].off
         /\ pc' = "crunching" =>
              \/ Edge' = cd
              \/ \E m \in Indices : Edge' = entries[m].off
              \/ pc = "crunching" /\ Edge' = Edge
<1> DEFINE SameOffsets == \A k \in Indices' : entries'[k].off = cd
                      \/ \E m \in Indices : entries'[k].off = entries[m].off
<1>1. cd \in Int
  BY DEF Base, MemoryOK
<1>2. CASE Quiet
  <2>1. UNCHANGED <<entries, cd>> /\ pc' # "crunching" /\ Indices' = Indices
    BY <1>2, QuietKeeps DEF Indices
  <2> QED  BY <1>1, <1>2, <2>1, QuietBelow, QuietWrites
<1>3. CASE FinishAdd
  <2>1. /\ pc' = "open" /\ copy.at \in Nat \ {0} /\ cd' = cd + copy.at
        /\ file' = Write(file, cd, Unit(copy, 0))
    BY <1>3, With DEF FinishAdd, CopyType
  <2>2. \A x \in Offsets : file'[x] = IF x = cd THEN Unit(copy, 0) ELSE file[x]
    BY <1>1, <2>1, WriteIs
  <2>3. \A k \in Indices' : entries'[k].off = cd
          \/ \E m \in Indices : entries'[k].off = entries[m].off
    BY <1>3, With
  <2> QED  BY <1>1, <2>1, <2>2, <2>3, KindsDiffer
<1>4. ASSUME NEW n \in Names, Remove(n)
      PROVE  /\ UNCHANGED <<file, cd>> /\ pc' # "crunching" /\ SameOffsets
  <2>1. PICK i \in Indices : \A k \in Indices :
          entries'[k] = IF k = i THEN [entries[i] EXCEPT !.deleted = TRUE]
                        ELSE entries[k]
    BY <1>4, Removed
  <2>2. \A k \in Indices : entries'[k].off = entries[k].off
    BY <2>1, EntryTyped DEF Base, EntryType
  <2>3. Indices' = Indices /\ UNCHANGED <<file, cd, pc>> /\ pc = "open"
    BY <1>4, Removed
  <2> QED  BY <2>2, <2>3
<1>5. ASSUME UNCHANGED <<entries, file, cd>>,
             pc' = "crunching" =>
               \/ Edge' = cd
               \/ \E m \in Indices : Edge' = entries[m].off
               \/ pc = "crunching" /\ Edge' = Edge
      PROVE  /\ \A x \in Offsets : file'[x] = file[x]
             /\ cd <= cd' /\ SameOffsets
             /\ pc' = "crunching" =>
                  \/ Edge' = cd
                  \/ \E m \in Indices : Edge' = entries[m].off
                  \/ pc = "crunching" /\ Edge' = Edge
  <2>1. Indices' = Indices /\ cd <= cd'
    BY <1>1, <1>5 DEF Indices
  <2> QED  BY <1>5, <2>1
<1>6. ASSUME NEW b \in BOOLEAN, Flush(b)
      PROVE  /\ UNCHANGED <<entries, file, cd>>
             /\ Edge' = cd \/ \E m \in Indices : Edge' = entries[m].off
  <2>1. /\ UNCHANGED <<entries, file, cd>> /\ crunch'.i = 1
        /\ crunch'.adjust = 0
    BY <1>6 DEF Flush, memory, disk, Idle
  <2>2. Len(entries) \in Nat
        /\ \A m \in Indices : entries[m].off \in Int
    BY EntryTyped DEF Base
  <2>3. CASE Len(entries) >= 1
    <3>1. 1 \in Indices
      BY <2>2, <2>3 DEF Indices
    <3>2. Edge' = entries[1].off - 0
      BY <2>1, <2>2, <2>3 DEF Edge
    <3>3. Edge' = entries[1].off
      BY <2>2, <3>1, <3>2
    <3> QED  BY <2>1, <3>1, <3>3
  <2>4. CASE ~(Len(entries) >= 1)
    <3>1. Edge' = cd - 0
      BY <2>1, <2>2, <2>4 DEF Edge
    <3> QED  BY <1>1, <2>1, <3>1
  <2> QED  BY <2>3, <2>4
<1>7. ASSUME CrunchKept
      PROVE  /\ UNCHANGED <<entries, file, cd>>
             /\ Edge' = cd \/ \E m \in Indices : Edge' = entries[m].off
  <2>1. /\ UNCHANGED <<entries, file, cd>> /\ crunch'.i = crunch.i + 1
        /\ crunch'.adjust = crunch.adjust
    BY <1>7 DEF CrunchKept, memory, disk, Base, CrunchOK, CrunchType
  <2>2. /\ Len(entries) \in Nat /\ crunch.adjust = 0 /\ crunch.i \in Nat
        /\ \A m \in Indices : entries[m].off \in Int
    BY <1>7, EntryTyped, KeptStays DEF Base, CrunchOK, CrunchType
  <2> DEFINE i == crunch.i + 1
  <2>3. CASE i <= Len(entries)
    <3>1. i \in Indices
      BY <2>2, <2>3 DEF Indices
    <3>2. Edge' = entries[i].off - 0
      BY <2>1, <2>2, <2>3 DEF Edge
    <3>3. Edge' = entries[i].off
      BY <2>2, <3>1, <3>2
    <3> QED  BY <2>1, <3>1, <3>3
  <2>4. CASE ~(i <= Len(entries))
    <3>1. Edge' = cd - 0
      BY <2>1, <2>2, <2>4 DEF Edge
    <3> QED  BY <1>1, <2>1, <3>1
  <2> QED  BY <2>3, <2>4
<1>8. CASE CrunchDeleted
  <2>1. UNCHANGED <<file, cd>>
    BY <1>8, Without
  <2> QED  BY <1>1, <1>8, <2>1, DeletedEdge
<1>9. ~MoveUnit
  BY DEF MoveUnit, Base, CrunchOK, CrunchType
<1>10. ~Moved
  <2> SUFFICES ASSUME Moved PROVE FALSE
    OBVIOUS
  <2>1. /\ pc = "crunching" /\ Extent(crunch.i) # 0
        /\ crunch.moved = Extent(crunch.i) /\ crunch.moved \in Nat
        /\ crunch'.shifted = crunch.shifted
    BY DEF Moved, Moves, Base, CrunchOK, CrunchType
  <2>2. crunch.moved > 0
    BY <2>1
  <2> QED  BY <2>1, <2>2 DEF InCrunch
<1>11. ASSUME MoveFails
       PROVE  UNCHANGED <<entries, file, cd>> /\ pc' # "crunching"
  BY <1>11 DEF MoveFails, Flushed, Gone, disk
<1>12. ASSUME UNCHANGED vars
       PROVE  /\ UNCHANGED <<entries, file, cd>>
              /\ pc' = "crunching" => pc = "crunching" /\ Edge' = Edge
  BY <1>12 DEF vars, disk, memory, locals, Edge
<1>13. CASE CrunchEnd
  BY <1>13 DEF CrunchEnd
<1>14. CASE \E n \in Names : Remove(n)
  BY <1>1, <1>4, <1>14
<1>15. CASE (\E b \in BOOLEAN : Flush(b)) \/ CrunchKept \/ MoveFails
              \/ UNCHANGED vars
  BY <1>5, <1>6, <1>7, <1>11, <1>12, <1>15
<1> QED
  BY <1>2, <1>3, <1>8, <1>9, <1>10, <1>13, <1>14, <1>15 DEF Inner

LEMMA RecordedWrites ==
  ASSUME Base, Base', Loose, pc = "writing",
         \A e \in Cdes(file) : Overwritten(e), WriteCd, NEW e \in Cdes(file')
  PROVE  Overwritten(e)'
<1> DEFINE o == cd + crunch.at
           n == Len(entries)
           c == IF crunch.at < n THEN Cde(entries[crunch.at + 1])
                ELSE Eocd(total, cd)
<1>1. /\ o \in Offsets /\ file' = Write(file, o, c) /\ cd' = cd
      /\ crunch'.at = crunch.at + 1 /\ crunch.at <= n
  BY DEF WriteCd, memory, Base, CrunchOK, CrunchType
<1>2. /\ cd \in Int /\ crunch.at \in Nat /\ n \in Nat /\ o \in Int /\ o >= cd
      /\ file \in [Offsets -> CellType] /\ file' \in [Offsets -> CellType]
  BY EntryTyped DEF Base, MemoryOK, CrunchOK, CrunchType, DiskOK
<1> HIDE DEF c
<1>3. \A x \in Offsets : file'[x] = IF x = o THEN c ELSE file[x]
  BY <1>1, <1>2, WriteIs
<1>4. e.off \in Int /\ e.span \in Nat \ {0}
  BY <1>2, CdesAre
<1>5. PICK x \in Offsets : file'[x] = e /\ file'[x].kind = "cde"
  BY DEF Cdes
<1>6. ASSUME Whole(file, e), End(e) <= cd \/ e.off > o
      PROVE  Whole(file', e)
  <2>1. ASSUME NEW k \in 0 .. e.span - 1
        PROVE  e.off + k \in Offsets /\ file'[e.off + k] = Unit(e, k)
    <3>1. e.off + k \in Offsets /\ file[e.off + k] = Unit(e, k)
      BY <1>6 DEF Whole
    <3>2. e.off + k # o
      BY <1>2, <1>4, <1>6 DEF End
    <3> QED  BY <1>3, <3>1, <3>2
  <2> QED  BY <2>1 DEF Whole
<1>7. CASE x = o
  <2>1. e = c /\ e.kind = "cde"
    BY <1>3, <1>5, <1>7
  <2> DEFINE j == crunch.at + 1
  <2>2. crunch.at < n /\ e = Cde(entries[j])
    BY <2>1, RecordsAre DEF c
  <2>3. j \in Indices /\ ~entries[j].deleted
    <3>1. j \in Indices
      BY <1>2, <2>2 DEF Indices
    <3> QED  BY <3>1 DEF Loose, Written
  <2> HIDE DEF j
  <2>4. e.off = entries[j].off /\ e.span = entries[j].span
        /\ \A k : Unit(e, k) = Unit(entries[j], k)
    BY <2>2 DEF Cde, Unit
  <2>5. \A k \in 0 .. entries[j].span - 1 :
          entries[j].off + k >= 0 /\ entries[j].off + k < cd
    BY <2>3, CellsBelow DEF Loose
  <2>6. ASSUME NEW k \in 0 .. e.span - 1
        PROVE  e.off + k \in Offsets /\ file[e.off + k] = Unit(e, k)
    <3>1. e.off + k \in Offsets
      BY <1>1, <1>2, <1>4, <2>4, <2>5, ZipAssumption DEF Offsets
    <3>2. file[entries[j].off + k] = Unit(entries[j], k)
      BY <2>3, <2>4, <3>1, StaysIs DEF Loose
    <3> QED  BY <2>4, <3>1, <3>2
  <2>7. End(e) <= cd
    <3>1. Reach(j) = entries[j].off
      BY <2>3, EntryTyped DEF Reach, Shift, Base
    <3> QED  BY <2>3, <2>4, <3>1 DEF Loose, Ordered, End
  <2>8. Whole(file', e)
    BY <1>6, <2>6, <2>7 DEF Whole
  <2> QED  BY <1>1, <2>7, <2>8 DEF Overwritten
<1>8. CASE x # o
  <2>1. Overwritten(e)
    BY <1>3, <1>5, <1>8 DEF Cdes
  <2>2. CASE End(e) <= cd /\ Whole(file, e)
    BY <1>1, <1>6, <2>2 DEF Overwritten
  <2>3. CASE e.off >= cd /\ e.off < o
    BY <1>1, <1>2, <1>4, <2>3 DEF Overwritten
  <2>4. CASE e.off >= cd /\ e.off = o
    BY <1>1, <1>2, <1>4, <2>4 DEF Overwritten
  <2>5. CASE e.off >= cd /\ e.off > o /\ Whole(file, e)
    BY <1>1, <1>6, <2>5 DEF Overwritten
  <2> QED
    BY <1>2, <1>4, <2>1, <2>2, <2>3, <2>4, <2>5 DEF Overwritten
<1> QED  BY <1>7, <1>8

(* What is opened, and what a flush has finished.                          *)
LEMMA HeldInFront ==
  ASSUME Base', Holds(file', entries', cd'), pc' \in {"open", "flushed"},
         NEW e \in Cdes(file')
  PROVE  InFront(e)'
<1>1. /\ file' \in [Offsets -> CellType] /\ entries' \in Seq(EntryType)
      /\ cd' \in Int
  BY DEF Base, DiskOK, MemoryOK
<1>2. /\ Whole(file', e) /\ End(e) <= cd'
      /\ \A k \in 1 .. Len(entries') : Spares(e, entries'[k].off)
  BY <1>1, HeldRecords
<1> QED  BY <1>2 DEF InFront, Indices, Spares

LEMMA RecordedStep ==
  ASSUME Base, Base', Layout, Saved, Saved', Safe, Recorded, [Next]_vars
  PROVE  Recorded'
<1> SUFFICES ASSUME Kept', ~crunch'.shifted, NEW e \in Cdes(file')
             PROVE  IF pc' = "writing" THEN Overwritten(e)' ELSE InFront(e)'
  BY DEF Recorded
<1>1. CASE pc = "closed"
  <2>1. OpenNew \/ OpenOld
    BY <1>1 DEF Kept, Next, Add, Crunching, Writing, vars, OpenFails,
       AddRefused, BeginAdd, CopyUnit, CopyFails, StoreInstead, FinishAdd,
       CompressStops, Remove, Flush, CloseClean, CrunchDeleted, CrunchKept,
       MoveUnit, Moving, Moved, MoveFails, CrunchEnd, WriteCd, Truncate,
       WriteFails, Crash, Unlink
  <2>2. ~OpenNew
    BY DEF OpenNew, Base, DiskOK, Cdes, None
  <2>3. pc' = "open" /\ ~broken' /\ Holds(file', entries', cd')
    <3>1. OpenOld /\ pc' = "open"
      BY <2>1, <2>2 DEF OpenOld
    <3>2. ~dirty'
      BY <1>1, <3>1 DEF OpenOld, Base, ControlOK
    <3>3. ~broken'
      BY <3>2 DEF Kept
    <3> QED  BY <3>1, <3>2, <3>3 DEF Saved
  <2> QED  BY <2>3, HeldInFront
<1>2. CASE pc # "closed"
  <2>1. Kept /\ Loose /\ (Inner \/ MoveFails) /\ ~torn' /\ pc' # "closed"
    BY <1>2, KeptSteps DEF Safe, Kept
  <2>2. Ordered /\ InCrunch /\ Written
    BY <2>1 DEF Loose
  <2>3. ~crunch.shifted \/ (~closing /\ Truncate)
    <3>1. CASE pc \notin {"crunching", "writing"}
      BY <3>1 DEF Base, CrunchOK, Idle
    <3>2. CASE MoveFails
      BY <2>1, <3>2 DEF MoveFails
    <3>3. CASE UNCHANGED vars
      BY <3>3 DEF vars, locals
    <3>4. CASE WriteCd \/ MoveUnit \/ Moved \/ CrunchEnd \/ CrunchDeleted
               \/ CrunchKept
      BY <3>4 DEF WriteCd, MoveUnit, Moved, CrunchEnd, CrunchDeleted,
         CrunchKept, locals, Base, CrunchOK, CrunchType
    <3> QED
      BY <2>1, <3>1, <3>2, <3>3, <3>4 DEF Inner, Quiet, AddRefused, BeginAdd,
         CopyUnit, CopyFails, StoreInstead, FinishAdd, Remove, Flush
  <2>4. CASE ~closing /\ Truncate
    <3>1. pc' = "flushed" /\ ~dirty'
      BY <2>4 DEF Truncate, Flushed
    <3>2. ~broken'
      BY <3>1 DEF Kept
    <3>3. Holds(file', entries', cd')
      BY <3>1, <3>2 DEF Saved
    <3> QED  BY <3>1, <3>3, HeldInFront
  <2>5. ASSUME ~(~closing /\ Truncate)
        PROVE  /\ ~crunch.shifted
               /\ pc = "writing" => \A d \in Cdes(file) : Overwritten(d)
               /\ pc # "writing" => \A d \in Cdes(file) : InFront(d)
    BY <2>1, <2>3, <2>5 DEF Recorded
  <2>6. CASE WriteCd
    <3>1. pc = "writing" /\ pc' = "writing" /\ crunch.at <= Len(entries)
      BY <2>6 DEF WriteCd
    <3>2. crunch.at \in Nat /\ Len(entries) \in Nat
      BY EntryTyped DEF Base, CrunchOK, CrunchType
    <3>3. ~Truncate
      <4>1. crunch.at # Len(entries) + 1
        BY <3>1, <3>2
      <4> QED  BY <4>1 DEF Truncate
    <3>4. \A d \in Cdes(file) : Overwritten(d)
      BY <2>5, <3>1, <3>3
    <3>5. Overwritten(e)'
      BY <2>1, <2>6, <3>1, <3>4, RecordedWrites
    <3> QED  BY <3>1, <3>5
  <2>7. CASE CrunchEnd
    <3>1. /\ pc = "crunching" /\ pc' = "writing" /\ ~Truncate
          /\ cd' = cd - crunch.adjust /\ file' = file /\ crunch' = crunch
          /\ crunch.i > Len(entries)
      BY <2>7 DEF CrunchEnd, Truncate, disk, locals
    <3>2. InFront(e)
      BY <2>5, <3>1
    <3>3. Edge = cd'
      BY <3>1, EntryTyped DEF Edge, Base, CrunchOK, CrunchType
    <3>4. crunch.at = 0 /\ cd' \in Int /\ e.off \in Int
      BY <2>2, <3>1, CdesAre DEF InCrunch, Base, MemoryOK, DiskOK
    <3>5. Whole(file, e) /\ Spares(e, cd')
      BY <3>1, <3>2, <3>3 DEF InFront
    <3> QED  BY <3>1, <3>5 DEF Overwritten, Spares
  <2>8. CASE UNCHANGED vars
    <3>1. UNCHANGED <<file, pc, entries, cd, crunch>> /\ e \in Cdes(file)
      BY <2>8 DEF vars, disk, memory, locals
    <3>2. ~Truncate \/ closing
      BY <2>8, EntryTyped
         DEF vars, Truncate, Flushed, Gone
    <3>3. IF pc = "writing" THEN Overwritten(e) ELSE InFront(e)
      BY <2>5, <3>1, <3>2
    <3> QED
      BY <3>1, <3>3 DEF Overwritten, InFront, Edge, Indices
  <2>9. CASE /\ pc # "writing" /\ pc' # "writing"
             /\ Inner \/ MoveFails
    <3>1. (\A d \in Cdes(file) : InFront(d)) /\ ~crunch.shifted
      BY <2>5, <2>9 DEF Truncate
    <3>2. /\ \A x \in Offsets : file'[x] = file[x] \/ file'[x].kind # "cde"
          /\ \A x \in Offsets : x < cd => file'[x] = file[x]
          /\ cd <= cd'
          /\ \A k \in Indices' : entries'[k].off = cd
               \/ \E m \in Indices : entries'[k].off = entries[m].off
          /\ pc' = "crunching" =>
               \/ Edge' = cd
               \/ \E m \in Indices : Edge' = entries[m].off
               \/ pc = "crunching" /\ Edge' = Edge
      BY <2>1, <2>2, <2>9, InFrontSteps
    <3> QED  BY <2>9, <3>1, <3>2, InFrontStays
  <2>10. CASE /\ ~(~closing /\ Truncate) /\ ~WriteCd /\ ~CrunchEnd
              /\ ~UNCHANGED vars
    <3>1. pc # "writing" /\ pc' # "writing"
      BY <2>1, <2>10 DEF Inner, Quiet, AddRefused, BeginAdd, CopyUnit,
         CopyFails, StoreInstead, FinishAdd, Appended, Remove, Flush,
         CrunchDeleted, CrunchKept, MoveUnit, Moving, Moved, MoveFails,
         Flushed, Gone
    <3> QED  BY <2>1, <2>9, <3>1
  <2> QED  BY <2>4, <2>6, <2>7, <2>8, <2>10
<1> QED  BY <1>1, <1>2

------------------------------------------------------------------------------
(* A record whose header is in the file describes the entry there.         *)
LEMMA RecordedIsRight ==
  ASSUME Base, Safe, Recorded, Kept
  PROVE  Right
<1> SUFFICES ASSUME ~crunch.shifted, NEW e \in Cdes(file),
                    IsHeader(file, e.off)
             PROVE  Whole(file, e)
  BY DEF Right
<1>1. CASE pc # "writing"
  BY <1>1 DEF Recorded, InFront
<1>2. CASE pc = "writing"
  <2>1. Overwritten(e)
    BY <1>2 DEF Recorded
  <2>2. CASE e.off >= cd /\ e.off < cd + crunch.at
    <3> DEFINE j == e.off - cd
    <3>1. /\ e.off \in Int /\ cd \in Int /\ crunch.at \in Nat
      BY CdesAre DEF Base, DiskOK, MemoryOK, CrunchOK, CrunchType
    <3>2. j \in 0 .. crunch.at - 1 /\ cd + j = e.off
      BY <2>2, <3>1
    <3>3. \/ \E d : file[e.off] = Cde(d)
          \/ file[e.off] = Eocd(total, cd)
      BY <1>2, <3>2 DEF Safe, Loose, Written
    <3>4. file[e.off].kind # "unit"
      BY <3>3, RecordsAre
    <3> QED  BY <3>4 DEF IsHeader
  <2> QED  BY <2>1, <2>2 DEF Overwritten
<1> QED  BY <1>1, <1>2

(* The file is cut where the writing of the directory has come to.         *)
LEMMA CutIsRight ==
  ASSUME Base, Base', Safe, Recorded, NEW cut \in BOOLEAN, WriteFails(cut),
         ~torn', NEW e \in Cdes(file'), IsHeader(file', e.off)
  PROVE  Whole(file', e)
<1>1. /\ pc = "writing" /\ ~crunch.shifted /\ ~torn
      /\ file' = Cut(file, cd + crunch.at) \/ file' = file
  BY DEF WriteFails
<1>2. Kept
  BY <1>1 DEF Kept, Base, ControlOK
<1>3. Right
  BY <1>2, RecordedIsRight
<1>4. CASE file' = file
  BY <1>1, <1>3, <1>4 DEF Right
<1>5. CASE file' = Cut(file, cd + crunch.at)
  <2> DEFINE o == cd + crunch.at
  <2>1. /\ cd \in Int /\ crunch.at \in Nat /\ o \in Int
        /\ file' \in [Offsets -> CellType]
    BY DEF Base, MemoryOK, CrunchOK, CrunchType, DiskOK
  <2>2. \A x \in Offsets : file'[x] = IF x < o THEN file[x] ELSE None
    BY <1>5 DEF Cut
  <2>3. e.off \in Int /\ e.span \in Nat \ {0}
    BY <2>1, CdesAre
  <2>4. PICK x \in Offsets : file'[x] = e /\ file'[x].kind = "cde"
    BY DEF Cdes
  <2>5. e \in Cdes(file)
    <3>1. file[x] = e /\ file[x].kind = "cde"
      BY <2>2, <2>4, RecordsAre
    <3> QED  BY <3>1 DEF Cdes
  <2>6. IsHeader(file, e.off) /\ e.off < o
    <3>1. e.off \in Offsets /\ file'[e.off].kind = "unit" /\ file'[e.off].k = 0
      BY DEF IsHeader
    <3>2. file'[e.off] = file[e.off] /\ e.off < o
      BY <2>2, <3>1, RecordsAre
    <3> QED  BY <3>1, <3>2 DEF IsHeader
  <2>7. Whole(file, e)
    BY <1>1, <1>3, <2>5, <2>6 DEF Right
  <2>8. End(e) <= cd
    <3>1. Overwritten(e)
      BY <1>1, <1>2, <2>5 DEF Recorded
    <3>2. CASE e.off >= cd
      <4> DEFINE j == e.off - cd
      <4>1. j \in 0 .. crunch.at - 1 /\ cd + j = e.off
        BY <2>1, <2>3, <2>6, <3>2
      <4>2. \/ \E d : file[e.off] = Cde(d)
            \/ file[e.off] = Eocd(total, cd)
        BY <1>1, <1>2, <4>1 DEF Safe, Loose, Written
      <4>3. file[e.off].kind # "unit"
        BY <4>2, RecordsAre
      <4> QED  BY <2>6, <4>3 DEF IsHeader
    <3> QED  BY <3>1, <3>2 DEF Overwritten
  <2>9. ASSUME NEW k \in 0 .. e.span - 1
        PROVE  e.off + k \in Offsets /\ file'[e.off + k] = Unit(e, k)
    <3>1. e.off + k \in Offsets /\ file[e.off + k] = Unit(e, k)
      BY <2>7 DEF Whole
    <3>2. e.off + k < o
      BY <2>1, <2>3, <2>8 DEF End
    <3> QED  BY <2>2, <3>1, <3>2
  <2> QED  BY <2>9 DEF Whole
<1> QED  BY <1>1, <1>4, <1>5

LEMMA GivenUpStep ==
  ASSUME Base, Base', Safe, Recorded, GivenUp, [Next]_vars
  PROVE  GivenUp'
<1> SUFFICES ASSUME ~Kept', ~torn', ~crunch'.shifted, NEW e \in Cdes(file'),
                    IsHeader(file', e.off)
             PROVE  Whole(file', e)
  BY DEF GivenUp, Right
<1>1. CASE Truncate
  <2>1. pc = "writing" /\ torn' = torn
    BY <1>1 DEF Truncate, history
  <2>2. Kept
    BY <2>1 DEF Kept, Base, ControlOK
  <2> QED  BY <1>1, <2>2, CutRecords DEF Safe
<1>2. CASE \E cut \in BOOLEAN : WriteFails(cut)
  BY <1>2, CutIsRight
<1>3. CASE Unlink
  BY <1>3 DEF Unlink, Cdes, None
<1>4. ASSUME pc' # "closed"
      PROVE  ~dirty' /\ broken'
  BY <1>4 DEF Kept, Base, MemoryOK, HistoryOK
<1>5. ASSUME UNCHANGED file, ~torn, ~crunch.shifted
      PROVE  Whole(file', e)
  <2>1. Right
    BY RecordedIsRight DEF GivenUp
  <2> QED  BY <1>5, <2>1 DEF Right
<1>6. CASE OpenNew \/ OpenOld \/ OpenFails \/ AddRefused \/ UNCHANGED vars
  <2>1. UNCHANGED file /\ torn' = torn /\ crunch' = crunch
    BY <1>6 DEF OpenNew, OpenOld, OpenFails, AddRefused, vars, disk, locals,
       history
  <2>2. ~torn /\ ~crunch.shifted
    BY <2>1, Zenon
  <2> QED  BY <1>5, <2>1, <2>2
<1>7. CASE CloseClean \/ Crash \/ MoveFails
  <2>1. UNCHANGED file
    BY <1>7 DEF CloseClean, Crash, MoveFails, disk
  <2>2. ~torn
    <3>1. CASE CloseClean
      <4>1. torn' = torn
        BY <3>1 DEF CloseClean, history
      <4> QED  BY <4>1, Zenon
    <3>2. CASE Crash \/ MoveFails
      BY <3>2 DEF Crash, MoveFails
    <3> QED  BY <1>7, <3>1, <3>2
  <2>3. CASE CloseClean
    <3>1. ~crunch.shifted
      BY <2>3 DEF CloseClean, Base, CrunchOK, Idle
    <3> QED  BY <1>5, <2>1, <2>2, <3>1
  <2>4. CASE Crash \/ MoveFails
    <3>1. ~crunch.shifted
      BY <2>4 DEF Crash, MoveFails
    <3> QED  BY <1>5, <2>1, <2>2, <3>1
  <2> QED  BY <1>7, <2>3, <2>4
<1>8. ~CompressStops
  BY DEF CompressStops
<1>9. ~(\E n \in Names, d \in Contents, z \in BOOLEAN : BeginAdd(n, d, z))
      /\ ~(\E n \in Names : Remove(n))
  <2>1. ASSUME NEW n \in Names, NEW d \in Contents, NEW z \in BOOLEAN
        PROVE  ~BeginAdd(n, d, z)
    BY <1>4 DEF BeginAdd
  <2>2. ASSUME NEW n \in Names
        PROVE  ~Remove(n)
    BY <1>4 DEF Remove
  <2> QED  BY <2>1, <2>2
<1>10. ~CopyUnit /\ ~CopyFails /\ ~StoreInstead /\ ~FinishAdd
  BY <1>4 DEF CopyUnit, CopyFails, StoreInstead, FinishAdd, Appended, memory,
     Base, ControlOK
<1>11. ~(\E b \in BOOLEAN : Flush(b)) /\ ~CrunchDeleted /\ ~CrunchKept
       /\ ~MoveUnit /\ ~Moved /\ ~CrunchEnd /\ ~WriteCd
  BY <1>4 DEF Flush, CrunchDeleted, CrunchKept, MoveUnit, Moving, Moved,
     CrunchEnd, WriteCd, memory, Base, ControlOK
<1> QED
  BY <1>1, <1>2, <1>3, <1>6, <1>7, <1>8, <1>9, <1>10, <1>11
     DEF Next, Add, Crunching, Writing

(* What opens a file (readCentralDir) takes entries from its records, and  *)
(* has looked at their headers.                                            *)
LEMMA RightShows ==
  ASSUME Base, Right
  PROVE  NeverSilentlyWrong
<1> SUFFICES ASSUME pc = "closed", ~torn, NEW p \in Offsets, OpensAt(file, p),
                    NEW i \in 1 .. file[p].total
             PROVE  \A k \in 0 .. Listed(file, p)[i].span - 1 :
                      /\ Listed(file, p)[i].off + k \in Offsets
                      /\ file[Listed(file, p)[i].off + k]
                           = Unit(Listed(file, p)[i], k)
  BY DEF NeverSilentlyWrong
<1> DEFINE c == file[file[p].cd + i - 1]
<1>1. ~crunch.shifted
  BY DEF Base, CrunchOK, Idle
<1>2. c \in Cdes(file) /\ IsHeader(file, c.off)
  BY DEF OpensAt, Cdes
<1>3. Whole(file, c)
  BY <1>1, <1>2 DEF Right
<1>4. Listed(file, p)[i] = Entry(c)
  BY DEF Listed
<1> HIDE DEF c
<1>5. /\ Entry(c).off = c.off /\ Entry(c).span = c.span
      /\ \A k : Unit(Entry(c), k) = Unit(c, k)
  BY DEF Entry, Unit
<1> QED  BY <1>3, <1>4, <1>5 DEF Whole

LEMMA RightHolds == Spec => [](Base /\ Right)
<1> DEFINE R == Safe /\ Recorded /\ GivenUp
<1>1. Init => R
  <2> SUFFICES ASSUME Init PROVE R
    OBVIOUS
  <2>1. ~Kept
    BY DEF Init, Kept
  <2>2. Cdes(file) = {}
    BY DEF Init, Cdes, None
  <2> QED  BY <2>1, <2>2 DEF Safe, Recorded, GivenUp, Right
<1>2. Inv /\ Inv' /\ R /\ [Next]_vars => R'
  BY SafeStep, RecordedStep, GivenUpStep DEF Inv
<1>3. Inv /\ R => Base /\ Right
  BY RecordedIsRight DEF Inv, GivenUp
<1> QED  BY <1>1, <1>2, <1>3, InvHolds, PTL DEF Spec

(* Killed at any write but those of a crunch and the directory after it, or*)
(* stopped by the card, aapt leaves a file that does not open, or shows    *)
(* entries with their own data (addCommon, flush, readCentralDir), unless  *)
(* compressFpToFp stopped half-way or the file was changed once more.      *)
THEOREM NothingShownIsWrong == Spec => []NeverSilentlyWrong
BY RightHolds, RightShows, PTL

------------------------------------------------------------------------------
(* What a set of entries has under a name.                                 *)
Single(E) == \A e, f \in E : e.name = f.name => e = f
Map == [n \in Names |->
          Under(IF pc = "closed" THEN InFile ELSE InMemory, n)]

LEMMA UnderIs ==
  ASSUME NEW E, Single(E), NEW n
  PROVE  /\ \A e \in E : e.name = n => Under(E, n) = e.data
         /\ (\A e \in E : e.name # n) => Under(E, n) = Missing
<1>1. ASSUME NEW e \in E, e.name = n
      PROVE  Under(E, n) = e.data
  <2> DEFINE f == CHOOSE x \in E : x.name = n
  <2>1. f \in E /\ f.name = n
    BY <1>1
  <2>2. f = e
    BY <1>1, <2>1 DEF Single
  <2>3. Under(E, n) = f.data
    BY <1>1 DEF Under
  <2> QED  BY <2>2, <2>3
<1>2. (\A e \in E : e.name # n) => Under(E, n) = Missing
  BY DEF Under
<1> QED  BY <1>1, <1>2

LEMMA SameUnder ==
  ASSUME NEW E, NEW F, Single(E), Single(F), NEW n,
         \A e \in E : e.name = n => \E f \in F : f.name = n /\ f.data = e.data,
         \A f \in F : f.name = n => \E e \in E : e.name = n
  PROVE  Under(F, n) = Under(E, n)
<1>1. CASE \E e \in E : e.name = n
  BY <1>1, UnderIs
<1>2. CASE ~\E e \in E : e.name = n
  <2>1. \A e \in E : e.name # n
    BY <1>2
  <2>2. \A f \in F : f.name # n
    BY <1>2
  <2> QED  BY <2>1, <2>2, UnderIs
<1> QED  BY <1>1, <1>2

LEMMA MemoryIsSingle ==
  /\ Unique => Single(InMemory)
  /\ Unique' => Single(InMemory')
<1>1. Unique => Single(InMemory)
  BY DEF Unique, Single, InMemory, Indices
<1>2. Unique' => Single(InMemory')
  BY DEF Unique, Single, InMemory, Indices
<1> QED  BY <1>1, <1>2

(* The entries in memory, before and after, under a name.                  *)
LEMMA SameInMemory ==
  ASSUME Unique, Unique', NEW n,
         \A i \in Indices :
           ~entries[i].deleted /\ entries[i].name = n =>
             \E k \in Indices' : /\ ~entries'[k].deleted
                                 /\ entries'[k].name = n
                                 /\ entries'[k].data = entries[i].data,
         \A k \in Indices' :
           ~entries'[k].deleted /\ entries'[k].name = n =>
             \E i \in Indices : ~entries[i].deleted /\ entries[i].name = n
  PROVE  Under(InMemory', n) = Under(InMemory, n)
<1>1. Single(InMemory) /\ Single(InMemory')
  BY MemoryIsSingle
<1>2. ASSUME NEW e \in InMemory, e.name = n
      PROVE  \E f \in InMemory' : f.name = n /\ f.data = e.data
  <2>1. PICK i \in Indices : ~entries[i].deleted /\ e = entries[i]
    BY DEF InMemory, Indices
  <2>2. PICK k \in Indices' : /\ ~entries'[k].deleted /\ entries'[k].name = n
                              /\ entries'[k].data = entries[i].data
    BY <1>2, <2>1
  <2>3. entries'[k] \in InMemory'
    BY <2>2 DEF InMemory, Indices
  <2> QED  BY <2>1, <2>2, <2>3
<1>3. ASSUME NEW f \in InMemory', f.name = n
      PROVE  \E e \in InMemory : e.name = n
  <2>1. PICK k \in Indices' : ~entries'[k].deleted /\ f = entries'[k]
    BY DEF InMemory, Indices
  <2>2. PICK i \in Indices : ~entries[i].deleted /\ entries[i].name = n
    BY <1>3, <2>1
  <2>3. entries[i] \in InMemory
    BY <2>2 DEF InMemory, Indices
  <2> QED  BY <2>2, <2>3
<1> QED  BY <1>1, <1>2, <1>3, SameUnder

(* The same entries, at other places of the list or of the file.           *)
LEMMA SameMap ==
  ASSUME Unique, Unique', pc # "closed", pc' # "closed",
         \A i \in Indices :
           ~entries[i].deleted =>
             \E k \in Indices' : /\ ~entries'[k].deleted
                                 /\ entries'[k].name = entries[i].name
                                 /\ entries'[k].data = entries[i].data,
         \A k \in Indices' :
           ~entries'[k].deleted =>
             \E i \in Indices : /\ ~entries[i].deleted
                                /\ entries[i].name = entries'[k].name
  PROVE  Map' = Map
<1>1. \A n \in Names : Under(InMemory', n) = Under(InMemory, n)
  <2> SUFFICES ASSUME NEW n \in Names
               PROVE  Under(InMemory', n) = Under(InMemory, n)
    OBVIOUS
  <2>1. \A i \in Indices :
          ~entries[i].deleted /\ entries[i].name = n =>
            \E k \in Indices' : /\ ~entries'[k].deleted
                                /\ entries'[k].name = n
                                /\ entries'[k].data = entries[i].data
    OBVIOUS
  <2>2. \A k \in Indices' :
          ~entries'[k].deleted /\ entries'[k].name = n =>
            \E i \in Indices : ~entries[i].deleted /\ entries[i].name = n
    OBVIOUS
  <2> QED  BY <2>1, <2>2, SameInMemory
<1> QED  BY <1>1 DEF Map

LEMMA AddIsPut ==
  ASSUME Base, Sane, Unique', FinishAdd
  PROVE  A!Put(copy.name, copy.data)
<1> DEFINE m == copy.name
           N == Len(entries) + 1
<1>1. /\ m \in Names /\ copy.data \in Contents
      /\ pc # "closed" /\ pc' # "closed" /\ broken' = broken
      /\ pc = "adding"
  BY With DEF CopyType
<1>2. /\ entries'[N].name = m /\ entries'[N].data = copy.data
      /\ ~entries'[N].deleted /\ N \in Indices'
      /\ \A k \in Indices : k \in Indices' /\ entries'[k] = entries[k]
      /\ \A k \in Indices' : k = N \/ k \in Indices
  BY With
<1> HIDE DEF N
<1>3. Single(InMemory) /\ Single(InMemory')
  BY MemoryIsSingle DEF Sane
<1>4. Under(InMemory, m) = Missing
  <2>1. \A e \in InMemory : e.name # m
    BY <1>1 DEF Sane, InAdd, Live, InMemory
  <2> QED  BY <1>3, <2>1, UnderIs
<1>5. Under(InMemory', m) = copy.data
  <2>1. entries'[N] \in InMemory'
    BY <1>2 DEF InMemory, Indices
  <2> QED  BY <1>2, <1>3, <2>1, UnderIs
<1>6. ASSUME NEW n \in Names, n # m
      PROVE  Under(InMemory', n) = Under(InMemory, n)
  BY <1>2, <1>6, SameInMemory DEF Sane
<1>7. Map' = [Map EXCEPT ![m] = copy.data] /\ Map[m] = Missing
  BY <1>1, <1>4, <1>5, <1>6 DEF Map
<1> QED  BY <1>1, <1>7 DEF A!Put, Map

LEMMA RemoveIsDrop ==
  ASSUME Base, Sane, Unique', NEW m \in Names, Remove(m)
  PROVE  A!Drop(m)
<1>1. /\ pc # "closed" /\ pc' # "closed" /\ broken' = broken
      /\ Indices' = Indices
  BY Removed
<1>2. PICK i \in Indices :
        /\ entries[i].name = m /\ ~entries[i].deleted
        /\ \A k \in Indices :
             entries'[k] = IF k = i
                           THEN [entries[i] EXCEPT !.deleted = TRUE]
                           ELSE entries[k]
  BY Removed
<1>3. /\ entries'[i].deleted /\ entries'[i].name = m
      /\ \A k \in Indices : k # i => entries'[k] = entries[k]
      /\ \A k \in Indices : ~entries[k].deleted /\ entries[k].name = m => k = i
  <2>1. entries[i] \in EntryType
    BY EntryTyped DEF Base
  <2>2. [entries[i] EXCEPT !.deleted = TRUE].deleted
        /\ [entries[i] EXCEPT !.deleted = TRUE].name = entries[i].name
    BY <2>1 DEF EntryType
  <2> QED  BY <1>2, <2>2 DEF Sane, Unique
<1>4. Single(InMemory) /\ Single(InMemory')
  BY MemoryIsSingle DEF Sane
<1>5. Under(InMemory', m) = Missing
  <2>1. \A f \in InMemory' : f.name # m
    BY <1>1, <1>3 DEF InMemory, Indices
  <2> QED  BY <1>4, <2>1, UnderIs
<1>6. ASSUME NEW n \in Names, n # m
      PROVE  Under(InMemory', n) = Under(InMemory, n)
  <2>1. \A k \in Indices : entries[k].name = n => entries'[k] = entries[k]
    BY <1>2, <1>3, <1>6
  <2>2. \A k \in Indices : entries'[k].name = n => entries'[k] = entries[k]
    BY <1>3, <1>6
  <2> QED  BY <1>1, <2>1, <2>2, SameInMemory DEF Sane
<1>7. Map' = [Map EXCEPT ![m] = Missing]
  BY <1>1, <1>5, <1>6 DEF Map
<1> QED  BY <1>1, <1>7 DEF A!Drop, Map

(* The steps of an archive that stays open.                                *)
LEMMA InnerIsArchive ==
  ASSUME Base, Base', Sane, Unique', Inner, ~broken, ~broken'
  PROVE  [A!Next]_A!avars
<1> SUFFICES ASSUME ~FinishAdd, ~\E n \in Names : Remove(n)
             PROVE  Map' = Map /\ (pc # "closed")' = (pc # "closed")
  <2>1. ASSUME FinishAdd
        PROVE  A!Next
    <3>1. copy.name \in Names /\ copy.data \in Contents
      BY <2>1, With DEF CopyType
    <3> QED  BY <2>1, <3>1, AddIsPut DEF A!Next
  <2>2. ASSUME NEW n \in Names, Remove(n)
        PROVE  A!Next
    BY <2>2, RemoveIsDrop DEF A!Next
  <2>3. broken' = broken
    BY DEF Base, HistoryOK
  <2> QED  BY <2>1, <2>2, <2>3 DEF A!avars, Map
<1>1. (pc # "closed" /\ pc' # "closed") \/ UNCHANGED vars
  BY DEF Inner, Quiet, AddRefused, BeginAdd, CopyUnit, CopyFails,
     StoreInstead, WriteCd, Truncate, Flushed, Flush, CrunchDeleted,
     CrunchKept, MoveUnit, Moving, Moved, CrunchEnd
<1>2. CASE UNCHANGED vars
  <2>1. UNCHANGED <<file, entries, pc>>
    BY <1>2 DEF vars, disk, memory
  <2>2. InFile' = InFile /\ InMemory' = InMemory
    BY <2>1 DEF InFile, InMemory
  <2> QED  BY <2>1, <2>2 DEF Map
<1>3. CASE pc # "closed" /\ pc' # "closed" /\ entries' = entries
  <2>1. InMemory' = InMemory
    BY <1>3 DEF InMemory
  <2>2. Map' = Map
    BY <1>3, <2>1 DEF Map
  <2> QED  BY <1>3, <2>2
<1>4. CASE pc # "closed" /\ pc' # "closed" /\ CrunchDeleted
  <2> DEFINE old(k) == IF k < crunch.i THEN k ELSE k + 1
             new(i) == IF i < crunch.i THEN i ELSE i - 1
  <2>1. \A k \in Indices' : old(k) \in Indices /\ entries'[k] = entries[old(k)]
    BY <1>4, Without DEF Indices
  <2>2. \A i \in Indices : ~entries[i].deleted =>
          new(i) \in Indices' /\ old(new(i)) = i
    BY <1>4, Without, EntryTyped DEF Indices, Base
  <2> HIDE DEF old, new
  <2>3. \A i \in Indices : ~entries[i].deleted =>
          new(i) \in Indices' /\ entries'[new(i)] = entries[i]
    BY <2>1, <2>2
  <2>4. Map' = Map
    BY <1>4, <2>1, <2>3, SameMap DEF Sane
  <2> QED  BY <1>4, <2>4
<1>5. CASE pc # "closed" /\ pc' # "closed" /\ Moved
  <2>1. \A k \in Indices : /\ entries'[k].name = entries[k].name
                           /\ entries'[k].data = entries[k].data
                           /\ entries'[k].deleted = entries[k].deleted
    BY <1>5, MovedOn, EntryTyped DEF Base, EntryType
  <2>2. Map' = Map
    BY <1>5, <2>1, MovedOn, SameMap DEF Sane
  <2> QED  BY <1>5, <2>2
<1>6. CrunchDeleted \/ Moved \/ entries' = entries
  <2>1. Quiet => entries' = entries
    BY QuietKeeps
  <2> QED
    BY <2>1 DEF Inner, Flush, CrunchKept, MoveUnit, CrunchEnd, memory, vars
<1> QED  BY <1>1, <1>2, <1>3, <1>4, <1>5, <1>6

(* The entries of a file that holds them, and of one without any.          *)
ShownIn(f) == UNION {{Listed(f, p)[i] : i \in 1 .. f[p].total} :
                       p \in {q \in Offsets : OpensAt(f, q)}}

LEMMA FileShows ==
  ASSUME NEW f
  PROVE  /\ \A E \in Seq(EntryType), c \in Int :
              Holds(f, E, c) => ShownIn(f) = {E[i] : i \in 1 .. Len(E)}
         /\ f = [o \in Offsets |-> None] => ShownIn(f) = {}
<1>1. ASSUME NEW E \in Seq(EntryType), NEW c \in Int, Holds(f, E, c)
      PROVE  ShownIn(f) = {E[i] : i \in 1 .. Len(E)}
  <2> DEFINE d == c + Len(E)
  <2>1. d \in Offsets
    BY <1>1 DEF Holds
  <2>2. /\ OpensAt(f, d) /\ \A p \in Offsets : OpensAt(f, p) => p = d
        /\ f[d].total = Len(E) /\ Listed(f, d) = E
    BY <1>1, DirectoryIs
  <2> HIDE DEF d
  <2>3. {q \in Offsets : OpensAt(f, q)} = {d}
    BY <2>1, <2>2
  <2>4. ShownIn(f) = {Listed(f, d)[i] : i \in 1 .. f[d].total}
    BY <2>3 DEF ShownIn
  <2> QED  BY <2>2, <2>4
<1>2. ASSUME f = [o \in Offsets |-> None]
      PROVE  ShownIn(f) = {}
  <2>1. \A q \in Offsets : f[q].kind # "eocd"
    BY <1>2, RecordsAre
  <2>2. {q \in Offsets : OpensAt(f, q)} = {}
    BY <2>1 DEF OpensAt
  <2> QED  BY <2>2 DEF ShownIn
<1> QED  BY <1>1, <1>2

LEMMA InFileIs ==
  /\ \A E \in Seq(EntryType), c \in Int :
       Holds(file, E, c) => InFile = {E[i] : i \in 1 .. Len(E)}
  /\ file = [o \in Offsets |-> None] => InFile = {}
<1>1. InFile = ShownIn(file)
  BY DEF InFile, ShownIn
<1> QED  BY <1>1, FileShows

LEMMA InFileIsNext ==
  /\ \A E \in Seq(EntryType), c \in Int :
       Holds(file', E, c) => InFile' = {E[i] : i \in 1 .. Len(E)}
  /\ file' = [o \in Offsets |-> None] => InFile' = {}
<1>1. InFile' = ShownIn(file')
  BY DEF InFile, ShownIn
<1> QED  BY <1>1, FileShows

LEMMA NoneUnder == \A n : Under({}, n) = Missing
BY DEF Under

LEMMA ArchiveInit == Init => A!Init
<1> SUFFICES ASSUME Init PROVE A!Init
  OBVIOUS
<1>1. InFile = {}
  BY InFileIs DEF Init
<1> QED  BY <1>1, NoneUnder DEF Init, A!Init, A!Empty

LEMMA ArchiveStep ==
  ASSUME Inv, Inv', [Next]_vars
  PROVE  [A!Next]_A!avars
<1>0. broken \in BOOLEAN /\ broken' \in BOOLEAN
  BY DEF Inv, Base, HistoryOK
<1>1. CASE Unlink
  <2>1. InFile' = {}
    BY <1>1, InFileIsNext DEF Unlink
  <2>2. Map' = [n \in Names |-> Missing]
    BY <1>1, <2>1, NoneUnder DEF Unlink, Map
  <2> QED  BY <1>1, <2>2 DEF Unlink, A!Next, A!Delete, A!Empty, Map
<1>2. CASE broken'
  BY <1>0, <1>2 DEF A!Next, A!Break, A!Broken
<1>3. CASE ~broken' /\ ~Unlink
  <2>1. ~broken
    BY <1>3 DEF Next, Add, Crunching, Writing, vars, OpenNew, OpenOld,
       OpenFails, AddRefused, BeginAdd, CopyUnit, CopyFails, StoreInstead,
       FinishAdd, CompressStops, Remove, Flush, CloseClean, CrunchDeleted,
       CrunchKept, MoveUnit, Moved, MoveFails, CrunchEnd, WriteCd, Truncate,
       WriteFails, Crash, history
  <2>2. CASE pc # "closed" /\ pc' # "closed"
    <3>1. Inner
      BY <1>3, <2>2, InnerSteps DEF Inv
    <3>2. Sane /\ Unique'
      BY <1>3, <2>1, <2>2 DEF Inv, Layout, Sane
    <3> QED  BY <1>3, <2>1, <3>1, <3>2, InnerIsArchive DEF Inv
  <2>3. CASE pc # "closed" /\ pc' = "closed"
    <3>1. Holds(file', entries, cd) /\ cd \in Nat
      BY <1>3, <2>3, CloseHolds DEF Inv
    <3>2. InFile' = {entries[i] : i \in 1 .. Len(entries)}
      BY <3>1, InFileIsNext DEF Inv, Base, MemoryOK
    <3>3. \A i \in 1 .. Len(entries) : ~entries[i].deleted
      BY <3>1 DEF Holds
    <3>4. InFile' = InMemory
      BY <3>2, <3>3 DEF InMemory
    <3>5. Map' = Map
      BY <2>3, <3>4 DEF Map
    <3>6. broken' = broken
      BY <1>0, <1>3, <2>1
    <3> QED  BY <2>3, <3>5, <3>6 DEF A!Next, A!Close, Map
  <2>4. CASE pc = "closed" /\ pc' # "closed"
    <3>1. OpenNew \/ OpenOld
      BY <1>3, <2>4 DEF Next, Add, Crunching, Writing, vars, OpenFails,
         AddRefused, BeginAdd, CopyUnit, CopyFails, StoreInstead, FinishAdd,
         CompressStops, Remove, Flush, CloseClean, CrunchDeleted, CrunchKept,
         MoveUnit, Moving, Moved, MoveFails, CrunchEnd, WriteCd, Truncate,
         WriteFails, Crash
    <3>2. InMemory' = InFile
      <4>1. CASE OpenNew
        <5>1. InFile = {}
          BY <4>1, InFileIs DEF OpenNew, Inv, Base, DiskOK
        <5>2. 1 .. Len(entries') = {}
          BY <4>1 DEF OpenNew, Inv, Base, ControlOK
        <5> QED  BY <5>1, <5>2 DEF InMemory
      <4>2. CASE OpenOld
        <5>1. Holds(file, entries', cd')
          BY <1>3, <4>2, OldIsHeld DEF Inv, OpenOld, disk
        <5>2. InFile = {entries'[i] : i \in 1 .. Len(entries')}
          BY <5>1, InFileIs DEF Inv, Base, MemoryOK
        <5>3. \A i \in 1 .. Len(entries') : ~entries'[i].deleted
          BY <5>1 DEF Holds
        <5> QED  BY <5>2, <5>3 DEF InMemory
      <4> QED  BY <3>1, <4>1, <4>2
    <3>3. Map' = Map
      BY <2>4, <3>2 DEF Map
    <3>4. broken' = broken
      BY <1>0, <1>3, <2>1
    <3> QED  BY <2>4, <3>3, <3>4 DEF A!Next, A!Open, Map
  <2>5. CASE pc = "closed" /\ pc' = "closed"
    <3>1. OpenFails \/ UNCHANGED vars
      BY <1>3, <2>5 DEF Next, Add, Crunching, Writing, OpenNew, OpenOld,
         AddRefused, BeginAdd, CopyUnit, CopyFails, StoreInstead, FinishAdd,
         CompressStops, Remove, Flush, CloseClean, CrunchDeleted, CrunchKept,
         MoveUnit, Moving, Moved, MoveFails, CrunchEnd, WriteCd, Truncate,
         WriteFails, Crash
    <3>2. UNCHANGED <<file, pc, broken>>
      BY <3>1 DEF OpenFails, vars, disk, history
    <3>3. InFile' = InFile
      BY <3>2 DEF InFile
    <3>4. Map' = Map
      BY <2>5, <3>3 DEF Map
    <3> QED  BY <3>2, <3>4 DEF A!avars, Map
  <2> QED  BY <2>2, <2>3, <2>4, <2>5
<1> QED  BY <1>0, <1>1, <1>2, <1>3

(* Whatever is added, removed, flushed, closed and opened, with the card   *)
(* failing and the process killed at any write: those who use the archive  *)
(* see module Archive, the map of names to contents that is found again as *)
(* it was left (ZipFile).                                                  *)
THEOREM ImplementsArchive == Spec => IsArchive
<1>1. Inv /\ Inv' /\ [Next]_vars => [A!Next]_A!avars
  BY ArchiveStep
<1> QED  BY <1>1, ArchiveInit, InvHolds, PTL DEF Spec, IsArchive, A!Spec
=============================================================================
