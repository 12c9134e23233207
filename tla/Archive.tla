------------------------------ MODULE Archive ------------------------------
(***************************************************************************)
(* What class ZipFile promises to those who do not look into the file: a   *)
(* map from names to contents that is changed while the archive is open and*)
(* is found again as it was left.  After a card error, a full card or a    *)
(* process killed over unwritten changes nothing is promised until the     *)
(* file is deleted.                                                        *)
(***************************************************************************)
CONSTANTS
  Names,     \* the names of entries
  Contents,  \* what a file can hold
  Missing    \* stands for no content, and is none of them

VARIABLES
  content,  \* the content under every name, or Missing
  isOpen,   \* whether a ZipFile object has it open
  broken    \* whether the promise is void

avars == <<content, isOpen, broken>>

Empty == [n \in Names |-> Missing]

Init == content = Empty /\ isOpen = FALSE /\ broken = FALSE

Open == ~isOpen /\ isOpen' = TRUE /\ UNCHANGED <<content, broken>>
Close == isOpen /\ isOpen' = FALSE /\ UNCHANGED <<content, broken>>

(* A name is used once; what is there must be removed before it is added.  *)
Put(n, d) ==
  /\ isOpen /\ content[n] = Missing
  /\ content' = [content EXCEPT ![n] = d]
  /\ UNCHANGED <<isOpen, broken>>

Drop(n) ==
  /\ isOpen
  /\ content' = [content EXCEPT ![n] = Missing]
  /\ UNCHANGED <<isOpen, broken>>

Delete == ~isOpen /\ content' = Empty /\ broken' = FALSE /\ UNCHANGED isOpen

Break == broken' = TRUE
Broken == broken /\ broken'

Next ==
  \/ Open \/ Close \/ Delete \/ Break \/ Broken
  \/ \E n \in Names, d \in Contents : Put(n, d)
  \/ \E n \in Names : Drop(n)

Spec == Init /\ [][Next]_avars
=============================================================================
