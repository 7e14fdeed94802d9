-------------------------- MODULE BackgroundProofs --------------------------
(***************************************************************************)
(* Proofs about StoredFiles and RealtimeEvents for any number of           *)
(* processes, files, sessions and faults, and of events, channels and      *)
(* pages of any size.                                                      *)
(***************************************************************************)
EXTENDS StoredFiles, RealtimeEvents, FiniteSetTheorems, SequenceTheorems, TLAPS

(* StoredFiles *)

Puts == {"upload", "comment", "complete"}
Single(set) == set # {} /\ \A f, g \in set : f = g

\* What is being stored has no row yet, its object is too young to be listed.
PutsAreFresh ==
  \A p \in Process : Busy(p, Puts) =>
    /\ Single(doing[p].files)
    /\ \A f \in doing[p].files :
         row[f] = None /\ objects[f] = "young" /\ (doing[p].op = "comment" => f \in Comment)

\* What is being deleted is locked: its row stays and nothing comes to refer to it.
DeletesUnreferenced ==
  \A p \in Process : Busy(p, Deletions) =>
    /\ doing[p].gone \cup doing[p].failed \subseteq doing[p].files
    /\ doing[p].op = "delete" => Single(doing[p].files)
    /\ \A f \in doing[p].files :
         row[f] # None /\ f \notin mention /\ row[f].owners \cap record = {}

SessionsInHand ==
  \A p \in Process :
    /\ Busy(p, {"complete", "unstage"}) => doing[p].key \in Session
    /\ Busy(p, {"complete"}) => upload[doing[p].key].state = "pending"

\* The keys that reconciliation and withdrawals go by are nobody's new files.
NamesLapse ==
  \A p \in Process :
    /\ Busy(p, {"list", "orphan", "withdrawn"}) =>
         \A q \in Process : Busy(q, Puts) => doing[p].key \notin doing[q].files
    /\ Busy(p, {"list", "orphan"}) /\ doing[p].key \in File => row[doing[p].key] = None
    /\ Busy(p, {"list", "orphan"}) => doing[p].key \in StorageKey
    /\ Busy(p, {"withdrawn", "attach"}) => doing[p].key \in File
    /\ Busy(p, {"withdrawn"}) => doing[p].key \notin mention
    /\ Busy(p, {"attach"}) => doing[p].record \in BusinessRecord

TasksApart ==
  \A p, q \in Process : p # q =>
    /\ Busy(p, Deletions) /\ Busy(q, Deletions) => doing[p].files \cap doing[q].files = {}
    /\ Busy(p, Puts) /\ Busy(q, Puts) => doing[p].files \cap doing[q].files = {}
    /\ Busy(p, {"complete"}) /\ Busy(q, {"complete"}) => doing[p].key # doing[q].key

ReferencesKept ==
  /\ \A f \in mention : f \in Comment /\ row[f] # None /\ ~row[f].deleting
  /\ \A f \in File : row[f] # None /\ row[f].deleting => row[f].owners \cap record = {}

\* The object of an unclaimed row is there until a deletion under way is at it.
ObjectsKept ==
  \A f \in File \ broken :
    /\ row[f] # None /\ ~row[f].deleting
    /\ \A p \in Process : Busy(p, Deletions) => f \notin doing[p].gone \cup doing[p].failed
    => objects[f] # "absent"

FilesInv ==
  /\ FileTypes /\ PutsAreFresh /\ DeletesUnreferenced /\ SessionsInHand /\ NamesLapse
  /\ TasksApart /\ ReferencesKept /\ ObjectsKept

LEMMA FilesInvInit ==
  ASSUME FilesAssumption, FilesInit
  PROVE  FilesInv
  BY DEF FilesAssumption, FilesInit, FilesInv, FileTypes, PutsAreFresh, DeletesUnreferenced,
         SessionsInHand, NamesLapse, TasksApart, ReferencesKept, ObjectsKept, Busy, StorageKey
-----------------------------------------------------------------------------
\* What happens to the owners of a row.
LEMMA RowTypes ==
  ASSUME FilesAssumption, NEW r \in Rows, NEW owner \in Owner
  PROVE  /\ Retained(r, owner) \in Rows /\ Retained(r, owner).deleting = r.deleting
         /\ ReleasedFrom(r, owner) \in Rows /\ ReleasedFrom(r, owner).deleting = r.deleting
         /\ ReleasedFrom(r, owner).owners = r.owners \ {owner}
         /\ [r EXCEPT !.aged = TRUE] \in Rows /\ [r EXCEPT !.aged = TRUE].deleting = r.deleting
         /\ [r EXCEPT !.aged = TRUE].owners = r.owners
<1> USE DEF Rows
<1>1. Retained(r, owner) \in Rows /\ Retained(r, owner).deleting = r.deleting
  BY DEF Retained
<1>2. /\ ReleasedFrom(r, owner) \in Rows /\ ReleasedFrom(r, owner).deleting = r.deleting
      /\ ReleasedFrom(r, owner).owners = r.owners \ {owner}
  BY DEF ReleasedFrom
<1>3. /\ [r EXCEPT !.aged = TRUE] \in Rows /\ [r EXCEPT !.aged = TRUE].deleting = r.deleting
      /\ [r EXCEPT !.aged = TRUE].owners = r.owners
  OBVIOUS
<1> QED BY <1>1, <1>2, <1>3

Deleted(f) == \E p \in Process : Busy(p, Deletions) /\ f \in doing[p].files

\* A row that no deletion has stays, and stays claimed or unclaimed.
KeepsRows ==
  \A f \in File : row[f] # None /\ ~Deleted(f) =>
                    row'[f] # None /\ row'[f].deleting = row[f].deleting

\* Steps that change owners or ages of rows that are there: only rows that no
\* deletion has get owners.
LEMMA RowsChange ==
  ASSUME FilesAssumption, FilesInv,
         UNCHANGED <<objects, upload, expiredUploads, record, mention, broken, fileFaults>>,
         \/ UNCHANGED doing
         \/ \E p \in Process : Busy(p, {"attach"}) /\ doing' = [doing EXCEPT ![p] = None],
         row' \in [File -> Rows \cup {None}],
         \A f \in File : row'[f] # row[f] =>
           /\ row[f] # None /\ row'[f] # None /\ row'[f].deleting = row[f].deleting
           /\ row'[f].owners \subseteq row[f].owners \/ (~Locked(f) /\ ~row[f].deleting)
  PROVE  FilesInv' /\ KeepsRows
<1> USE DEF FilesAssumption, FilesInv, FileTypes
<1>1. /\ \A q \in Process : doing'[q] # None => doing'[q] = doing[q]
      /\ \A q \in Process : Busy(q, Deletions)' <=> Busy(q, Deletions)
  BY DEF Busy, Deletions
<1>2. \A f \in File : /\ row[f] = None <=> row'[f] = None
                      /\ row[f] # None => row'[f].deleting = row[f].deleting
  OBVIOUS
<1>3. FileTypes'
  BY <1>1
<1>4. PutsAreFresh'
  BY <1>1, <1>2 DEF PutsAreFresh, Busy, Tasks
<1>5. DeletesUnreferenced'
  BY <1>1, <1>2 DEF DeletesUnreferenced, Busy, Tasks, Locked
<1>6. SessionsInHand' /\ TasksApart'
  BY <1>1 DEF SessionsInHand, TasksApart, Busy
<1>7. NamesLapse'
  BY <1>1, <1>2 DEF NamesLapse, Busy
<1>8. ReferencesKept'
  BY <1>2 DEF ReferencesKept
<1>9. ObjectsKept'
  BY <1>1, <1>2 DEF ObjectsKept, Busy
<1>10. KeepsRows
  BY <1>2 DEF KeepsRows
<1> QED BY <1>3, <1>4, <1>5, <1>6, <1>7, <1>8, <1>9, <1>10

LEMMA PutStep ==
  ASSUME FilesAssumption, FilesInv,
         NEW p \in Process, NEW f \in File, NEW op \in Puts, NEW s \in Session \cup {None},
         op = "complete" => s \in Session /\ upload[s].state = "pending" /\ ~SessionLocked(s),
         Put(p, f, op, s)
  PROVE  FilesInv'
<1> USE DEF FilesAssumption, FilesInv, FileTypes, PutsAreFresh, DeletesUnreferenced,
            SessionsInHand, NamesLapse, TasksApart, ReferencesKept, ObjectsKept, Busy, Task,
            Tasks, Does, Finishes, Idle, Locked, SessionLocked, Rows, Owner, StorageKey, Puts,
            Deletions, Single, Put, Fresh
<1>1. FileTypes'
  OBVIOUS
<1>2. PutsAreFresh'
  <2>1. /\ doing[p] = None /\ row[f] = None /\ UNCHANGED row
        /\ \A q \in Process : doing[q] # None => f \notin doing[q].files
        /\ objects' = [objects EXCEPT ![f] = "young"] /\ (op = "comment") = (f \in Comment)
    OBVIOUS
  <2>2. /\ doing' = [doing EXCEPT ![p] = doing'[p]] /\ doing'[p].files = {f} /\ doing'[p].op = op
    OBVIOUS
  <2>3. \A q \in Process : Busy(q, Puts)' => Single(doing'[q].files)
    BY <2>1, <2>2, SMTT(90)
  <2>4. \A q \in Process : Busy(q, Puts)' => \A g \in doing'[q].files :
          row[g] = None /\ objects'[g] = "young" /\ (doing'[q].op = "comment" => g \in Comment)
    <3> SUFFICES ASSUME NEW q \in Process, Busy(q, Puts)', NEW g \in doing'[q].files
                 PROVE  row[g] = None /\ objects'[g] = "young"
                        /\ (doing'[q].op = "comment" => g \in Comment)
      OBVIOUS
    <3>1. CASE q = p
      BY <2>1, <2>2, <3>1
    <3>2. CASE q # p
      BY <2>1, <2>2, <3>2
    <3> QED BY <3>1, <3>2
  <2> QED BY <2>1, <2>3, <2>4
<1>3. DeletesUnreferenced'
  OBVIOUS
<1>4. SessionsInHand'
  OBVIOUS
<1>5. NamesLapse'
  OBVIOUS
<1>6. TasksApart'
  OBVIOUS
<1>7. ReferencesKept'
  OBVIOUS
<1>8. ObjectsKept'
  OBVIOUS
<1> QED BY <1>1, <1>2, <1>3, <1>4, <1>5, <1>6, <1>7, <1>8

\* The row that a commit inserts is the one that was stored for.
LEMMA CommitsNew ==
  ASSUME FilesAssumption, FilesInv, NEW p \in Process, CommitPut(p)
  PROVE  \E f \in File :
           /\ doing[p].files = {f} /\ row[f] = None
           /\ doing[p].op = "comment" => f \in Comment
           /\ row' = [row EXCEPT ![f] =
                [owners |-> IF doing[p].op = "comment" THEN {} ELSE {Library},
                 deleting |-> FALSE, aged |-> FALSE]]
           /\ mention' = IF doing[p].op = "comment" THEN mention \cup {f} ELSE mention
           /\ \A g \in File \ {f} : row'[g] = row[g]
<1>1. PICK f \in File : /\ doing[p].files = {f} /\ row[f] = None
                        /\ doing[p].op = "comment" => f \in Comment
  <2>1. /\ Busy(p, Puts) /\ doing[p] \in Tasks
    BY DEF CommitPut, Puts, FilesInv, FileTypes, Busy
  <2>2. Single(doing[p].files) /\ doing[p].files \subseteq File
    BY <2>1 DEF FilesInv, PutsAreFresh, Tasks
  <2> QED BY <2>1, <2>2 DEF FilesInv, PutsAreFresh, Single
<1>2. /\ row' = [row EXCEPT ![f] =
           [owners |-> IF doing[p].op = "comment" THEN {} ELSE {Library},
            deleting |-> FALSE, aged |-> FALSE]]
      /\ mention' = IF doing[p].op = "comment" THEN mention \cup {f} ELSE mention
  <2> DEFINE chosen == CHOOSE g \in doing[p].files : TRUE
  <2>1. \E g \in doing[p].files : TRUE
    BY <1>1
  <2>2. chosen \in doing[p].files
    BY <2>1, Zenon
  <2>3. chosen = f
    BY <1>1, <2>2
  <2>4. /\ row' = [row EXCEPT ![chosen] =
             [owners |-> IF doing[p].op = "comment" THEN {} ELSE {Library},
              deleting |-> FALSE, aged |-> FALSE]]
        /\ mention' = IF doing[p].op = "comment" THEN mention \cup {chosen} ELSE mention
    BY DEF CommitPut
  <2> QED BY <2>3, <2>4
<1> QED BY <1>1, <1>2 DEF FilesInv, FileTypes

LEMMA CommitPutStep ==
  ASSUME FilesAssumption, FilesInv, NEW p \in Process, CommitPut(p)
  PROVE  FilesInv'
<1>a. PICK f \in File :
        /\ doing[p].files = {f} /\ row[f] = None
        /\ doing[p].op = "comment" => f \in Comment
        /\ row' = [row EXCEPT ![f] =
             [owners |-> IF doing[p].op = "comment" THEN {} ELSE {Library},
              deleting |-> FALSE, aged |-> FALSE]]
        /\ mention' = IF doing[p].op = "comment" THEN mention \cup {f} ELSE mention
        /\ \A g \in File \ {f} : row'[g] = row[g]
  BY CommitsNew
<1> USE DEF FilesAssumption, FilesInv, FileTypes, PutsAreFresh, DeletesUnreferenced,
            SessionsInHand, NamesLapse, TasksApart, ReferencesKept, ObjectsKept, Busy, Task,
            Tasks, Does, Finishes, Idle, Locked, SessionLocked, Rows, Owner, StorageKey, Puts,
            Deletions, Single, CommitPut
<1>1. FileTypes'
  BY SMTT(90)
<1>2. PutsAreFresh'
  OBVIOUS
<1>3. DeletesUnreferenced'
  OBVIOUS
<1>4. SessionsInHand'
  OBVIOUS
<1>5. NamesLapse'
  <2>0. doing[p] # None /\ Busy(p, Puts)
    BY DEF CommitPut
  <2>1. \A q \in Process : Busy(q, {"list", "orphan", "withdrawn"}) => doing[q].key # f
    BY <1>a, <2>0
  <2>2. /\ \A q \in Process \ {p} : doing'[q] = doing[q]
        /\ Busy(p, {"unstage"})' \/ doing'[p] = None
    OBVIOUS
  <2>3. /\ \A g \in File \ {f} : row'[g] = row[g]
        /\ mention' \subseteq mention \cup {f}
    BY <1>a
  <2> HIDE DEF CommitPut
  <2> QED BY <2>0, <2>1, <2>2, <2>3
<1>6. TasksApart'
  BY SMTT(90)
<1>7. ReferencesKept'
  <2>1. /\ mention' \subseteq mention \cup {f} /\ record' = record
        /\ f \in mention' => f \in Comment \/ f \in mention
    BY <1>a DEF CommitPut
  <2> DEFINE new == [owners |-> IF doing[p].op = "comment" THEN {} ELSE {Library},
                     deleting |-> FALSE, aged |-> FALSE]
  <2>2. new \in Rows /\ ~new.deleting
    OBVIOUS
  <2> HIDE DEF CommitPut, new
  <2>3. row' = [row EXCEPT ![f] = new]
    BY <1>a DEF new
  <2>4. row'[f] # None /\ ~row'[f].deleting /\ \A g \in File \ {f} : row'[g] = row[g]
    BY <2>2, <2>3
  <2> QED BY <2>1, <2>4, SMTT(90)
<1>8. ObjectsKept'
  OBVIOUS
<1> QED BY <1>1, <1>2, <1>3, <1>4, <1>5, <1>6, <1>7, <1>8

LEMMA PutFailsStep ==
  ASSUME FilesAssumption, FilesInv, NEW p \in Process, PutFails(p)
  PROVE  FilesInv'
<1> USE DEF FilesAssumption, FilesInv, FileTypes, PutsAreFresh, DeletesUnreferenced,
            SessionsInHand, NamesLapse, TasksApart, ReferencesKept, ObjectsKept, Busy, Task,
            Tasks, Does, Finishes, Idle, Locked, SessionLocked, Rows, Owner, StorageKey, Puts,
            Deletions, Single, PutFails
<1>1. FileTypes'
  OBVIOUS
<1>2. PutsAreFresh'
  OBVIOUS
<1>3. DeletesUnreferenced'
  OBVIOUS
<1>4. SessionsInHand'
  OBVIOUS
<1>5. NamesLapse'
  OBVIOUS
<1>6. TasksApart'
  OBVIOUS
<1>7. ReferencesKept'
  OBVIOUS
<1>8. ObjectsKept'
  OBVIOUS
<1> QED BY <1>1, <1>2, <1>3, <1>4, <1>5, <1>6, <1>7, <1>8

LEMMA UnstageStep ==
  ASSUME FilesAssumption, FilesInv, NEW p \in Process, Unstage(p)
  PROVE  FilesInv'
<1> USE DEF FilesAssumption, FilesInv, FileTypes, PutsAreFresh, DeletesUnreferenced,
            SessionsInHand, NamesLapse, TasksApart, ReferencesKept, ObjectsKept, Busy, Task,
            Tasks, Does, Finishes, Idle, Locked, SessionLocked, Rows, Owner, StorageKey, Puts,
            Deletions, Single, Unstage
<1>1. FileTypes'
  OBVIOUS
<1>2. PutsAreFresh'
  OBVIOUS
<1>3. DeletesUnreferenced'
  OBVIOUS
<1>4. SessionsInHand'
  OBVIOUS
<1>5. NamesLapse'
  OBVIOUS
<1>6. TasksApart'
  OBVIOUS
<1>7. ReferencesKept'
  OBVIOUS
<1>8. ObjectsKept'
  OBVIOUS
<1> QED BY <1>1, <1>2, <1>3, <1>4, <1>5, <1>6, <1>7, <1>8

LEMMA SessionStep ==
  ASSUME FilesAssumption, FilesInv, NEW s \in Session,
         PrepareUpload(s) \/ UploadContent(s) \/ SignedUpload(s) \/ ExpireUpload(s)
  PROVE  FilesInv'
<1> USE DEF FilesAssumption, FilesInv, FileTypes, PutsAreFresh, DeletesUnreferenced,
            SessionsInHand, NamesLapse, TasksApart, ReferencesKept, ObjectsKept, Busy, Task,
            Tasks, Does, Finishes, Idle, Locked, SessionLocked, Rows, Owner, StorageKey, Puts,
            Deletions, Single, PrepareUpload, UploadContent, SignedUpload, ExpireUpload,
            UploadPending
<1>1. FileTypes'
  OBVIOUS
<1>2. PutsAreFresh'
  OBVIOUS
<1>3. DeletesUnreferenced'
  OBVIOUS
<1>4. SessionsInHand'
  OBVIOUS
<1>5. NamesLapse'
  OBVIOUS
<1>6. TasksApart'
  OBVIOUS
<1>7. ReferencesKept'
  OBVIOUS
<1>8. ObjectsKept'
  OBVIOUS
<1> QED BY <1>1, <1>2, <1>3, <1>4, <1>5, <1>6, <1>7, <1>8

LEMMA CancelStep ==
  ASSUME FilesAssumption, FilesInv, NEW p \in Process, NEW s \in Session, CancelUpload(p, s)
  PROVE  FilesInv'
<1> USE DEF FilesAssumption, FilesInv, FileTypes, PutsAreFresh, DeletesUnreferenced,
            SessionsInHand, NamesLapse, TasksApart, ReferencesKept, ObjectsKept, Busy, Task,
            Tasks, Does, Finishes, Idle, Locked, SessionLocked, Rows, Owner, StorageKey, Puts,
            Deletions, Single, CancelUpload, MayCancel
<1>1. FileTypes'
  OBVIOUS
<1>2. PutsAreFresh'
  OBVIOUS
<1>3. DeletesUnreferenced'
  OBVIOUS
<1>4. SessionsInHand'
  OBVIOUS
<1>5. NamesLapse'
  OBVIOUS
<1>6. TasksApart'
  OBVIOUS
<1>7. ReferencesKept'
  OBVIOUS
<1>8. ObjectsKept'
  OBVIOUS
<1> QED BY <1>1, <1>2, <1>3, <1>4, <1>5, <1>6, <1>7, <1>8

LEMMA AttachStep ==
  ASSUME FilesAssumption, FilesInv, NEW p \in Process, NEW r \in BusinessRecord, NEW f \in File,
         Attach(p, r, f)
  PROVE  FilesInv'
<1> USE DEF FilesAssumption, FilesInv, FileTypes, PutsAreFresh, DeletesUnreferenced,
            SessionsInHand, NamesLapse, TasksApart, ReferencesKept, ObjectsKept, Busy, Task,
            Tasks, Does, Finishes, Idle, Locked, SessionLocked, Rows, Owner, StorageKey, Puts,
            Deletions, Single, Attach
<1>1. FileTypes'
  OBVIOUS
<1>2. PutsAreFresh'
  OBVIOUS
<1>3. DeletesUnreferenced'
  OBVIOUS
<1>4. SessionsInHand'
  OBVIOUS
<1>5. NamesLapse'
  OBVIOUS
<1>6. TasksApart'
  OBVIOUS
<1>7. ReferencesKept'
  OBVIOUS
<1>8. ObjectsKept'
  OBVIOUS
<1> QED BY <1>1, <1>2, <1>3, <1>4, <1>5, <1>6, <1>7, <1>8

LEMMA CommitAttachStep ==
  ASSUME FilesAssumption, FilesInv, NEW p \in Process, CommitAttach(p)
  PROVE  FilesInv' /\ KeepsRows
<1> DEFINE f == doing[p].key
           r == doing[p].record
<1>1. /\ Busy(p, {"attach"}) /\ f \in File /\ r \in Owner /\ ~Locked(f)
      /\ doing' = [doing EXCEPT ![p] = None]
      /\ UNCHANGED <<objects, upload, expiredUploads, record, mention, broken, fileFaults>>
      /\ \/ UNCHANGED row
         \/ MayRetain(f) /\ row' = [row EXCEPT ![f] = Retained(row[f], r)]
  <2>1. Busy(p, {"attach"}) /\ f \in File /\ r \in Owner
    <3>1. Busy(p, {"attach"})
      BY DEF CommitAttach
    <3>2. Busy(p, {"withdrawn", "attach"})
      BY <3>1 DEF Busy
    <3> QED BY <3>1, <3>2 DEF FilesInv, NamesLapse, Owner
  <2> DEFINE others == {g \in File \ {f} : Visible(g) /\ r \in row[g].owners}
  <2>2. IF MayRetain(f) /\ Cardinality(others) < MaxAttached
        THEN row' = [row EXCEPT ![f] = Retained(row[f], r)] ELSE UNCHANGED row
    BY DEF CommitAttach
  <2> QED BY <2>1, <2>2 DEF CommitAttach, Finishes, Does
<1> HIDE DEF f, r
<1>2. /\ row' \in [File -> Rows \cup {None}]
      /\ \A g \in File : row'[g] # row[g] =>
           /\ row[g] # None /\ row'[g] # None /\ row'[g].deleting = row[g].deleting
           /\ ~Locked(g) /\ ~row[g].deleting
  <2>1. CASE UNCHANGED row
    BY <2>1 DEF FilesInv, FileTypes
  <2>2. CASE MayRetain(f) /\ row' = [row EXCEPT ![f] = Retained(row[f], r)]
    <3>1. row[f] \in Rows /\ ~row[f].deleting
      BY <1>1, <2>2 DEF MayRetain, FilesInv, FileTypes
    <3>2. Retained(row[f], r) \in Rows /\ Retained(row[f], r).deleting = row[f].deleting
      BY <1>1, <3>1, RowTypes
    <3> QED BY <1>1, <2>2, <3>1, <3>2 DEF FilesInv, FileTypes, FilesAssumption
  <2> QED BY <1>1, <2>1, <2>2
<1> QED BY <1>1, <1>2, RowsChange

LEMMA DetachStep ==
  ASSUME FilesAssumption, FilesInv, NEW r \in BusinessRecord, NEW f \in File, DetachFile(r, f)
  PROVE  FilesInv' /\ KeepsRows
<1>1. /\ row[f] \in Rows /\ ~row[f].deleting /\ r \in Owner
      /\ row' = [row EXCEPT ![f] = ReleasedFrom(row[f], r)]
      /\ UNCHANGED <<objects, upload, expiredUploads, record, mention, doing, broken, fileFaults>>
  BY DEF DetachFile, Visible, FilesInv, FileTypes, Owner
<1>2. /\ ReleasedFrom(row[f], r) \in Rows /\ ReleasedFrom(row[f], r).deleting = row[f].deleting
      /\ ReleasedFrom(row[f], r).owners \subseteq row[f].owners
  BY <1>1, RowTypes
<1>3. row' \in [File -> Rows \cup {None}]
  BY <1>1, <1>2 DEF FilesInv, FileTypes
<1>4. \A g \in File : row'[g] # row[g] =>
        /\ row[g] # None /\ row'[g] # None /\ row'[g].deleting = row[g].deleting
        /\ row'[g].owners \subseteq row[g].owners
  BY <1>1, <1>2 DEF FilesInv, FileTypes, FilesAssumption
<1> QED BY <1>1, <1>3, <1>4, RowsChange

LEMMA ReplaceStep ==
  ASSUME FilesAssumption, FilesInv, NEW r \in BusinessRecord, NEW f \in File, NEW g \in File,
         ReplaceFile(r, f, g)
  PROVE  FilesInv' /\ KeepsRows
<1>1. /\ row[f] \in Rows /\ row[g] \in Rows /\ f # g /\ r \in Owner
      /\ ~row[g].deleting /\ ~Locked(g)
      /\ row' = [row EXCEPT ![g] = Retained(row[g], r), ![f] = ReleasedFrom(row[f], r)]
      /\ UNCHANGED <<objects, upload, expiredUploads, record, mention, doing, broken, fileFaults>>
  BY DEF ReplaceFile, Visible, FilesInv, FileTypes, Owner
<1>2. /\ ReleasedFrom(row[f], r) \in Rows /\ ReleasedFrom(row[f], r).deleting = row[f].deleting
      /\ ReleasedFrom(row[f], r).owners \subseteq row[f].owners
      /\ Retained(row[g], r) \in Rows /\ Retained(row[g], r).deleting = row[g].deleting
  BY <1>1, RowTypes
<1>3. row' \in [File -> Rows \cup {None}]
  BY <1>1, <1>2 DEF FilesInv, FileTypes
<1>4. \A h \in File : row'[h] # row[h] =>
        /\ row[h] # None /\ row'[h] # None /\ row'[h].deleting = row[h].deleting
        /\ row'[h].owners \subseteq row[h].owners \/ (~Locked(h) /\ ~row[h].deleting)
  BY <1>1, <1>2 DEF FilesInv, FileTypes, FilesAssumption
<1> QED BY <1>1, <1>3, <1>4, RowsChange

LEMMA RecordStep ==
  ASSUME FilesAssumption, FilesInv, NEW r \in BusinessRecord, DeleteRecord(r)
  PROVE  FilesInv'
<1> USE DEF FilesAssumption, FilesInv, FileTypes, PutsAreFresh, DeletesUnreferenced,
            SessionsInHand, NamesLapse, TasksApart, ReferencesKept, ObjectsKept, Busy, Task,
            Tasks, Does, Finishes, Idle, Locked, SessionLocked, Rows, Owner, StorageKey, Puts,
            Deletions, Single, DeleteRecord
<1>1. FileTypes'
  OBVIOUS
<1>2. PutsAreFresh'
  OBVIOUS
<1>3. DeletesUnreferenced'
  OBVIOUS
<1>4. SessionsInHand'
  OBVIOUS
<1>5. NamesLapse'
  OBVIOUS
<1>6. TasksApart'
  OBVIOUS
<1>7. ReferencesKept'
  OBVIOUS
<1>8. ObjectsKept'
  OBVIOUS
<1> QED BY <1>1, <1>2, <1>3, <1>4, <1>5, <1>6, <1>7, <1>8

LEMMA WithdrawStep ==
  ASSUME FilesAssumption, FilesInv, NEW p \in Process, NEW f \in File, WithdrawComment(p, f)
  PROVE  FilesInv'
<1> USE DEF FilesAssumption, FilesInv, FileTypes, PutsAreFresh, DeletesUnreferenced,
            SessionsInHand, NamesLapse, TasksApart, ReferencesKept, ObjectsKept, Busy, Task,
            Tasks, Does, Finishes, Idle, Locked, SessionLocked, Rows, Owner, StorageKey, Puts,
            Deletions, Single, WithdrawComment
<1>1. FileTypes'
  OBVIOUS
<1>2. PutsAreFresh'
  OBVIOUS
<1>3. DeletesUnreferenced'
  OBVIOUS
<1>4. SessionsInHand'
  OBVIOUS
<1>5. NamesLapse'
  OBVIOUS
<1>6. TasksApart'
  OBVIOUS
<1>7. ReferencesKept'
  OBVIOUS
<1>8. ObjectsKept'
  OBVIOUS
<1> QED BY <1>1, <1>2, <1>3, <1>4, <1>5, <1>6, <1>7, <1>8

LEMMA DeleteStep ==
  ASSUME FilesAssumption, FilesInv, NEW p \in Process, NEW f \in File, DeleteFile(p, f)
  PROVE  FilesInv'
<1> USE DEF FilesAssumption, FilesInv, FileTypes, PutsAreFresh, DeletesUnreferenced,
            SessionsInHand, NamesLapse, TasksApart, ReferencesKept, ObjectsKept, Busy, Task,
            Tasks, Does, Finishes, Idle, Locked, SessionLocked, Rows, Owner, StorageKey, Puts,
            Deletions, Single, DeleteFile, Visible, Prunable
<1>1. FileTypes'
  OBVIOUS
<1>2. PutsAreFresh'
  OBVIOUS
<1>3. DeletesUnreferenced'
  OBVIOUS
<1>4. SessionsInHand'
  OBVIOUS
<1>5. NamesLapse'
  OBVIOUS
<1>6. TasksApart'
  OBVIOUS
<1>7. ReferencesKept'
  OBVIOUS
<1>8. ObjectsKept'
  OBVIOUS
<1> QED BY <1>1, <1>2, <1>3, <1>4, <1>5, <1>6, <1>7, <1>8

LEMMA DiscardStep ==
  ASSUME FilesAssumption, FilesInv, NEW p \in Process, DiscardFile(p)
  PROVE  FilesInv'
<1> DEFINE f == doing[p].key
           new == Task("discard", None, None, {f})
<1>1. /\ UNCHANGED <<row, objects, upload, expiredUploads, record, mention, broken, fileFaults>>
      /\ f \in File /\ f \notin mention /\ ~Locked(f)
      /\ \A q \in Process : Busy(q, Puts) => f \notin doing[q].files
      /\ \/ doing' = [doing EXCEPT ![p] = None]
         \/ row[f] # None /\ row[f].owners = {} /\ doing' = [doing EXCEPT ![p] = new]
  BY DEF DiscardFile, Does, FilesInv, NamesLapse, Busy
<1>2. /\ \A q \in Process \ {p} : doing'[q] = doing[q]
      /\ doing'[p] = None \/ (doing'[p] = new /\ row[f] # None /\ row[f].owners = {})
  BY <1>1 DEF FilesInv, FileTypes
<1>3. /\ new \in Tasks /\ new.op = "discard" /\ new.files = {f}
      /\ new.gone = {} /\ new.failed = {} /\ new # None
  BY <1>1 DEF Tasks, Task, StorageKey, FilesAssumption
<1> HIDE DEF f, new
<1>4. FileTypes'
  BY <1>1, <1>2, <1>3 DEF FilesInv, FileTypes
<1>5. \A q \in Process :
        /\ doing'[q] # None /\ doing'[q] # doing[q]
           => q = p /\ doing'[p] = new /\ row[f] # None /\ row[f].owners = {}
        /\ \A ops : Busy(q, ops)' <=> (doing'[q] # None /\ doing'[q].op \in ops)
  BY <1>2 DEF Busy
<1>6. \A q \in Process : /\ doing'[q] # None /\ doing'[q].op # "discard" => doing'[q] = doing[q]
                         /\ Busy(q, Puts)' => Busy(q, Puts) /\ doing'[q] = doing[q]
  BY <1>3, <1>5 DEF Busy, Puts
<1>7. PutsAreFresh' /\ SessionsInHand' /\ NamesLapse'
  <2>1. PutsAreFresh'
    BY <1>1, <1>6 DEF FilesInv, PutsAreFresh
  <2>2. SessionsInHand'
    BY <1>1, <1>6 DEF FilesInv, SessionsInHand, Busy
  <2>3. NamesLapse'
    BY <1>1, <1>6 DEF FilesInv, NamesLapse, Busy
  <2> QED BY <2>1, <2>2, <2>3
<1>8. DeletesUnreferenced'
  <2> SUFFICES ASSUME NEW q \in Process, doing'[q] # None, doing'[q].op \in Deletions
      PROVE  /\ doing'[q].gone \cup doing'[q].failed \subseteq doing'[q].files
             /\ doing'[q].op = "delete" => Single(doing'[q].files)
             /\ \A g \in doing'[q].files :
                  row[g] # None /\ g \notin mention /\ row[g].owners \cap record = {}
    BY <1>1 DEF DeletesUnreferenced, Busy
  <2>1. CASE doing'[q] = doing[q]
    BY <2>1 DEF FilesInv, DeletesUnreferenced, Busy
  <2>2. CASE doing'[q] # doing[q]
    BY <1>1, <1>3, <1>5, <2>2
  <2> QED BY <2>1, <2>2
<1>9. TasksApart'
  <2> SUFFICES ASSUME NEW q \in Process, NEW r \in Process, q # r,
                      doing'[q] # None, doing'[r] # None
      PROVE  /\ doing'[q].op \in Deletions /\ doing'[r].op \in Deletions
                => doing'[q].files \cap doing'[r].files = {}
             /\ doing'[q].op \in Puts /\ doing'[r].op \in Puts
                => doing'[q].files \cap doing'[r].files = {}
             /\ doing'[q].op = "complete" /\ doing'[r].op = "complete"
                => doing'[q].key # doing'[r].key
    BY DEF TasksApart, Busy
  <2>1. CASE doing'[q] = doing[q] /\ doing'[r] = doing[r]
    BY <2>1 DEF FilesInv, TasksApart, Busy
  <2>2. CASE doing'[q] # doing[q]
    BY <1>1, <1>2, <1>3, <1>5, <2>2 DEF Locked, Busy, Puts
  <2>3. CASE doing'[r] # doing[r]
    BY <1>1, <1>2, <1>3, <1>5, <2>3 DEF Locked, Busy, Puts
  <2> QED BY <2>1, <2>2, <2>3
<1>10. ReferencesKept'
  BY <1>1 DEF FilesInv, ReferencesKept
<1>11. ObjectsKept'
  <2> SUFFICES ASSUME NEW g \in File \ broken, row[g] # None, ~row[g].deleting,
                      \A q \in Process : (doing'[q] # None /\ doing'[q].op \in Deletions)
                                         => g \notin doing'[q].gone \cup doing'[q].failed
      PROVE  objects[g] # "absent"
    BY <1>1 DEF ObjectsKept, Busy
  <2>1. ASSUME NEW q \in Process, Busy(q, Deletions)
        PROVE  g \notin doing[q].gone \cup doing[q].failed
    <3>1. doing'[q] = doing[q]
      BY <1>1, <1>2, <2>1 DEF DiscardFile, Busy, Deletions
    <3> QED BY <2>1, <3>1 DEF Busy
  <2> QED BY <2>1 DEF FilesInv, ObjectsKept
<1> QED BY <1>4, <1>7, <1>8, <1>9, <1>10, <1>11 DEF FilesInv

LEMMA CollectStep ==
  ASSUME FilesAssumption, FilesInv, NEW p \in Process, Collect(p)
  PROVE  FilesInv'
<1> USE DEF FilesAssumption, FilesInv, FileTypes, PutsAreFresh, DeletesUnreferenced,
            SessionsInHand, NamesLapse, TasksApart, ReferencesKept, ObjectsKept, Busy, Task,
            Tasks, Does, Finishes, Idle, Locked, SessionLocked, Rows, Owner, StorageKey, Puts,
            Deletions, Single, Collect, Candidates
<1>1. FileTypes'
  OBVIOUS
<1>2. PutsAreFresh'
  OBVIOUS
<1>3. DeletesUnreferenced'
  OBVIOUS
<1>4. SessionsInHand'
  OBVIOUS
<1>5. NamesLapse'
  OBVIOUS
<1>6. TasksApart'
  OBVIOUS
<1>7. ReferencesKept'
  OBVIOUS
<1>8. ObjectsKept'
  OBVIOUS
<1> QED BY <1>1, <1>2, <1>3, <1>4, <1>5, <1>6, <1>7, <1>8

LEMMA RemoveStep ==
  ASSUME FilesAssumption, FilesInv, NEW p \in Process, NEW f \in File, RemoveObject(p, f)
  PROVE  FilesInv'
<1> USE DEF FilesAssumption, FilesInv, FileTypes, PutsAreFresh, DeletesUnreferenced,
            SessionsInHand, NamesLapse, TasksApart, ReferencesKept, ObjectsKept, Busy, Task,
            Tasks, Does, Finishes, Idle, Locked, SessionLocked, Rows, Owner, StorageKey, Puts,
            Deletions, Single, RemoveObject, Left
<1>1. FileTypes'
  <2>1. doing[p] \in Tasks /\ doing'[p] = [doing[p] EXCEPT !.gone = doing[p].gone \cup {f}]
    OBVIOUS
  <2>2. [doing[p] EXCEPT !.gone = doing[p].gone \cup {f}] \in Tasks
    <3> DEFINE gone == doing[p].gone \cup {f}
    <3>1. gone \in SUBSET File
      OBVIOUS
    <3> HIDE DEF gone
    <3>2. [doing[p] EXCEPT !.gone = gone] \in Tasks
      BY <2>1, <3>1
    <3> QED BY <3>2 DEF gone
  <2>3. doing' \in [Process -> Tasks \cup {None}]
    BY <2>1, <2>2
  <2>4. objects' \in [StorageKey -> {"absent", "young", "old"}]
    OBVIOUS
  <2> QED BY <2>3, <2>4
<1>2. PutsAreFresh'
  OBVIOUS
<1>3. DeletesUnreferenced'
  OBVIOUS
<1>4. SessionsInHand'
  OBVIOUS
<1>5. NamesLapse'
  OBVIOUS
<1>6. TasksApart'
  OBVIOUS
<1>7. ReferencesKept'
  OBVIOUS
<1>8. ObjectsKept'
  <2>1. /\ Busy(p, Deletions) /\ Busy(p, Deletions)' /\ f \in doing'[p].gone
        /\ doing[p].gone \subseteq doing'[p].gone /\ doing'[p].failed = doing[p].failed
        /\ \A q \in Process \ {p} : doing'[q] = doing[q]
        /\ \A g \in File \ {f} : objects'[g] = objects[g]
        /\ UNCHANGED <<row, broken>>
    OBVIOUS
  <2> HIDE DEF Deletions, RemoveObject
  <2> QED BY <2>1
<1> QED BY <1>1, <1>2, <1>3, <1>4, <1>5, <1>6, <1>7, <1>8

LEMMA StorageFailsStep ==
  ASSUME FilesAssumption, FilesInv, NEW p \in Process, NEW f \in File, StorageFails(p, f)
  PROVE  FilesInv'
<1> USE DEF FilesAssumption, FilesInv, FileTypes, PutsAreFresh, DeletesUnreferenced,
            SessionsInHand, NamesLapse, TasksApart, ReferencesKept, ObjectsKept, Busy, Task,
            Tasks, Does, Finishes, Idle, Locked, SessionLocked, Rows, Owner, StorageKey, Puts,
            Deletions, Single, StorageFails, Left
<1>1. FileTypes'
  BY SMTT(90)
<1>2. PutsAreFresh'
  OBVIOUS
<1>3. DeletesUnreferenced'
  BY SMTT(90)
<1>4. SessionsInHand'
  OBVIOUS
<1>5. NamesLapse'
  OBVIOUS
<1>6. TasksApart'
  OBVIOUS
<1>7. ReferencesKept'
  OBVIOUS
<1>8. ObjectsKept'
  OBVIOUS
<1> QED BY <1>1, <1>2, <1>3, <1>4, <1>5, <1>6, <1>7, <1>8

LEMMA CommitDeletionStep ==
  ASSUME FilesAssumption, FilesInv, NEW p \in Process, CommitDeletion(p)
  PROVE  FilesInv'
<1> USE DEF FilesAssumption, FilesInv, FileTypes, PutsAreFresh, DeletesUnreferenced,
            SessionsInHand, NamesLapse, TasksApart, ReferencesKept, ObjectsKept, Busy, Task,
            Tasks, Does, Finishes, Idle, Locked, SessionLocked, Rows, Owner, StorageKey, Puts,
            Deletions, Single, CommitDeletion, KeepClaim, Left
<1>1. FileTypes'
  <2>1. \A f \in doing[p].failed : row[f] \in Rows
    OBVIOUS
  <2>2. \A r \in Rows : [r EXCEPT !.deleting = TRUE] \in Rows
    OBVIOUS
  <2>3. \A f \in doing[p].failed : KeepClaim(p, f) \in Rows
    BY <2>1, <2>2
  <2>4. row' \in [File -> Rows \cup {None}]
    BY <2>3
  <2>5. doing' \in [Process -> Tasks \cup {None}] /\ broken' \subseteq File
    OBVIOUS
  <2> QED BY <2>4, <2>5
<1>2. PutsAreFresh'
  OBVIOUS
<1>3. DeletesUnreferenced'
  OBVIOUS
<1>4. SessionsInHand'
  OBVIOUS
<1>5. NamesLapse'
  OBVIOUS
<1>6. TasksApart'
  OBVIOUS
<1>7. ReferencesKept'
  OBVIOUS
<1>8. ObjectsKept'
  OBVIOUS
<1> QED BY <1>1, <1>2, <1>3, <1>4, <1>5, <1>6, <1>7, <1>8

LEMMA ListStep ==
  ASSUME FilesAssumption, FilesInv, NEW p \in Process, NEW k \in StorageKey, ListObject(p, k)
  PROVE  FilesInv'
<1> USE DEF FilesAssumption, FilesInv, FileTypes, PutsAreFresh, DeletesUnreferenced,
            SessionsInHand, NamesLapse, TasksApart, ReferencesKept, ObjectsKept, Busy, Task,
            Tasks, Does, Finishes, Idle, Locked, SessionLocked, Rows, Owner, StorageKey, Puts,
            Deletions, Single, ListObject, OldEnough
<1>1. FileTypes'
  OBVIOUS
<1>2. PutsAreFresh'
  OBVIOUS
<1>3. DeletesUnreferenced'
  OBVIOUS
<1>4. SessionsInHand'
  OBVIOUS
<1>5. NamesLapse'
  OBVIOUS
<1>6. TasksApart'
  OBVIOUS
<1>7. ReferencesKept'
  OBVIOUS
<1>8. ObjectsKept'
  OBVIOUS
<1> QED BY <1>1, <1>2, <1>3, <1>4, <1>5, <1>6, <1>7, <1>8

LEMMA LookStep ==
  ASSUME FilesAssumption, FilesInv, NEW p \in Process, LookAgain(p)
  PROVE  FilesInv'
<1> USE DEF FilesAssumption, FilesInv, FileTypes, PutsAreFresh, DeletesUnreferenced,
            SessionsInHand, NamesLapse, TasksApart, ReferencesKept, ObjectsKept, Busy, Task,
            Tasks, Does, Finishes, Idle, Locked, SessionLocked, Rows, Owner, StorageKey, Puts,
            Deletions, Single, LookAgain
<1>1. FileTypes'
  OBVIOUS
<1>2. PutsAreFresh'
  OBVIOUS
<1>3. DeletesUnreferenced'
  OBVIOUS
<1>4. SessionsInHand'
  OBVIOUS
<1>5. NamesLapse'
  OBVIOUS
<1>6. TasksApart'
  OBVIOUS
<1>7. ReferencesKept'
  OBVIOUS
<1>8. ObjectsKept'
  OBVIOUS
<1> QED BY <1>1, <1>2, <1>3, <1>4, <1>5, <1>6, <1>7, <1>8

LEMMA OrphanStep ==
  ASSUME FilesAssumption, FilesInv, NEW p \in Process, RemoveOrphan(p)
  PROVE  FilesInv'
<1> USE DEF FilesAssumption, FilesInv, FileTypes, PutsAreFresh, DeletesUnreferenced,
            SessionsInHand, NamesLapse, TasksApart, ReferencesKept, ObjectsKept, Busy, Task,
            Tasks, Does, Finishes, Idle, Locked, SessionLocked, Rows, Owner, StorageKey, Puts,
            Deletions, Single, RemoveOrphan
<1>1. FileTypes'
  OBVIOUS
<1>2. PutsAreFresh'
  OBVIOUS
<1>3. DeletesUnreferenced'
  OBVIOUS
<1>4. SessionsInHand'
  OBVIOUS
<1>5. NamesLapse'
  OBVIOUS
<1>6. TasksApart'
  OBVIOUS
<1>7. ReferencesKept'
  OBVIOUS
<1>8. ObjectsKept'
  OBVIOUS
<1> QED BY <1>1, <1>2, <1>3, <1>4, <1>5, <1>6, <1>7, <1>8

LEMMA AgeStep ==
  ASSUME FilesAssumption, FilesInv, NEW k \in StorageKey, Age(k)
  PROVE  FilesInv'
<1> USE DEF FilesAssumption, FilesInv, FileTypes, PutsAreFresh, DeletesUnreferenced,
            SessionsInHand, NamesLapse, TasksApart, ReferencesKept, ObjectsKept, Busy, Task,
            Tasks, Does, Finishes, Idle, Locked, SessionLocked, Rows, Owner, StorageKey, Puts,
            Deletions, Single, Age, Putting
<1>1. FileTypes'
  OBVIOUS
<1>2. PutsAreFresh'
  OBVIOUS
<1>3. DeletesUnreferenced'
  OBVIOUS
<1>4. SessionsInHand'
  OBVIOUS
<1>5. NamesLapse'
  OBVIOUS
<1>6. TasksApart'
  OBVIOUS
<1>7. ReferencesKept'
  OBVIOUS
<1>8. ObjectsKept'
  OBVIOUS
<1> QED BY <1>1, <1>2, <1>3, <1>4, <1>5, <1>6, <1>7, <1>8

LEMMA RetireStep ==
  ASSUME FilesAssumption, FilesInv, NEW f \in File, Retire(f)
  PROVE  FilesInv' /\ KeepsRows
<1> DEFINE new == [row[f] EXCEPT !.aged = TRUE]
<1>1. /\ row[f] \in Rows /\ row' = [row EXCEPT ![f] = new] /\ Library \in Owner
      /\ UNCHANGED <<objects, upload, expiredUploads, record, mention, doing, broken, fileFaults>>
  BY DEF Retire, FilesInv, FileTypes, Owner
<1>2. new \in Rows /\ new.deleting = row[f].deleting /\ new.owners = row[f].owners
  BY <1>1, RowTypes
<1> HIDE DEF new
<1>3. row' \in [File -> Rows \cup {None}]
  BY <1>1, <1>2 DEF FilesInv, FileTypes
<1>4. \A g \in File : row'[g] # row[g] =>
        /\ row[g] # None /\ row'[g] # None /\ row'[g].deleting = row[g].deleting
        /\ row'[g].owners \subseteq row[g].owners
  BY <1>1, <1>2 DEF FilesInv, FileTypes, FilesAssumption
<1> QED BY <1>1, <1>3, <1>4, RowsChange

LEMMA CrashStep ==
  ASSUME FilesAssumption, FilesInv, NEW p \in Process, CrashProcess(p)
  PROVE  FilesInv'
<1> USE DEF FilesAssumption, FilesInv, FileTypes, PutsAreFresh, DeletesUnreferenced,
            SessionsInHand, NamesLapse, TasksApart, ReferencesKept, ObjectsKept, Busy, Task,
            Tasks, Does, Finishes, Idle, Locked, SessionLocked, Rows, Owner, StorageKey, Puts,
            Deletions, Single, CrashProcess
<1>1. FileTypes'
  OBVIOUS
<1>2. PutsAreFresh'
  OBVIOUS
<1>3. DeletesUnreferenced'
  OBVIOUS
<1>4. SessionsInHand'
  OBVIOUS
<1>5. NamesLapse'
  OBVIOUS
<1>6. TasksApart'
  OBVIOUS
<1>7. ReferencesKept'
  OBVIOUS
<1>8. ObjectsKept'
  OBVIOUS
<1> QED BY <1>1, <1>2, <1>3, <1>4, <1>5, <1>6, <1>7, <1>8

-----------------------------------------------------------------------------
LEMMA FilesInvNext ==
  ASSUME FilesAssumption, FilesInv, [FilesNext]_fileVars
  PROVE  FilesInv'
<1>1. CASE UNCHANGED fileVars
  BY <1>1 DEF fileVars, FilesInv, FileTypes, PutsAreFresh, DeletesUnreferenced, SessionsInHand,
              NamesLapse, TasksApart, ReferencesKept, ObjectsKept, Busy
<1>2. ASSUME NEW p \in Process, FileGoes(p) PROVE FilesInv'
  BY <1>2, CommitPutStep, UnstageStep, CommitAttachStep, DiscardStep, RemoveStep,
     CommitDeletionStep, LookStep, OrphanStep DEF FileGoes
<1>3. ASSUME NEW p \in Process, PutFails(p) \/ CrashProcess(p) \/ Collect(p) PROVE FilesInv'
  BY <1>3, PutFailsStep, CrashStep, CollectStep
<1>4. ASSUME NEW p \in Process, NEW f \in File,
             \/ UploadFile(p, f) \/ PostComment(p, f)
             \/ \E s \in Session : CompleteUpload(p, s, f)
      PROVE  FilesInv'
  <2>1. CASE UploadFile(p, f)
    BY <2>1, PutStep DEF UploadFile, Puts
  <2>2. CASE PostComment(p, f)
    BY <2>2, PutStep DEF PostComment, Puts
  <2>3. ASSUME NEW s \in Session, CompleteUpload(p, s, f) PROVE FilesInv'
    BY <2>3, PutStep DEF CompleteUpload, UploadPending, Puts
  <2> QED BY <1>4, <2>1, <2>2, <2>3
<1>5. ASSUME NEW p \in Process, NEW f \in File,
             \/ DeleteFile(p, f) \/ WithdrawComment(p, f) \/ StorageFails(p, f)
             \/ \E r \in BusinessRecord : Attach(p, r, f)
      PROVE  FilesInv'
  BY <1>5, DeleteStep, WithdrawStep, StorageFailsStep, AttachStep
<1>6. ASSUME NEW p \in Process,
             \/ \E s \in Session : CancelUpload(p, s)
             \/ \E k \in StorageKey : ListObject(p, k)
      PROVE  FilesInv'
  BY <1>6, CancelStep, ListStep
<1>7. ASSUME NEW s \in Session,
             PrepareUpload(s) \/ UploadContent(s) \/ SignedUpload(s) \/ ExpireUpload(s)
      PROVE  FilesInv'
  BY <1>7, SessionStep
<1>8. ASSUME NEW r \in BusinessRecord,
             \/ DeleteRecord(r)
             \/ \E f \in File : DetachFile(r, f) \/ \E g \in File : ReplaceFile(r, f, g)
      PROVE  FilesInv'
  BY <1>8, RecordStep, DetachStep, ReplaceStep
<1>9. ASSUME \/ \E k \in StorageKey : Age(k)
             \/ \E f \in File : Retire(f)
      PROVE  FilesInv'
  BY <1>9, AgeStep, RetireStep
<1> QED BY <1>1, <1>2, <1>3, <1>4, <1>5, <1>6, <1>7, <1>8, <1>9 DEF FilesNext

\* The inductive invariant holds in every reachable state.
THEOREM FilesInvariant == ASSUME FilesAssumption PROVE FilesSpec => []FilesInv
<1>1. FilesInit => FilesInv
  BY FilesInvInit
<1>2. FilesInv /\ [FilesNext]_fileVars => FilesInv'
  BY FilesInvNext
<1> QED BY <1>1, <1>2, PTL DEF FilesSpec

\* A file that is listed and can be attached has its object, whatever uploads,
\* deletions and reconciliations run at once and wherever they are interrupted.
\* (put_with_connection, remove_claimed, reconcile_batch)
THEOREM ReadableAlways == ASSUME FilesAssumption PROVE FilesSpec => []ReadableFilesExist
<1>1. FilesInv => ReadableFilesExist
  BY DEF FilesInv, FileTypes, Tasks, DeletesUnreferenced, ObjectsKept, ReadableFilesExist, Readable,
         Visible, Locked
<1> QED BY <1>1, FilesInvariant, PTL

LEMMA KeepsRowsNext ==
  ASSUME FilesAssumption, FilesInv, FilesNext
  PROVE  KeepsRows
<1>1. CASE UNCHANGED row
  BY <1>1 DEF KeepsRows
<1>2. ASSUME NEW p \in Process, CommitPut(p) PROVE KeepsRows
  <2>1. PICK f \in File : row[f] = None /\ \A g \in File \ {f} : row'[g] = row[g]
    BY <1>2, CommitsNew
  <2> QED BY <2>1 DEF KeepsRows
<1>3. ASSUME NEW p \in Process, CommitAttach(p) PROVE KeepsRows
  BY <1>3, CommitAttachStep
<1>4. ASSUME NEW p \in Process, CommitDeletion(p) PROVE KeepsRows
  <2>1. /\ Busy(p, Deletions) /\ doing[p].gone \cup doing[p].failed \subseteq doing[p].files
    BY <1>4 DEF CommitDeletion, FilesInv, DeletesUnreferenced
  <2> QED BY <1>4, <2>1 DEF CommitDeletion, KeepsRows, Deleted
<1>5. ASSUME NEW r \in BusinessRecord, NEW f \in File,
             DetachFile(r, f) \/ \E g \in File : ReplaceFile(r, f, g)
      PROVE  KeepsRows
  BY <1>5, DetachStep, ReplaceStep
<1>6. ASSUME NEW f \in File, Retire(f) PROVE KeepsRows
  BY <1>6, RetireStep
<1>7. ASSUME NEW p \in Process, FileGoes(p) PROVE KeepsRows
  BY <1>1, <1>2, <1>3, <1>4, <1>7
  DEF FileGoes, Unstage, DiscardFile, RemoveObject, LookAgain, RemoveOrphan
<1>8. ASSUME NEW p \in Process, NEW f \in File,
             \/ UploadFile(p, f) \/ PostComment(p, f) \/ DeleteFile(p, f)
             \/ WithdrawComment(p, f) \/ StorageFails(p, f)
             \/ \E s \in Session : CompleteUpload(p, s, f)
             \/ \E r \in BusinessRecord : Attach(p, r, f)
      PROVE  KeepsRows
  BY <1>1, <1>8 DEF UploadFile, PostComment, CompleteUpload, Put, DeleteFile, WithdrawComment,
                    StorageFails, Attach
<1>9. ASSUME NEW p \in Process,
             \/ PutFails(p) \/ CrashProcess(p) \/ Collect(p)
             \/ \E s \in Session : CancelUpload(p, s)
             \/ \E k \in StorageKey : ListObject(p, k)
      PROVE  KeepsRows
  BY <1>1, <1>9 DEF PutFails, CrashProcess, Collect, CancelUpload, ListObject
<1>10. ASSUME \/ \E s \in Session : \/ PrepareUpload(s) \/ UploadContent(s)
                                    \/ SignedUpload(s) \/ ExpireUpload(s)
              \/ \E r \in BusinessRecord : DeleteRecord(r)
              \/ \E k \in StorageKey : Age(k)
       PROVE  KeepsRows
  BY <1>1, <1>10 DEF PrepareUpload, UploadContent, SignedUpload, ExpireUpload, DeleteRecord, Age
<1> QED BY <1>5, <1>6, <1>7, <1>8, <1>9, <1>10 DEF FilesNext

LEMMA KeepsReferencesStep ==
  ASSUME FilesAssumption, FilesInv, FilesNext
  PROVE  KeepsReferences
<1>1. KeepsRows
  BY KeepsRowsNext
<1>2. \A f \in File : Referenced(f) => row[f] # None /\ ~row[f].deleting /\ ~Deleted(f)
  BY DEF FilesInv, FileTypes, ReferencesKept, DeletesUnreferenced, Referenced, Deleted
<1> QED BY <1>1, <1>2 DEF KeepsRows, KeepsReferences

LEMMA SettlesStep ==
  ASSUME FilesAssumption, FilesInv, FilesNext
  PROVE  SettlesUploadsOnce
<1>1. CASE UNCHANGED upload
  BY <1>1 DEF SettlesUploadsOnce
<1>2. ASSUME NEW p \in Process, CommitPut(p), ~ UNCHANGED upload PROVE SettlesUploadsOnce
  <2>1. /\ Busy(p, {"complete"})
        /\ upload' = [upload EXCEPT ![doing[p].key] = upload'[doing[p].key]]
    BY <1>2 DEF CommitPut, Busy, FilesInv, FileTypes, SessionsInHand
  <2> QED BY <2>1 DEF FilesInv, FileTypes, SessionsInHand, SettlesUploadsOnce
<1>3. ASSUME NEW p \in Process, NEW s \in Session, CancelUpload(p, s) PROVE SettlesUploadsOnce
  BY <1>3 DEF CancelUpload, FilesInv, FileTypes, SettlesUploadsOnce
<1>4. ASSUME NEW s \in Session, PrepareUpload(s) PROVE SettlesUploadsOnce
  BY <1>4 DEF PrepareUpload, FilesInv, FileTypes, SettlesUploadsOnce
<1>5. ASSUME NEW p \in Process, FileGoes(p) PROVE SettlesUploadsOnce
  BY <1>1, <1>2, <1>5
  DEF FileGoes, Unstage, CommitAttach, DiscardFile, RemoveObject, CommitDeletion, LookAgain,
      RemoveOrphan
<1>6. ASSUME NEW p \in Process, NEW f \in File,
             \/ UploadFile(p, f) \/ PostComment(p, f) \/ DeleteFile(p, f)
             \/ WithdrawComment(p, f) \/ StorageFails(p, f)
             \/ \E s \in Session : CompleteUpload(p, s, f)
             \/ \E r \in BusinessRecord : Attach(p, r, f)
      PROVE  SettlesUploadsOnce
  BY <1>1, <1>6 DEF UploadFile, PostComment, CompleteUpload, Put, DeleteFile, WithdrawComment,
                    StorageFails, Attach
<1>7. ASSUME NEW p \in Process,
             \/ PutFails(p) \/ CrashProcess(p) \/ Collect(p)
             \/ \E k \in StorageKey : ListObject(p, k)
      PROVE  SettlesUploadsOnce
  BY <1>1, <1>7 DEF PutFails, CrashProcess, Collect, ListObject
<1>8. ASSUME \/ \E s \in Session : UploadContent(s) \/ SignedUpload(s) \/ ExpireUpload(s)
             \/ \E r \in BusinessRecord :
                  \/ DeleteRecord(r)
                  \/ \E f \in File : DetachFile(r, f) \/ \E g \in File : ReplaceFile(r, f, g)
             \/ \E k \in StorageKey : Age(k)
             \/ \E f \in File : Retire(f)
      PROVE  SettlesUploadsOnce
  BY <1>1, <1>8 DEF UploadContent, SignedUpload, ExpireUpload, DeleteRecord, DetachFile,
                    ReplaceFile,
                    Age, Retire
<1> QED BY <1>3, <1>4, <1>5, <1>6, <1>7, <1>8 DEF FilesNext

\* A file that an existing record or an activity entry refers to is neither
\* claimed nor deleted, and an upload is completed or cancelled, whichever
\* commits first, and never both.  (retain_with_connection, delete_file,
\* collect_unreferenced, complete_upload, cancel_upload)
THEOREM ReferencesPreventAlways ==
  ASSUME FilesAssumption
  PROVE  FilesSpec => ReferencesPreventDeletion
<1>1. FilesInv /\ [FilesNext]_fileVars => [KeepsReferences /\ SettlesUploadsOnce]_fileVars
  BY KeepsReferencesStep, SettlesStep
<1> QED BY <1>1, FilesInvariant, PTL DEF FilesSpec, ReferencesPreventDeletion
-----------------------------------------------------------------------------
(* RealtimeEvents *)

\* The events that a stream of p received or is about to.
Sent(p) == Event \cap (Range(got[p]) \cup Range(channel[p]))

\* Events are not inserted before they are published, and each gets a sequence of its own.
RowsApart ==
  /\ \A e \in Event : drawn[e] > 0 => source[e] # None
  /\ \A e, f \in Event : e # f /\ drawn[e] = drawn[f] => drawn[e] = 0

\* The cursor of p is between what it forwarded and what it is still to forward.
CursorsFit ==
  \A p \in Replica :
    /\ cursor[p] = None <=> first[p] = None
    /\ \A e \in polled[p] : cursor[p] # None /\ cursor[p] < drawn[e]
    /\ \A e \in Sent(p) :
         /\ source[e] # None
         /\ IsForeign(p, e) => cursor[p] # None /\ 0 < drawn[e] /\ drawn[e] <= cursor[p]

StreamsInOrder ==
  \A p \in Replica :
    /\ \A i, j \in DOMAIN got[p] :
         i < j /\ got[p][i] \in Event /\ got[p][j] \in Event
         => got[p][j] \in Followers(p)[got[p][i]]
    /\ \A i, j \in DOMAIN channel[p] : i < j => channel[p][j] \in Followers(p)[channel[p][i]]
    /\ \A i \in DOMAIN got[p], j \in DOMAIN channel[p] :
         got[p][i] \in Event => channel[p][j] \in Followers(p)[got[p][i]]

\* NothingMissedSilently, while rows of a poll are still to be forwarded.
NothingOverlooked ==
  \A p \in Replica : \A e \in stored :
    PolledPast(p, e) /\ IsForeign(p, e)
    => e \in Sent(p) \cup lost[p] \cup polled[p] \/ <<p, e>> \in hidden

LossesTold ==
  \A p \in Replica : lost[p] # {} => lagged[p] \/ \E i \in DOMAIN got[p] : got[p][i] = "resync"

EventsInv ==
  /\ EventTypes /\ RowsApart /\ CursorsFit /\ StreamsInOrder
  /\ NothingOverlooked /\ LossesTold

LEMMA EventsInvInit ==
  ASSUME EventsAssumption, EventsInit
  PROVE  EventsInv
<1>1. EventTypes
  BY FS_EmptySet DEF EventsAssumption, EventsInit, EventTypes, Sequence
<1> QED
  BY <1>1
  DEF EventsAssumption, EventsInit, EventsInv, EventTypes, RowsApart, CursorsFit, StreamsInOrder,
      NothingOverlooked, LossesTold, Sent, Range
-----------------------------------------------------------------------------
\* Changes of one replica's entry.
LEMMA Replaced ==
  ASSUME NEW S, NEW f \in [Replica -> S], NEW p \in Replica, NEW x \in S, NEW g,
         g = [f EXCEPT ![p] = x]
  PROVE  g \in [Replica -> S] /\ g[p] = x /\ \A q \in Replica \ {p} : g[q] = f[q]
OBVIOUS

\* A message goes to the end of the channel; when it is full, the first one goes.
LEMMA SendStep ==
  ASSUME EventsAssumption, EventTypes, NEW p \in Replica, NEW e \in Event, Send(p, e)
  PROVE  /\ channel' \in [Replica -> Seq(Event)] /\ lagged' \in [Replica -> BOOLEAN]
         /\ lost' \in [Replica -> SUBSET Event]
         /\ \A q \in Replica : Len(channel'[q]) <= Capacity
         /\ \A q \in Replica \ {p} :
              channel'[q] = channel[q] /\ lagged'[q] = lagged[q] /\ lost'[q] = lost[q]
         /\ \E n \in {0, 1} :
              /\ Len(channel'[p]) = Len(channel[p]) - n + 1
              /\ \A j \in 1 .. Len(channel[p]) - n : channel'[p][j] = channel[p][j + n]
              /\ channel'[p][Len(channel'[p])] = e
              /\ n = 1 => channel[p] # <<>> /\ channel[p][1] \in lost'[p] /\ lagged'[p]
              /\ n = 0 => lost'[p] = lost[p] /\ lagged'[p] = lagged[p]
         /\ lost[p] \subseteq lost'[p]
<1> USE DEF EventsAssumption, EventTypes
<1> DEFINE s == channel[p]
<1>0. s \in Seq(Event) /\ Len(s) \in Nat /\ Len(s) <= Capacity
  OBVIOUS
<1>1. CASE Len(s) = Capacity
  <2>1. /\ channel' = [channel EXCEPT ![p] = Append(Tail(s), e)]
        /\ lagged' = [lagged EXCEPT ![p] = TRUE]
        /\ lost' = [lost EXCEPT ![p] = lost[p] \cup {Head(s)}]
    BY <1>1, Zenon DEF Send
  <2>2. /\ s # <<>> /\ Tail(s) \in Seq(Event) /\ Len(Tail(s)) = Len(s) - 1
        /\ \A j \in 1 .. Len(s) - 1 : Tail(s)[j] = s[j + 1]
        /\ Head(s) = s[1] /\ s[1] \in Event
    BY <1>0, <1>1
  <2>3. /\ Append(Tail(s), e) \in Seq(Event) /\ Len(Append(Tail(s), e)) = Len(s)
        /\ \A j \in 1 .. Len(s) - 1 : Append(Tail(s), e)[j] = s[j + 1]
        /\ Append(Tail(s), e)[Len(s)] = e
    BY <2>2, <1>0
  <2> HIDE DEF s
  <2>4. channel'[p] = Append(Tail(s), e) /\ lost'[p] = lost[p] \cup {s[1]} /\ lagged'[p] = TRUE
    BY <2>1, <2>2
  <2>5. /\ Len(channel'[p]) = Len(s) - 1 + 1
        /\ \A j \in 1 .. Len(s) - 1 : channel'[p][j] = s[j + 1]
        /\ channel'[p][Len(channel'[p])] = e
    BY <1>0, <2>3, <2>4
  <2>6. /\ channel' \in [Replica -> Seq(Event)] /\ lagged' \in [Replica -> BOOLEAN]
        /\ lost' \in [Replica -> SUBSET Event]
        /\ \A q \in Replica \ {p} :
              channel'[q] = channel[q] /\ lagged'[q] = lagged[q] /\ lost'[q] = lost[q]
    <3>1. /\ channel' \in [Replica -> Seq(Event)]
          /\ \A q \in Replica \ {p} : channel'[q] = channel[q]
      BY <2>1, <2>3, Replaced
    <3>2. lagged' \in [Replica -> BOOLEAN] /\ \A q \in Replica \ {p} : lagged'[q] = lagged[q]
      BY <2>1, Replaced
    <3>3. lost' \in [Replica -> SUBSET Event] /\ \A q \in Replica \ {p} : lost'[q] = lost[q]
      <4>1. lost[p] \cup {Head(s)} \in SUBSET Event
        BY <2>2
      <4> QED BY <2>1, <4>1, Replaced
    <3> QED BY <3>1, <3>2, <3>3
  <2>7. \A q \in Replica : Len(channel'[q]) <= Capacity
    <3>1. Len(channel'[p]) <= Capacity
      BY <1>0, <2>5
    <3> QED BY <2>6, <3>1
  <2>8. \E n \in {0, 1} :
          /\ Len(channel'[p]) = Len(channel[p]) - n + 1
          /\ \A j \in 1 .. Len(channel[p]) - n : channel'[p][j] = channel[p][j + n]
          /\ channel'[p][Len(channel'[p])] = e
          /\ n = 1 => channel[p] # <<>> /\ channel[p][1] \in lost'[p] /\ lagged'[p]
          /\ n = 0 => lost'[p] = lost[p] /\ lagged'[p] = lagged[p]
    <3> WITNESS 1 \in {0, 1}
    <3> QED BY <2>2, <2>4, <2>5 DEF s
  <2> QED BY <2>4, <2>6, <2>7, <2>8
<1>2. CASE Len(s) # Capacity
  <2>1. /\ channel' = [channel EXCEPT ![p] = Append(s, e)]
        /\ lagged' = [lagged EXCEPT ![p] = lagged[p]]
        /\ lost' = [lost EXCEPT ![p] = lost[p]]
    BY <1>2 DEF Send
  <2>2. /\ Append(s, e) \in Seq(Event) /\ Len(Append(s, e)) = Len(s) + 1
        /\ \A j \in 1 .. Len(s) : Append(s, e)[j] = s[j]
        /\ Append(s, e)[Len(s) + 1] = e
    BY <1>0
  <2> HIDE DEF s
  <2>3. channel'[p] = Append(s, e) /\ lost'[p] = lost[p] /\ lagged'[p] = lagged[p]
    BY <2>1
  <2>4. /\ Len(channel'[p]) = Len(s) - 0 + 1
        /\ \A j \in 1 .. Len(s) - 0 : channel'[p][j] = s[j + 0]
        /\ channel'[p][Len(channel'[p])] = e
    BY <1>0, <2>2, <2>3
  <2>5. /\ channel' \in [Replica -> Seq(Event)] /\ lagged' \in [Replica -> BOOLEAN]
        /\ lost' \in [Replica -> SUBSET Event]
        /\ \A q \in Replica \ {p} :
              channel'[q] = channel[q] /\ lagged'[q] = lagged[q] /\ lost'[q] = lost[q]
    <3>1. /\ channel' \in [Replica -> Seq(Event)]
          /\ \A q \in Replica \ {p} : channel'[q] = channel[q]
      BY <2>1, <2>2, Replaced
    <3>2. lagged' \in [Replica -> BOOLEAN] /\ lost' \in [Replica -> SUBSET Event]
      BY <2>1
    <3> QED BY <2>1, <3>1, <3>2
  <2>6. \A q \in Replica : Len(channel'[q]) <= Capacity
    <3>1. Len(channel'[p]) <= Capacity
      BY <1>0, <1>2, <2>4
    <3> QED BY <2>5, <3>1
  <2> QED BY <2>3, <2>4, <2>5, <2>6 DEF s
<1> QED BY <1>1, <1>2

LEMMA StreamsStay ==
  ASSUME UNCHANGED <<source, drawn, channel, got>>
  PROVE  /\ \A p \in Replica : Sent(p)' = Sent(p)
         /\ RowsApart => RowsApart'
         /\ StreamsInOrder => StreamsInOrder'
         /\ UNCHANGED <<lagged, lost>> /\ LossesTold => LossesTold'
<1>1. \A p \in Replica : Sent(p)' = Sent(p) /\ Followers(p)' = Followers(p)
  BY DEF Sent, Followers, IsForeign
<1>2. StreamsInOrder => StreamsInOrder'
  BY <1>1 DEF StreamsInOrder
<1>3. UNCHANGED <<lagged, lost>> /\ LossesTold => LossesTold'
  BY DEF LossesTold
<1> QED BY <1>1, <1>2, <1>3 DEF RowsApart

\* A sequence that lost its first n elements and got one at its end.
LEMMA Shifted ==
  ASSUME NEW S, NEW s \in Seq(S), NEW t \in Seq(S), NEW x, NEW n \in {0, 1},
         n <= Len(s), Len(t) = Len(s) - n + 1, t[Len(t)] = x,
         \A j \in 1 .. Len(s) - n : t[j] = s[j + n]
  PROVE  /\ Len(t) \in DOMAIN t /\ t[Len(t)] = x
         /\ \A j \in DOMAIN t : t[j] = x \/ (j + n \in DOMAIN s /\ t[j] = s[j + n])
         /\ \A i, j \in DOMAIN t :
              i < j => i + n \in DOMAIN s /\ t[i] = s[i + n] /\ i + n < j + n
         /\ \A j \in DOMAIN s : (j = 1 /\ n = 1) \/ (j - n \in DOMAIN t /\ t[j - n] = s[j])
<1>1. /\ Len(s) \in Nat /\ Len(t) \in Nat /\ n \in Int
      /\ DOMAIN s = 1 .. Len(s) /\ DOMAIN t = 1 .. Len(t)
  OBVIOUS
<1>2. Len(t) \in DOMAIN t
  BY <1>1
<1>3. ASSUME NEW j \in DOMAIN t, j # Len(t)
      PROVE  j + n \in DOMAIN s /\ t[j] = s[j + n]
  <2>1. j \in 1 .. Len(s) - n /\ j + n \in DOMAIN s
    BY <1>1, <1>3
  <2> QED BY <2>1
<1>4. \A i, j \in DOMAIN t : i < j => i # Len(t) /\ i + n < j + n
  BY <1>1
<1>5. ASSUME NEW j \in DOMAIN s, ~(j = 1 /\ n = 1)
      PROVE  j - n \in DOMAIN t /\ t[j - n] = s[j]
  <2>1. j - n \in 1 .. Len(s) - n /\ (j - n) + n = j /\ j - n \in DOMAIN t
    BY <1>1, <1>5
  <2> QED BY <2>1
<1> QED BY <1>2, <1>3, <1>4, <1>5

LEMMA StreamsAfterSend ==
  ASSUME EventsAssumption, EventTypes, StreamsInOrder, NEW p \in Replica, NEW e \in Event,
         Send(p, e), UNCHANGED got,
         \A q \in Replica : \A x, y \in Sent(q) : y \in Followers(q)[x] => y \in Followers(q)'[x],
         \A x \in Sent(p) : e \in Followers(p)'[x]
  PROVE  /\ StreamsInOrder'
         /\ Sent(p)' \subseteq Sent(p) \cup {e} /\ e \in Sent(p)'
         /\ Sent(p) \subseteq Sent(p)' \cup lost'[p]
         /\ \A q \in Replica \ {p} : Sent(q)' = Sent(q)
         /\ LossesTold => LossesTold'
<1>1. /\ \A q \in Replica : /\ channel[q] \in Seq(Event) /\ channel'[q] \in Seq(Event)
                            /\ Len(channel[q]) \in Nat /\ Len(channel'[q]) \in Nat
                            /\ DOMAIN channel[q] = 1 .. Len(channel[q])
                            /\ DOMAIN channel'[q] = 1 .. Len(channel'[q])
  BY SendStep DEF EventTypes
<1>2. PICK n \in {0, 1} :
        /\ Len(channel'[p]) = Len(channel[p]) - n + 1
        /\ \A j \in 1 .. Len(channel[p]) - n : channel'[p][j] = channel[p][j + n]
        /\ channel'[p][Len(channel'[p])] = e
        /\ n = 1 => channel[p] # <<>> /\ channel[p][1] \in lost'[p] /\ lagged'[p]
  BY SendStep
<1>3. \A q \in Replica \ {p} : channel'[q] = channel[q]
  BY SendStep
<1>4. channel[p] \in Seq(Event) /\ channel'[p] \in Seq(Event) /\ n <= Len(channel[p])
  <2>1. channel[p] # <<>> => Len(channel[p]) >= 1
    BY <1>1
  <2> QED BY <1>1, <1>2, <2>1
<1>5. /\ Len(channel'[p]) \in DOMAIN channel'[p] /\ channel'[p][Len(channel'[p])] = e
      /\ \A j \in DOMAIN channel'[p] :
           \/ channel'[p][j] = e
           \/ j + n \in DOMAIN channel[p] /\ channel'[p][j] = channel[p][j + n]
      /\ \A i, j \in DOMAIN channel'[p] :
           i < j => /\ i + n \in DOMAIN channel[p] /\ channel'[p][i] = channel[p][i + n]
                    /\ i + n < j + n
      /\ \A j \in DOMAIN channel[p] :
           \/ j = 1 /\ n = 1
           \/ j - n \in DOMAIN channel'[p] /\ channel'[p][j - n] = channel[p][j]
  <2> DEFINE s == channel[p]
             t == channel'[p]
  <2>1. /\ s \in Seq(Event) /\ t \in Seq(Event) /\ n <= Len(s)
        /\ Len(t) = Len(s) - n + 1 /\ t[Len(t)] = e
        /\ \A j \in 1 .. Len(s) - n : t[j] = s[j + n]
    BY <1>2, <1>4
  <2> HIDE DEF s, t
  <2>2. /\ Len(t) \in DOMAIN t /\ t[Len(t)] = e
        /\ \A j \in DOMAIN t : t[j] = e \/ (j + n \in DOMAIN s /\ t[j] = s[j + n])
        /\ \A i, j \in DOMAIN t :
             i < j => i + n \in DOMAIN s /\ t[i] = s[i + n] /\ i + n < j + n
        /\ \A j \in DOMAIN s : (j = 1 /\ n = 1) \/ (j - n \in DOMAIN t /\ t[j - n] = s[j])
    BY <2>1, Shifted
  <2> QED BY <2>2 DEF s, t
<1>6. \A q \in Replica : /\ \A i \in DOMAIN got[q] : got[q][i] \in Event => got[q][i] \in Sent(q)
                         /\ \A j \in DOMAIN channel[q] : channel[q][j] \in Sent(q)
  BY <1>1 DEF Sent, Range
<1>7. Sent(p)' \subseteq Sent(p) \cup {e} /\ e \in Sent(p)'
  <2>1. ASSUME NEW x \in Sent(p)' PROVE x \in Sent(p) \cup {e}
    <3>1. CASE x \in Range(got[p])
      BY <2>1, <3>1 DEF Sent
    <3>2. CASE x \in Range(channel'[p])
      BY <1>5, <1>6, <3>2 DEF Range
    <3> QED BY <2>1, <3>1, <3>2 DEF Sent
  <2>2. e \in Sent(p)'
    BY <1>5 DEF Sent, Range
  <2> QED BY <2>1, <2>2
<1>8. Sent(p) \subseteq Sent(p)' \cup lost'[p]
  <2> SUFFICES ASSUME NEW j \in DOMAIN channel[p] PROVE channel[p][j] \in Sent(p)' \cup lost'[p]
    BY DEF Sent, Range
  <2>1. CASE j = 1 /\ n = 1
    BY <1>2, <2>1
  <2>2. CASE ~(j = 1 /\ n = 1)
    <3>1. j - n \in DOMAIN channel'[p] /\ channel'[p][j - n] = channel[p][j]
      BY <1>5, <2>2
    <3> QED BY <1>6, <3>1 DEF Sent, Range
  <2> QED BY <2>1, <2>2
<1>9. \A q \in Replica \ {p} : Sent(q)' = Sent(q)
  BY <1>3 DEF Sent
<1>10. StreamsInOrder'
  <2> SUFFICES ASSUME NEW q \in Replica
      PROVE  /\ \A i, j \in DOMAIN got[q] :
                  i < j /\ got[q][i] \in Event /\ got[q][j] \in Event
                  => got[q][j] \in Followers(q)'[got[q][i]]
             /\ \A i, j \in DOMAIN channel'[q] :
                  i < j => channel'[q][j] \in Followers(q)'[channel'[q][i]]
             /\ \A i \in DOMAIN got[q], j \in DOMAIN channel'[q] :
                  got[q][i] \in Event => channel'[q][j] \in Followers(q)'[got[q][i]]
    BY DEF StreamsInOrder
  <2>1. \A i, j \in DOMAIN got[q] :
          i < j /\ got[q][i] \in Event /\ got[q][j] \in Event
          => got[q][j] \in Followers(q)'[got[q][i]]
    BY <1>6 DEF StreamsInOrder
  <2>2. /\ \A i, j \in DOMAIN channel[q] :
             i < j => channel[q][j] \in Followers(q)'[channel[q][i]]
        /\ \A i \in DOMAIN got[q], j \in DOMAIN channel[q] :
             got[q][i] \in Event => channel[q][j] \in Followers(q)'[got[q][i]]
    BY <1>6 DEF StreamsInOrder
  <2>3. CASE q # p
    BY <1>3, <2>1, <2>2, <2>3
  <2>4. CASE q = p
    <3>1. ASSUME NEW i \in DOMAIN channel'[p], NEW j \in DOMAIN channel'[p], i < j
          PROVE  channel'[p][j] \in Followers(p)'[channel'[p][i]]
      <4>1. /\ i + n \in DOMAIN channel[p] /\ channel'[p][i] = channel[p][i + n]
            /\ i + n < j + n
        BY <1>5, <3>1
      <4>2. CASE channel'[p][j] = e
        BY <1>6, <4>1, <4>2
      <4>3. CASE j + n \in DOMAIN channel[p] /\ channel'[p][j] = channel[p][j + n]
        BY <2>2, <2>4, <4>1, <4>3
      <4> QED BY <1>5, <4>2, <4>3
    <3>2. ASSUME NEW i \in DOMAIN got[p], NEW j \in DOMAIN channel'[p], got[p][i] \in Event
          PROVE  channel'[p][j] \in Followers(p)'[got[p][i]]
      BY <1>5, <1>6, <2>2, <2>4, <3>2
    <3> QED BY <2>1, <2>4, <3>1, <3>2
  <2> QED BY <2>3, <2>4
<1>11. ASSUME LossesTold PROVE LossesTold'
  <2>1. \A q \in Replica \ {p} : lost'[q] = lost[q] /\ lagged'[q] = lagged[q]
    BY SendStep
  <2>2. lagged'[p] \/ (lost'[p] = lost[p] /\ lagged'[p] = lagged[p])
    BY SendStep
  <2> QED BY <1>11, <2>1, <2>2 DEF LossesTold
<1> QED BY <1>7, <1>8, <1>9, <1>10, <1>11
-----------------------------------------------------------------------------
\* An event is new to every stream and every poll when it is published.
LEMMA PublishStep ==
  ASSUME EventsAssumption, EventsInv, NEW p \in Replica, NEW e \in Event, Publish(p, e)
  PROVE  EventsInv'
<1> USE DEF EventsInv
<1>0. /\ Send(p, e) /\ source[e] = None /\ drawn[e] = 0
      /\ UNCHANGED <<drawn, stored, cursor, first, polled, got, hidden>>
      /\ source' = [source EXCEPT ![e] = p]
  <2>1. drawn[e] \in Nat
    BY DEF EventTypes, Sequence
  <2> QED BY <2>1 DEF Publish, RowsApart
<1>1. /\ source' \in [Event -> Replica \cup {None}] /\ source'[e] = p /\ p # None
      /\ \A f \in Event \ {e} : source'[f] = source[f]
  BY <1>0 DEF EventTypes, EventsAssumption
<1>2. EventTypes'
  BY <1>0, <1>1, SendStep DEF EventTypes
<1>3. \A q \in Replica : e \notin Sent(q) /\ e \notin polled[q] /\ e \notin stored
  BY <1>0 DEF CursorsFit, EventTypes, Sequence
<1>4. /\ \A q \in Replica : \A x, y \in Sent(q) :
           y \in Followers(q)[x] => y \in Followers(q)'[x]
      /\ \A x \in Sent(p) : e \in Followers(p)'[x]
  <2>1. \A q \in Replica : \A x \in Sent(q) : x \in Event \ {e} /\ source'[x] = source[x]
    BY <1>1, <1>3 DEF Sent
  <2> QED BY <1>0, <1>1, <2>1 DEF Followers, IsForeign
<1>5. StreamsInOrder' /\ LossesTold'
  BY <1>0, <1>4, StreamsAfterSend
<1>6. /\ Sent(p)' \subseteq Sent(p) \cup {e} /\ Sent(p) \subseteq Sent(p)' \cup lost'[p]
      /\ \A q \in Replica \ {p} : Sent(q)' = Sent(q) /\ lost'[q] = lost[q]
      /\ lost[p] \subseteq lost'[p]
  BY <1>0, <1>4, StreamsAfterSend, SendStep
<1>7. RowsApart'
  BY <1>0, <1>1 DEF RowsApart
<1>8. CursorsFit'
  <2>1. \A q \in Replica : \A f \in Sent(q) : f \in Event \ {e}
    BY <1>3 DEF Sent
  <2> QED BY <1>0, <1>1, <1>6, <2>1 DEF CursorsFit, IsForeign
<1>9. NothingOverlooked'
  <2> SUFFICES ASSUME NEW q \in Replica, NEW f \in stored, PolledPast(q, f)', IsForeign(q, f)'
      PROVE  f \in Sent(q)' \cup lost'[q] \cup polled[q] \/ <<q, f>> \in hidden
    BY <1>0 DEF NothingOverlooked
  <2>1. PolledPast(q, f) /\ IsForeign(q, f)
    BY <1>0, <1>1, <1>3 DEF PolledPast, IsForeign, EventTypes
  <2> QED BY <1>6, <2>1 DEF NothingOverlooked
<1> QED BY <1>2, <1>5, <1>7, <1>8, <1>9

\* A row goes to the stream in the order of the sequences, after all that the
\* cursor has passed.
LEMMA ForwardStep ==
  ASSUME EventsAssumption, EventsInv, NEW p \in Replica, Forward(p)
  PROVE  EventsInv'
<1> USE DEF EventsInv
<1>1. PICK e \in polled[p] :
        /\ \A f \in polled[p] : drawn[e] <= drawn[f]
        /\ cursor' = [cursor EXCEPT ![p] = drawn[e]]
        /\ polled' = [polled EXCEPT ![p] = polled[p] \ {e}]
        /\ IF IsForeign(p, e) THEN Send(p, e) ELSE SendsNothing
  BY DEF Forward
<1>0. UNCHANGED <<source, drawn, stored, first, got, hidden>>
  BY DEF Forward
<1>2. /\ e \in Event /\ drawn[e] \in Sequence /\ cursor[p] \in Sequence /\ cursor[p] < drawn[e]
      /\ source[e] # None /\ drawn[e] # None
  BY DEF EventTypes, CursorsFit, RowsApart, Sequence, EventsAssumption
<1>3. /\ cursor' \in [Replica -> Sequence \cup {None}] /\ cursor'[p] = drawn[e]
      /\ \A q \in Replica \ {p} : cursor'[q] = cursor[q]
      /\ polled' \in [Replica -> SUBSET Event] /\ polled'[p] = polled[p] \ {e}
      /\ \A q \in Replica \ {p} : polled'[q] = polled[q]
  BY <1>1, <1>2 DEF EventTypes
<1>4. Cardinality(polled'[p]) <= Limit
  <2>1. IsFiniteSet(polled[p]) /\ Cardinality(polled[p]) <= Limit
    BY FS_Subset DEF EventTypes, EventsAssumption
  <2>2. Cardinality(polled'[p]) = Cardinality(polled[p]) - 1 /\ Cardinality(polled[p]) \in Nat
    BY <1>3, <2>1, FS_RemoveElement, FS_CardinalityType
  <2> QED BY <2>1, <2>2 DEF EventsAssumption
<1>5. /\ channel' \in [Replica -> Seq(Event)] /\ lagged' \in [Replica -> BOOLEAN]
      /\ lost' \in [Replica -> SUBSET Event] /\ \A q \in Replica : Len(channel'[q]) <= Capacity
  BY <1>1, <1>2, SendStep DEF SendsNothing, EventTypes
<1>6. EventTypes'
  BY <1>0, <1>3, <1>4, <1>5 DEF EventTypes
<1>7. RowsApart'
  BY <1>0 DEF RowsApart
<1>8. /\ \A q \in Replica : Followers(q)' = Followers(q)
      /\ IsForeign(p, e) => \A x \in Sent(p) : e \in Followers(p)[x]
  <2>1. \A q \in Replica : Followers(q)' = Followers(q)
    BY <1>0 DEF Followers, IsForeign
  <2>2. ASSUME IsForeign(p, e), NEW x \in Sent(p) PROVE e \in Followers(p)[x]
    <3>1. x \in Event /\ drawn[x] \in Int /\ drawn[e] \in Int /\ cursor[p] \in Int
      BY <1>2 DEF Sent, EventTypes, Sequence
    <3>2. IsForeign(p, x) => drawn[x] < drawn[e]
      BY <1>2, <3>1 DEF CursorsFit
    <3> QED BY <1>2, <2>2, <3>1, <3>2 DEF Followers
  <2> QED BY <2>1, <2>2
<1>9. /\ StreamsInOrder' /\ LossesTold'
      /\ Sent(p)' \subseteq Sent(p) \cup {e} /\ Sent(p) \subseteq Sent(p)' \cup lost'[p]
      /\ IsForeign(p, e) => e \in Sent(p)'
      /\ ~IsForeign(p, e) => Sent(p)' = Sent(p)
      /\ \A q \in Replica \ {p} : Sent(q)' = Sent(q) /\ lost'[q] = lost[q]
      /\ lost[p] \subseteq lost'[p]
  <2>1. CASE IsForeign(p, e)
    <3>1. Send(p, e) /\ UNCHANGED got
      BY <1>0, <1>1, <2>1
    <3>2. /\ \A q \in Replica : \A x, y \in Sent(q) :
               y \in Followers(q)[x] => y \in Followers(q)'[x]
          /\ \A x \in Sent(p) : e \in Followers(p)'[x]
      BY <1>8, <2>1
    <3> QED BY <1>2, <2>1, <3>1, <3>2, StreamsAfterSend, SendStep
  <2>2. CASE ~IsForeign(p, e)
    BY <1>0, <1>1, <1>8, <2>2 DEF SendsNothing, StreamsInOrder, LossesTold, Sent
  <2> QED BY <2>1, <2>2
<1>10. CursorsFit'
  <2> SUFFICES ASSUME NEW q \in Replica
      PROVE  /\ cursor'[q] = None <=> first[q] = None
             /\ \A f \in polled'[q] : cursor'[q] # None /\ cursor'[q] < drawn[f]
             /\ \A f \in Sent(q)' :
                  /\ source[f] # None
                  /\ IsForeign(q, f) => cursor'[q] # None /\ 0 < drawn[f] /\ drawn[f] <= cursor'[q]
    BY <1>0 DEF CursorsFit, IsForeign
  <2>1. CASE q # p
    BY <1>3, <1>9, <2>1 DEF CursorsFit
  <2>2. CASE q = p
    <3>1. cursor'[p] # None /\ first[p] # None
      BY <1>2, <1>3 DEF CursorsFit, EventsAssumption, Sequence
    <3>2. ASSUME NEW f \in polled'[p] PROVE cursor'[p] < drawn[f]
      <4>1. f \in polled[p] /\ f \in Event /\ f # e /\ drawn[f] \in Int /\ drawn[e] \in Int
        BY <1>3, <1>2 DEF EventTypes, Sequence
      <4>2. drawn[e] # 0
        BY <1>2 DEF Sequence
      <4> QED BY <1>1, <1>2, <1>3, <4>1, <4>2 DEF RowsApart
    <3>3. ASSUME NEW f \in Sent(p)'
          PROVE  /\ source[f] # None
                 /\ IsForeign(p, f) => 0 < drawn[f] /\ drawn[f] <= cursor'[p]
      <4>1. CASE f \in Sent(p)
        <5>1. f \in Event /\ drawn[f] \in Int /\ drawn[e] \in Int /\ cursor[p] \in Int
          BY <1>2, <4>1 DEF Sent, EventTypes, Sequence
        <5> QED BY <1>2, <1>3, <4>1, <5>1 DEF CursorsFit
      <4>2. CASE f = e
        BY <1>2, <1>3, <4>2 DEF Sequence, EventsAssumption
      <4> QED BY <1>9, <4>1, <4>2
    <3> QED BY <2>2, <3>1, <3>2, <3>3
  <2> QED BY <2>1, <2>2
<1>11. NothingOverlooked'
  <2> SUFFICES ASSUME NEW q \in Replica, NEW f \in stored, PolledPast(q, f)', IsForeign(q, f)
      PROVE  f \in Sent(q)' \cup lost'[q] \cup polled'[q] \/ <<q, f>> \in hidden
    BY <1>0 DEF NothingOverlooked, IsForeign
  <2>1. CASE q # p
    BY <1>0, <1>3, <1>9, <2>1 DEF NothingOverlooked, PolledPast
  <2>2. CASE q = p
    <3>1. PolledPast(p, f)
      BY <1>0, <1>1, <1>2, <1>3, <2>2 DEF PolledPast, Sequence, EventsAssumption
    <3>2. f \in Sent(p) \cup lost[p] \cup polled[p] \/ <<p, f>> \in hidden
      BY <2>2, <3>1 DEF NothingOverlooked
    <3> QED BY <1>3, <1>9, <2>2, <3>2
  <2> QED BY <2>1, <2>2
<1> QED BY <1>6, <1>7, <1>9, <1>10, <1>11
-----------------------------------------------------------------------------
LEMMA ReceiveStep ==
  ASSUME EventsAssumption, EventsInv, NEW p \in Replica, Receive(p)
  PROVE  EventsInv'
<1> USE DEF EventsInv
<1>0. UNCHANGED <<source, drawn, stored, cursor, first, polled, lost, hidden>>
  BY DEF Receive
<1>1. /\ got[p] \in Seq(Event \cup {"resync"}) /\ channel[p] \in Seq(Event)
      /\ "resync" \notin Event /\ \A q \in Replica : Followers(q)' = Followers(q)
  BY <1>0 DEF EventTypes, EventsAssumption, Followers, IsForeign
<1>2. PICK x \in Event \cup {"resync"} :
        /\ got' = [got EXCEPT ![p] = Append(got[p], x)]
        /\ \/ x = "resync" /\ lagged' = [lagged EXCEPT ![p] = FALSE] /\ channel' = channel
           \/ /\ channel[p] # <<>> /\ x = Head(channel[p]) /\ lagged' = lagged
              /\ channel' = [channel EXCEPT ![p] = Tail(channel[p])]
  BY <1>1, HeadTailProperties DEF Receive
<1>3. /\ got' \in [Replica -> Seq(Event \cup {"resync"})] /\ got'[p] = Append(got[p], x)
      /\ \A q \in Replica \ {p} : got'[q] = got[q]
      /\ Len(got'[p]) = Len(got[p]) + 1 /\ got'[p][Len(got[p]) + 1] = x
      /\ Len(got[p]) \in Nat /\ DOMAIN got[p] = 1 .. Len(got[p])
      /\ DOMAIN got'[p] = 1 .. Len(got[p]) + 1
      /\ \A i \in DOMAIN got[p] : got'[p][i] = got[p][i]
  <2>1. Append(got[p], x) \in Seq(Event \cup {"resync"})
    BY <1>1
  <2>2. /\ got' \in [Replica -> Seq(Event \cup {"resync"})] /\ got'[p] = Append(got[p], x)
        /\ \A q \in Replica \ {p} : got'[q] = got[q]
    BY <1>2, <2>1, Replaced DEF EventTypes
  <2> QED BY <1>1, <2>2
\* The rest of the channel, and where it was before.
<1>4. PICK n \in {0, 1} :
        /\ channel' \in [Replica -> Seq(Event)] /\ lagged' \in [Replica -> BOOLEAN]
        /\ \A q \in Replica \ {p} : channel'[q] = channel[q] /\ lagged'[q] = lagged[q]
        /\ Len(channel'[p]) <= Len(channel[p])
        /\ \A j \in DOMAIN channel'[p] : /\ j + n \in DOMAIN channel[p]
                                         /\ channel'[p][j] = channel[p][j + n]
        /\ n = 0 => x = "resync" /\ channel'[p] = channel[p]
        /\ n = 1 => /\ 1 \in DOMAIN channel[p] /\ x = channel[p][1] /\ x \in Event
                    /\ lagged'[p] = lagged[p]
                    /\ \A j \in DOMAIN channel[p] \ {1} :
                         j - 1 \in DOMAIN channel'[p] /\ channel[p][j] = channel'[p][j - 1]
  <2>1. CASE x = "resync"
    <3>1. /\ channel' = channel /\ lagged' = [lagged EXCEPT ![p] = FALSE]
          /\ Len(channel[p]) \in Nat /\ DOMAIN channel[p] = 1 .. Len(channel[p])
      BY <1>1, <1>2, <2>1, HeadTailProperties
    <3>2. /\ channel' \in [Replica -> Seq(Event)] /\ lagged' \in [Replica -> BOOLEAN]
          /\ \A q \in Replica \ {p} : channel'[q] = channel[q] /\ lagged'[q] = lagged[q]
      BY <3>1, Replaced DEF EventTypes
    <3> WITNESS 0 \in {0, 1}
    <3> QED BY <2>1, <3>1, <3>2
  <2>2. CASE x \in Event
    <3>1. /\ channel[p] # <<>> /\ x = Head(channel[p]) /\ lagged' = lagged
          /\ channel' = [channel EXCEPT ![p] = Tail(channel[p])]
      BY <1>1, <1>2, <2>2
    <3>2. /\ Tail(channel[p]) \in Seq(Event) /\ Len(Tail(channel[p])) = Len(channel[p]) - 1
          /\ Len(channel[p]) \in Nat \ {0} /\ x = channel[p][1]
          /\ \A j \in 1 .. Len(channel[p]) - 1 : Tail(channel[p])[j] = channel[p][j + 1]
      BY <1>1, <3>1
    <3>3. /\ channel' \in [Replica -> Seq(Event)] /\ channel'[p] = Tail(channel[p])
          /\ \A q \in Replica \ {p} : channel'[q] = channel[q]
      BY <3>1, <3>2, Replaced DEF EventTypes
    <3>4. /\ DOMAIN channel[p] = 1 .. Len(channel[p])
          /\ DOMAIN channel'[p] = 1 .. Len(channel[p]) - 1
          /\ \A j \in 1 .. Len(channel[p]) - 1 : channel'[p][j] = channel[p][j + 1]
          /\ Len(channel'[p]) = Len(channel[p]) - 1
      BY <1>1, <3>2, <3>3
    <3>5. \A j \in DOMAIN channel[p] \ {1} :
            j - 1 \in DOMAIN channel'[p] /\ channel[p][j] = channel'[p][j - 1]
      <4> TAKE j \in DOMAIN channel[p] \ {1}
      <4>1. j - 1 \in 1 .. Len(channel[p]) - 1 /\ (j - 1) + 1 = j
        BY <3>2, <3>4
      <4> QED BY <3>4, <4>1
    <3> WITNESS 1 \in {0, 1}
    <3> QED BY <2>2, <3>1, <3>2, <3>3, <3>4, <3>5 DEF EventTypes
  <2> QED BY <2>1, <2>2
<1>5. \A q \in Replica : Len(channel'[q]) <= Capacity
  <2>1. Len(channel'[p]) <= Capacity
    BY <1>4 DEF EventTypes, EventsAssumption
  <2> QED BY <1>4, <2>1 DEF EventTypes
<1>6. EventTypes'
  BY <1>0, <1>3, <1>4, <1>5 DEF EventTypes
<1>7. \A q \in Replica : Sent(q)' = Sent(q)
  <2>1. ASSUME NEW q \in Replica \ {p} PROVE Sent(q)' = Sent(q)
    BY <1>3, <1>4 DEF Sent
  <2>2. ASSUME NEW e \in Sent(p)' PROVE e \in Sent(p)
    <3>1. CASE e \in Range(got'[p])
      <4> PICK i \in DOMAIN got'[p] : e = got'[p][i]
        BY <3>1 DEF Range
      <4>1. CASE i \in DOMAIN got[p]
        BY <1>3, <2>2, <4>1 DEF Sent, Range
      <4>2. CASE i = Len(got[p]) + 1
        <5>1. e = x /\ e \in Event
          BY <1>3, <2>2, <4>2 DEF Sent
        <5> QED BY <1>1, <1>4, <5>1 DEF Sent, Range
      <4> QED BY <1>3, <4>1, <4>2
    <3>2. CASE e \in Range(channel'[p])
      BY <1>4, <2>2, <3>2 DEF Sent, Range
    <3> QED BY <2>2, <3>1, <3>2 DEF Sent
  <2>3. ASSUME NEW e \in Sent(p) PROVE e \in Sent(p)'
    <3>1. CASE e \in Range(got[p])
      BY <1>3, <2>3, <3>1 DEF Sent, Range
    <3>2. CASE e \in Range(channel[p])
      <4> PICK j \in DOMAIN channel[p] : e = channel[p][j]
        BY <3>2 DEF Range
      <4>1. e \in Event
        BY <2>3 DEF Sent
      <4>2. CASE n = 0
        BY <1>4, <4>1, <4>2 DEF Sent, Range
      <4>3. CASE n = 1 /\ j = 1
        <5>1. Len(got[p]) + 1 \in DOMAIN got'[p] /\ got'[p][Len(got[p]) + 1] = e
          BY <1>3, <1>4, <4>3
        <5> QED BY <4>1, <5>1 DEF Sent, Range
      <4>4. CASE n = 1 /\ j # 1
        BY <1>4, <4>1, <4>4 DEF Sent, Range
      <4> QED BY <4>2, <4>3, <4>4
    <3> QED BY <2>3, <3>1, <3>2 DEF Sent
  <2> QED BY <2>1, <2>2, <2>3
<1>8. RowsApart' /\ CursorsFit' /\ NothingOverlooked'
  BY <1>0, <1>7 DEF RowsApart, CursorsFit, NothingOverlooked, PolledPast, IsForeign
<1>9. LossesTold'
  <2>1. ASSUME NEW q \in Replica \ {p}, lost[q] # {}
        PROVE  lagged'[q] \/ \E i \in DOMAIN got'[q] : got'[q][i] = "resync"
    <3>1. got'[q] = got[q] /\ lagged'[q] = lagged[q]
      BY <1>3, <1>4
    <3> QED BY <2>1, <3>1 DEF LossesTold
  <2>2. ASSUME lost[p] # {}
        PROVE  lagged'[p] \/ \E i \in DOMAIN got'[p] : got'[p][i] = "resync"
    <3>1. CASE n = 0
      BY <1>3, <1>4, <3>1
    <3>2. CASE n = 1
      <4>1. lagged'[p] = lagged[p]
        BY <1>4, <3>2
      <4>2. \A i \in DOMAIN got[p] : i \in DOMAIN got'[p] /\ got'[p][i] = got[p][i]
        BY <1>3
      <4> QED BY <2>2, <4>1, <4>2 DEF LossesTold
    <3> QED BY <3>1, <3>2
  <2> QED BY <1>0, <2>1, <2>2 DEF LossesTold
<1>10. StreamsInOrder'
  <2>1. ASSUME NEW i \in DOMAIN got'[p], NEW j \in DOMAIN got'[p], i < j,
               got'[p][i] \in Event, got'[p][j] \in Event
        PROVE  got'[p][j] \in Followers(p)[got'[p][i]]
    <3>1. i \in DOMAIN got[p] /\ got'[p][i] = got[p][i]
      BY <1>3, <2>1
    <3>2. CASE j \in DOMAIN got[p]
      BY <1>3, <2>1, <3>1, <3>2 DEF StreamsInOrder
    <3>3. CASE j = Len(got[p]) + 1
      <4>1. got'[p][j] = x /\ n = 1
        BY <1>1, <1>3, <1>4, <2>1, <3>3
      <4> QED BY <1>4, <2>1, <3>1, <4>1 DEF StreamsInOrder
    <3> QED BY <1>3, <3>2, <3>3
  <2>2. ASSUME NEW i \in DOMAIN channel'[p], NEW j \in DOMAIN channel'[p], i < j
        PROVE  channel'[p][j] \in Followers(p)[channel'[p][i]]
    <3>1. /\ i + n \in DOMAIN channel[p] /\ channel'[p][i] = channel[p][i + n]
          /\ j + n \in DOMAIN channel[p] /\ channel'[p][j] = channel[p][j + n]
      BY <1>4
    <3>2. i + n < j + n
      BY <1>4, <2>2
    <3> QED BY <3>1, <3>2 DEF StreamsInOrder
  <2>3. ASSUME NEW i \in DOMAIN got'[p], NEW j \in DOMAIN channel'[p], got'[p][i] \in Event
        PROVE  channel'[p][j] \in Followers(p)[got'[p][i]]
    <3>1. j + n \in DOMAIN channel[p] /\ channel'[p][j] = channel[p][j + n]
      BY <1>4
    <3>2. CASE i \in DOMAIN got[p]
      BY <1>3, <2>3, <3>1, <3>2 DEF StreamsInOrder
    <3>3. CASE i = Len(got[p]) + 1
      <4>1. /\ got'[p][i] = channel[p][1] /\ n = 1 /\ 1 \in DOMAIN channel[p]
        BY <1>1, <1>3, <1>4, <2>3, <3>3
      <4>2. 1 < j + n
        BY <1>4, <4>1
      <4> QED BY <3>1, <4>1, <4>2 DEF StreamsInOrder
    <3> QED BY <1>3, <3>2, <3>3
  <2>4. ASSUME NEW q \in Replica \ {p} PROVE got'[q] = got[q] /\ channel'[q] = channel[q]
    BY <1>3, <1>4
  <2> QED BY <1>1, <2>1, <2>2, <2>3, <2>4 DEF StreamsInOrder
<1> QED BY <1>6, <1>8, <1>9, <1>10
-----------------------------------------------------------------------------
\* Nothing was sent by its sequence before it is drawn.
LEMMA InsertStep ==
  ASSUME EventsAssumption, EventsInv, NEW e \in Event, Insert(e)
  PROVE  EventsInv'
<1> USE DEF EventsInv
<1>1. PICK n \in Sequence : /\ \A f \in Event : drawn[f] < n
                            /\ drawn' = [drawn EXCEPT ![e] = n]
  BY DEF Insert
<1>2. /\ source[e] # None /\ drawn[e] = 0
      /\ UNCHANGED <<source, stored, cursor, first, polled, channel, lagged, got, lost, hidden>>
  BY DEF Insert
<1>3. /\ drawn' \in [Event -> Sequence] /\ drawn'[e] = n /\ n > 0
      /\ \A f \in Event \ {e} : drawn'[f] = drawn[f] /\ drawn[f] < n
  BY <1>1, <1>2 DEF EventTypes, Sequence
<1>4. /\ \A q \in Replica : e \notin polled[q] /\ (e \in Sent(q) => ~IsForeign(q, e))
      /\ e \notin stored
  BY <1>2 DEF CursorsFit, EventTypes, Sequence
<1>5. \A q \in Replica : \A x, y \in Sent(q) : y \in Followers(q)[x] => y \in Followers(q)'[x]
  <2> SUFFICES ASSUME NEW q \in Replica, NEW x \in Sent(q), NEW y \in Sent(q),
                      y \in Followers(q)[x]
      PROVE  y \in Followers(q)'[x]
    OBVIOUS
  <2>1. /\ x \in Event /\ y \in Event /\ y # x
        /\ IsForeign(q, x) /\ IsForeign(q, y) => drawn[x] < drawn[y]
    BY DEF Sent, Followers
  <2>2. IsForeign(q, x) /\ IsForeign(q, y) => drawn'[x] < drawn'[y]
    BY <1>3, <1>4, <2>1
  <2> QED BY <1>2, <2>1, <2>2 DEF Followers, IsForeign
<1>6. EventTypes'
  <2>1. stored \subseteq {f \in Event : drawn'[f] > 0}
    BY <1>3, <1>4 DEF EventTypes
  <2> QED BY <1>2, <1>3, <2>1 DEF EventTypes
<1>7. RowsApart'
  <2>1. \A f \in Event \ {e} : drawn'[f] # n
    <3>1. n \in Int /\ \A f \in Event : drawn[f] \in Int
      BY DEF EventTypes, Sequence
    <3> QED BY <1>3, <3>1
  <2> QED BY <1>2, <1>3, <2>1 DEF RowsApart
<1>8. CursorsFit'
  <2>1. \A q \in Replica : /\ polled[q] \subseteq Event \ {e}
                           /\ Sent(q)' = Sent(q) /\ Sent(q) \subseteq Event
    BY <1>2, <1>4 DEF EventTypes, Sent
  <2> QED BY <1>2, <1>3, <1>4, <2>1 DEF CursorsFit, IsForeign
<1>9. StreamsInOrder'
  <2>1. \A q \in Replica : /\ \A i \in DOMAIN got[q] : got[q][i] \in Event => got[q][i] \in Sent(q)
                           /\ \A j \in DOMAIN channel[q] : channel[q][j] \in Sent(q)
    BY DEF Sent, Range, EventTypes
  <2> QED BY <1>2, <1>5, <2>1 DEF StreamsInOrder
<1>10. NothingOverlooked' /\ LossesTold'
  <2>1. /\ \A f \in stored : f \in Event \ {e} /\ drawn'[f] = drawn[f]
        /\ \A q \in Replica : \A f \in polled[q] : drawn'[f] = drawn[f]
    BY <1>3, <1>4 DEF EventTypes
  <2>2. \A q \in Replica, f \in stored : PolledPast(q, f)' <=> PolledPast(q, f)
    BY <1>2, <2>1 DEF PolledPast
  <2> QED BY <1>2, <2>2 DEF NothingOverlooked, LossesTold, IsForeign, Sent
<1> QED BY <1>6, <1>7, <1>8, <1>9, <1>10

\* A row that becomes visible behind a cursor, or goes, is hidden.
LEMMA RowsStep ==
  ASSUME EventsAssumption, EventsInv, NEW e \in Event, CommitEvent(e) \/ CleanUp(e)
  PROVE  EventsInv'
<1> USE DEF EventsInv
<1>1. /\ UNCHANGED <<source, drawn, cursor, first, polled, channel, lagged, got, lost>>
      /\ stored' \subseteq {f \in Event : drawn[f] > 0} /\ hidden' \subseteq Replica \X Event
      /\ hidden \subseteq hidden'
      /\ \A f \in stored' : f \in stored \/ (f = e /\ hidden' = hidden \cup (Overtaken(e) \X {e}))
  BY DEF CommitEvent, CleanUp, EventTypes, Overtaken
<1>2. NothingOverlooked'
  <2> SUFFICES ASSUME NEW q \in Replica, NEW f \in stored', PolledPast(q, f), IsForeign(q, f)
      PROVE  f \in Sent(q) \cup lost[q] \cup polled[q] \/ <<q, f>> \in hidden'
    BY <1>1 DEF NothingOverlooked, PolledPast, IsForeign, Sent
  <2>1. CASE f \in stored
    BY <1>1, <2>1 DEF NothingOverlooked
  <2>2. CASE f = e /\ hidden' = hidden \cup (Overtaken(e) \X {e})
    BY <2>2 DEF Overtaken
  <2> QED BY <1>1, <2>1, <2>2
<1>3. EventTypes'
  BY <1>1 DEF EventTypes
<1>4. RowsApart' /\ CursorsFit' /\ StreamsInOrder' /\ LossesTold'
  BY <1>1, StreamsStay DEF CursorsFit, IsForeign
<1> QED BY <1>2, <1>3, <1>4

LEMMA StartFanoutStep ==
  ASSUME EventsAssumption, EventsInv, NEW p \in Replica, StartFanout(p)
  PROVE  EventsInv'
<1> USE DEF EventsInv
<1>1. PICK latest \in {drawn[e] : e \in stored} \cup {0} :
        cursor' = [cursor EXCEPT ![p] = latest] /\ first' = [first EXCEPT ![p] = latest]
  BY DEF StartFanout
<1>2. /\ cursor[p] = None /\ first[p] = None
      /\ UNCHANGED <<source, drawn, stored, polled, channel, lagged, got, lost, hidden>>
  BY DEF StartFanout, CursorsFit
<1>3. latest \in Sequence /\ latest # None
  BY DEF EventTypes, Sequence, EventsAssumption
<1>4. /\ cursor' \in [Replica -> Sequence \cup {None}]
      /\ first' \in [Replica -> Sequence \cup {None}]
      /\ cursor'[p] = latest /\ first'[p] = latest
      /\ \A q \in Replica \ {p} : cursor'[q] = cursor[q] /\ first'[q] = first[q]
  BY <1>1, <1>3 DEF EventTypes
<1>5. EventTypes'
  BY <1>2, <1>4 DEF EventTypes
<1>6. RowsApart' /\ StreamsInOrder' /\ LossesTold'
  BY <1>2, StreamsStay
<1>7. polled[p] = {} /\ \A e \in Sent(p) : source[e] # None /\ ~IsForeign(p, e)
  BY <1>2 DEF CursorsFit
<1>8. CursorsFit'
  <2>1. \A q \in Replica : Sent(q)' = Sent(q)
    BY <1>2, StreamsStay
  <2> QED BY <1>2, <1>3, <1>4, <1>7, <2>1 DEF CursorsFit, IsForeign
<1>9. NothingOverlooked'
  <2> SUFFICES ASSUME NEW q \in Replica, NEW f \in stored, PolledPast(q, f)', IsForeign(q, f)
      PROVE  f \in Sent(q) \cup lost[q] \cup polled[q] \/ <<q, f>> \in hidden
    BY <1>2 DEF NothingOverlooked, IsForeign, Sent
  <2>1. q # p
    <3>1. drawn[f] \in Int /\ latest \in Int
      BY <1>3 DEF EventTypes, Sequence
    <3> QED BY <1>2, <1>4, <1>7, <3>1 DEF PolledPast
  <2> QED BY <1>2, <1>4, <2>1 DEF NothingOverlooked, PolledPast
<1> QED BY <1>5, <1>6, <1>8, <1>9

\* A poll takes all rows between its cursor and the last one it takes.
LEMMA PollStep ==
  ASSUME EventsAssumption, EventsInv, NEW p \in Replica, Poll(p)
  PROVE  EventsInv'
<1> USE DEF EventsInv
<1>1. PICK rows \in SUBSET AfterCursor(p) :
        /\ Cardinality(rows) <= Limit
        /\ \A e \in rows, f \in AfterCursor(p) \ rows : drawn[e] < drawn[f]
        /\ polled' = [polled EXCEPT ![p] = rows]
  BY DEF Poll
<1>2. /\ cursor[p] # None /\ polled[p] = {}
      /\ UNCHANGED <<source, drawn, stored, cursor, first, channel, lagged, got, lost, hidden>>
  BY DEF Poll
<1>3. /\ polled' \in [Replica -> SUBSET Event] /\ polled'[p] = rows
      /\ \A q \in Replica \ {p} : polled'[q] = polled[q]
  BY <1>1 DEF EventTypes, AfterCursor
<1>4. EventTypes'
  BY <1>1, <1>2, <1>3 DEF EventTypes
<1>5. RowsApart' /\ StreamsInOrder' /\ LossesTold'
  BY <1>2, StreamsStay
<1>6. CursorsFit'
  <2>1. \A q \in Replica : Sent(q)' = Sent(q)
    BY <1>2, StreamsStay
  <2>2. \A e \in polled'[p] : cursor[p] < drawn[e]
    BY <1>3, <1>1 DEF AfterCursor, EventTypes, Sequence, EventsAssumption
  <2> QED BY <1>2, <1>3, <2>1, <2>2 DEF CursorsFit, IsForeign
<1>7. NothingOverlooked'
  <2> SUFFICES ASSUME NEW q \in Replica, NEW f \in stored, PolledPast(q, f)', IsForeign(q, f)
      PROVE  f \in Sent(q) \cup lost[q] \cup polled'[q] \/ <<q, f>> \in hidden
    BY <1>2 DEF NothingOverlooked, IsForeign, Sent
  <2>1. CASE q # p \/ PolledPast(q, f)
    BY <1>2, <1>3, <2>1 DEF NothingOverlooked, PolledPast
  <2>2. CASE q = p /\ ~PolledPast(p, f)
    <3>1. PICK e \in rows : drawn[f] <= drawn[e] /\ drawn[f] > cursor[p]
      <4>1. drawn[f] \in Int /\ cursor[p] \in Int
        BY <1>2 DEF EventTypes, Sequence
      <4> QED BY <1>2, <1>3, <2>2, <4>1 DEF PolledPast
    <3>2. f \in AfterCursor(p) /\ drawn[f] \in Int /\ drawn[e] \in Int
      BY <1>1, <3>1 DEF AfterCursor, EventTypes, Sequence
    <3> QED BY <1>1, <1>3, <2>2, <3>1, <3>2
  <2> QED BY <2>1, <2>2
<1> QED BY <1>4, <1>5, <1>6, <1>7
-----------------------------------------------------------------------------
\* EventsInv holds of every behaviour of the processes (dispatch, persist_event,
\* fanout_events).
THEOREM EventsInvariant ==
  ASSUME EventsAssumption
  PROVE  EventsSpec => []EventsInv
<1>1. EventsInit => EventsInv
  BY EventsInvInit
<1>2. EventsInv /\ [EventsNext]_eventVars => EventsInv'
  <2> SUFFICES ASSUME EventsInv, [EventsNext]_eventVars PROVE EventsInv'
    OBVIOUS
  <2>1. CASE UNCHANGED eventVars
    <3>1. EventTypes'
      BY <2>1 DEF eventVars, EventsInv, EventTypes
    <3>2. RowsApart' /\ StreamsInOrder' /\ LossesTold'
      BY <2>1, StreamsStay DEF eventVars, EventsInv
    <3>3. CursorsFit' /\ NothingOverlooked'
      BY <2>1, StreamsStay
      DEF eventVars, EventsInv, CursorsFit, NothingOverlooked, IsForeign, PolledPast
    <3> QED BY <3>1, <3>2, <3>3 DEF EventsInv
  <2>2. ASSUME NEW p \in Replica,
               \/ Receive(p) \/ StartFanout(p) \/ Poll(p) \/ Forward(p)
               \/ \E e \in Event : Publish(p, e)
        PROVE  EventsInv'
    BY <2>2, ReceiveStep, StartFanoutStep, PollStep, ForwardStep, PublishStep
  <2>3. ASSUME NEW e \in Event, Insert(e) \/ CommitEvent(e) \/ CleanUp(e)
        PROVE  EventsInv'
    BY <2>3, InsertStep, RowsStep
  <2> QED BY <2>1, <2>2, <2>3 DEF EventsNext
<1> QED BY <1>1, <1>2, PTL DEF EventsSpec

\* Streams get events once and in order; what they miss, they are told of or no
\* poll has seen.  (fanout_events, load_events and the streams of events())
THEOREM StreamsCompleteAlways ==
  ASSUME EventsAssumption
  PROVE  EventsSpec => []StreamsAreComplete
<1>1. EventsInv => StreamsAreComplete
  <2> SUFFICES ASSUME EventsInv PROVE StreamsAreComplete
    OBVIOUS
  <2> USE DEF EventsInv
  <2>1. DeliversOnceInOrder
    BY DEF DeliversOnceInOrder, StreamsInOrder
  <2>2. ASSUME NEW p \in Replica, NEW e \in stored, cursor[p] # None, first[p] < drawn[e],
               drawn[e] <= cursor[p], IsForeign(p, e)
        PROVE  \/ e \in Range(got[p]) \cup Range(channel[p]) \cup lost[p]
               \/ <<p, e>> \in hidden
    <3>1. drawn[e] \in Int /\ cursor[p] \in Int
      BY <2>2 DEF EventTypes, Sequence
    <3>2. e \notin polled[p]
      BY <2>2, <3>1 DEF CursorsFit
    <3> QED BY <2>2, <3>2 DEF NothingOverlooked, PolledPast, Sent
  <2>3. \A p \in Replica : lost[p] # {} => lagged[p] \/ "resync" \in Range(got[p])
    BY DEF LossesTold, Range
  <2> QED BY <2>1, <2>2, <2>3 DEF StreamsAreComplete, NothingMissedSilently
<1> QED BY <1>1, EventsInvariant, PTL
=============================================================================
