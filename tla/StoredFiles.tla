---------------------------- MODULE StoredFiles ----------------------------
(***************************************************************************)
(* Stored files: rows of _appstruct_files and objects of the storage,      *)
(* which commits on its own.  Requests upload, attach and delete files;    *)
(* maintenance collects files nobody refers to and deletes objects without *)
(* a row.                                                                  *)
(*                                                                         *)
(* What a process has open is doing[p].  The rows it has written are not   *)
(* in row until it commits; the rows it has locked are those it works on;  *)
(* a crash, a lost connection or a failed COMMIT ends it with no effect on *)
(* the rows.  What it did to objects stays done.                           *)
(***************************************************************************)
EXTENDS Null, Naturals, FiniteSets

CONSTANTS
  Process,        \* requests and maintenance jobs that run at once
  File,           \* published object keys, each with a row of its own
  Comment,        \* those of activity comments; the others are of the library
  BusinessRecord, \* business records files are attached to
  Session,        \* upload sessions; also the key of the staged object
  Library,        \* the owner appstruct::file::library
  MaxPending,     \* pending uploads of an actor
  MaxAttached,    \* attachments of a record
  Batch,          \* batch_size of a collection
  MaxFileFaults   \* bound: crashes, storage and database errors

VARIABLES
  row,            \* _appstruct_files
  objects,        \* the storage, with the age of what it holds
  upload,         \* _appstruct_file_uploads: state and file_id
  expiredUploads, \* sessions past expires_at
  record,         \* external: business records that exist
  mention,        \* files an activity entry refers to
  doing,          \* what each process has open
  broken,         \* history: rows that came back after their object was deleted
  fileFaults

fileVars == <<row, objects, upload, expiredUploads, record, mention, doing, broken, fileFaults>>

StorageKey == File \cup Session
Owner == BusinessRecord \cup {Library}
Rows == [owners : SUBSET Owner, deleting : BOOLEAN, aged : BOOLEAN]
\* aged: unreferenced_at is further back than the retention; it means nothing
\* while there are owners.

\* What a process has open: key names a row, a session or an object; of the
\* files of a deletion some objects are gone and for some the storage failed.
Tasks == [op : {"upload", "comment", "complete", "unstage", "attach", "withdrawn", "delete",
                "discard", "collect", "list", "orphan"},
          key : StorageKey \cup {None}, record : BusinessRecord \cup {None},
          files : SUBSET File, gone : SUBSET File, failed : SUBSET File]

FilesAssumption ==
  /\ Comment \subseteq File /\ MaxFileFaults \in Nat /\ Batch \in Nat \ {0}
  /\ MaxPending \in Nat /\ MaxAttached \in Nat
  /\ Library \notin BusinessRecord /\ File \cap Session = {}
  /\ None \notin File \cup Session /\ None \notin Rows /\ None \notin Tasks

FileTypes ==
  /\ row \in [File -> Rows \cup {None}]
  /\ objects \in [StorageKey -> {"absent", "young", "old"}]
  /\ upload \in [Session -> [state : {"new", "pending", "complete", "cancelled"},
                             file : File \cup {None}]]
  /\ expiredUploads \subseteq Session /\ record \subseteq BusinessRecord
  /\ mention \subseteq File /\ broken \subseteq File
  /\ doing \in [Process -> Tasks \cup {None}]
  /\ fileFaults \in 0 .. MaxFileFaults

FilesInit ==
  /\ row = [f \in File |-> None]
  /\ objects = [k \in StorageKey |-> "absent"]
  /\ upload = [s \in Session |-> [state |-> "new", file |-> None]]
  /\ expiredUploads = {} /\ record = BusinessRecord /\ mention = {}
  /\ doing = [p \in Process |-> None] /\ broken = {} /\ fileFaults = 0
-----------------------------------------------------------------------------
(* What is open *)

Task(op, key, record_id, files) ==
  [op |-> op, key |-> key, record |-> record_id, files |-> files, gone |-> {},
   failed |-> {}]

Busy(p, ops) == doing[p] # None /\ doing[p].op \in ops
Putting(p, f) == Busy(p, {"upload", "comment", "complete"}) /\ doing[p].files = {f}
Deletions == {"delete", "discard", "collect"}

\* FOR UPDATE, or an UPDATE that has not been committed.
Locked(f) == \E p \in Process : Busy(p, Deletions) /\ f \in doing[p].files
SessionLocked(s) == \E p \in Process : Busy(p, {"complete"}) /\ doing[p].key = s

Visible(f) == row[f] # None /\ ~row[f].deleting

\* A key made of a new UUID: nothing has ever heard of it.
Fresh(f) ==
  /\ row[f] = None /\ objects[f] = "absent" /\ f \notin mention
  /\ \A s \in Session : upload[s].file # f
  /\ \A p \in Process : doing[p] # None => doing[p].key # f /\ f \notin doing[p].files

Does(p, task) == doing' = [doing EXCEPT ![p] = task]
Finishes(p) == Does(p, None)
Idle(p) == doing[p] = None

\* retain_with_connection
Retained(r, owner) == [r EXCEPT !.owners = @ \cup {owner}, !.aged = FALSE]

MayRetain(f) == row[f] # None /\ ~row[f].deleting

\* release_with_connection: the last release starts the retention.
ReleasedFrom(r, owner) ==
  [r EXCEPT !.owners = @ \ {owner}, !.aged = r.owners = {} /\ @]
-----------------------------------------------------------------------------
(* Uploads.  The object is stored first, then the row is inserted. *)

\* put_with_connection, up to the INSERT; ObjectStoreProvider::put creates.
Put(p, f, op, s) ==
  /\ Idle(p) /\ Fresh(f) /\ (op = "comment") = (f \in Comment)
  /\ objects' = [objects EXCEPT ![f] = "young"]
  /\ Does(p, Task(op, s, None, {f}))
  /\ UNCHANGED <<row, upload, expiredUploads, record, mention, broken, fileFaults>>

UploadFile(p, f) == Put(p, f, "upload", None)
PostComment(p, f) == Put(p, f, "comment", None)

\* upload_pending, and no file_id
UploadPending(s) == upload[s].state = "pending" /\ s \notin expiredUploads

\* The staged bytes are read and validated before the copy is stored.
CompleteUpload(p, s, f) ==
  /\ ~SessionLocked(s) /\ UploadPending(s) /\ objects[s] # "absent"
  /\ Put(p, f, "complete", s)

\* A library file is retained by the library, a comment's by its entry.
CommitPut(p) ==
  /\ Busy(p, {"upload", "comment", "complete"})
  /\ LET f == CHOOSE g \in doing[p].files : TRUE
         task == doing[p]
     IN  /\ row' = [row EXCEPT ![f] =
              [owners |-> IF task.op = "comment" THEN {} ELSE {Library},
               deleting |-> FALSE, aged |-> FALSE]]
         /\ mention' = IF task.op = "comment" THEN mention \cup {f} ELSE mention
         /\ IF task.op = "complete"
            THEN /\ upload' = [upload EXCEPT ![task.key] = [state |-> "complete", file |-> f]]
                 /\ Does(p, Task("unstage", task.key, None, {}))
            ELSE /\ UNCHANGED upload
                 /\ Finishes(p)
  /\ UNCHANGED <<objects, expiredUploads, record, broken, fileFaults>>

\* The INSERT fails: the object is deleted again, if the storage lets it.
PutFails(p) ==
  /\ Busy(p, {"upload", "comment", "complete"}) /\ fileFaults < MaxFileFaults
  /\ \E left \in {TRUE, FALSE} :
       objects' = [k \in StorageKey |-> IF k \in doing[p].files /\ ~left THEN "absent" ELSE objects[k]]
  /\ Finishes(p)
  /\ fileFaults' = fileFaults + 1
  /\ UNCHANGED <<row, upload, expiredUploads, record, mention, broken>>
-----------------------------------------------------------------------------
(* Upload sessions *)

Pending == {s \in Session : UploadPending(s)}

\* Counted and inserted under the actor's advisory lock.
PrepareUpload(s) ==
  /\ upload[s].state = "new" /\ Cardinality(Pending) < MaxPending
  /\ upload' = [upload EXCEPT ![s].state = "pending"]
  /\ UNCHANGED <<row, objects, expiredUploads, record, mention, doing, broken, fileFaults>>

\* Through the backend, under the lock of the session.
UploadContent(s) ==
  /\ ~SessionLocked(s) /\ UploadPending(s) /\ objects[s] = "absent"
  /\ objects' = [objects EXCEPT ![s] = "young"]
  /\ UNCHANGED <<row, upload, expiredUploads, record, mention, doing, broken, fileFaults>>

\* With the signed URL, which knows nothing of the session's state.
SignedUpload(s) ==
  /\ upload[s].state # "new" /\ s \notin expiredUploads
  /\ objects' = [objects EXCEPT ![s] = "young"]
  /\ UNCHANGED <<row, upload, expiredUploads, record, mention, doing, broken, fileFaults>>

MayCancel(s) == ~SessionLocked(s)

CancelUpload(p, s) ==
  /\ Idle(p) /\ MayCancel(s) /\ upload[s].state \in {"pending", "cancelled"}
  /\ upload' = [upload EXCEPT ![s].state = "cancelled"]
  /\ Does(p, Task("unstage", s, None, {}))
  /\ UNCHANGED <<row, objects, expiredUploads, record, mention, broken, fileFaults>>

\* delete_staged, after the commit; a failure is only logged.
Unstage(p) ==
  /\ Busy(p, {"unstage"})
  /\ \/ objects' = [objects EXCEPT ![doing[p].key] = "absent"] /\ UNCHANGED fileFaults
     \/ fileFaults < MaxFileFaults /\ fileFaults' = fileFaults + 1 /\ UNCHANGED objects
  /\ Finishes(p)
  /\ UNCHANGED <<row, upload, expiredUploads, record, mention, broken>>

ExpireUpload(s) ==
  /\ upload[s].state # "new" /\ s \notin expiredUploads
  /\ expiredUploads' = expiredUploads \cup {s}
  /\ UNCHANGED <<row, objects, upload, record, mention, doing, broken, fileFaults>>
-----------------------------------------------------------------------------
(* References *)

\* authorize_record and owned_key read what is committed...
Attach(p, r, f) ==
  /\ Idle(p) /\ r \in record /\ Visible(f) /\ f \notin Comment
  /\ Does(p, Task("attach", f, r, {}))
  /\ UNCHANGED <<row, objects, upload, expiredUploads, record, mention, broken, fileFaults>>

\* ... and the transaction counts, waits for the row and retains the file; or it
\* refuses a record that is full and a file that is being deleted.
CommitAttach(p) ==
  /\ Busy(p, {"attach"}) /\ ~Locked(doing[p].key)
  /\ LET f == doing[p].key
         r == doing[p].record
         others == {g \in File \ {f} : Visible(g) /\ r \in row[g].owners}
     IN  IF MayRetain(f) /\ Cardinality(others) < MaxAttached
         THEN row' = [row EXCEPT ![f] = Retained(@, r)]
         ELSE UNCHANGED row
  /\ Finishes(p)
  /\ UNCHANGED <<objects, upload, expiredUploads, record, mention, broken, fileFaults>>

DetachFile(r, f) ==
  /\ r \in record /\ Visible(f) /\ f \notin Comment /\ ~Locked(f)
  /\ row' = [row EXCEPT ![f] = ReleasedFrom(@, r)]
  /\ UNCHANGED <<objects, upload, expiredUploads, record, mention, doing, broken, fileFaults>>

\* One transaction under the advisory lock of the record.
ReplaceFile(r, old, new) ==
  /\ r \in record /\ old # new /\ {old, new} \cap Comment = {}
  /\ Visible(old) /\ Visible(new) /\ ~Locked(old) /\ ~Locked(new)
  /\ r \in row[old].owners
  /\ row' = [row EXCEPT ![new] = Retained(@, r), ![old] = ReleasedFrom(@, r)]
  /\ UNCHANGED <<objects, upload, expiredUploads, record, mention, doing, broken, fileFaults>>

\* External: the entity API deletes the record and leaves its owners behind.
DeleteRecord(r) ==
  /\ r \in record
  /\ record' = record \ {r}
  /\ UNCHANGED <<row, objects, upload, expiredUploads, mention, doing, broken, fileFaults>>

\* The entry is updated and committed; its file is deleted after that.
WithdrawComment(p, f) ==
  /\ Idle(p) /\ f \in mention
  /\ mention' = mention \ {f}
  /\ Does(p, Task("withdrawn", f, None, {}))
  /\ UNCHANGED <<row, objects, upload, expiredUploads, record, broken, fileFaults>>
-----------------------------------------------------------------------------
(* Deletion: rows are claimed, objects deleted one by one, rows deleted. *)

\* What is left of the owners when those of missing records are pruned.
Prunable(f) == row[f].owners \subseteq (BusinessRecord \ record) \cup {Library}

\* delete_file
DeleteFile(p, f) ==
  /\ Idle(p) /\ Visible(f) /\ f \notin Comment /\ ~Locked(f) /\ Prunable(f)
  /\ Does(p, Task("delete", None, None, {f}))
  /\ UNCHANGED <<row, objects, upload, expiredUploads, record, mention, broken, fileFaults>>

\* FileState::delete, as the withdrawal of a comment calls it.
DiscardFile(p) ==
  /\ Busy(p, {"withdrawn"}) /\ ~Locked(doing[p].key)
  /\ LET f == doing[p].key
     IN  Does(p, IF row[f] # None /\ row[f].owners = {}
                 THEN Task("discard", None, None, {f}) ELSE None)
  /\ UNCHANGED <<row, objects, upload, expiredUploads, record, mention, broken, fileFaults>>

\* Mutant: what a failed deletion left claimed is not tried again.
AgedOnly == {f \in File : row[f] # None /\ row[f].owners = {} /\ f \notin mention
                          /\ ~row[f].deleting /\ row[f].aged}

\* Mutant: the entries' references are forgotten.
Mentioned == {f \in File : row[f] # None /\ row[f].owners = {} /\ (row[f].deleting \/ row[f].aged)}

Candidates == {f \in File : /\ row[f] # None /\ row[f].owners = {} /\ f \notin mention
                            /\ row[f].deleting \/ row[f].aged}

\* SKIP LOCKED, LIMIT batch_size
Collect(p) ==
  /\ Idle(p)
  /\ \E files \in SUBSET {f \in Candidates : ~Locked(f)} :
       /\ files # {} /\ Cardinality(files) <= Batch
       /\ Cardinality(files) = Batch \/ files = {f \in Candidates : ~Locked(f)}
       /\ Does(p, Task("collect", None, None, files))
  /\ UNCHANGED <<row, objects, upload, expiredUploads, record, mention, broken, fileFaults>>

Left(p) == doing[p].files \ (doing[p].gone \cup doing[p].failed)

RemoveObject(p, f) ==
  /\ Busy(p, Deletions) /\ f \in Left(p)
  /\ objects' = [objects EXCEPT ![f] = "absent"]
  /\ doing' = [doing EXCEPT ![p].gone = @ \cup {f}]
  /\ UNCHANGED <<row, upload, expiredUploads, record, mention, broken, fileFaults>>

\* The storage reports an error, with the object deleted or not.  delete_file
\* returns without COMMIT; the others keep the claim and go on.
StorageFails(p, f) ==
  /\ Busy(p, Deletions) /\ f \in Left(p) /\ fileFaults < MaxFileFaults
  /\ \E after \in {"absent", objects[f]} :
       /\ objects' = [objects EXCEPT ![f] = after]
       /\ IF doing[p].op = "delete"
          THEN Finishes(p) /\ broken' = IF after = "absent" THEN broken \cup {f} ELSE broken
          ELSE doing' = [doing EXCEPT ![p].failed = @ \cup {f}] /\ UNCHANGED broken
  /\ fileFaults' = fileFaults + 1
  /\ UNCHANGED <<row, upload, expiredUploads, record, mention>>

\* Failed objects stay marked for retry.
KeepClaim(p, f) == [row[f] EXCEPT !.deleting = TRUE]

CommitDeletion(p) ==
  /\ Busy(p, Deletions) /\ Left(p) = {}
  /\ row' = [f \in File |-> IF f \in doing[p].gone THEN None
                            ELSE IF f \in doing[p].failed THEN KeepClaim(p, f) ELSE row[f]]
  /\ broken' = broken \ doing[p].gone
  /\ Finishes(p)
  /\ UNCHANGED <<objects, upload, expiredUploads, record, mention, fileFaults>>
-----------------------------------------------------------------------------
(* Reconciliation of the storage with the rows, in delete mode *)

\* Mutant: young objects are looked at.
AnyAge == {"young", "old"}

OldEnough == {"old"}

\* known_keys, of a batch
ListObject(p, k) ==
  /\ Idle(p) /\ objects[k] \in OldEnough /\ (k \in File => row[k] = None)
  /\ Does(p, Task("list", k, None, {}))
  /\ UNCHANGED <<row, objects, upload, expiredUploads, record, mention, broken, fileFaults>>

\* known_keys, of the one key
LookAgain(p) ==
  /\ Busy(p, {"list"})
  /\ Does(p, IF doing[p].key \in File /\ row[doing[p].key] # None THEN None
             ELSE Task("orphan", doing[p].key, None, {}))
  /\ UNCHANGED <<row, objects, upload, expiredUploads, record, mention, broken, fileFaults>>

RemoveOrphan(p) ==
  /\ Busy(p, {"orphan"})
  /\ objects' = [objects EXCEPT ![doing[p].key] = "absent"]
  /\ Finishes(p)
  /\ UNCHANGED <<row, upload, expiredUploads, record, mention, broken, fileFaults>>
-----------------------------------------------------------------------------
(* Time and faults *)

\* min_age exceeds the longest transaction and the 15 minutes of a session.
Age(k) ==
  /\ objects[k] = "young"
  /\ \A p \in Process : ~Putting(p, k)
  /\ k \in Session => k \in expiredUploads /\ ~SessionLocked(k)
  /\ objects' = [objects EXCEPT ![k] = "old"]
  /\ UNCHANGED <<row, upload, expiredUploads, record, mention, doing, broken, fileFaults>>

\* unreferenced_at is the insertion's time, also of a file an entry refers to.
Retire(f) ==
  /\ row[f] # None /\ row[f].owners = {} /\ ~row[f].aged
  /\ row' = [row EXCEPT ![f].aged = TRUE]
  /\ UNCHANGED <<objects, upload, expiredUploads, record, mention, doing, broken, fileFaults>>

\* The process or its connection is lost, or its COMMIT fails.
CrashProcess(p) ==
  /\ ~Idle(p) /\ fileFaults < MaxFileFaults
  /\ broken' = broken \cup {f \in doing[p].gone \cup doing[p].failed : objects[f] = "absent"}
  /\ Finishes(p)
  /\ fileFaults' = fileFaults + 1
  /\ UNCHANGED <<row, objects, upload, expiredUploads, record, mention>>
-----------------------------------------------------------------------------
FileGoes(p) ==
  \/ CommitPut(p) \/ Unstage(p) \/ CommitAttach(p) \/ DiscardFile(p)
  \/ \E f \in File : RemoveObject(p, f)
  \/ CommitDeletion(p) \/ LookAgain(p) \/ RemoveOrphan(p)

FilesNext ==
  \/ \E p \in Process :
       \/ FileGoes(p) \/ PutFails(p) \/ CrashProcess(p) \/ Collect(p)
       \/ \E f \in File : \/ UploadFile(p, f) \/ PostComment(p, f) \/ DeleteFile(p, f)
                          \/ WithdrawComment(p, f) \/ StorageFails(p, f)
                          \/ \E s \in Session : CompleteUpload(p, s, f)
                          \/ \E r \in BusinessRecord : Attach(p, r, f)
       \/ \E s \in Session : CancelUpload(p, s)
       \/ \E k \in StorageKey : ListObject(p, k)
  \/ \E s \in Session : PrepareUpload(s) \/ UploadContent(s) \/ SignedUpload(s) \/ ExpireUpload(s)
  \/ \E r \in BusinessRecord :
       \/ DeleteRecord(r)
       \/ \E f \in File : DetachFile(r, f) \/ \E g \in File : ReplaceFile(r, f, g)
  \/ \E k \in StorageKey : Age(k)
  \/ \E f \in File : Retire(f)

FilesSpec == FilesInit /\ [][FilesNext]_fileVars

\* Handlers go on, time passes, and the operator runs the two maintenance
\* functions again and again, so that each object is listed at some time.
FilesFairness ==
  /\ \A p \in Process : WF_fileVars(FileGoes(p))
  /\ \A s \in Session : WF_fileVars(ExpireUpload(s))
  /\ \A k \in StorageKey : WF_fileVars(Age(k)) /\ SF_fileVars(\E p \in Process : ListObject(p, k))
  /\ \A f \in File : SF_fileVars(\E p \in Process : Collect(p) /\ f \in doing'[p].files)

FairFilesSpec == FilesSpec /\ FilesFairness
-----------------------------------------------------------------------------
(* Properties *)

Readable(f) == Visible(f) /\ ~Locked(f)

\* A file that is listed and can be attached has its object, although objects
\* are stored before and deleted before the row's transaction commits, and
\* reconciliation looks at rows and objects at different times.  What a
\* deletion that was interrupted between object and row leaves is exempt: a
\* rollback cannot restore storage.  (put_with_connection, remove_claimed,
\* reconcile_batch)
ReadableFilesExist ==
  FileTypes /\ \A f \in File \ broken : Readable(f) => objects[f] # "absent"

Referenced(f) == f \in mention \/ (row[f] # None /\ row[f].owners \cap record # {})

\* A file that a record which exists or an entry refers to keeps its row and
\* stays unclaimed, although the reference was authorized before the row was
\* locked.  (retain_with_connection,
\* delete_file, collect_unreferenced)
KeepsReferences == \A f \in File : Referenced(f) => row'[f] # None /\ ~row'[f].deleting

\* An upload is completed once or cancelled once, whichever commits first, and
\* not completed after it was cancelled.  (complete_upload, cancel_upload)
SettlesUploadsOnce ==
  \A s \in Session : upload[s].state \in {"complete", "cancelled"} => upload'[s] = upload[s]

\* References prevent deletion, and uploads are settled once.
ReferencesPreventDeletion == [][KeepsReferences /\ SettlesUploadsOnce]_fileVars

Orphan(k) == objects[k] # "absent" /\ (k \in File => row[k] = None)

\* Objects without a row and rows whose deletion failed do not stay: the
\* object is published or removed, the row is deleted.  (reconcile_storage,
\* collect_unreferenced)
LeftoversGo ==
  /\ \A k \in StorageKey : Orphan(k) ~> ~Orphan(k)
  /\ \A f \in File : (row[f] # None /\ row[f].deleting) ~> row[f] = None
=============================================================================
