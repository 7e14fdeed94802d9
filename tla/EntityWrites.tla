----------------------------- MODULE EntityWrites -----------------------------
(***************************************************************************)
(* The generated API of an entity: reads answer with a revision, writes    *)
(* name the revision they are about, one record at a time or in bulk.      *)
(*                                                                         *)
(* A write locks the row (SELECT ... FOR UPDATE) and holds it until its    *)
(* transaction ends.  A bulk request locks its rows in the order it names  *)
(* them, each in a savepoint: what fails is undone alone and gives its     *)
(* lock back, and the database ends a cycle of waits by failing one item.  *)
(***************************************************************************)
EXTENDS Null, Naturals, Sequences

CONSTANTS
  Client,
  EntityRecord,
  Soft,        \* records of entities with soft deletion
  MaxRevision, \* bound, of each record
  BulkItems    \* bound: records of a bulk request

VARIABLES
  record,  \* committed rows, None before they are created
  rowLock, \* the transaction that locked each row
  seen,    \* the rows as each client was last shown them
  writing  \* the request of each client

writeVars == <<record, rowLock, seen, writing>>

Revision == Nat \ {0}
\* text stands for the fields, a workflow's among them: an update changes it.
RowOf == [revision : Revision, text : {0, 1}, state : {"live", "deleted", "gone"}]
\* A workflow transition is an update; whether the workflow and the policies
\* admit it is left open, as it is for the other kinds (RefuseItem).
WriteKind == {"update", "delete", "restore"}

\* The rest of a request's items is still to be done; wrote is its transaction.
WriteRequest == [kind : WriteKind, bulk : BOOLEAN, items : Seq(EntityRecord), next : Nat \ {0},
                 wrote : [EntityRecord -> RowOf \cup {None}]]

WritesAssumption ==
  /\ Soft \subseteq EntityRecord /\ MaxRevision \in [EntityRecord -> Nat \ {0}]
  /\ BulkItems \in Nat \ {0}
  /\ None \notin Client /\ None \notin RowOf /\ None \notin WriteRequest

WriteTypes ==
  /\ record \in [EntityRecord -> RowOf \cup {None}]
  /\ rowLock \in [EntityRecord -> Client \cup {None}]
  /\ seen \in [Client -> [EntityRecord -> RowOf \cup {None}]]
  /\ writing \in [Client -> WriteRequest \cup {None}]
  /\ \A c \in Client : writing[c] # None => writing[c].next <= Len(writing[c].items) + 1

Nothing == [r \in EntityRecord |-> None]

WritesInit ==
  /\ record = Nothing /\ rowLock = [r \in EntityRecord |-> None]
  /\ seen = [c \in Client |-> Nothing] /\ writing = [c \in Client |-> None]
-----------------------------------------------------------------------------
(* One record and no lock *)

Create(c, r) ==
  /\ record[r] = None
  /\ LET new == [revision |-> 1, text |-> 0, state |-> "live"]
     IN  record' = [record EXCEPT ![r] = new] /\ seen' = [seen EXCEPT ![c][r] = new]
  /\ UNCHANGED <<rowLock, writing>>

\* What a client was shown stays what it goes by until its request has ended.
\* Deleted records of a soft entity are listed for those who may restore them.
Read(c, r) ==
  /\ writing[c] = None /\ record[r] # None /\ record[r].state # "gone"
  /\ seen' = [seen EXCEPT ![c][r] = record[r]]
  /\ UNCHANGED <<record, rowLock, writing>>

Ask(c) ==
  /\ writing[c] = None
  /\ \E kind \in WriteKind, bulk \in BOOLEAN :
       \E items \in [1 .. IF bulk THEN BulkItems ELSE 1 -> EntityRecord] :
         /\ kind = "restore" => bulk
         /\ \A i \in DOMAIN items : /\ seen[c][items[i]] # None
                                    /\ kind = "restore" => items[i] \in Soft
         /\ writing' = [writing EXCEPT ![c] =
              [kind |-> kind, bulk |-> bulk, items |-> items, next |-> 1, wrote |-> Nothing]]
  /\ UNCHANGED <<record, rowLock, seen>>
-----------------------------------------------------------------------------
(* The items of a request, in order *)

Open(c) == writing[c] # None /\ writing[c].next <= Len(writing[c].items)
Item(c) == writing[c].items[writing[c].next]
Before(c, r) == IF writing[c].wrote[r] # None THEN writing[c].wrote[r] ELSE record[r]

\* Mutants: a row restored has the revision it was deleted with; the revision a
\* client names is not compared.
UnbumpedRestore(kind, b) == IF kind = "restore" THEN b.revision ELSE b.revision + 1
KnownBefore(c, b) == TRUE

Found(kind, b) == b.state = IF kind = "restore" THEN "deleted" ELSE "live"

IsExpected(c, b) == b.revision = seen[c][Item(c)].revision

NextRevision(kind, b) == b.revision + 1

Admitted(c, b) == Found(writing[c].kind, b) /\ IsExpected(c, b)

After(c, r, b) ==
  LET kind == writing[c].kind
      new == [b EXCEPT !.revision = NextRevision(kind, b)]
  IN  CASE kind = "update"     -> [new EXCEPT !.text = 1 - @]
        [] kind = "restore"    -> [new EXCEPT !.state = "live"]
        [] kind = "delete"     -> IF r \in Soft THEN [new EXCEPT !.state = "deleted"]
                                                ELSE [b EXCEPT !.state = "gone"]

Free(c) == rowLock[Item(c)] \in {None, c}

WriteItem(c) ==
  /\ Open(c) /\ Free(c)
  /\ LET r == Item(c)
         b == Before(c, r)
     IN  /\ Admitted(c, b) /\ b.revision < MaxRevision[r]
         /\ rowLock' = [rowLock EXCEPT ![r] = c]
         /\ writing' = [writing EXCEPT ![c].next = @ + 1, ![c].wrote[r] = After(c, r, b)]
  /\ UNCHANGED <<record, seen>>

Unlock(c) == [r \in EntityRecord |-> IF rowLock[r] = c THEN None ELSE rowLock[r]]

EndRequest(c) ==
  /\ rowLock' = Unlock(c) /\ writing' = [writing EXCEPT ![c] = None]

\* The savepoint is rolled back, or, for a request about one record, everything.
FailItem(c) ==
  /\ IF writing[c].bulk
     THEN writing' = [writing EXCEPT ![c].next = @ + 1] /\ UNCHANGED rowLock
     ELSE EndRequest(c)
  /\ UNCHANGED <<record, seen>>

\* Not found, another revision, or refused by access rules, policies or hooks.
RefuseItem(c) == Open(c) /\ Free(c) /\ FailItem(c)

WaitsFor(c, d) == Open(c) /\ rowLock[Item(c)] = d
DeadlockDetected(c) ==
  /\ \E d \in Client \ {c} : WaitsFor(c, d) /\ WaitsFor(d, c)
  /\ FailItem(c)

Wrote(c) == {r \in EntityRecord : writing[c].wrote[r] # None}

CommitWrites(c) ==
  /\ writing[c] # None /\ ~Open(c)
  /\ record' = [r \in EntityRecord |-> Before(c, r)]
  /\ seen' = IF writing[c].bulk THEN seen
             ELSE [seen EXCEPT ![c] =
                     [r \in EntityRecord |-> IF r \in Wrote(c) THEN Before(c, r) ELSE @[r]]]
  /\ EndRequest(c)

\* The connection is lost before the COMMIT.
LoseConnection(c) ==
  /\ writing[c] # None /\ EndRequest(c)
  /\ UNCHANGED <<record, seen>>

WritesNext ==
  \E c \in Client :
    \/ \E r \in EntityRecord : Create(c, r) \/ Read(c, r)
    \/ Ask(c) \/ WriteItem(c) \/ RefuseItem(c) \/ DeadlockDetected(c) \/ CommitWrites(c)
    \/ LoseConnection(c)

WritesSpec == WritesInit /\ [][WritesNext]_writeVars
-----------------------------------------------------------------------------
(* Properties *)

\* Who is shown a revision is shown the record it stands for: no operation,
\* alone or in bulk, changes a record and keeps its revision.
RevisionsTellContents ==
  /\ WriteTypes
  /\ \A c \in Client, r \in EntityRecord :
       seen[c][r] # None /\ seen[c][r].revision = record[r].revision
       => seen[c][r] = record[r] \/ record[r].state = "gone"

\* Whatever a commit replaces is what its client had been shown: nobody's
\* change is overwritten unseen, whichever the kind of either request.
OverwritesWhatWasSeen ==
  \A c \in Client, r \in EntityRecord :
    writing[c] # None /\ writing'[c] = None /\ record'[r] # record[r] => record[r] = seen[c][r]
NothingOverwritten == [][OverwritesWhatWasSeen]_writeVars
=============================================================================
