-------------------------- MODULE MigrationRunner --------------------------
(***************************************************************************)
(* migrate apply and the database half of migrate baseline: a process      *)
(* reads the migration files of its checkout, takes the advisory lock,     *)
(* compares the files with the history table and executes what is pending, *)
(* each file in one transaction with its history row or, when the file     *)
(* turns the transaction off, between two marks in the history.            *)
(* Developers change the files meanwhile; processes die, lose their        *)
(* connection and meet SQL errors; an operator repairs a dirty history.    *)
(* Statements that run in one transaction are one step.                    *)
(***************************************************************************)
EXTENDS Null, Naturals

CONSTANTS
  MaxId,         \* bound: migration files, in the order of their names
  Content,       \* what a migration file may say; equal exactly when checksums are
  Untransacted,  \* contents with -- appstruct:transaction=off
  Applier,       \* processes of migrate apply
  Baseliner,     \* processes of migrate baseline --accept
  MaxEdits,      \* bound: changes to the migrations directory
  MaxFaults      \* bound: kills and lost connections together

Id == 1 .. MaxId
Process == Applier \cup Baseliner

ASSUME RunnerAssumption ==
  /\ MaxId \in Nat /\ MaxEdits \in Nat /\ MaxFaults \in Nat
  /\ Untransacted \subseteq Content /\ None \notin Content /\ None \notin Process

VARIABLES
  files,            \* migrations/*.sql
  \* _appstruct_migrations
  state, checksum,
  \* the database: the content whose structure each migration has, whether half
  \* of one is there, and how often a runner executed one to its end
  structure, half, executed,
  holder,           \* the session that has the advisory lock
  \* processes: where they are, the files they loaded, what is left to apply
  at, view, todo,
  edits, faults

history == <<state, checksum>>
database == <<structure, half, executed>>
process == <<at, view, todo>>
vars == <<files, history, database, holder, process, edits, faults>>

File == Content \cup {None}
Places == {"idle", "loaded", "locked", "applying", "marked", "ran", "failed", "orphan"}

TypeOK ==
  /\ files \in [Id -> File] /\ checksum \in [Id -> File]
  /\ state \in [Id -> {"absent", "applying", "applied", "failed"}]
  /\ structure \in [Id -> File] /\ half \in [Id -> BOOLEAN] /\ executed \in [Id -> Nat]
  /\ holder \in Process \cup {None}
  /\ at \in [Process -> Places] /\ view \in [Process -> [Id -> File]]
  /\ todo \in [Process -> SUBSET Id]
  /\ edits \in 0 .. MaxEdits /\ faults \in 0 .. MaxFaults
  /\ holder # None => at[holder] \notin {"idle", "loaded"}

\* The database is new, or has the tables of the first migration already.
Init ==
  /\ files \in [Id -> File]
  /\ state = [i \in Id |-> "absent"] /\ checksum = [i \in Id |-> None]
  /\ structure \in {[i \in Id |-> IF i = 1 THEN c ELSE None] : c \in File}
  /\ half = [i \in Id |-> FALSE] /\ executed = [i \in Id |-> 0]
  /\ holder = None
  /\ at = [p \in Process |-> "idle"] /\ view = [p \in Process |-> [i \in Id |-> None]]
  /\ todo = [p \in Process |-> {}]
  /\ edits = MaxEdits /\ faults = MaxFaults
-----------------------------------------------------------------------------
Go(p, place) == at' = [at EXCEPT ![p] = place]

\* Mutant: the session stays open.
EndsConnected(p) ==
  /\ Go(p, "idle") /\ UNCHANGED holder
  /\ view' = [view EXCEPT ![p] = [i \in Id |-> None]] /\ todo' = [todo EXCEPT ![p] = {}]
\* The process returns; its session ends and gives the lock up.
Ends(p) ==
  /\ Go(p, "idle")
  /\ view' = [view EXCEPT ![p] = [i \in Id |-> None]] /\ todo' = [todo EXCEPT ![p] = {}]
  /\ holder' = IF holder = p THEN None ELSE holder

\* What baseline accepts: one unchanged canonical initial migration.
Canonical(v) ==
  \E i \in Id : v[i] \in Content \ Untransacted /\ \A j \in Id \ {i} : v[j] = None

\* ProjectMigrations::load and, for baseline, validate_project.
Load(p) ==
  /\ at[p] = "idle"
  /\ p \in Baseliner => Canonical(files)
  /\ view' = [view EXCEPT ![p] = files] /\ Go(p, "loaded")
  /\ UNCHANGED <<files, history, database, holder, todo, edits, faults>>

AdvisoryLock(p) == holder = None /\ holder' = p

Lock(p) ==
  /\ at[p] = "loaded" /\ AdvisoryLock(p) /\ Go(p, "locked")
  /\ UNCHANGED <<files, history, database, view, todo, edits, faults>>

\* Mutant: the history must be a part of the files, not their beginning.
ReconcilesAnywhere(v) ==
  \A i \in Id : state[i] # "absent" => state[i] = "applied" /\ checksum[i] = v[i]
\* reconcile: row by row, the history is the beginning of the files.
Reconciles(v) ==
  /\ \A i \in Id : state[i] # "absent" => state[i] = "applied" /\ checksum[i] = v[i]
  /\ \A i, j \in Id : j < i /\ state[i] # "absent" /\ v[j] # None => state[j] # "absent"

Pending(v) == {i \in Id : v[i] # None /\ state[i] = "absent"}

\* apply_project under the lock, up to the first migration.
Reconcile(p) ==
  /\ p \in Applier /\ at[p] = "locked"
  /\ IF Reconciles(view[p])
     THEN /\ todo' = [todo EXCEPT ![p] = Pending(view[p])] /\ Go(p, "applying")
          /\ UNCHANGED <<view, holder>>
     ELSE Ends(p)
  /\ UNCHANGED <<files, history, database, edits, faults>>

\* require_matching_schema.
Matches(v) == \A i \in Id : structure[i] = v[i] /\ ~half[i]

\* baseline_project under the lock: one transaction.
Register(p) ==
  /\ p \in Baseliner /\ at[p] = "locked"
  /\ IF Reconciles(view[p]) /\ Matches(view[p]) /\ \A i \in Id : state[i] = "absent"
     THEN /\ state' = [i \in Id |-> IF view[p][i] # None THEN "applied" ELSE "absent"]
          /\ checksum' = view[p]
     ELSE UNCHANGED history
  /\ Ends(p)
  /\ UNCHANGED <<files, database, edits, faults>>
-----------------------------------------------------------------------------
(* Executing one migration *)

\* The file the loop of apply_project has reached.
Reached(p, i) == i \in todo[p] /\ \A j \in todo[p] : i <= j

Mark(i, s) == state' = [state EXCEPT ![i] = s]
Record(p, i, s) == Mark(i, s) /\ checksum' = [checksum EXCEPT ![i] = view[p][i]]

\* SQL that reaches its end. Tables the runner did not create are in its way.
Executes(p, i) ==
  /\ ~(structure[i] # None /\ executed[i] = 0)
  /\ structure' = [structure EXCEPT ![i] = view[p][i]]
  /\ executed' = [executed EXCEPT ![i] = @ + 1]
  /\ UNCHANGED half

\* SQL outside a transaction that fails, at once or half way.
Breaks(i) ==
  /\ \E b \in BOOLEAN : half' = [half EXCEPT ![i] = b]
  /\ UNCHANGED <<structure, executed>>

\* apply_transactional: its own error, or a failed commit, changes nothing.
ApplyTransaction(p, i) ==
  /\ at[p] = "applying" /\ Reached(p, i) /\ view[p][i] \notin Untransacted
  /\ \/ /\ state[i] = "absent" /\ Executes(p, i) /\ Record(p, i, "applied")
        /\ todo' = [todo EXCEPT ![p] = @ \ {i}]
        /\ UNCHANGED <<at, view, holder>>
     \/ Ends(p) /\ UNCHANGED <<history, database>>
  /\ UNCHANGED <<files, edits, faults>>

MarksApplying(p, i) == Record(p, i, "applying")

\* apply_without_transaction: a row that is there already is an error.
MarkApplying(p, i) ==
  /\ at[p] = "applying" /\ Reached(p, i) /\ view[p][i] \in Untransacted
  /\ IF state[i] = "absent"
     THEN MarksApplying(p, i) /\ Go(p, "marked") /\ UNCHANGED <<view, todo, holder>>
     ELSE Ends(p) /\ UNCHANGED history
  /\ UNCHANGED <<files, database, edits, faults>>

RunSql(p, i) ==
  /\ at[p] = "marked" /\ Reached(p, i)
  /\ \/ Executes(p, i) /\ Go(p, "ran")
     \/ Breaks(i) /\ Go(p, "failed")
  /\ UNCHANGED <<files, history, holder, view, todo, edits, faults>>

MarksFailed(i) == Mark(i, "failed")

MarkFailed(p, i) ==
  /\ at[p] = "failed" /\ Reached(p, i) /\ MarksFailed(i) /\ Ends(p)
  /\ UNCHANGED <<files, checksum, database, edits, faults>>

MarkApplied(p, i) ==
  /\ at[p] = "ran" /\ Reached(p, i) /\ Mark(i, "applied")
  /\ todo' = [todo EXCEPT ![p] = @ \ {i}] /\ Go(p, "applying")
  /\ UNCHANGED <<files, checksum, database, holder, view, edits, faults>>

\* The report, with the drift that is left.
Finish(p) ==
  /\ at[p] = "applying" /\ todo[p] = {} /\ Ends(p)
  /\ UNCHANGED <<files, history, database, edits, faults>>
-----------------------------------------------------------------------------
(* Faults, and people *)

Fault == faults > 0 /\ faults' = faults - 1

\* The process dies between two statements, or one of them meets a database
\* error (the update to failed included, whose error is dropped).
Abort(p) ==
  /\ Fault /\ at[p] \notin {"idle", "orphan"} /\ Ends(p)
  /\ UNCHANGED <<files, history, database, edits>>

\* It dies, or its connection does, while the server executes SQL outside a
\* transaction: the server goes on, and its session keeps the lock.
Abandon(p) ==
  /\ Fault /\ at[p] = "marked" /\ Go(p, "orphan")
  /\ UNCHANGED <<files, history, database, holder, view, todo, edits>>

OrphanEnds(p, i) ==
  /\ at[p] = "orphan" /\ Reached(p, i)
  /\ \/ Executes(p, i)
     \/ Breaks(i)
  /\ Ends(p)
  /\ UNCHANGED <<files, history, edits, faults>>

\* migrate dev, a merge, another branch or an editor: any file changes.
Edit(i, c) ==
  /\ edits > 0 /\ edits' = edits - 1 /\ files[i] # c
  /\ files' = [files EXCEPT ![i] = c]
  /\ UNCHANGED <<history, database, holder, process, faults>>

\* The operator finishes a migration that is not applied, or undoes what the
\* runner did of it and removes the row, while no runner is at work.
Repair(i) ==
  /\ holder = None /\ state[i] \in {"applying", "failed"}
  /\ half' = [half EXCEPT ![i] = FALSE]
  /\ \/ /\ Mark(i, "applied") /\ structure' = [structure EXCEPT ![i] = checksum[i]]
        /\ UNCHANGED <<checksum, executed>>
     \/ /\ Mark(i, "absent") /\ checksum' = [checksum EXCEPT ![i] = None]
        /\ structure' = [structure EXCEPT ![i] = IF executed[i] = 0 THEN @ ELSE None]
        /\ executed' = [executed EXCEPT ![i] = 0]
  /\ UNCHANGED <<files, holder, process, edits, faults>>
-----------------------------------------------------------------------------
Executing(p, i) ==
  \/ ApplyTransaction(p, i) \/ MarkApplying(p, i) \/ RunSql(p, i)
  \/ MarkFailed(p, i) \/ MarkApplied(p, i) \/ OrphanEnds(p, i)
Proceeds(p) == Reconcile(p) \/ Register(p) \/ Finish(p) \/ \E i \in Id : Executing(p, i)
Runs(p) == Load(p) \/ Lock(p) \/ Proceeds(p) \/ Abort(p) \/ Abandon(p)

Next ==
  \/ \E p \in Process : Runs(p)
  \/ \E i \in Id : Repair(i) \/ \E c \in File : Edit(i, c)

\* A process that has begun goes on: SQL ends, and the server hands the lock
\* to its waiters in turn.
Fairness == \A p \in Process : WF_vars(Proceeds(p)) /\ SF_vars(Lock(p))

Spec == Init /\ [][Next]_vars /\ Fairness
-----------------------------------------------------------------------------
(* Properties *)

\* What the history calls applied is in the database, whole and with the
\* content the row's checksum says, after every crash and repair.
HistoryIsTrue ==
  \A i \in Id : state[i] = "applied" => structure[i] = checksum[i] /\ ~half[i]

\* Whatever a runner has done to the database has a row, and was done once: a
\* crash, a lost connection and a second deployment included.
RecordedOnce ==
  \A i \in Id : /\ executed[i] <= 1
                /\ state[i] = "absent" => executed[i] = 0 /\ ~half[i]

\* The history a runner has checked does not change under it before it writes
\* its next row.
CheckedHistoryHolds ==
  \A p \in Process : at[p] = "applying" =>
    todo[p] = Pending(view[p]) /\ Reconciles(view[p])

Touches(i) ==
  \/ executed'[i] > executed[i]
  \/ half'[i] /\ ~half[i]

\* A migration is executed on a database whose other migrations are all applied
\* whole and come before it by name.
BuildsOnWhole ==
  [][\A i \in Id : Touches(i) =>
       \A j \in Id \ {i} : state[j] # "absent" => state[j] = "applied" /\ j < i]_vars

\* A migration is executed by a checkout whose earlier files are those the
\* database went through, none changed and none in between.
BuildsOnOwnFiles ==
  [][\A i \in Id : Touches(i) =>
       \E p \in Process : /\ at[p] # at'[p] \/ todo[p] # todo'[p]
                          /\ Reached(p, i) /\ \A j \in Id : j < i => view[p][j] = checksum[j]]_vars

\* The history is true and every deployment builds on it: what is recorded was
\* done, whole and once, and what is executed extends what was checked
\* (apply_project, reconcile, apply_transactional, apply_without_transaction).
HistoryIsKept == TypeOK /\ HistoryIsTrue /\ RecordedOnce /\ CheckedHistoryHolds
DeploymentsExtendHistory == []HistoryIsKept /\ BuildsOnWhole /\ BuildsOnOwnFiles

\* A deployment never waits for ever: no runner leaves the lock behind.
EveryRunEnds == \A p \in Process : at[p] = "loaded" ~> at[p] = "idle"
=============================================================================
