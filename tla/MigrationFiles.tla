--------------------------- MODULE MigrationFiles ---------------------------
(***************************************************************************)
(* appstruct migrate dev and migrate baseline: a command compares the App  *)
(* Spec with the schema snapshot, and commits a numbered migration file    *)
(* together with the new snapshot under a journal. migrate dev reads the   *)
(* snapshot before it takes the migration lock; baseline reads under it.   *)
(* A process may be killed, or meet an I/O error, between any two steps.   *)
(***************************************************************************)
EXTENDS FileSteps, Null, Naturals

CONSTANTS
  Schema,         \* database schemas an App Spec may describe
  EmptySchema,    \* the schema of a project without a snapshot
  Developer,      \* processes of migrate dev
  Baseline,       \* processes of migrate baseline --accept
  MaxMigrations,       \* bound: migration files
  MaxMigrationFaults   \* bound: kills and I/O errors together

Migrator == Developer \cup Baseline
Number == 1 .. MaxMigrations

\* What is read: a migration file is the pair of schemas it leads between.
SqlFile == [from : Schema \cup {EmptySchema}, to : Schema]
JournalRecord ==
  [phase : {"prepared", "backed_up", "installed"}, migration : Number, hadSnapshot : BOOLEAN]

ASSUME MigrationAssumption ==
  /\ None \notin Migrator
  /\ MaxMigrations \in Nat /\ MaxMigrationFaults \in Nat
  /\ EmptySchema \notin Schema
  /\ {Absent, Empty} \cap (Schema \cup {EmptySchema} \cup SqlFile \cup JournalRecord) = {}

Snapshot == <<"snapshot", 0>>
SnapshotStaging == <<"snapshot_tmp", 0>>
SnapshotBackup == <<"snapshot_backup", 0>>
Journal == <<"journal", 0>>
Sql(n) == <<"sql", n>>
SqlStaging(n) == <<"sql_tmp", n>>
MigrationPath == {Snapshot, SnapshotStaging, SnapshotBackup, Journal}
        \cup {Sql(n) : n \in Number} \cup {SqlStaging(n) : n \in Number}

VARIABLES
  migrations,       \* the migrations directory, the snapshot and the journal
  migrationLock,    \* who holds .appstruct/migration.lock
  migrationStage, migrationPlan,
  base,             \* the schema each command's plan starts from
  schema,           \* the schema its App Spec describes
  acceptedMigrations, \* migrations whose commit reported success
  migrationFaults

migrationVars ==
  <<migrations, migrationLock, migrationStage, migrationPlan, base, schema, acceptedMigrations,
    migrationFaults>>

MigrationStages == {"idle", "planned", "recover", "ready", "swap", "undo"}

MigrationTypes ==
  /\ DOMAIN migrations = MigrationPath
  /\ migrationLock \in Migrator \cup {None}
  /\ migrationStage \in [Migrator -> MigrationStages]
  /\ \A p \in Migrator :
       /\ migrationStage[p] \in {"recover", "ready", "swap", "undo"} => migrationLock = p
       /\ migrationStage[p] # "idle" => schema[p] \in Schema
  /\ base \in [Migrator -> Schema \cup {EmptySchema}]
  /\ schema \in [Migrator -> Schema \cup {EmptySchema}]
  /\ acceptedMigrations \subseteq Number
  /\ migrationFaults \in 0 .. MaxMigrationFaults

Files(d) == {n \in Number : Exists(d, Sql(n))}
HasMigrationStaging(d) == \E n \in Number : Exists(d, SqlStaging(n))
Latest(d) == IF Files(d) = {} THEN 0 ELSE CHOOSE n \in Files(d) : \A m \in Files(d) : m <= n
\* next_migration_name: one more than the highest prefix.
NextNumber(d) == Latest(d) + 1
MigrationClean(d) == ~Exists(d, Journal) /\ ~Exists(d, SnapshotStaging) /\ ~Exists(d, SnapshotBackup)
            /\ ~HasMigrationStaging(d)
ReadSnapshot(d) == IF Exists(d, Snapshot) THEN d[Snapshot] ELSE EmptySchema
-----------------------------------------------------------------------------
RemoveMigrationStaging(n) == Remove(SqlStaging(n)) \o Remove(SnapshotStaging)

MigrationRecoverPrepared(d) ==
  LET record == d[Journal] IN
  Check(~Exists(d, Sql(record.migration)))
  \o (IF Exists(d, SnapshotBackup)
      THEN Check(~Exists(d, Snapshot)) \o Move(SnapshotBackup, Snapshot)
      ELSE Check(record.hadSnapshot => Exists(d, Snapshot)))
  \o RemoveMigrationStaging(record.migration)

\* Mutant: the migration file stays when the snapshot goes back.
RecoverBackedUpKeepsSql(d) ==
  LET record == d[Journal] IN
  Remove(Snapshot)
  \o When(record.hadSnapshot, Move(SnapshotBackup, Snapshot))
  \o RemoveMigrationStaging(record.migration)

MigrationRecoverBackedUp(d) ==
  LET record == d[Journal] IN
  Remove(Sql(record.migration)) \o Remove(Snapshot)
  \o (IF record.hadSnapshot
      THEN Check(Exists(d, SnapshotBackup)) \o Move(SnapshotBackup, Snapshot)
      ELSE Check(~Exists(d, SnapshotBackup)))
  \o RemoveMigrationStaging(record.migration)

MigrationRecoverInstalled(d) ==
  LET record == d[Journal] IN
  Check(Exists(d, Sql(record.migration)) /\ Exists(d, Snapshot))
  \o Check(~Exists(d, SqlStaging(record.migration)) /\ ~Exists(d, SnapshotStaging))
  \o Remove(SnapshotBackup)

MigrationRecoverWithoutJournal(d) ==
  Check(~HasMigrationStaging(d) /\ ~Exists(d, SnapshotStaging) /\ ~Exists(d, SnapshotBackup))

MigrationRecover(d) ==
  (CASE Phase(d, Journal) = "prepared"  -> MigrationRecoverPrepared(d)
     [] Phase(d, Journal) = "backed_up" -> MigrationRecoverBackedUp(d)
     [] Phase(d, Journal) = "installed" -> MigrationRecoverInstalled(d)
     [] Phase(d, Journal) = "none"      -> MigrationRecoverWithoutJournal(d))
  \o Remove(Journal)

MigrationRecord(d, phase) ==
  [phase |-> phase, migration |-> NextNumber(d), hadSnapshot |-> Exists(d, Snapshot)]

MigrationSwap(d, sql, snapshot) ==
  LET n == NextNumber(d) IN
  StartJournal(Journal, MigrationRecord(d, "prepared"))
  \o Put(SqlStaging(n), sql) \o Put(SnapshotStaging, snapshot)
  \o When(Exists(d, Snapshot), Move(Snapshot, SnapshotBackup))
  \o Put(Journal, MigrationRecord(d, "backed_up"))
  \o Move(SqlStaging(n), Sql(n)) \o Move(SnapshotStaging, Snapshot)
  \o Put(Journal, MigrationRecord(d, "installed"))
  \o Remove(SnapshotBackup)
  \o Remove(Journal)
-----------------------------------------------------------------------------
MigrationInit ==
  /\ migrations = [p \in MigrationPath |-> Absent]
  /\ migrationLock = None
  /\ migrationStage = [p \in Migrator |-> "idle"] /\ migrationPlan = [p \in Migrator |-> <<>>]
  /\ base = [p \in Migrator |-> EmptySchema] /\ schema = [p \in Migrator |-> EmptySchema]
  /\ acceptedMigrations = {} /\ migrationFaults = 0

MigrationEnters(p, s, steps) ==
  /\ migrationStage' = [migrationStage EXCEPT ![p] = s]
  /\ migrationPlan' = [migrationPlan EXCEPT ![p] = steps]

\* The process ends, and with it what it read.
MigrationEnds(p) ==
  /\ MigrationEnters(p, "idle", <<>>)
  /\ base' = [base EXCEPT ![p] = EmptySchema] /\ schema' = [schema EXCEPT ![p] = EmptySchema]
MigrationLeaves(p) == MigrationEnds(p) /\ migrationLock' = None

\* run_with_database compiles the App Spec, reads the snapshot and plans.
PlanDevelopment(p, t) ==
  /\ p \in Developer /\ migrationStage[p] = "idle"
  /\ base' = [base EXCEPT ![p] = ReadSnapshot(migrations)]
  /\ schema' = [schema EXCEPT ![p] = t]
  /\ ReadSnapshot(migrations) # t
  /\ MigrationEnters(p, "planned", <<>>)
  /\ UNCHANGED <<migrations, migrationLock, acceptedMigrations, migrationFaults>>

PlanBaseline(p, t) ==
  /\ p \in Baseline /\ migrationStage[p] = "idle"
  /\ schema' = [schema EXCEPT ![p] = t]
  /\ MigrationEnters(p, "planned", <<>>)
  /\ UNCHANGED <<migrations, migrationLock, base, acceptedMigrations, migrationFaults>>

\* try_lock: a second process ends at once with an error.
LockFree == migrationLock = None

AcquireMigration(p) ==
  /\ migrationStage[p] = "planned"
  /\ LockFree
  /\ migrationLock' = p
  /\ MigrationEnters(p, "recover", MigrationRecover(migrations))
  /\ UNCHANGED <<migrations, base, schema, acceptedMigrations, migrationFaults>>

MigrationAcquired(p) ==
  /\ migrationStage[p] = "recover" /\ migrationPlan[p] = <<>>
  /\ MigrationEnters(p, "ready", <<>>)
  /\ UNCHANGED <<migrations, migrationLock, base, schema, acceptedMigrations, migrationFaults>>

\* inspect_baseline: a first migration of a project that has no snapshot either.
MayBaseline == Files(migrations) = {} /\ ~Exists(migrations, Snapshot)

CommitMigration(p) ==
  /\ migrationStage[p] = "ready" /\ MigrationClean(migrations)
  /\ NextNumber(migrations) \in Number
  /\ p \in Baseline => MayBaseline
  /\ LET from == IF p \in Baseline THEN EmptySchema ELSE base[p] IN
     MigrationEnters(p, "swap",
                     MigrationSwap(migrations, [from |-> from, to |-> schema[p]], schema[p]))
  /\ UNCHANGED <<migrations, migrationLock, base, schema, acceptedMigrations, migrationFaults>>

\* The plan was rejected, the lock was taken, or baseline found nothing to do.
AbandonMigration(p) ==
  /\ migrationStage[p] \in {"planned", "ready"}
  /\ MigrationEnds(p)
  /\ migrationLock' = IF migrationLock = p THEN None ELSE migrationLock
  /\ UNCHANGED <<migrations, acceptedMigrations, migrationFaults>>

MigrationStep(p) ==
  /\ migrationPlan[p] # <<>> /\ ~Failing(migrationPlan[p])
  /\ migrations' = Execute(migrations, Head(migrationPlan[p]))
  /\ migrationPlan' = [migrationPlan EXCEPT ![p] = Tail(@)]
  /\ UNCHANGED <<migrationLock, migrationStage, base, schema, acceptedMigrations, migrationFaults>>

MigrationReturns(p) ==
  /\ migrationStage[p] = "swap" /\ migrationPlan[p] = <<>>
  /\ acceptedMigrations' = acceptedMigrations \cup {Latest(migrations)}
  /\ MigrationLeaves(p)
  /\ UNCHANGED <<migrations, migrationFaults>>

\* recover_after: a failed swap is recovered in place; a failed recovery is reported.
OnMigrationError(p) ==
  IF migrationStage[p] = "swap"
  THEN /\ MigrationEnters(p, "undo", MigrationRecover(migrations))
       /\ UNCHANGED <<migrationLock, base, schema>>
  ELSE MigrationLeaves(p)

MigrationCheckFails(p) ==
  /\ Failing(migrationPlan[p])
  /\ OnMigrationError(p)
  /\ UNCHANGED <<migrations, acceptedMigrations, migrationFaults>>

MigrationIOError(p) ==
  /\ migrationFaults < MaxMigrationFaults /\ migrationPlan[p] # <<>> /\ ~Failing(migrationPlan[p])
  /\ migrationFaults' = migrationFaults + 1
  /\ OnMigrationError(p)
  /\ UNCHANGED <<migrations, acceptedMigrations>>

MigrationUndone(p) ==
  /\ migrationStage[p] = "undo" /\ migrationPlan[p] = <<>>
  /\ MigrationLeaves(p)
  /\ UNCHANGED <<migrations, acceptedMigrations, migrationFaults>>

KillMigration(p) ==
  /\ migrationFaults < MaxMigrationFaults /\ migrationLock = p
  /\ migrationFaults' = migrationFaults + 1
  /\ MigrationLeaves(p)
  /\ UNCHANGED <<migrations, acceptedMigrations>>

MigrationNext ==
  \E p \in Migrator :
    \/ \E t \in Schema : PlanDevelopment(p, t) \/ PlanBaseline(p, t)
    \/ AcquireMigration(p) \/ MigrationAcquired(p) \/ CommitMigration(p) \/ AbandonMigration(p)
    \/ MigrationStep(p) \/ MigrationReturns(p) \/ MigrationCheckFails(p)
    \/ MigrationIOError(p) \/ MigrationUndone(p) \/ KillMigration(p)

MigrationSpec == MigrationInit /\ [][MigrationNext]_migrationVars
-----------------------------------------------------------------------------
Described(d) == IF Latest(d) = 0 THEN Absent ELSE d[Sql(Latest(d))].to

\* Without transaction state on disk, the snapshot describes the schema that
\* the latest migration file leads to, and there is none before the first file.
SnapshotMatchesLatest == MigrationClean(migrations) => migrations[Snapshot] = Described(migrations)

\* Wherever one command is interrupted, a snapshot at least as new as every
\* accepted migration, and described by a migration file, is still on disk.
\* (A recovery of recover_backed_up that is itself interrupted may delete it:
\* the code removes the snapshot before it looks for the backup.)
SnapshotSurvives ==
  migrationFaults <= 1 /\ acceptedMigrations # {} =>
    \E p \in {Snapshot, SnapshotBackup} : \E n \in Files(migrations) :
      migrations[p] = migrations[Sql(n)].to /\ \A m \in acceptedMigrations : m <= n

\* The journal of one interrupted command is always recovered by the next one.
RecoverySucceeds ==
  migrationFaults <= 1 =>
    \A p \in Migrator : migrationStage[p] = "recover" => ~Failing(migrationPlan[p])

\* The snapshot is what the last migration file leads to, and both are there
\* after every crash and its recovery.
SnapshotIsKept == MigrationTypes /\ SnapshotMatchesLatest /\ SnapshotSurvives /\ RecoverySucceeds

\* A migration whose commit reported success keeps its file and its contents,
\* whatever later commands and their recoveries do.
AcceptedStays ==
  [][\A n \in acceptedMigrations :
       migrations'[Sql(n)] = migrations[Sql(n)] /\ Exists(migrations, Sql(n))]_migrationVars

\* Every migration starts from the schema its predecessor leads to.
MigrationsChain ==
  MigrationClean(migrations) => \A n \in Files(migrations) :
    migrations[Sql(n)].from = IF n = 1 THEN EmptySchema ELSE migrations[Sql(n - 1)].to
=============================================================================
