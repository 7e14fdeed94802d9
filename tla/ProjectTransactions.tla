------------------------ MODULE ProjectTransactions ------------------------
(***************************************************************************)
(* appstruct generate and appstruct update over one project directory:     *)
(* the journaled replacement of the generated tree, the journaled joint    *)
(* replacement of the tree and of appstruct.lock, and the recovery each    *)
(* command runs when it acquires its lock. A process may be killed between *)
(* any two steps, recovery included, and any step may return an I/O error. *)
(***************************************************************************)
EXTENDS FileSteps, Null, Naturals

CONSTANTS
  Generator,   \* processes of appstruct generate
  Updater,     \* processes of appstruct update
  MaxCommits,  \* bound: replacements attempted
  MaxFaults    \* bound: kills and I/O errors of each command, a function on Command

Process == Generator \cup Updater
Command == {"generate", "update"}
CommandOf(p) == IF p \in Generator THEN "generate" ELSE "update"
Phases == {"prepared", "backed_up", "installed"}

ASSUME ProjectAssumption ==
  /\ None \notin Process /\ Generator \cap Updater = {}
  /\ MaxCommits \in Nat /\ MaxFaults \in [Command -> Nat]
  /\ {Absent, Empty} \cap ([phase : Phases]
                            \cup [phase : Phases, hadLock : BOOLEAN, hadTree : BOOLEAN]) = {}

VARIABLES
  disk,     \* the paths below
  holder,   \* who holds .appstruct/generation.lock (an updater holds update.lock too)
  stage,    \* what each process is doing
  plan,     \* the steps it has left to do
  before,   \* <<lock, tree>> when the latest replacement began
  after,    \* <<lock, tree>> it installs
  commits, faults

projectVars == <<disk, holder, stage, plan, before, after, commits, faults>>

GenerationPaths == {"staging", "backup", "journal"}
UpdatePaths == {"update_staging", "update_backup", "lock_staging", "lock_backup", "update_journal"}
ProjectPath == {"generated", "lock"} \cup GenerationPaths \cup UpdatePaths
Stages == {"idle", "recover", "recover_update", "ready", "stage", "swap", "undo", "cleanup"}

Contents(d)    == <<d["lock"], d["generated"]>>
UpdateState(d) == \E p \in UpdatePaths : Exists(d, p)
Clean(d)       == \A p \in GenerationPaths \cup UpdatePaths : ~Exists(d, p)

ProjectTypes ==
  /\ DOMAIN disk = ProjectPath
  /\ holder \in Process \cup {None}
  /\ stage \in [Process -> Stages]
  /\ \A p \in Process : stage[p] # "idle" => holder = p
  /\ commits \in 0 .. MaxCommits
  /\ \A c \in Command : faults[c] \in 0 .. MaxFaults[c]
-----------------------------------------------------------------------------
\* The generated tree.

RemoveStaging(d) ==
  When(Exists(d, "staging"), Check(Whole(d, "staging")) \o RemoveTree("staging"))

RecoverPrepared(d) ==
  When(Exists(d, "backup"),
       Check(Whole(d, "backup"))
       \o When(Exists(d, "generated"), Check(Whole(d, "generated")) \o RemoveTree("generated"))
       \o Move("backup", "generated"))
  \o RemoveStaging(d)

RecoverBackedUp(d) ==
  IF Exists(d, "generated")
  THEN Check(Whole(d, "generated"))
       \o Check(Exists(d, "backup") => Whole(d, "backup"))
       \o Check(~Exists(d, "staging"))
       \o When(Exists(d, "backup"), RemoveTree("backup"))
  ELSE Check(Exists(d, "backup") => Whole(d, "backup"))
       \o RemoveStaging(d)
       \o When(Exists(d, "backup"), Move("backup", "generated"))

RecoverInstalled(d) ==
  Check(Whole(d, "generated")) \o Check(~Exists(d, "staging"))
  \o When(Exists(d, "backup"), Check(Whole(d, "backup")) \o RemoveTree("backup"))

RecoverWithoutJournal(d) ==
  Check(~(Exists(d, "generated") /\ Exists(d, "staging") /\ Exists(d, "backup")))
  \o When(Exists(d, "backup"),
          Check(Whole(d, "backup"))
          \o IF Exists(d, "generated")
             THEN Check(Whole(d, "generated")) \o RemoveTree("backup")
             ELSE Move("backup", "generated"))
  \o When(Exists(d, "staging"), RemoveTree("staging"))

Recover(d) ==
  (CASE Phase(d, "journal") = "prepared"  -> RecoverPrepared(d)
     [] Phase(d, "journal") = "backed_up" -> RecoverBackedUp(d)
     [] Phase(d, "journal") = "installed" -> RecoverInstalled(d)
     [] Phase(d, "journal") = "none"      -> RecoverWithoutJournal(d))
  \o Remove("journal")

Record(phase) == [phase |-> phase]

Swap(d) ==
  StartJournal("journal", Record("prepared"))
  \o When(Exists(d, "generated"), Move("generated", "backup"))
  \o Put("journal", Record("backed_up"))
  \o Move("staging", "generated")
  \o Put("journal", Record("installed"))
  \o When(Exists(d, "generated"), RemoveTree("backup"))
  \o Remove("journal")
-----------------------------------------------------------------------------
\* The tree together with appstruct.lock.

RemoveUpdateStaging(d) ==
  Remove("lock_staging")
  \o When(Exists(d, "update_staging"),
          Check(Whole(d, "update_staging")) \o RemoveTree("update_staging"))

RemoveBackups(d) ==
  Remove("lock_backup")
  \o When(Exists(d, "update_backup"),
          Check(Whole(d, "update_backup")) \o RemoveTree("update_backup"))

RestoreIfBackedUp(d, current, backup, had) ==
  IF Exists(d, backup)
  THEN Check(~Exists(d, current)) \o Move(backup, current)
  ELSE Check(had => Exists(d, current))

UpdateRecoverPrepared(d) ==
  LET record == d["update_journal"] IN
  RestoreIfBackedUp(d, "lock", "lock_backup", record.hadLock)
  \o Check(Exists(d, "update_backup") => Whole(d, "update_backup"))
  \o RestoreIfBackedUp(d, "generated", "update_backup", record.hadTree)
  \o RemoveUpdateStaging(d)

RollbackFile(d, had) ==
  Remove("lock")
  \o IF had THEN Check(Exists(d, "lock_backup")) \o Move("lock_backup", "lock")
     ELSE Remove("lock_backup")

\* Mutant: a tree that was installed stays.
RollbackKeepsTree(d, had) ==
  IF Exists(d, "generated") THEN RemoveTree("update_backup")
  ELSE When(had, Move("update_backup", "generated"))

RollbackGenerated(d, had) ==
  When(Exists(d, "generated"), Check(Whole(d, "generated")) \o RemoveTree("generated"))
  \o IF had THEN Check(Whole(d, "update_backup")) \o Move("update_backup", "generated")
     ELSE Check(~Exists(d, "update_backup"))

UpdateRecoverBackedUp(d) ==
  LET record == d["update_journal"] IN
  RollbackFile(d, record.hadLock) \o RollbackGenerated(d, record.hadTree) \o RemoveUpdateStaging(d)

UpdateRecoverInstalled(d) ==
  Check(Exists(d, "lock") /\ Whole(d, "generated"))
  \o Check(~Exists(d, "lock_staging") /\ ~Exists(d, "update_staging"))
  \o RemoveBackups(d)

UpdateRecoverWithoutJournal(d) ==
  Check(~Exists(d, "lock_backup") /\ ~Exists(d, "update_backup")) \o RemoveUpdateStaging(d)

UpdateRecover(d) ==
  (CASE Phase(d, "update_journal") = "prepared"  -> UpdateRecoverPrepared(d)
     [] Phase(d, "update_journal") = "backed_up" -> UpdateRecoverBackedUp(d)
     [] Phase(d, "update_journal") = "installed" -> UpdateRecoverInstalled(d)
     [] Phase(d, "update_journal") = "none"      -> UpdateRecoverWithoutJournal(d))
  \o Remove("update_journal")

UpdateRecord(d, phase) ==
  [phase |-> phase, hadLock |-> Exists(d, "lock"), hadTree |-> Exists(d, "generated")]

UpdateSwap(d) ==
  StartJournal("update_journal", UpdateRecord(d, "prepared"))
  \o When(Exists(d, "lock"), Move("lock", "lock_backup"))
  \o When(Exists(d, "generated"), Move("generated", "update_backup"))
  \o Put("update_journal", UpdateRecord(d, "backed_up"))
  \o Move("lock_staging", "lock")
  \o Move("update_staging", "generated")
  \o Put("update_journal", UpdateRecord(d, "installed"))
  \o Remove("lock_backup")
  \o When(Exists(d, "generated"), RemoveTree("update_backup"))
  \o Remove("update_journal")
-----------------------------------------------------------------------------
ProjectInit ==
  /\ \E tree, lock \in Version \cup {Absent} :
       /\ disk = [p \in ProjectPath |-> CASE p = "generated" -> tree [] p = "lock" -> lock [] OTHER -> Absent]
       /\ before = <<lock, tree>> /\ after = <<lock, tree>>
  /\ holder = None
  /\ stage = [p \in Process |-> "idle"] /\ plan = [p \in Process |-> <<>>]
  /\ commits = 0 /\ faults = [c \in Command |-> 0]

Enters(p, s, steps) ==
  stage' = [stage EXCEPT ![p] = s] /\ plan' = [plan EXCEPT ![p] = steps]
Leave(p) == Enters(p, "idle", <<>>) /\ holder' = None

\* Mutant: normal generation does not look for an unfinished update.
MayEnterAlways(p) == holder = None

\* try_lock, and generate's refusal while update state remains. A process that
\* is refused ends without having changed anything.
MayEnter(p) == holder = None /\ (p \in Generator => ~UpdateState(disk))

Acquire(p) ==
  /\ stage[p] = "idle"
  /\ MayEnter(p)
  /\ holder' = p
  /\ Enters(p, "recover", Recover(disk))
  /\ UNCHANGED <<disk, before, after, commits, faults>>

\* UpdateTransaction::acquire goes on with the update's own recovery.
AcquireUpdate(p) ==
  /\ p \in Updater /\ stage[p] = "recover" /\ plan[p] = <<>>
  /\ Enters(p, "recover_update", UpdateRecover(disk))
  /\ UNCHANGED <<disk, holder, before, after, commits, faults>>

Acquired(p) ==
  /\ stage[p] = (IF p \in Generator THEN "recover" ELSE "recover_update") /\ plan[p] = <<>>
  /\ Enters(p, "ready", <<>>)
  /\ UNCHANGED <<disk, holder, before, after, commits, faults>>

\* Nothing to write: a cache hit, --check, or an error found before the commit.
Abandon(p) ==
  /\ stage[p] = "ready"
  /\ Leave(p)
  /\ UNCHANGED <<disk, before, after, commits, faults>>

\* GenerationTransaction::replace, UpdateTransaction::commit: staging first.
Staging(p, v) ==
  IF p \in Generator THEN WriteTree("staging", v)
  ELSE WriteTree("update_staging", v) \o Put("lock_staging", v)

Ready(p) ==
  IF p \in Generator THEN \A q \in GenerationPaths : ~Exists(disk, q)
  ELSE ~UpdateState(disk) /\ (Exists(disk, "generated") => Whole(disk, "generated"))

ReplaceFiles(p, v) ==
  /\ stage[p] = "ready" /\ commits < MaxCommits
  /\ Ready(p)
  /\ commits' = commits + 1
  /\ before' = Contents(disk)
  /\ after' = <<IF p \in Generator THEN disk["lock"] ELSE v, v>>
  /\ Enters(p, "stage", Staging(p, v))
  /\ UNCHANGED <<disk, holder, faults>>

Staged(p) ==
  /\ stage[p] = "stage" /\ plan[p] = <<>>
  /\ Enters(p, "swap", IF p \in Generator THEN Swap(disk) ELSE UpdateSwap(disk))
  /\ UNCHANGED <<disk, holder, before, after, commits, faults>>

Step(p) ==
  /\ plan[p] # <<>> /\ ~Failing(plan[p])
  /\ disk' = Execute(disk, Head(plan[p]))
  /\ plan' = [plan EXCEPT ![p] = Tail(@)]
  /\ UNCHANGED <<holder, stage, before, after, commits, faults>>

\* The swap returned Ok: the command reports success.
Return(p) ==
  /\ stage[p] = "swap" /\ plan[p] = <<>>
  /\ Leave(p)
  /\ before' = after
  /\ UNCHANGED <<disk, after, commits, faults>>

\* What an error does next: staging is cleaned up as far as it can be, a failed
\* swap is recovered at once, and a recovery that fails ends the command.
OnError(p) ==
  CASE stage[p] = "stage" ->
         /\ Enters(p, "cleanup", IF p \in Generator THEN RemoveTree("staging")
                                ELSE RemoveUpdateStaging(disk))
         /\ UNCHANGED holder
    [] stage[p] = "swap" ->
         /\ Enters(p, "undo", IF p \in Generator THEN Recover(disk) ELSE UpdateRecover(disk))
         /\ UNCHANGED holder
    [] OTHER -> Leave(p)

CheckFails(p) ==
  /\ Failing(plan[p])
  /\ OnError(p)
  /\ UNCHANGED <<disk, before, after, commits, faults>>

Fault(p) ==
  /\ faults[CommandOf(p)] < MaxFaults[CommandOf(p)]
  /\ faults' = [faults EXCEPT ![CommandOf(p)] = @ + 1]

IOError(p) ==
  /\ plan[p] # <<>> /\ ~Failing(plan[p])
  /\ Fault(p)
  /\ OnError(p)
  /\ UNCHANGED <<disk, before, after, commits>>

\* The error of the failed commit is reported.
Undone(p) ==
  /\ stage[p] \in {"undo", "cleanup"} /\ plan[p] = <<>>
  /\ Leave(p)
  /\ UNCHANGED <<disk, before, after, commits, faults>>

Kill(p) ==
  /\ stage[p] # "idle"
  /\ Fault(p)
  /\ Leave(p)
  /\ UNCHANGED <<disk, before, after, commits>>

ProjectNext ==
  \E p \in Process :
    \/ Acquire(p) \/ AcquireUpdate(p) \/ Acquired(p) \/ Abandon(p)
    \/ \E v \in Version : ReplaceFiles(p, v)
    \/ Staged(p) \/ Step(p) \/ Return(p)
    \/ CheckFails(p) \/ IOError(p) \/ Undone(p) \/ Kill(p)

ProjectSpec == ProjectInit /\ [][ProjectNext]_projectVars
-----------------------------------------------------------------------------
\* Without transaction state on disk, the lock and the tree are together what
\* they were before the latest replacement or together what it installs; after
\* a replacement that reported success they are what it installed.
CleanIsOldOrNew == Clean(disk) => Contents(disk) \in {before, after}

\* Wherever a command is interrupted, everything the project had, or everything
\* the replacement brings, can still be found whole under one of the paths.
Survives(pair) ==
  /\ pair[1] # Absent => \E p \in {"lock", "lock_backup", "lock_staging"} : disk[p] = pair[1]
  /\ pair[2] # Absent =>
       \E p \in {"generated", "backup", "staging", "update_backup", "update_staging"} :
         disk[p] = pair[2]

NothingIsLost == Survives(before) \/ Survives(after)

\* What a crash leaves is complete and old or new, and recovery loses nothing.
ProjectIsOldOrNew == ProjectTypes /\ CleanIsOldOrNew /\ NothingIsLost

\* Normal generation changes nothing while an update is unfinished.
GenerationWaits ==
  [][\A p \in Generator : holder = p /\ disk' # disk => ~UpdateState(disk)]_projectVars

\* The next appstruct update recovers whatever an interrupted one left.
UpdateRecovers ==
  \A p \in Updater : stage[p] \in {"recover", "recover_update"} => ~Failing(plan[p])
=============================================================================
