--------------------------- MODULE ProjectCommands ---------------------------
(***************************************************************************)
(* The commands that change a project directory: appstruct generate and    *)
(* appstruct update under generation.lock, appstruct migrate dev and       *)
(* migrate baseline under migration.lock. The two transactions have no     *)
(* path in common, so that a step of one leaves the other's state alone.   *)
(***************************************************************************)
EXTENDS ProjectTransactions, MigrationFiles

CommandsInit == ProjectInit /\ MigrationInit

CommandsNext ==
  \/ ProjectNext /\ UNCHANGED migrationVars
  \/ MigrationNext /\ UNCHANGED projectVars

CommandsSpec == CommandsInit /\ [][CommandsNext]_<<projectVars, migrationVars>>
-----------------------------------------------------------------------------
\* Generation waits for a pending update (ProjectTransactions), and a migration
\* whose commit reported success stays (MigrationFiles).
CommandsRespectEachOther == GenerationWaits /\ AcceptedStays
=============================================================================
