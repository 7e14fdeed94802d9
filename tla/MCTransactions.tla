--------------------------- MODULE MCTransactions ---------------------------
(* Transactions under locks, for TLC: those of an organization's members (the  *)
(* row lock of the organization), those of one user's sign-ins (the locks of    *)
(* the profile, the account and the letters) and those of the command line's   *)
(* files (generation.lock and migration.lock).  They share nothing, so that an *)
(* instance is about one of them, chosen initially.                            *)
EXTENDS Teams, Accounts, ProjectCommands, TLC

CONSTANTS a1, a2, b1, b2, u1, u2, u3, s0

VARIABLE part
-----------------------------------------------------------------------------
TwoAndOne == [c \in Command |-> IF c = "generate" THEN 2 ELSE 1]

\* Kinds of requests that touch the same rows.
Mixtures ==
  {{"login", "setup", "enable", "disable"}, {"reset", "forgot", "password", "token"},
   {"email", "confirm", "token"}, {"verify", "resend", "revoke"},
   {"oauth", "connect", "unlink"}, {"oauth", "setup", "enable"}, {"token", "setup", "enable"}}
Identities == {[provider |-> "github", subject |-> "1"]}

ASSUME AccountsAssumption
-----------------------------------------------------------------------------
TransactionsInit ==
  /\ part \in {"team", "sign-ins", "project", "migrations"}
  /\ TeamInit /\ AccountsInit /\ CommandsInit
  /\ part # "sign-ins" => offered = CHOOSE mixture \in Mixtures : TRUE
  /\ part # "project" => before = <<Absent, Absent>>

ApplicationNext ==
  \/ part = "team" /\ TeamNext /\ UNCHANGED accountVars
  \/ part = "sign-ins" /\ AccountsNext /\ UNCHANGED teamVars

\* Steps of CommandsNext, of one of the two transactions.
CommandLineNext ==
  \/ part = "project" /\ ProjectNext /\ UNCHANGED migrationVars
  \/ part = "migrations" /\ MigrationNext /\ UNCHANGED projectVars

TransactionsNext ==
  /\ \/ ApplicationNext /\ UNCHANGED <<projectVars, migrationVars>>
     \/ CommandLineNext /\ UNCHANGED <<teamVars, accountVars>>
  /\ UNCHANGED part

TransactionsSpec ==
  /\ TransactionsInit
  /\ [][TransactionsNext]_<<part, teamVars, accountVars, projectVars, migrationVars>>

Alike == Permutations(User) \cup Permutations({a1, a2}) \cup Permutations({b1, b2})
=============================================================================
