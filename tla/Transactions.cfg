SPECIFICATION TransactionsSpec
CONSTANTS
  a1 = a1  a2 = a2  b1 = b1  b2 = b2  u1 = u1  u2 = u2  u3 = u3  s0 = s0
  None = None  Absent = Absent  Partial = Partial  Empty = Empty
  Worker = {a1, a2}
  User = {u1, u2, u3}
  Invite = {b1, b2}
  Seats = 2
  PaidSeats = 3
  Connection = {a1, a2}
  Letter = {b1, b2}
  Credential = {a1, a2}
  Identity <- Identities
  Offers <- Mixtures
  MaxSecrets = 1
  MaxTime = 1
  Version = {u1, u2, u3}
  Generator = {a1, a2}
  Updater = {"u"}
  MaxCommits = 2
  MaxFaults <- TwoAndOne
  Schema = {b1, b2}
  EmptySchema = s0
  Developer = {a1, a2}
  Baseline = {"b"}
  MaxMigrations = 2
  MaxMigrationFaults = 2
SYMMETRY Alike
INVARIANTS
  OneOwner SignedInWithSecondFactor ProjectIsOldOrNew SnapshotIsKept
PROPERTIES
  JoinsByInvitation OwnersDecide SignInsAreFresh CommandsRespectEachOther
CHECK_DEADLOCK FALSE
