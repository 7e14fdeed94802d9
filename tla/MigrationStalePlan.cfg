SPECIFICATION MigrationSpec
CONSTANTS
  s0 = s0  s1 = s1  s2 = s2  d1 = d1  d2 = d2  b1 = b1
  Schema = {s1, s2}
  EmptySchema = s0
  Version = {}
  Absent = Absent  Partial = Partial  Empty = Empty  None = None
  Developer = {d1, d2}
  Baseline = {}
  MaxMigrations = 2
  MaxMigrationFaults = 0
SYMMETRY Alike
INVARIANTS MigrationsChain
CHECK_DEADLOCK FALSE
