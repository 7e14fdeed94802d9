SPECIFICATION Spec
CONSTANTS
  w1 = w1  w2 = w2  c1 = c1  c2 = c2  k1 = k1  k2 = k2
  None = None
  Worker = {w1, w2}
  Cleaner = {c1}
  Key = {k1}
  Metered = TRUE
  FreeLimit = 2
  MaxAttempts = 2
  MaxRuns = 2
  MaxFaults = 1
  MaxOps = 0
SYMMETRY Alike
INVARIANTS CleanupCanRemove
CHECK_DEADLOCK FALSE
