SPECIFICATION ProjectSpec
CONSTANTS
  v1 = v1  v2 = v2  v3 = v3  g1 = g1  g2 = g2  u1 = u1
  Version = {v1, v2}
  Absent = Absent  Partial = Partial  Empty = Empty  None = None
  Generator = {}
  Updater = {u1}
  MaxCommits = 1
  MaxFaults <- OneFault
SYMMETRY Alike
INVARIANTS UpdateRecovers
CHECK_DEADLOCK FALSE
