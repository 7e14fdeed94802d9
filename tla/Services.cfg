SPECIFICATION ServicesSpec
CONSTANTS
  p1 = p1  p2 = p2  b1 = b1  tx = tx  off = off
  None = None
  MaxId = 2
  Content = {tx, off}
  Untransacted = {off}
  Applier = {p1, p2}
  Baseliner = {b1}
  MaxEdits = 1
  MaxFaults = 1
  Module = {"mail", "jobs", "webhooks"}
  Service = {"jobs", "webhooks"}
  Watched = "jobs"
  Plans <- PlansToStart
  w1 = w1  w2 = w2  d1 = d1  e1 = e1  k1 = k1  f1 = f1
INVARIANTS ServicesStopInOrder ApplicationsStart
PROPERTIES
  DeploymentsExtendHistory RunsAndStopsEnd DueWorkIsDone LeftoversGo
CHECK_DEADLOCK FALSE
