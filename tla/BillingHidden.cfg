SPECIFICATION BillingSpec
CONSTANTS
  h1 = h1  h2 = h2  s1 = s1  s2 = s2  c1 = c1
  None = None
  Handler = {h1, h2}
  Subscription = {s1, s2}
  Customer = {c1}
  Last = 2
  PerSecond = 1
  MaxReplays = 0
  MaxTries = 5
SYMMETRY Alike
INVARIANTS AccessIsTheProviders
CHECK_DEADLOCK FALSE
