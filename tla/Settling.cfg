SPECIFICATION SettlingSpec
CONSTANTS
  w1 = w1  w2 = w2
  a1 = a1
  k1 = k1
  mail = mail
  None = None
  Native = Native
  Version = {0, 1}
  MaxEdits = 2
  MaxStarts = 2
  MaxFailures = 1
  Worker = {w1, w2}
  Admin = {a1}
  Key = {k1}
  Kind = {mail}
  Kinds <- AnyKind
  MaxJobs = 2
  Lanes = 1
  MaxAttempts = 2
  Backoff = 1
  MaxDelay = 1
  Lease = 2
  Delays <- Immediately
  MaxAge = 0
  MaxBeats = 1
  MaxFaults = 1
  MaxOps = 1
INVARIANT ServedIsCurrent
PROPERTIES EveryJobSettles ReceiptIsStable SessionsSettle
CHECK_DEADLOCK FALSE
