SPECIFICATION ApplicationSpec
CONSTANTS
  a1 = a1  a2 = a2  b1 = b1  b2 = b2  b3 = b3  k1 = k1
  None = None
  Worker = {a1, a2}
  Cleaner = {b1, b2}
  Key = {k1}
  Metered = TRUE
  FreeLimit = 2
  MaxAttempts = 2
  MaxRuns = 2
  MaxFaults = 2
  MaxOps = 2
  Process = {a1, a2}
  File = {"f", "c"}
  Comment = {"c"}
  BusinessRecord = {"r"}
  Session = {"s"}
  Library = "library"
  MaxPending = 1
  MaxAttached = 1
  Batch = 1
  MaxFileFaults = 1
  Replica = {"p", "q"}
  Event = {b1, b2, b3}
  Capacity = 2
  Limit = 2
  Reads = {"p"}
  Old = {b3}
  By <- Publications
  MaxSequence = 3
  Handler = {a1, a2}
  Subscription = {b1, b2}
  Customer = {"c", "d"}
  Last = 3
  PerSecond = 2
  MaxReplays = 1
  MaxTries = 5
  Actor = {a1, a2}
  Operation = {b1, b2}
  Cost = {3}
  PackSession = {"s"}
  MaxMonth = 2
  Free = 1
  Paid = 2
  Units = 3
  Price = 2
SYMMETRY Alike
INVARIANTS
  PublishedIsWhole UsageFollowsOutcome NothingLeftBehind
  ReadableFilesExist StreamsAreComplete
  CreditsAddUp ProviderIsFollowed SchemasAreSound
PROPERTIES
  PublicationIsCurrent ReferencesPreventDeletion
  CreditsStayWithinBounds AccessNeverReturns
CHECK_DEADLOCK FALSE
