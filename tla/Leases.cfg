SPECIFICATION ClaimsSpec
CONSTANTS
  w1 = w1  w2 = w2  w3 = w3
  a1 = a1
  k1 = k1
  mail = mail
  p1 = p1  p2 = p2
  None = None
  Worker = {w1, w2, w3}
  Admin = {a1}
  Key = {k1}
  Kind = {mail}
  Kinds <- AnyKind
  MaxJobs = 1
  Lanes = 2
  MaxAttempts = 2
  Backoff = 1
  MaxDelay = 1
  Lease = 2
  Delays <- Immediately
  MaxAge = 0
  MaxBeats = 2
  MaxFaults = 2
  MaxOps = 1
  Lane = {w1, w2, w3}
  Delivery = {"d1", "d2"}
  Endpoint = {"e"}
  Event = {"k"}
  DeliveryLanes = 2
  DeliveryAttempts = 2
  DeliveryBackoff = 1
  MaxDeliveryDelay = 1
  DeliveryLease = 2
  MaxDeliveryFaults = 1
  MaxDeliveryOps = 1
  Tab = {"a", "b", "c"}
  ActorOf <- TwoOfThree
  TtlOf <- OneShorter
  MaxTime = 3
  MaxTokens = 3
  MaxLost = 1
  Process = {p1, p2}
  Schedule = {"a", "b"}
  Releases <- TwoReleases
  PerSecond = 2
  MaxClock = 4
  MaxStarts = 3
  MaxMishaps = 1
  MaxManual = 0
  Client = {p1, p2}
  EntityRecord = {"r", "s"}
  Soft = {"r"}
  MaxRevision <- ThreeAndTwo
  BulkItems = 2
SYMMETRY Alike
INVARIANTS
  LeasesAreHeld NoOverlapWithoutFaults DeliveriesAreApart OneEditor RevisionsTellContents
PROPERTIES
  OutcomesAreFinal OnlyClaimsReviveLeases ImplementsFencedQueue SchedulesFireAsDefined
  NothingOverwritten
CHECK_DEADLOCK FALSE
