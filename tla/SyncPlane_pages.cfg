\* One connection, two jobs of up to two pages, an identity with two digests, a rotation.
SPECIFICATION PlaneSpec
CONSTANTS
  c1 = c1
  p1 = p1
  e1 = e1
  NoConnection = NoConnection
  NoPartition = NoPartition
  Connections = {c1}
  ArchiveConnections = {}
  Jobs = {1, 2}
  Partitions = {p1}
  DefaultPartitions = {p1}
  ErrorCodes = {}
  FinalCursorIsNull = FALSE
  MaxActive = 1
  MaxFailures = 2
  MaxAttempts = 2
  LeaseTerm = 1
  MaxPages = 2
  MaxVersion = 2
  MaxExpiries = 0
  EventIds = {e1}
  Hashes = {1, 2}
  ManifestGuarded = FALSE
  CompletionErrors = FALSE
  MaxDelta = 128
  MaxGenerations = 2
  MaxWorkClaims = 1
  EventPart <- TheEventPart
  Discovers <- TheDiscovers
INVARIANTS PublicationsAreSound ConflictsAreQuarantined
PROPERTIES HistoryIsAppendOnly QuarantineIsPermanent
CHECK_DEADLOCK FALSE
