\* One job, the null cursor of the deployed worker.
SPECIFICATION FairPlaneSpec
CONSTANTS
  c1 = c1
  p1 = p1
  e1 = e1
  NoConnection = NoConnection
  NoPartition = NoPartition
  Connections = {c1}
  ArchiveConnections = {}
  Jobs = {1}
  Partitions = {p1}
  DefaultPartitions = {p1}
  ErrorCodes = {}
  FinalCursorIsNull = TRUE
  MaxActive = 1
  MaxFailures = 2
  MaxAttempts = 2
  LeaseTerm = 1
  MaxPages = 1
  MaxVersion = 1
  MaxExpiries = 0
  EventIds = {e1}
  Hashes = {1}
  ManifestGuarded = FALSE
  CompletionErrors = FALSE
  MaxDelta = 128
  MaxGenerations = 2
  MaxWorkClaims = 3
  EventPart <- TheEventPart
  Discovers <- TheDiscovers
PROPERTIES JobsSucceed
CHECK_DEADLOCK FALSE
