\* One connection, two jobs whose pages are empty, one worker that dies, a provider that does not fail.
SPECIFICATION FairPlaneSpec
CONSTANTS
  c1 = c1
  p1 = p1
  e1 = e1
  NoConnection = NoConnection
  NoPartition = NoPartition
  Connections = {c1}
  ArchiveConnections = {c1}
  Jobs = {1, 2}
  Partitions = {p1}
  DefaultPartitions = {p1}
  ErrorCodes = {}
  FinalCursorIsNull = FALSE
  MaxActive = 1
  MaxFailures = 2
  MaxAttempts = 2
  LeaseTerm = 1
  MaxPages = 1
  MaxVersion = 1
  MaxExpiries = 1
  EventIds = {e1}
  Hashes = {}
  ManifestGuarded = FALSE
  CompletionErrors = TRUE
  MaxDelta = 128
  MaxGenerations = 2
  MaxWorkClaims = 3
  EventPart <- TheEventPart
  Discovers <- TheDiscovers
PROPERTIES SucceededJobsPublished JobsSettle
CHECK_DEADLOCK FALSE
