\* One connection, two jobs that may share a partition, one page retried once.
SPECIFICATION Spec
CONSTANTS
  NoConnection = NoConnection
  NoPartition = NoPartition
  Connections = {c1}
  ArchiveConnections = {c1}
  Jobs = {1, 2}
  Partitions = {p1}
  DefaultPartitions = {p1}
  ErrorCodes = {"AUTH_DISABLED", "GLOBAL_CIRCUIT_OPEN", "UPSTREAM_UNAVAILABLE"}
  FinalCursorIsNull = FALSE
  MaxActive = 1
  MaxFailures = 2
  MaxAttempts = 3
  LeaseTerm = 2
  MaxPages = 2
  MaxVersion = 2
  MaxExpiries = 1
INVARIANTS SharedLease ClaimsUseCurrentCredential
PROPERTIES SettledForever PagesNeedTheLease ImplementsLeasedLog
CHECK_DEADLOCK FALSE
