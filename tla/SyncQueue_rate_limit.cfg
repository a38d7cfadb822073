\* One job, a provider that asks for a pause.
SPECIFICATION FairSpec
CONSTANTS
  NoConnection = NoConnection
  NoPartition = NoPartition
  Connections = {c1}
  ArchiveConnections = {}
  Jobs = {1}
  Partitions = {p1}
  DefaultPartitions = {p1}
  ErrorCodes = {"RATE_LIMITED"}
  FinalCursorIsNull = FALSE
  MaxActive = 1
  MaxFailures = 2
  MaxAttempts = 3
  LeaseTerm = 1
  MaxPages = 2
  MaxVersion = 1
  MaxExpiries = 1
PROPERTIES DelayedJobsRetried
CHECK_DEADLOCK FALSE
