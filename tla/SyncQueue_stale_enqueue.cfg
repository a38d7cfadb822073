\* One job, a rotation while it is being enqueued.
SPECIFICATION Spec
CONSTANTS
  NoConnection = NoConnection
  NoPartition = NoPartition
  Connections = {c1}
  ArchiveConnections = {}
  Jobs = {1}
  Partitions = {p1}
  DefaultPartitions = {p1}
  ErrorCodes = {}
  FinalCursorIsNull = FALSE
  MaxActive = 1
  MaxFailures = 2
  MaxAttempts = 3
  LeaseTerm = 1
  MaxPages = 2
  MaxVersion = 2
  MaxExpiries = 1
INVARIANTS OldVersionsCancelled
CHECK_DEADLOCK FALSE
