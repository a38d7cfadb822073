SPECIFICATION Spec
CONSTANTS
    Workers = {i1, i2}
    Urls = {"u1", "u2"}
    ArchiveRuns = {r1, r2}
    FileOf <- MCFileOf
    Ids = {"e1", "e2"}
    Digests = {"x", "y"}
    PageRows <- MCPageRows
    MaxPolls = 1
    MaxArchiveFailures = 2
    Nothing = Nothing
    Fetchers = {i1, i2}
    Datasets = {"fills", "orders", "income", "force_orders"}
    PageLimit = 2
    FirstRows = 3
    MaxRows = 4
    JobsOf <- MCJobsOf
    MaxSyncFailures = 2
    NullCursorFails = FALSE
    None = None
    Wishes <- MCWishes
    KindOf <- MCKindOf
    TextOf <- MCTextOf
    Chosen <- MCChosen
    Senders = {i1, i2}
    MaxSends = 2
    MaxGenerations = 2
    NoValue = NoValue
SYMMETRY Symmetry
CHECK_DEADLOCK FALSE
INVARIANTS CompletedIsWhole NothingIsSkipped AnswersAreTrue NothingReplacedUnseen CredentialsOpen
