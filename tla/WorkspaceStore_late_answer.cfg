SPECIFICATION Spec
CONSTANTS
    MaxTasks = 2
    Kinds = {"mark", "migrate", "load"}
    Workspaces = {w1}
    Files = {f1}
    MaxMoves = 2
    NoWs = NoWs
    NoToken = NoToken
    None = None
CHECK_DEADLOCK FALSE
INVARIANTS LateAnswersLeaveTheVault ReceiptsAreKept
