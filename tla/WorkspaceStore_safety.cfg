SPECIFICATION Spec
CONSTANTS
    MaxTasks = 2
    Kinds = {"mark", "migrate", "import", "archive", "restore", "load", "clear"}
    Workspaces = {w1, w2}
    Files = {f1, f2}
    MaxMoves = 2
    NoWs = NoWs
    NoToken = NoToken
    None = None
SYMMETRY Sym
VIEW View
CHECK_DEADLOCK FALSE
INVARIANTS AcknowledgedWorkIsKept WorkspacesDoNotMix NoClearedData NothingIsStuck
