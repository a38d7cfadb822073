SPECIFICATION Spec
CONSTANTS
    Workspaces = {w1}
    Connections = {c1, c2}
    MaxRequests = 2
    MaxCalls = 3
    MaxMoves = 1
    None = None
SYMMETRY Sym
CHECK_DEADLOCK FALSE
INVARIANTS PendingMeansUntouched
