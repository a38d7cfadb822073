SPECIFICATION Spec
CONSTANTS
    Devices = {d1, d2}
    Kits = {k1, k2}
    MaxOps = 3
    MaxMoves = 1
    None = None
SYMMETRY Sym
CHECK_DEADLOCK FALSE
INVARIANTS UnlockedIsPublished BusyPhaseEnds
PROPERTIES NothingIsOverwritten
