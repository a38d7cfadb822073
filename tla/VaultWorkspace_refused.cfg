SPECIFICATION Spec
CONSTANTS
    Devices = {d1, d2}
    Kits = {k1}
    MaxOps = 3
    MaxMoves = 0
    None = None
SYMMETRY Sym
CHECK_DEADLOCK FALSE
INVARIANTS RefusedIsNotApplied
