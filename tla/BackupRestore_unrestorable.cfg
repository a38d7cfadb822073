SPECIFICATION Spec
CONSTANTS
    Jobs = {"b1"}
    Capability <- MCCapability
    Tenants = {t1, t2}
    Stranger = Stranger
    Intents = {i1, i2}
    MaxVersions = 2
    MaxInvites = 2
    None = None
SYMMETRY Sym
CHECK_DEADLOCK FALSE
INVARIANTS SignedSnapshotsAreWhole
