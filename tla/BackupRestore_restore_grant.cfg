SPECIFICATION Spec
CONSTANTS
    Jobs = {"r1"}
    Capability <- MCCapability
    Tenants = {t1, t2}
    Stranger = Stranger
    Intents = {i1, i2}
    MaxVersions = 2
    MaxInvites = 2
    None = None
CHECK_DEADLOCK FALSE
INVARIANTS FirstExchangeIsGranted
