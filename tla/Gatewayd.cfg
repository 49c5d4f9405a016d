SPECIFICATION GatewaydFairSpec
CONSTANTS
    Conns = {c1, c2}
    None = None
    Limit = 1
    AcceptFails = TRUE
    Emulated = {d1}
    StoreFails = TRUE
INVARIANTS
    NoneMissed
    SlotsCounted
    KeysErased
    DaemonInv
PROPERTIES
    ShutdownEnds
    EmulatedJoin
CHECK_DEADLOCK FALSE
