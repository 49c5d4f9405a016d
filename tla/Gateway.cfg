SPECIFICATION FairSpec
CONSTANTS
    MaxConns = 2
    Enrolled = b1
    Boards = {b1, b2}
    Operations = {"revoke", "delete", "register", "reregister"}
    MaxOperations = 1
INVARIANTS
    GatewayInv
    OneServed
    TableOpen
    ShutOutUnlessAdmitted
PROPERTIES
    SupersededGivesWay
    NothingLeft
    RevokedIsDisconnected
\* The device may leave for good.
CHECK_DEADLOCK FALSE
