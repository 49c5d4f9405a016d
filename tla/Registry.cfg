SPECIFICATION Spec
CONSTANTS
    Devices = {d1, d2}
    Calls = {c1, c2, c3}
    Limit = 1
    Slack = 1
    MaxTaken = 2
    MaxCrashes = 1
    MaxAnswer = 2
    MaxChecks = 2
    DefaultChecks = 1
SYMMETRY Interchangeable
CHECK_DEADLOCK FALSE
INVARIANTS
    CallsInv
    OrphansAreLate
    JournalKeepsNewest
    QueriesAnswered
PROPERTY
    ImplementsDeviceStore
