SPECIFICATION Spec
CONSTANTS
    Timeout = 4
    Validity = 2
    Interval = 2
    MaxChallenges = 3
    MaxTime = 9
INVARIANTS
    FirmwareInv
    JudgedOnce
PROPERTY
    RevokedOnlyIfLate
CHECK_DEADLOCK FALSE
