SPECIFICATION Spec
CONSTANTS
    Timeout = 3
    Validity = 2
    Interval = 2
    MaxChallenges = 2
    MaxTime = 5
INVARIANT
    HonestNotRevoked
CHECK_DEADLOCK FALSE
