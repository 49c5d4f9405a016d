SPECIFICATION FairSpec
CONSTANTS
    MaxConns = 2
    MaxSecrets = 3
INVARIANTS
    ReconnectionInv
PROPERTIES
    ConfirmedUnlessStray
    AgreementUnlessStray
    ApartHeals
\* The device may leave for good.
CHECK_DEADLOCK FALSE
