\* tcpclient: two threads on the device, and it starts rotations too.
SPECIFICATION FairSpec
CONSTANTS
    MaxConns = 2
    MaxSecrets = 2
    MaxQueue = 2
    MaxRotationFailures = 2
    DeviceInitiates = TRUE
    Firmware = FALSE
INVARIANT RotationInv
PROPERTIES
    ImplementsKeyAgreement
    CommitMeetsPeer
    RotationSettles
    DivergenceHeals
    RevokedIsCutOff
