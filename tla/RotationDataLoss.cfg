\* tcpclient, rotations from the gateway only: a packet sealed before the ACK.
SPECIFICATION Spec
CONSTANTS
    MaxConns = 1
    MaxSecrets = 1
    MaxQueue = 2
    MaxRotationFailures = 2
    DeviceInitiates = FALSE
    Firmware = FALSE

INVARIANT NoDataLost
