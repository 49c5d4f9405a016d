\* The firmware: one loop on the device, only the gateway starts rotations.
SPECIFICATION Spec
CONSTANTS
    MaxConns = 3
    MaxSecrets = 3
    MaxQueue = 2
    MaxRotationFailures = 2
    DeviceInitiates = FALSE
    Firmware = TRUE
INVARIANTS Recoverable TagsVerify NoDataLost FailuresCounted
