\* Is a device revoked only for failures in a row?
SPECIFICATION Spec
CONSTANTS
    MaxConns = 3
    MaxSecrets = 3
    MaxQueue = 2
    MaxRotationFailures = 2
    DeviceInitiates = FALSE
    Firmware = TRUE

INVARIANT RevokedOnlyInARow
