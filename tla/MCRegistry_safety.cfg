CONSTANTS
    MaxRetry = 2
    MaxLeases = 6
    MaxFaults = 4
SPECIFICATION Spec
INVARIANTS TypeOK KeptLeaseHoldsKey
PROPERTY HeartbeatRestoresKeyWithinRetries
CHECK_DEADLOCK FALSE
