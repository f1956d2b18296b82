SPECIFICATION Spec
CONSTANTS
    MaxOps = 3
    MaxLeases = 2
    MaxErrors = 2
    MaxHeartbeats = 1
INVARIANTS
    NeverDies
    OpsAccounted
    RenewOutstanding
PROPERTIES
    OpsComplete
CHECK_DEADLOCK FALSE
