SPECIFICATION Spec
CONSTANTS
    N = 12
    FaultKinds = {}
    MaxFaults = 0
INVARIANT WrittenFromAll
CHECK_DEADLOCK FALSE
