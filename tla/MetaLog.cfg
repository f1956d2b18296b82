SPECIFICATION Spec
CONSTANTS
    Names <- MCNames
    StripeInputs = {"valid", "refused"}
    TruncateTo = {0, 2, 3}
    TruncateEnd <- MCTruncateEnd
    PruneTo = {2}
    LeaveHoles = FALSE
    FirstTree <- MCTree
    Roll = 2
    MaxOps = 3
    MaxAllocs = 2
    MaxRestarts = 1
    MaxOffset = 4
INVARIANTS
    ReplaySucceeds
    RecoveredTree
    
PROPERTIES
    VersionsGrow
    LeasedFileKept
CHECK_DEADLOCK FALSE
