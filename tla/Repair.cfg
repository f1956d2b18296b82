SPECIFICATION FairSpec
CONSTANTS
    N = 6
    FaultKinds = {"peer", "ask", "answer", "read"}
    MaxFaults = 2
INVARIANTS EntriesAccounted DestinationWaitsForAll
PROPERTY RepairCompletes
CHECK_DEADLOCK FALSE
