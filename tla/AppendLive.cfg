SPECIFICATION FairSpec
CONSTANTS
    N = 2
    Wids = {w1}
    MaxOps = 2
    NoWid = NoWid
    NoData = NoData
INVARIANTS
    ChainInOrder
PROPERTIES
    EventuallyStable
    AppendAnswered
CHECK_DEADLOCK FALSE
