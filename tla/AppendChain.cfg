SPECIFICATION Spec
CONSTANTS
    N = 2
    Wids = {w1, w2}
    MaxOps = 1
    NoWid = NoWid
    NoData = NoData
SYMMETRY Symmetry
INVARIANTS
    AckedIsChosen
    InquiryIsFinal
    StableIsChosen
    ChainInOrder
CHECK_DEADLOCK FALSE
