SPECIFICATION FairSpec
CONSTANTS
    s1 = s1
    s2 = s2
    Servers = {s1, s2}
    Sizes = {1, 2}
    MaxFaults = 2
    MaxLosses = 1
    MaxChanges = 1
INVARIANTS StableReplicasAgree AnswersAccounted
PROPERTIES InfoKeptUntilStable EventuallyStable ChunkSurvives
CHECK_DEADLOCK FALSE
