SPECIFICATION Spec
CONSTANTS
    NumServers = 14
    Sizes = {6, 8, 10, 12}
    Caching = {4, 5, 7, 8}
    MaxRepairs = 2
    HostSets <- Neighbours
    Orders <- MCOrders
INVARIANTS TableRebuildsChunk CacheAtLeaves
CHECK_DEADLOCK FALSE
