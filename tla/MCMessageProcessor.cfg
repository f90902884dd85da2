CONSTANTS
    A = A
    B = B
    Key = {A, B}
    Messages = 4
    KeyOf <- TwoKeys
    Cached = TRUE
    InputCapacity = 3
    OutputCapacity = 2
    MinBatch = 2
    MaxBatch = 3
    Settings <- DropsOrEvicts
    MaxHandlerFaults = 0
    MaxSinkFaults = 0
    MaxExternal = 1
SPECIFICATION FairSpec
INVARIANTS TypeOK NoneLost StoredOnceInOrder EvictedIsNotStored
PROPERTIES BuildsOnStored EvictionEnds
