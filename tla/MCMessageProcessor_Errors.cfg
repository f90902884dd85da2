CONSTANTS
    A = A
    B = B
    Key = {A, B}
    Messages = 4
    KeyOf <- OneKey
    Cached = TRUE
    InputCapacity = 2
    OutputCapacity = 2
    MinBatch = 2
    MaxBatch = 2
    Settings <- Either
    MaxHandlerFaults = 1
    MaxSinkFaults = 1
    MaxExternal = 1
SPECIFICATION FairSpec
INVARIANT AcknowledgedIsStored
PROPERTY EveryMessageReleased
