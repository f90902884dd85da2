CONSTANTS
    A = A
    B = B
    Key = {A, B}
    Messages = 3
    KeyOf <- TwoKeys
    Cached = TRUE
    InputCapacity = 3
    OutputCapacity = 2
    MinBatch = 2
    MaxBatch = 2
    Settings <- EvictsOnly
    MaxHandlerFaults = 0
    MaxSinkFaults = 0
    MaxExternal = 0
SPECIFICATION Spec
PROPERTY EvictedIsOver
