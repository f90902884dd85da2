CONSTANTS
    A = A
    B = B
    Key = {A, B}
    Messages = 4
    KeyOf <- TwoKeys
    Cached = TRUE
    InputCapacity = 3
    OutputCapacity = 1
    MinBatch = 2
    MaxBatch = 2
    Settings <- FailsOnly
    MaxHandlerFaults = 1
    MaxSinkFaults = 0
    MaxExternal = 0
SPECIFICATION Spec
INVARIANT LeftoversReleased
