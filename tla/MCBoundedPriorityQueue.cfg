CONSTANTS
    Writer = {w1, w2}
    Reader = {r1}
    Capacity = 2
    MaxCalls = 3
SPECIFICATION FairSpec
INVARIANTS TypeOK NoStrandedWriter NoStrandedReader
PROPERTIES ImplementsPriorityQueue AcceptedIsDelivered EnqueueReturns CloseEndsIteration
CHECK_DEADLOCK FALSE
