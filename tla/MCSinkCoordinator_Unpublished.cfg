CONSTANTS
    A = A
    B = B
    Key = {A, B}
    Plan <- RpcPlans
    Contexts = 3
    StoreSinks <- OnlyAtomic
    PublishSinks <- OnlyPartitioned
    MaxAttempts = 1
    MaxFaults = 0
    External = 0
SPECIFICATION Spec
INVARIANT AcknowledgedIsPublished
