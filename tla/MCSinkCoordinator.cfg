CONSTANTS
    A = A
    B = B
    Key = {A, B}
    Plan <- AnyPlans
    Contexts = 3
    StoreSinks <- StoringSinks
    PublishSinks <- PublishingSinks
    MaxAttempts = 2
    MaxFaults = 2
    External = 1
SPECIFICATION Spec
INVARIANTS TypeOK AcknowledgedIsStored StoredOnceInOrder VerifiedIsCurrent PublishedIsStored SerialIsPublished HandledAnewLeftNothing BatchesHonourGuarantees HandledAnewIsInvalidated
