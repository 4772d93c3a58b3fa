SPECIFICATION Spec
CONSTANTS
    Names <- MCNames
    Addresses <- MCAddresses
    Resolvers = 2
    Reliable <- MCNone
    Batches <- MCTwoEvents
    Zones <- MCDirect
    MaxDepth = 1
    Budget = 3
    MaxSends = 2
    MaxAttempts = 3
    MayCrash = FALSE
CHECK_DEADLOCK FALSE
INVARIANTS
    BatchIsHandled
