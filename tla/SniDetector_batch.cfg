SPECIFICATION FairSpec
CONSTANTS
    Names <- MCNames
    Addresses <- MCAddresses
    Resolvers = 2
    Reliable <- MCReliable
    Batches <- MCBatches
    Zones <- MCZones
    MaxDepth = 1
    Budget = 3
    MaxSends = 2
    MaxAttempts = 2
    MayCrash = TRUE
CHECK_DEADLOCK FALSE
INVARIANTS
    TypeOK
    GenuineIsNotReported
    SpoofingIsReported
    OncePerDelivery
PROPERTIES
    EveryDeliveryEnds
