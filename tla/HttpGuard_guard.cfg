SPECIFICATION FairSpec
CONSTANTS
    Names <- MCNames
    Addresses <- MCAddresses
    Policies <- MCPolicies
    Requests <- MCRequests
    Zone <- MCZone
    Reliable <- MCReliable
    MaxDepth = 1
INVARIANTS
    TypeOK
    ForwardsToItsHost
    SpoofedIsCaught
    GenuineGetsThrough
    MixesOnlyDuringRefresh
PROPERTIES
    EveryConnectionEnds
