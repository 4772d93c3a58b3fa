SPECIFICATION FairSpec
CONSTANTS
    p1 = p1
    p2 = p2
    badAllow = badAllow
    badResolver = badResolver
    Policies <- MCOneGood
    BadAllowlist <- MCBadAllowlist
    BadResolver <- MCNone
    StartOverlap = TRUE
    MaxDeploys = 1
    MaxReboots = 1
    MaxDeaths = 1
    MaxLostCopies = 1
    MaxReloadFailures = 1
INVARIANTS
    AppliedRunIsWhole
PROPERTIES
    NextPolicyRepairs
