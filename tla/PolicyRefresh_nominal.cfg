SPECIFICATION FairSpec
CONSTANTS
    p1 = p1
    p2 = p2
    badAllow = badAllow
    badResolver = badResolver
    Policies <- MCPolicies
    BadAllowlist <- MCBadAllowlist
    BadResolver <- MCBadResolver
    StartOverlap = FALSE
    MaxDeploys = 2
    MaxReboots = 1
    MaxDeaths = 0
    MaxLostCopies = 0
    MaxReloadFailures = 0
INVARIANTS
    TypeOK
    RestsOnOnePolicy
    ServesWhatIsOnDisk
PROPERTIES
    Converges
    RejectedIsWithdrawn
    ImplementsStore
    ImplementsWindow
