SPECIFICATION Spec
CONSTANTS
    p1 = p1
    p2 = p2
    badAllow = badAllow
    badResolver = badResolver
    Policies <- MCThreePolicies
    BadAllowlist <- MCBadAllowlist
    BadResolver <- MCNone
    StartOverlap = TRUE
    MaxDeploys = 1
    MaxReboots = 0
    MaxDeaths = 0
    MaxLostCopies = 0
    MaxReloadFailures = 0
INVARIANTS
    NginxWaitsForPolicy
