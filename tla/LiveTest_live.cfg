SPECIFICATION Spec
CONSTANTS
    Targets <- MCTargets
    Endings <- MCEndings
    Kinds <- MCKinds
    MaxCall = 2
    ReadyTimeout = 1
    Timeout = 1
    Grace = 1
    Poll = 1
    WaitTimeout = 2
    WaitPoll = 1
    Lookback = 6
    Minimum = 1
    Period = 2
    MaxSurprises = 2
    Lead = 1
INVARIANTS
    EndsInTime
    ReadyTargetIsNotGivenUp
    FinishedIsReturned
    WaitEndsInTime
    FoundIsNew
    MissingWasNotShown
