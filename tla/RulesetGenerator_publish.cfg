SPECIFICATION FairSpec
CONSTANTS
    v0 = v0
    v1 = v1
    v2 = v2
    N = 2
    Invocations <- MCThree
    Earlier <- MCFirst
    Answers <- MCAnswers
    MaxAddresses = 2
    Capacity <- MCCapacity
CHECK_DEADLOCK FALSE
INVARIANTS
    TypeOK
    AcceptedIsExact
    HoldsOnePass
    KeptWasThere
    ConflictHasWinner
PROPERTIES
    PublishesInOrder
    ImplementsLists
    EveryInvocationEnds
