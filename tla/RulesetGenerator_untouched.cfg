SPECIFICATION Spec
CONSTANTS
    v0 = v0
    v1 = v1
    v2 = v2
    N = 2
    Invocations <- MCTwo
    Earlier <- MCNone
    Answers <- MCAnswers
    MaxAddresses = 2
    Capacity <- MCCapacity
CHECK_DEADLOCK FALSE
INVARIANTS
    UntouchedOnFailure
