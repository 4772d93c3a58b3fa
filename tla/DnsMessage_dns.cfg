SPECIFICATION FairSpec
CONSTANTS
    Messages <- MCMessages
    Width = 1
    AddressSize = 1
    QueryId = 0
    MaxJumps = 2
INVARIANTS
    TypeOK
    AgreeOnRecords
PROPERTIES
    ReadingProgresses
    ParsingEnds
    ReaderWalks
    SkipperWalks
CHECK_DEADLOCK FALSE
