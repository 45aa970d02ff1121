SPECIFICATION FairSpec
CONSTANTS
    Writers = {w1, w2}
    None = None
    Reader = reader
    MaxConnects = 3
    MaxInits = 2
INVARIANTS NothingLeaks OnlyTearDownBreaksWrite
PROPERTIES ImplementsConnection BreakEndsLoop WriteReturns
CHECK_DEADLOCK FALSE
