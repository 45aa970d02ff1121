SPECIFICATION FairSpec
CONSTANTS
    HeadLen = 2
    ExLen = 3
    StreamLen = 4
    StreamMax = 4
    Half = 8
    Margin = 4
    MaxPackets = 8
    MaxArriving = 3
    MaxFaults = 2
INVARIANTS LossExplained NothingLost ConsumerInSync RoomForLaggard
PROPERTIES ImplementsLossyQueue CallbackReturns
CHECK_DEADLOCK FALSE
