\* A client that has sent its packets is silent: the system may stop.
CHECK_DEADLOCK FALSE
SPECIFICATION FairSpec
CONSTANTS
    Devices = {d, p}
    Portless = {p}
    None = none
    CmdHead = 2
    AgentHead = 3
    CmdLens = {2, 4}
    BufSize = 7
    Word = 65536
    MaxPackets = 4
INVARIANTS
    InOrder
    OverrunOnlyBySplitMagic
    AddressedToLatestInit
PROPERTIES
    CallbackReturns
