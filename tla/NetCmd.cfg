SPECIFICATION Spec
CONSTANTS
    w1 = w1
    Tasks = {w1, w2}
    MayCall <- CallsOf
    Bufs = {b1, b2}
    None = none
    Sec = 2
    Period = 1
    CmdTimeout = 3
    MaxCuts = 1
SYMMETRY Symmetry
INVARIANTS
    PoolWhole
    NoDeadFrame
    SuccessMeansAcked
    NoReplyLeak
PROPERTIES
    ImplementsRemoteCall
