SPECIFICATION Spec
CONSTANTS
    w1 = w1
    Tasks = {w1}
    MayCall <- CallsOf
    Bufs = {b1}
    None = none
    Sec = 2
    Period = 1
    CmdTimeout = 3
    MaxCuts = 0
PROPERTIES
    TimeoutAfterPeriod
