SPECIFICATION TaskFairSpec
CONSTANTS
    TasksNum = 2
    Unlocked = unlocked
INVARIANTS
    OneHandlerAfterAbort
    NoLostWakeup
PROPERTIES
    ImplementsTaskLife
    MainReturns
