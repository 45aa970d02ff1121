\* A client that has sent its commands and left does nothing more.
CHECK_DEADLOCK FALSE
SPECIFICATION Spec
CONSTANTS
    Conns = {c1, c2}
    FDs = {f1, f2}
    Devices = {d1}
    None = none
    Parts = 2
    MaxCmds = 1
SYMMETRY Symmetry
INVARIANTS
    AnswersToAsker
