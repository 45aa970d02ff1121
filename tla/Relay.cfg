\* Three connections over two numbers and one device: two clients share the
\* device, and a third may get the number of one that has left.  No symmetry,
\* for liveness.
\* A client that has sent its commands and left does nothing more.
CHECK_DEADLOCK FALSE
SPECIFICATION FairSpec
CONSTANTS
    Conns = {c1, c2, c3}
    FDs = {f1, f2}
    Devices = {d1}
    None = none
    Parts = 2
    MaxCmds = 1
PROPERTIES
    ImplementsExchange
    MisrouteExplained
    TakenIsAnswered
