\* Three addresses, as MCDevLink says, and two clients.  No symmetry: it is
\* unsound for liveness.
SPECIFICATION FairSpec
CONSTANTS
    Bevs = {b1, b2, b3}
    Sers = {s1, s2}
    None = null
INVARIANTS
    NoBevLeak
    OnlyLossBreaksWrite
PROPERTIES
    ImplementsAtomicLink
    Reconnects
