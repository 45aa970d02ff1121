\* Two connections over two descriptors, so that a number is reused, and two
\* device threads.  No symmetry: it is unsound for liveness.
SPECIFICATION FairSpec
CONSTANTS
    Conns = {c1, c2}
    FDs = {f1, f2}
    Devs = {d1, d2}
    Svc = svc
    None = none
INVARIANTS
    ListSound
    ReaderOwnsNode
    NoOrphan
PROPERTIES
    LateReplyExplained
    ImplementsClientTable
    Reclaimed
    WriterReturns
