SPECIFICATION Spec
CONSTANTS
    Bevs = {b1, b2}
    Sers = {s1}
    None = null
INVARIANTS
    WriteOnLive
