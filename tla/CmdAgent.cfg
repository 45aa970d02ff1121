SPECIFICATION Spec
CONSTANTS
    Devices = {d1, d2, d3}
    None = none
    MaxDevs = 2
    MaxProcs = 4
SYMMETRY Symmetry
INVARIANTS
    SendReachesDevice
PROPERTIES
    ImplementsRegistry
