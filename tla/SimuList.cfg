\* A head and three nodes for three keys, so that a freed node's memory is used
\* again in another place, and a list of three nodes can grow and shrink at any
\* place.  A list that is gone is the end.
CHECK_DEADLOCK FALSE
SPECIFICATION ListFairSpec
CONSTANTS
    Memory = 4
    Keys <- MCKeys
    Data = {d1}
INVARIANTS ListTypeOK HeapIsLinked
PROPERTIES ImplementsKeyTable CallEnds
