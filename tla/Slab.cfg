SPECIFICATION Spec
CONSTANTS
    BLOCKS = 6
    SLOTS = 2
    POINTER = 8
    WRAP = 32
    Size = {4, 8}
    Count = {0, 1, 2, 4}
    Value = {v1}
    NULL = NULL
INVARIANTS
    TypeOK
    ObjectsAccounted
    BlocksOwned
    StatsExact
PROPERTIES
    KeepsContract
