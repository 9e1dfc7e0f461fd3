SPECIFICATION Spec
CONSTANTS
    WRAP = 32
    ELEMENT = 2
    FIRST = 2
    MEMORY = 16
    Block = {b1, b2}
    Value = {1, 2}
    Source <- Sources
    Wanted = {3, 20}
    NULL = NULL
    UNKNOWN = UNKNOWN
INVARIANTS
    TypeOK
    StoresInBlock
    BlockOwned
    AmortizedGrowth
PROPERTIES
    IsSequence
    AppendReturns
