SPECIFICATION Spec
CONSTANTS
    Thread = {t1, t2}
    Block = {b1, b2, b3}
    CACHE_SIZE = 2
    LOCKED = TRUE
    NONE = NONE
INVARIANTS
    TypeOK
    ExclusiveBlocks
    QuietlyConserved
