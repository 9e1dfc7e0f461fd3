SPECIFICATION Spec
CONSTANTS
    Block = {1, 2, 3, 4, 5}
    Size = {1, 2}
    CACHE_SIZE = 2
    NULL = NULL
INVARIANTS
    TypeOK
    WalkStaysInChain
    ChainsConserved
