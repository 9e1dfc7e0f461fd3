SPECIFICATION Spec
CONSTANTS
    Block = {b1, b2, b3, b4, b5}
    Value = {v1}
    MAG_SIZE = 2
    NULL = NULL
SYMMETRY BlockSymmetry
INVARIANTS
    TypeOK
    NothingLost
PROPERTIES
    IsFreeSet
