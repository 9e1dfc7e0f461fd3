SPECIFICATION Spec
CONSTANTS
    NUM_CLASSES = 2
    SHIFT = 1
    PAGE_SIZE = 4
    META_SIZE = 1
    PAGES = 2
    SLOTS = 2
    WRAP_PAGES = 16
    COUNTER = 3
    TRACKING = FALSE
    MAG_SIZE = 1
    Size = {0, 2, 4, 5, 8}
    Value = {v1}
    NULL = NULL
INVARIANTS
    TypeOK
    ListsIntact
    ContentKept
    SmallFailsOnlyWhenFull
PROPERTIES
    PagesNeverChangeClass
    KeepsContract
