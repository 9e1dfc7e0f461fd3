SPECIFICATION Spec
CONSTANTS
    NUM_CLASSES = 1
    SHIFT = 3
    PAGE_SIZE = 4
    META_SIZE = 1
    PAGES = 8
    SLOTS = 3
    WRAP_PAGES = 16
    COUNTER = 7
    TRACKING = TRUE
    MAG_SIZE = 1
    Size = {0, 8, 11, 12}
    Value = {v1}
    NULL = NULL
INVARIANTS
    RegionAccounted
    LargeSizesKept
    StatsExact
PROPERTIES
    KeepsContract
