SPECIFICATION Spec
CONSTANTS
    NUM_CLASSES = 1
    SHIFT = 2
    PAGE_SIZE = 4
    META_SIZE = 1
    PAGES = 3
    SLOTS = 2
    WRAP_PAGES = 16
    COUNTER = 8
    TRACKING = FALSE
    MAG_SIZE = 1
    Size = {0, 4, 57}
    Value = {}
    NULL = NULL
PROPERTIES
    LargeBeyondRegionFails
