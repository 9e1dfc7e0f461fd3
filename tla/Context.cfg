SPECIFICATION ContextSpec
CONSTANTS
    PAGE_SIZE = 4
    ARENA_HEADER = 2
    CHUNK_HEADER = 1
    CACHE_SIZE = 1
    WRAP = 64
    SPACE = 5
    TRACKING = TRUE
    CONTENT = TRUE
    Size = {1, 2}
    Alignment = {1}
    Limit = {0}
    CONTEXT_SIZE = 4
    DEFAULT_MAX = 8
    MaxMemory = {0, 3, 63}
    POOL_BLOCKS = 2
INVARIANTS
    ContextTypeOK
    OnlyOwnedMapped
    SecureResetsWipe
PROPERTIES
    LeaksTold
