SPECIFICATION Spec
CONSTANTS
    PAGE_SIZE = 4
    ARENA_HEADER = 1
    CHUNK_HEADER = 1
    CACHE_SIZE = 2
    WRAP = 64
    SPACE = 4
    TRACKING = TRUE
    CONTENT = FALSE
    Size = {0, 2, 5, 62}
    Alignment = {0, 2, 3, 8}
    Limit = {0, 3}
INVARIANTS
    TypeOK
    BlocksConserved
    HeldInChunks
    StatsExact
PROPERTIES
    GrownChunkFits
    KeepsContract
