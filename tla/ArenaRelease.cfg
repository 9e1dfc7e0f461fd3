SPECIFICATION Spec
CONSTANTS
    PAGE_SIZE = 4
    ARENA_HEADER = 1
    CHUNK_HEADER = 1
    CACHE_SIZE = 2
    WRAP = 64
    SPACE = 4
    TRACKING = TRUE
    CONTENT = TRUE
    Size = {2, 5}
    Alignment = {2}
    Limit = {0}
INVARIANTS
    ReleasePagesReleases
