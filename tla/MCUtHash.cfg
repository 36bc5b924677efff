CONSTANTS
    Entries = {16, 32, 256, 272, 512, 768}
    NULL = NULL
    hashv <- HashValue
    HASH_INITIAL_NUM_BUCKETS = 1
    HASH_BKT_CAPACITY_THRESH = 2
    MallocFails = TRUE
SPECIFICATION Spec
INVARIANTS
    TypeOK
    HASH_FSCK
    ChainsBounded
PROPERTIES
    ImplementsMap
CHECK_DEADLOCK FALSE
