CONSTANTS
    Threads = {t1}
    Locks = {l1, l2, l3, l4}
    NoThread = NoThread
    NoLock = NoLock
    MaxDepth = 2
    MisusePanics = {TRUE, FALSE}
    MixFlags = FALSE
    MAX_LOCKS = 3
    MAX_HASH_ENTRIES = 3
    HASH_BKT_CAPACITY_THRESH = 2
    MallocFails = TRUE
SPECIFICATION Spec
SYMMETRY Symmetry
INVARIANTS
    NoPhantomRecord
    PoolConserved
CHECK_DEADLOCK FALSE
