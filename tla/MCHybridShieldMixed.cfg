CONSTANTS
    Threads = {t1, t2}
    Locks = {l1, l2}
    NoThread = NoThread
    NoLock = NoLock
    MaxDepth = 2
    MisusePanics = {TRUE, FALSE}
    MixFlags = TRUE
    MAX_LOCKS = 2
    MAX_HASH_ENTRIES = 2
    HASH_BKT_CAPACITY_THRESH = 2
    MallocFails = FALSE
SPECIFICATION Spec
SYMMETRY Symmetry
INVARIANTS
    NoMisuseReachesLock
CHECK_DEADLOCK FALSE
