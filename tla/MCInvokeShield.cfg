CONSTANTS
    Threads = {t1}
    Locks = {l1, l2, l3}
    NoThread = NoThread
    NoLock = NoLock
    MaxDepth = 2
    MisusePanics = {TRUE, FALSE}
    MixFlags = FALSE
    MAX_LOCKS = 3
    MAX_HASH_ENTRIES = 3
    HASH_BKT_CAPACITY_THRESH = 2
    MallocFails = TRUE
    Nodes = {n1, n2}
    NoNode = NoNode
    NodeLocks = {l1}
SPECIFICATION ClibSpec
SYMMETRY Symmetry
INVARIANTS
    SameNode
PROPERTIES
    ImplementsHybrid
CHECK_DEADLOCK FALSE
