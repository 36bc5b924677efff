CONSTANTS
    Threads = {t1, t2}
    Locks = {l1, l2}
    NoThread = NoThread
    NoLock = NoLock
    MaxDepth = 2
    MisusePanics = {TRUE, FALSE}
    MixFlags = FALSE
    MAX_LOCKS = 2
    MAX_HASH_ENTRIES = 2
    HASH_BKT_CAPACITY_THRESH = 2
    MallocFails = FALSE
SPECIFICATION Spec
SYMMETRY Symmetry
INVARIANTS
    TypeOK
    MutualExclusion
    NoMisuseReachesLock
    NoFalsePanic
    RefCountExact
    PoolConserved
PROPERTY
    KeepsThePromise
CHECK_DEADLOCK FALSE
