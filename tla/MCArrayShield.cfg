CONSTANTS
    Threads = {t1, t2}
    Locks = {l1, l2, l3}
    NoThread = NoThread
    NoLock = NoLock
    MaxDepth = 2
    MisusePanics = {TRUE}
    MixFlags = FALSE
    MAX_LOCKS = 2
    MaxHeld = 2
SPECIFICATION Spec
SYMMETRY Symmetry
INVARIANTS
    TypeOK
    MutualExclusion
    NoMisuseReachesLock
    NoFalsePanic
    RefCountExact
PROPERTY
    KeepsThePromise
CHECK_DEADLOCK FALSE
