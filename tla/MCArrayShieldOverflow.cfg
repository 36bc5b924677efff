CONSTANTS
    Threads = {t1, t2}
    Locks = {l1, l2, l3}
    NoThread = NoThread
    NoLock = NoLock
    MaxDepth = 2
    MisusePanics = {TRUE}
    MixFlags = FALSE
    MAX_LOCKS = 2
    MaxHeld = 3
SPECIFICATION Spec
SYMMETRY Symmetry
INVARIANTS
    NoFalsePanic
CHECK_DEADLOCK FALSE
