CONSTANTS
    Threads = {t1, t2, t3, t4}
    Few = {t1, t2, t3}
    Locks = {1, 2}
    Nil = Nil
    MaxHeld = 1
    Cpus = {0, 2}
SPECIFICATION MCSpec
INVARIANTS
    TypeOK
    MutualExclusion
    QueuesKeepOrder
PROPERTIES
    FifoOnSocket
    CallsReturn
CHECK_DEADLOCK FALSE
