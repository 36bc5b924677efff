CONSTANTS
    Threads = {t1, t2}
    Locks = {1}
    Nil = Nil
    MaxHeld = 1
    ABQL_MAX_THREADS = 4
    IntMax = 7
    MaxTail = 8
SPECIFICATION Spec
INVARIANTS
    OwnSlot
CHECK_DEADLOCK FALSE
