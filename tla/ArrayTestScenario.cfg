CONSTANTS
    Threads = {t1}
    Locks = {l1, l2}
    lock1 = l1
    lock2 = l2
    NoThread = NoThread
    NoLock = NoLock
    MaxDepth = 3
    MisusePanics = {TRUE}
    MixFlags = FALSE
    MAX_LOCKS = 4
    MaxHeld = 2
SPECIFICATION ScenarioSpec
INVARIANT Lock1ReleasedOnce
CHECK_DEADLOCK FALSE
