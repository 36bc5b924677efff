CONSTANTS
    Threads = {0, 1, 2, 3}
    MaxThreads = 4
    NUM_ITERATION = 6
    WARMUP_ITERATIONS = 2
    lock = lock
    Locks = {lock}
    NoThread = NoThread
    NoLock = NoLock
    MaxDepth = 1
    MisusePanics = {TRUE}
    MixFlags = FALSE
    MAX_LOCKS = 2
    MAX_HASH_ENTRIES = 2
    HASH_BKT_CAPACITY_THRESH = 2
    MallocFails = FALSE
SPECIFICATION BenchSpec
INVARIANTS
    BenchTypeOK
    PartsKeptApart
    EachIterationOnce
PROPERTIES
    BenchmarkEnds
CHECK_DEADLOCK FALSE
