CONSTANTS
    Threads = {t1, t2, t3}
    Few = {t1, t2}
    Locks = {1, 2}
    Addresses = {n1, n2, n3}
    Nil = Nil
    MaxHeld = 1
    TicketMod = 3
    ABQL_MAX_THREADS = 4
    IntMax = 7
    MaxTail = 6
SPECIFICATION Spec
INVARIANTS
    TypeOK
    NodesFollowQueue
    NodesNotShared
    AssertionsHold
    GrantHasOneTaker
    NoUseAfterDelete
    TicketsFollowQueue
    FlagFollowsQueue
PROPERTIES
    KeepsFifo
    CallsReturn
CHECK_DEADLOCK FALSE
