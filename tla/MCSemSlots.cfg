SPECIFICATION SemSpec
CONSTANTS
    MAX_PROCESSES = 2
    MAX_PRIORITY = 2
    DEFAULT_PRIORITY = 0
    QUANTUM = 0
    PriorityArgs <- MCPriorities
    MAX_SEMAPHORES = 3
    MAX_OPEN = 2
    Names <- MCTwoNames
    InitValues <- MCNoPermits
    SemArgs <- MCSems
    Strays = TRUE
    SpuriousArgs <- MCFirstSem
    Deaths = TRUE
    MaxValue = 1
    MaxQueue = 2
INVARIANTS
    SemTypeOK
    SlotsSound
CHECK_DEADLOCK FALSE
