SPECIFICATION SemFairSpec
CONSTANTS
    MAX_PROCESSES = 4
    MAX_PRIORITY = 2
    DEFAULT_PRIORITY = 0
    QUANTUM = 0
    PriorityArgs <- MCPriorities
    MAX_SEMAPHORES = 1
    MAX_OPEN = 4
    Names <- MCOneName
    InitValues <- MCValues
    SemArgs <- MCFirstSem
    Strays = FALSE
    SpuriousArgs <- MCNone
    Deaths = FALSE
    MaxValue = 2
    MaxQueue = 5
INVARIANTS
    NoLostWakeup
    QueueIsTheSleepers
    NobodySpins
PROPERTIES
    ImplementsCounting
