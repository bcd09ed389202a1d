SPECIFICATION FairSpec
CONSTANTS
    MAX_PROCESSES = 3
    MAX_PRIORITY = 2
    DEFAULT_PRIORITY = 1
    QUANTUM = 1
    PriorityArgs <- MCPriorityArgs
INVARIANTS
    TypeOK
    CpuOwnership
PROPERTIES
    OnlyReadyDispatched
    WorkConserving
    NoStarvation
