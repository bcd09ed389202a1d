SPECIFICATION ProcSpec
CONSTANTS
    MAX_PROCESSES = 3
    MAX_PRIORITY = 2
    DEFAULT_PRIORITY = 0
    QUANTUM = 0
    PriorityArgs <- MCPriorities
    Infos <- MCPipeInfos
    Creators <- MCAllPids
    Waiters <- MCAllPids
    PauseArgs <- MCPause
    WakeArgs <- MCAllPids
    NiceArgs <- MCAllPids
    CtrlC = TRUE
INVARIANTS
    ProcSound
PROPERTIES
    DeathWakesParent
    WaitsToTheEnd
    EofAfterLastWriter
