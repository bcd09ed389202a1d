SPECIFICATION ProcSpec
CONSTANTS
    MAX_PROCESSES = 3
    MAX_PRIORITY = 2
    DEFAULT_PRIORITY = 0
    QUANTUM = 0
    PriorityArgs <- MCPriorities
    Infos <- MCInfos
    Creators <- MCAllPids
    Waiters <- MCAllPids
    PauseArgs <- MCNone
    WakeArgs <- MCNone
    NiceArgs <- MCNone
    CtrlC = FALSE
INVARIANTS
    NoForgottenParent
