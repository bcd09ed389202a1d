SPECIFICATION ProcSpec
CONSTANTS
    MAX_PROCESSES = 4
    MAX_PRIORITY = 2
    DEFAULT_PRIORITY = 0
    QUANTUM = 0
    PriorityArgs <- MCPriorities
    Infos <- MCInfos
    Creators <- MCAllPids
    Waiters <- MCShell
    PauseArgs <- MCNone
    WakeArgs <- MCNone
    NiceArgs <- MCNone
    CtrlC = TRUE
INVARIANTS
    FamilyTree
    TablesAgree
