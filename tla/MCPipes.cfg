SPECIFICATION PipeFairSpec
CONSTANTS
    Procs <- MCProcs
    MAX_SEMAPHORES = 4
    MAX_OPEN = 4
    MAX_PIPES = 1
    PIPE_SIZE = 2
    WORD = 4
    ReadSizes <- MCReads
    WriteSizes <- MCThree
INVARIANTS
    PipesSound
    BytesInOrder
    HoldersKeepPipe
PROPERTIES
    TransfersGoOn
CHECK_DEADLOCK FALSE
