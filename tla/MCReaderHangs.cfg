SPECIFICATION ShellFairSpec
CONSTANTS
    Procs <- MCProcs
    MAX_SEMAPHORES = 4
    MAX_OPEN = 4
    MAX_PIPES = 1
    PIPE_SIZE = 1
    WORD = 3
    ReadSizes <- MCWrites
    WriteSizes <- MCWrites
    Lines <- MCPipelines
PROPERTIES
    ReaderEnds
CHECK_DEADLOCK FALSE
