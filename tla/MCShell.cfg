SPECIFICATION ShellSpec
CONSTANTS
    Procs <- MCProcs
    MAX_SEMAPHORES = 4
    MAX_OPEN = 4
    MAX_PIPES = 2
    PIPE_SIZE = 1
    WORD = 3
    ReadSizes <- MCWrites
    WriteSizes <- MCWrites
    Lines <- MCLines
INVARIANTS
    ShellSound
    PipelineInOrder
    PromptIsFree
CHECK_DEADLOCK FALSE
