SPECIFICATION MachineSpec
CONSTANTS
    Readers <- MCReaders
    BUFFER_SIZE = 3
    KeySets <- MCKeySets
    Sizes <- MCSizes
    MAX_HISTORY = 2
    MAX_WAITING = 2
    WIDTH = 4
    HEIGHT = 4
    MAX_SCALE = 2
    CURSOR = 8192
    LINE_SIZE = 3
    Chars <- MCChars
    Undrawn <- MCUndrawn
    PROMPT <- MCPrompt
    Programs <- MCPrograms
    MAX_LINES = 2
    LIST_TOTAL = 11
    BLOCK_SIZE = 1
    ListRequests <- MCListRequests
    SIZE_T = 12
    BUDDY_TOTAL = 68
    MIN_BLOCK_SIZE = 8
    HEADER = 3
    MAX_ORDER = 5
    BuddyRequests <- MCBuddyRequests
    BUDDY_SIZE_T = 128
INVARIANT
    NothingLiveNothingAllocated
CHECK_DEADLOCK FALSE
