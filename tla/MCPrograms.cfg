SPECIFICATION ProgramsSpec
CONSTANTS
    MAX_PHILOSOPHERS = 4
    MIN_PHILOSOPHERS = 2
    Arguments <- MCArguments
    MAX_TURNS <- MCTurns
    MAX_SEMAPHORES = 5
    MAX_OPEN = 6
    BOARD_WIDTH = 3
    BOARD_HEIGHT = 4
    MAX_POINTS = 2
    MAX_GAMES = 2
    CAT_BYTES = 2
    STREAM_BUFFER = 3
    Vowels <- MCVowels
    Others <- MCOthers
    MAX_INPUT = 4
    ENTRIES = 3
    BLOCKS = 5
    ULL = 64
    FileNames <- MCFileNames
    INT_BITS = 7
    WORD = 2
    MEMORY = 6
    Lines <- MCLines
    Strings <- MCStrings
    Images <- MCImages
    NameLengths <- MCNameLengths
    Formats <- MCFormats
    Clock <- MCClock
INVARIANTS
    PhyloSound
    NeighboursDoNotEat
    DinersAreGranted
    GameSound
    HeadsNeverMeet
    CommandsWork
    DiskSound
    LibrarySound
CHECK_DEADLOCK FALSE
