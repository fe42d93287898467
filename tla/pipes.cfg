CONSTANTS
    Pids = {init, sh, a, b}
    InitPid = init
    ShellPid = sh
    NoPid = none
    Clients = {sh, a, b}
    MAX_MUTEXES = 2
    MAX_BLOCKED_QUEUE_SIZE = 2
    Names = {x}
    NoName = null
    Mortal = {}
    CleanClose = FALSE
    PIPE_LENGTH = 2
    Bytes = {b0, b1}
    ZeroByte = zero
    Messages <- SmallMessages
    MaxRead = 2
    PipeName = x
    Creators = {sh}
    Lockers = {a}
    Openers = {b}
SYMMETRY Symmetry
SPECIFICATION PipesSpec
INVARIANTS RingInOrder SleepingReaderListed PipeQueuesCounted
CHECK_DEADLOCK FALSE
