CONSTANTS
    Pids = {init, sh, a, b}
    InitPid = init
    ShellPid = sh
    NoPid = none
    Clients = {}
    MAX_MUTEXES = 3
    MAX_BLOCKED_QUEUE_SIZE = 4
    Names = {x}
    NoName = null
    Mortal = {}
    CleanClose = TRUE
    MAX_SEMAPHORES = 1
    SemMutexName = semaphoreMutex
    Starts = {1}
    MaxGiven = 2
SPECIFICATION SemSpec
INVARIANTS CreateAnswers
