CONSTANTS
    Pids = {init, sh, a, b}
    InitPid = init
    ShellPid = sh
    NoPid = none
    Clients = {a}
    MAX_MUTEXES = 3
    MAX_BLOCKED_QUEUE_SIZE = 4
    Names = {x}
    NoName = null
    Mortal = {a, b}
    CleanClose = TRUE
    MAX_SEMAPHORES = 1
    SemMutexName = semaphoreMutex
    Starts = {0, 1}
    MaxGiven = 3
SPECIFICATION SemSpec
INVARIANTS SemTypeOK NegativeIsQueue SleeperIsQueued TokensConserved
PROPERTY SemIsCounting
