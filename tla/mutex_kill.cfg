CONSTANTS
    Pids = {init, sh, a, b, c}
    InitPid = init
    ShellPid = sh
    NoPid = none
    Clients = {sh, a, b, c}
    MAX_MUTEXES = 2
    MAX_BLOCKED_QUEUE_SIZE = 4
    Names = {x}
    NoName = null
    Mortal = {b, c}
    CleanClose = TRUE
SPECIFICATION FairSpec
INVARIANTS MutexInv MutualExclusion WaiterHasOwner
PROPERTIES ImplementsTable MutexIsSemaphore FirstWaiterGetsMutex
