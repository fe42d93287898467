CONSTANTS
    HeapLevel = 6
    Pids = {init, sh, a}
    InitPid = init
    ShellPid = sh
    PAGE_SIZE = 128
    BLOCK_STRUCT_SIZE = 28
    MAX_THREADS = 3
    Spots = 2
    Sizes = {3, 98}
    MaxCalls = 3
    MaxEnded = 1
SPECIFICATION MemSpec
INVARIANTS NoSharing HeapTiled ThreadsCounted TurnsComeRound
CHECK_DEADLOCK FALSE
