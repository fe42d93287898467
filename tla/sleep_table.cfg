CONSTANTS
    Pids = {init, sh, a, b, c}
    InitPid = init
    ShellPid = sh
    NoPid = none
    MAX_LISTENERS = 3
    Intervals = {1, 2, 3}
    Mortal = {a}
SPECIFICATION FairSpec
INVARIANTS TypeOK Punctual SleeperListed EntriesExpire
PROPERTIES ImplementsTable SleeperRuns
