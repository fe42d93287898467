CONSTANTS
    Pids = {init, sh, a, b, c}
    InitPid = init
    ShellPid = sh
    NoPid = none
    Returning = {}
SPECIFICATION FairSpec
INVARIANTS TypeOK PsListsAll
PROPERTIES ImplementsTable ReadyRuns
