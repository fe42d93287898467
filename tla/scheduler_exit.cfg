CONSTANTS
    Pids = {init, sh, a, b}
    InitPid = init
    ShellPid = sh
    NoPid = none
    Returning = {a, b}
SPECIFICATION Spec
INVARIANTS ScheduleTerminates
