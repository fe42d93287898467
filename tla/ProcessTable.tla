---------------------------- MODULE ProcessTable ----------------------------
(***************************************************************************)
(* What the kernel promises about processes, abstracted from the way the   *)
(* scheduler keeps them: every process has a state, one of them is         *)
(* current, and the only way the CPU changes hands is schedule().  The     *)
(* pointer-level ring of Kernel/scheduler.c is module Scheduler, which     *)
(* implements this one; the modules of the blocking primitives (Mutex,     *)
(* Semaphore, Sleep) are built on the operators below and implement this   *)
(* specification too.                                                      *)
(*                                                                         *)
(* All IDT gates are interrupt gates, so a system call runs with           *)
(* interrupts off until it returns or calls _yield: each handler is one    *)
(* action, and a call suspended in _yield continues in another action.     *)
(***************************************************************************)
EXTENDS Naturals

CONSTANTS
    Pids,      \* the processes that are ever created; pids are never reused
    InitPid,   \* pid 0, the idle process init()
    ShellPid,  \* the second process main() creates
    NoPid      \* NO_PID_VALUE, the mark of an empty queue slot

ASSUME PidAssumption ==
    /\ InitPid \in Pids
    /\ ShellPid \in Pids \ {InitPid}
    /\ NoPid \notin Pids

VARIABLES
    procState, \* Process.state; UNBORN before getProcess, REMOVED after removeProcess
    current    \* the pid of the slot the scheduler's current points to

ptVars == <<procState, current>>

States == {"UNBORN", "READY", "RUNNING", "BLOCKED", "SLEEPING", "REMOVED"}

PTTypeOK ==
    /\ procState \in [Pids -> States]
    /\ current \in Pids

-----------------------------------------------------------------------------
(* Operators on a process-state function st, shared by the other modules.  *)

\* The processes in the scheduler's ring.
Alive(st) == {p \in Pids : st[p] \notin {"UNBORN", "REMOVED"}}

\* changeProcessState: a pid that is not in the ring is ignored.
changeProcessState(st, pid, s) ==
    [p \in Pids |-> IF p = pid /\ p \in Alive(st) THEN s ELSE st[p]]

\* The first lines of schedule(): a running process goes back to READY.
Demoted(st) ==
    [p \in Pids |-> IF p = current /\ st[p] = "RUNNING" THEN "READY" ELSE st[p]]

\* schedule(), from the states st: some READY process of the ring runs next.
schedule(st) ==
    \E p \in Pids :
        /\ Demoted(st)[p] = "READY"
        /\ current' = p
        /\ procState' = [Demoted(st) EXCEPT ![p] = "RUNNING"]

\* removeProcess takes the process out of the ring.
Removed(st, pid) == changeProcessState(st, pid, "REMOVED")

-----------------------------------------------------------------------------
\* main(): init and the shell are created, init is current but READY until
\* the first timer tick dispatches a process.
PTInit ==
    /\ procState = [p \in Pids |->
                      IF p \in {InitPid, ShellPid} THEN "READY" ELSE "UNBORN"]
    /\ current = InitPid

\* A process other than init executes user code and may call the kernel.
Calling == current # InitPid /\ procState[current] = "RUNNING"

\* So does one that a call left BLOCKED without a _yield, until it is preempted: a write
\* into a full pipe does that, no other call.
Executing == current # InitPid /\ procState[current] \in {"RUNNING", "BLOCKED"}

\* createProcess
PTCreate ==
    /\ Calling
    /\ \E p \in Pids :
         /\ procState[p] = "UNBORN"
         /\ procState' = [procState EXCEPT ![p] = "READY"]
    /\ UNCHANGED current

\* The timer interrupt wakes the sleepers W whose alarm expired and reschedules.
PTTick ==
    \E W \in SUBSET {p \in Pids : procState[p] = "SLEEPING"} :
        schedule([p \in Pids |-> IF p \in W THEN "READY" ELSE procState[p]])

\* A call that waits: the caller is BLOCKED or SLEEPING, perhaps after having
\* woken one process, and yields.
PTSuspend ==
    /\ Calling
    /\ \E s \in {"BLOCKED", "SLEEPING"}, w \in Pids \cup {NoPid} :
         /\ w # NoPid => w # current /\ procState[w] = "BLOCKED"
         /\ schedule([p \in Pids |-> IF p = current THEN s
                                     ELSE IF p = w THEN "READY" ELSE procState[p]])

\* A call that wakes one blocked process and goes on.
PTWake ==
    /\ Calling
    /\ \E w \in Pids :
         /\ procState[w] = "BLOCKED"
         /\ procState' = [procState EXCEPT ![w] = "READY"]
    /\ UNCHANGED current

\* A call that gives the CPU away: kill(0).
PTYield == Calling /\ schedule(procState)

\* kill of another process.
PTKill ==
    /\ Calling
    /\ \E p \in Alive(procState) \ {InitPid, current} :
         procState' = Removed(procState, p)
    /\ UNCHANGED current

\* kill of the caller itself, a general protection fault, or a return from main.
PTExit == Calling /\ schedule(Removed(procState, current))

\* sys_call_runC: the new process replaces the caller.
PTRun ==
    /\ Calling
    /\ \E p \in Pids :
         /\ procState[p] = "UNBORN"
         /\ schedule(Removed([procState EXCEPT ![p] = "READY"], current))

\* restartSHELL, from the keyboard interrupt, whoever is current: only init and
\* the new shell survive.
PTRestart ==
    \E p \in Pids :
        /\ procState[p] = "UNBORN"
        /\ schedule([q \in Pids |->
                       IF q = p THEN "READY"
                       ELSE IF q \in Alive(procState) \ {InitPid} THEN "REMOVED"
                       ELSE procState[q]])

PTNext ==
    \/ PTCreate \/ PTTick \/ PTSuspend \/ PTWake \/ PTYield
    \/ PTKill \/ PTExit \/ PTRun \/ PTRestart

PTSpec == PTInit /\ [][PTNext]_ptVars

-----------------------------------------------------------------------------
\* The loop of schedule() has no exit but a READY process: it terminates because
\* init is never blocked, put to sleep or removed (removeProcess(0) only yields).
InitSchedulable == procState[InitPid] \in {"READY", "RUNNING"}

\* The process the kernel believes is current is the one that is RUNNING, and no
\* other is (at boot init is current and still READY).
OneRunning ==
    /\ \A p \in Pids : procState[p] = "RUNNING" => p = current
    /\ procState[current] = "RUNNING" \/ current = InitPid
=============================================================================
