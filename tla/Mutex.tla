------------------------------- MODULE Mutex --------------------------------
(***************************************************************************)
(* Kernel/mutex.c: a table of named mutexes with hand-off ownership.       *)
(* freeMutex does not release a mutex somebody waits for: it wakes the     *)
(* waiter in the lowest slot of the queue and leaves the lock set, so the  *)
(* woken process returns from lockMutex as the owner.                      *)
(*                                                                         *)
(* The processes are clients in the way Userland/dummy is: they lock a     *)
(* mutex they obtained with getMutex and do not hold, and free the ones    *)
(* they hold.  freeMutex itself checks no owner.                           *)
(***************************************************************************)
EXTENDS ProcessTable, Integers, FiniteSets

CONSTANTS
    MAX_MUTEXES,             \* size of the table; slot 0 is adminMutex
    MAX_BLOCKED_QUEUE_SIZE,  \* length of the queue of one mutex
    Names,                   \* the names the clients use
    NoName,                  \* the name NULL of a clean slot
    Clients,                 \* the processes that use mutexes
    Mortal,                  \* the processes that may be killed
    CleanClose               \* TRUE: a mutex is closed only once nobody else uses it

ASSUME MutexAssumption ==
    /\ MAX_MUTEXES \in Nat \ {0}
    /\ MAX_BLOCKED_QUEUE_SIZE \in Nat \ {0}
    /\ IsFiniteSet(Pids)
    /\ NoName \notin Names
    /\ Clients \subseteq Pids
    /\ Mortal \subseteq Pids \ {InitPid}
    /\ CleanClose \in BOOLEAN

Mutexes == 0 .. MAX_MUTEXES - 1
Slots == 0 .. MAX_BLOCKED_QUEUE_SIZE - 1
adminMutex == 0
NoMutex == -1

VARIABLES
    used, name, pidCreator,  \* Mutex.used, .name, .pidCreator
    mutex,                   \* Mutex.mutex, the word _testAndSet works on
    queue,                   \* Mutex.queue
    cardinalBlocked,         \* Mutex.cardinalBlocked
    handles,                 \* the mutexes a process obtained from getMutex
    holds,                   \* the mutexes whose lockMutex returned to a process
    frame                    \* the mutex in whose lockMutex a process sits in _yield

tableVars == <<used, name, pidCreator>>
lockVars == <<mutex, queue, cardinalBlocked>>
clientVars == <<handles, holds, frame>>
vars == <<procState, current, used, name, pidCreator, mutex, queue, cardinalBlocked,
          handles, holds, frame>>

TypeOK ==
    /\ procState \in [Pids -> States]
    /\ current \in Pids
    /\ used \in [Mutexes -> BOOLEAN]
    /\ name \in [Mutexes -> Names \cup {NoName}]
    /\ pidCreator \in [Mutexes -> Pids \cup {NoPid}]
    /\ mutex \in [Mutexes -> {0, 1}]
    /\ queue \in [Mutexes -> [Slots -> Pids \cup {NoPid}]]
    /\ cardinalBlocked \in [Mutexes -> Int]
    /\ handles \in [Pids -> SUBSET Mutexes]
    /\ holds \in [Pids -> SUBSET Mutexes]
    /\ frame \in [Pids -> Mutexes \cup {NoMutex}]

-----------------------------------------------------------------------------
\* initializeMutexes: every slot clean, the first one reserved.
Init ==
    /\ PTInit
    /\ used = [m \in Mutexes |-> m = adminMutex]
    /\ name = [m \in Mutexes |-> NoName]
    /\ pidCreator = [m \in Mutexes |-> NoPid]
    /\ mutex = [m \in Mutexes |-> 0]
    /\ queue = [m \in Mutexes |-> [i \in Slots |-> NoPid]]
    /\ cardinalBlocked = [m \in Mutexes |-> 0]
    /\ handles = [p \in Pids |-> {}]
    /\ holds = [p \in Pids |-> {}]
    /\ frame = [p \in Pids |-> NoMutex]

\* The current process executes user code; interrupts are on.
UserMode == Executing /\ frame[current] = NoMutex

-----------------------------------------------------------------------------
\* i is the first element of the set of slots S.
First(i, S) == i \in S /\ \A j \in S : i =< j

\* getIndex: the slots in use under name n.
Named(n) == {m \in Mutexes : used[m] /\ name[m] = n}

Unused == {m \in Mutexes : ~used[m]}

\* createMutex in slot m: lock word, queue and counter are left as they are.
createMutex(m, n) ==
    /\ used' = [used EXCEPT ![m] = TRUE]
    /\ name' = [name EXCEPT ![m] = n]
    /\ pidCreator' = [pidCreator EXCEPT ![m] = current]

\* _testAndSet gets the lock: CMPXCHG8B compares eight bytes, the lock word and
\* the counter cardinalBlocked that follows it, and sets them to 1 and 0.
Acquirable(m) == mutex[m] = 0 /\ cardinalBlocked[m] = 0

\* getMutex, under adminMutex: it is locked and freed in one go, so it is free
\* whenever a client gets here.  With the table full the client gets ERROR.
getMutex(n) ==
    /\ UserMode /\ current \in Clients
    /\ Acquirable(adminMutex)
    /\ \E m \in Mutexes :
         /\ IF Named(n) # {} THEN First(m, Named(n)) /\ UNCHANGED tableVars
                             ELSE First(m, Unused) /\ createMutex(m, n)
         /\ handles' = [handles EXCEPT ![current] = @ \cup {m}]
    /\ UNCHANGED <<procState, current, mutex, queue, cardinalBlocked, holds, frame>>

-----------------------------------------------------------------------------
\* The client of m is back in user code as its owner.
Acquired(m) == holds' = [holds EXCEPT ![current] = @ \cup {m}]

Free(m) == {i \in Slots : queue[m][i] = NoPid}
Occupied(m) == {i \in Slots : queue[m][i] # NoPid}

isQueueFull(m) == cardinalBlocked[m] >= MAX_BLOCKED_QUEUE_SIZE

\* Mutant of addToBlocked: the counter is forgotten.
addToBlockedUncounted(m, pid) ==
    /\ \E i \in Slots : First(i, Free(m)) /\ queue' = [queue EXCEPT ![m][i] = pid]
    /\ UNCHANGED cardinalBlocked

\* addToBlocked: the first free slot of the queue; without one nothing happens.
addToBlocked(m, pid) ==
    IF Free(m) = {} THEN UNCHANGED <<queue, cardinalBlocked>>
    ELSE /\ \E i \in Slots :
              First(i, Free(m)) /\ queue' = [queue EXCEPT ![m][i] = pid]
         /\ cardinalBlocked' = [cardinalBlocked EXCEPT ![m] = @ + 1]

\* A client asks for a mutex it does not have.
Requests(m) == UserMode /\ m \in handles[current] \ holds[current]

\* lockMutex on a free mutex, or on a slot that was closed: the client goes on.
lockMutex(m) ==
    /\ Requests(m)
    /\ used[m] => Acquirable(m)
    /\ mutex' = IF used[m] THEN [mutex EXCEPT ![m] = 1] ELSE mutex
    /\ Acquired(m)
    /\ UNCHANGED <<procState, current, used, name, pidCreator, queue, cardinalBlocked,
                   handles, frame>>

\* lockMutex on a taken mutex: the caller is queued and BLOCKED.
lockMutexBlock(m) ==
    /\ Requests(m)
    /\ used[m] /\ ~Acquirable(m) /\ ~isQueueFull(m)
    /\ addToBlocked(m, current)
    /\ frame' = [frame EXCEPT ![current] = m]
    /\ schedule(changeProcessState(procState, current, "BLOCKED"))
    /\ UNCHANGED <<used, name, pidCreator, mutex, handles, holds>>

\* lockMutex with the queue full: nothing is queued, changeProcessState gets the
\* uninitialised local pid, and the caller yields still READY.
lockMutexFull(m) ==
    /\ Requests(m)
    /\ used[m] /\ ~Acquirable(m) /\ isQueueFull(m)
    /\ frame' = [frame EXCEPT ![current] = m]
    /\ \E garbage \in Pids \cup {NoPid} :
         schedule(changeProcessState(procState, garbage, "BLOCKED"))
    /\ UNCHANGED <<used, name, pidCreator, mutex, queue, cardinalBlocked, handles, holds>>

\* lockMutex on a taken mutex, with and without room in its queue.
lockMutexSuspend(m) == IF isQueueFull(m) THEN lockMutexFull(m) ELSE lockMutexBlock(m)

\* The _yield of lockMutex returns: the caller owns the mutex, unless somebody
\* just closed the books on it.
lockMutexReturn ==
    /\ Calling
    /\ frame[current] # NoMutex
    /\ Acquired(frame[current])
    /\ frame' = [frame EXCEPT ![current] = NoMutex]
    /\ UNCHANGED <<procState, current, used, name, pidCreator, mutex, queue,
                   cardinalBlocked, handles>>

\* Mutant of unblockProcess: the woken process stays in its slot.
unblockProcessKeep(m) ==
    /\ \E i \in Slots :
         /\ First(i, Occupied(m))
         /\ procState' = changeProcessState(procState, queue[m][i], "READY")
    /\ UNCHANGED queue

\* unblockProcess: the occupied slot with the lowest index is emptied.
unblockProcess(m) ==
    IF Occupied(m) = {} THEN UNCHANGED <<queue, procState>>
    ELSE \E i \in Slots :
           /\ First(i, Occupied(m))
           /\ procState' = changeProcessState(procState, queue[m][i], "READY")
           /\ queue' = [queue EXCEPT ![m][i] = NoPid]

\* Mutant of freeMutex: the mutex is released and the waiter woken.
freeMutexRelease(m) ==
    /\ UserMode
    /\ m \in holds[current]
    /\ holds' = [holds EXCEPT ![current] = @ \ {m}]
    /\ mutex' = [mutex EXCEPT ![m] = 0]
    /\ IF used[m] /\ cardinalBlocked[m] > 0
       THEN /\ unblockProcess(m)
            /\ cardinalBlocked' = [cardinalBlocked EXCEPT ![m] = @ - 1]
       ELSE UNCHANGED <<procState, queue, cardinalBlocked>>
    /\ UNCHANGED <<current, used, name, pidCreator, handles, frame>>

\* Mutant of freeMutex: one waiter is taken for none.
freeMutexOffByOne(m) ==
    /\ UserMode
    /\ m \in holds[current]
    /\ holds' = [holds EXCEPT ![current] = @ \ {m}]
    /\ IF used[m] /\ cardinalBlocked[m] > 1
       THEN /\ unblockProcess(m)
            /\ cardinalBlocked' = [cardinalBlocked EXCEPT ![m] = @ - 1]
            /\ UNCHANGED mutex
       ELSE /\ mutex' = [mutex EXCEPT ![m] = 0]
            /\ UNCHANGED <<procState, queue, cardinalBlocked>>
    /\ UNCHANGED <<current, used, name, pidCreator, handles, frame>>

\* freeMutex by its owner.
freeMutex(m) ==
    /\ UserMode
    /\ m \in holds[current]
    /\ holds' = [holds EXCEPT ![current] = @ \ {m}]
    /\ IF used[m] /\ cardinalBlocked[m] > 0
       THEN /\ unblockProcess(m)
            /\ cardinalBlocked' = [cardinalBlocked EXCEPT ![m] = @ - 1]
            /\ UNCHANGED mutex
       ELSE /\ mutex' = IF used[m] THEN [mutex EXCEPT ![m] = 0] ELSE mutex
            /\ UNCHANGED <<procState, queue, cardinalBlocked>>
    /\ UNCHANGED <<current, used, name, pidCreator, handles, frame>>

\* Nobody else can be using m.
Idle(m) == mutex[m] = 0 /\ \A p \in Pids \ {current} : m \notin handles[p]

\* closeMutex, which only has an effect for the creator.
closeMutex(m) ==
    /\ UserMode
    /\ m \in handles[current] \ holds[current]
    /\ CleanClose => Idle(m)
    /\ used' = IF used[m] /\ pidCreator[m] = current
               THEN [used EXCEPT ![m] = FALSE] ELSE used
    /\ handles' = [handles EXCEPT ![current] = @ \ {m}]
    /\ UNCHANGED <<procState, current, name, pidCreator, mutex, queue, cardinalBlocked,
                   holds, frame>>

-----------------------------------------------------------------------------
(* What lockMutex and freeMutex do inside longer calls of the kernel.       *)

\* The process that freeMutex(m) makes READY, if any.
Woken(m) ==
    IF used[m] /\ cardinalBlocked[m] > 0 /\ Occupied(m) # {}
    THEN queue[m][CHOOSE i \in Slots : First(i, Occupied(m))] ELSE NoPid

\* freeMutex(m): the hand-over, or the release, without the change of state.
freeInTable(m) ==
    IF used[m] /\ cardinalBlocked[m] > 0
    THEN /\ queue' = [queue EXCEPT ![m] = [i \in Slots |->
                         IF First(i, Occupied(m)) THEN NoPid ELSE @[i]]]
         /\ cardinalBlocked' = [cardinalBlocked EXCEPT ![m] = @ - 1]
         /\ UNCHANGED mutex
    ELSE /\ mutex' = IF used[m] THEN [mutex EXCEPT ![m] = 0] ELSE mutex
         /\ UNCHANGED <<queue, cardinalBlocked>>

\* lockMutex(m) suspends its caller.
suspendInLock(m) ==
    /\ addToBlocked(m, current)
    /\ frame' = [frame EXCEPT ![current] = m]
    /\ schedule(changeProcessState(procState, current, "BLOCKED"))

\* lockMutex(m) gets through: the mutex is free, or its slot is not in use.
Passable(m) == used[m] => Acquirable(m)

-----------------------------------------------------------------------------
\* createProcess
createProcess(p) ==
    /\ UserMode
    /\ procState[p] = "UNBORN"
    /\ procState' = [procState EXCEPT ![p] = "READY"]
    /\ UNCHANGED <<current, tableVars, lockVars, clientVars>>

\* Mutant of kill: a process that kills itself does not yield.
killNoYield(p) ==
    /\ UserMode
    /\ p \in Alive(procState)
    /\ handles' = [handles EXCEPT ![p] = {}]
    /\ holds' = [holds EXCEPT ![p] = {}]
    /\ frame' = [frame EXCEPT ![p] = NoMutex]
    /\ procState' = Removed(procState, p)
    /\ UNCHANGED <<current, tableVars, lockVars>>

\* removeProcess(p) by kill or a fault: the mutexes of p stay locked and its
\* entry stays in the queue it waits in.
kill(p) ==
    /\ UserMode
    /\ p \in Alive(procState)
    /\ handles' = [handles EXCEPT ![p] = {}]
    /\ holds' = [holds EXCEPT ![p] = {}]
    /\ frame' = [frame EXCEPT ![p] = NoMutex]
    /\ IF p = current THEN schedule(Removed(procState, p))
       ELSE procState' = Removed(procState, p) /\ UNCHANGED current
    /\ UNCHANGED <<tableVars, lockVars>>

\* The timer preempts user code only: a resumed lockMutex has interrupts off.
timerTick ==
    /\ frame[current] = NoMutex
    /\ schedule(procState)
    /\ UNCHANGED <<tableVars, lockVars, clientVars>>

Next ==
    \/ \E n \in Names : getMutex(n)
    \/ \E m \in Mutexes : \/ lockMutex(m) \/ lockMutexSuspend(m)
                          \/ freeMutex(m) \/ closeMutex(m)
    \/ lockMutexReturn
    \/ \E p \in Pids : createProcess(p)
    \/ \E p \in Mortal : kill(p)
    \/ timerTick

Spec == Init /\ [][Next]_vars

-----------------------------------------------------------------------------
\* The processes in the queue of m, dead ones included.
Waiting(m) == {p \in Pids : \E i \in Slots : queue[m][i] = p}

\* The processes m belongs to: the client it returned to, or the waiter it was
\* handed to and that has not been dispatched yet.
Owners(m) == {p \in Pids : m \in holds[p] \/ (frame[p] = m /\ p \notin Waiting(m))}

\* Between the return of lockMutex and the call of freeMutex a client is alone,
\* whatever is queued, handed over, killed or closed meanwhile.
MutualExclusion ==
    \A m \in Mutexes, p, q \in Pids : m \in holds[p] /\ m \in holds[q] => p = q

\* The counter that isQueueFull and freeMutex look at is the number of processes
\* in the queue, and no process is queued twice.
QueueCounted ==
    \A m \in Mutexes :
        /\ \A i, j \in Slots : queue[m][i] # NoPid /\ queue[m][i] = queue[m][j] => i = j
        /\ cardinalBlocked[m] = Cardinality(Waiting(m))

\* A BLOCKED process is in the queue of the mutex its lockMutex is about: no
\* process can be left BLOCKED where nobody will look for it.
BlockedIsQueued ==
    \A p \in Pids : procState[p] = "BLOCKED" =>
        \E m \in Mutexes : frame[p] = m /\ p \in Waiting(m)

\* No lost wake-up: as long as no process was killed, whoever waits for a mutex
\* waits for a process that owns it and will wake a waiter with freeMutex.
WaiterHasOwner ==
    (\A p \in Pids : procState[p] # "REMOVED") =>
        \A m \in Mutexes : Waiting(m) # {} => Owners(m) # {}

\* Every step is a step of the process table.
ImplementsTable == PTSpec

Lock == INSTANCE CountingSemaphore
            WITH Semaphores <- Mutexes, Processes <- Pids, open <- used,
                 value <- [m \in Mutexes |-> 1 - mutex[m]],
                 waiting <- [m \in Mutexes |-> Waiting(m)]

\* A mutex is a semaphore of one token: lockMutex and freeMutex, with their lock
\* word, their counter and their slots, do to it what wait and signal promise,
\* also when the hand-over goes to a process killed in the queue.
MutexIsSemaphore == Lock!CSSpec

-----------------------------------------------------------------------------
(* The parts of the inductive invariant behind MutualExclusion.            *)

\* A mutex has at most one owner, and a free one has neither owner nor queue.
OneOwner ==
    \A m \in Mutexes :
        /\ \A p, q \in Owners(m) : p = q
        /\ mutex[m] = 0 => Owners(m) = {} /\ Waiting(m) = {}

\* What is queued waits: a live process in a queue is BLOCKED in the lockMutex of
\* that mutex; a process suspended in lockMutex and not queued may run.
QueuedIsBlocked ==
    /\ \A m \in Mutexes, p \in Pids : p \in Waiting(m) /\ p \in Alive(procState) =>
            frame[p] = m /\ procState[p] = "BLOCKED"
    /\ \A p \in Pids : frame[p] # NoMutex => frame[p] \notin holds[p]

\* Clients are live processes other than init, and what they hold or wait for
\* is a mutex in use; adminMutex is never theirs.
ClientsLive ==
    /\ \A p \in Pids : p = InitPid \/ p \notin Alive(procState) =>
            handles[p] = {} /\ holds[p] = {} /\ frame[p] = NoMutex
    /\ \A p \in Pids : holds[p] \subseteq handles[p]
    /\ \A p \in Pids : frame[p] # NoMutex => frame[p] \in handles[p]
    /\ \A p \in Pids : \A m \in handles[p] : used[m] /\ m # adminMutex
    /\ \A m \in Mutexes : \A p \in Waiting(m) : procState[p] # "UNBORN"
    /\ \A m \in Mutexes : ~used[m] => mutex[m] = 0
    /\ used[adminMutex] /\ name[adminMutex] = NoName /\ mutex[adminMutex] = 0

MutexInv ==
    /\ TypeOK /\ InitSchedulable /\ OneRunning
    /\ QueueCounted /\ BlockedIsQueued /\ OneOwner /\ QueuedIsBlocked /\ ClientsLive

-----------------------------------------------------------------------------
\* Fairness: a process that is READY again and again is dispatched (ReadyRuns of
\* module Scheduler), a resumed call returns, and a client that keeps running
\* frees what it holds.
Fairness ==
    /\ \A p \in Clients : []<>(procState[p] = "READY") => []<>(procState[p] = "RUNNING")
    /\ WF_vars(lockMutexReturn)
    /\ \A p \in Clients, m \in Mutexes \ {adminMutex} :
         []<>(m \in holds[p] /\ procState[p] = "RUNNING") => []<>(m \notin holds[p])

FairSpec == Spec /\ Fairness

\* The waiter in the lowest slot of the queue gets the mutex, however many others
\* ask for it before or after, unless a process is killed and takes the mutex or
\* the hand-over with it.  In a higher slot a waiter may be passed over for ever.
FirstWaiterGetsMutex ==
    \A p \in Clients, m \in Mutexes \ {adminMutex} :
        (queue[m][0] = p) ~> (m \in holds[p] \/ \E q \in Pids : procState[q] = "REMOVED")
=============================================================================
