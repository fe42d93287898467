----------------------------- MODULE Semaphore ------------------------------
(***************************************************************************)
(* Kernel/semaphores.c on top of Kernel/mutex.c.  Every semaphore has a    *)
(* mutex of the same name, taken by wait() but not by signal(); the table  *)
(* is protected by semaphoreMutex.  wait() may be suspended twice: in      *)
(* lockMutex, when a client locked the mutex of the semaphore's name, and  *)
(* in its own _yield after it queued itself.                               *)
(*                                                                         *)
(* The queues are long enough for every process here; the overflow of      *)
(* lockMutex is the subject of module Mutex.                               *)
(***************************************************************************)
EXTENDS Mutex

CONSTANTS
    MAX_SEMAPHORES,
    SemMutexName,   \* the name "semaphoreMutex"
    Starts,         \* the initial values the clients ask for
    MaxGiven        \* bound on the tokens a semaphore is given, Starts included

ASSUME SemaphoreAssumption ==
    /\ MAX_SEMAPHORES \in Nat \ {0}
    /\ MAX_MUTEXES > 1
    /\ SemMutexName \notin Names \cup {NoName}
    /\ MaxGiven \in Nat
    /\ Starts \subseteq 0 .. MaxGiven
    /\ Cardinality(Pids) =< MAX_BLOCKED_QUEUE_SIZE

Sems == 0 .. MAX_SEMAPHORES - 1
semaphoreMutex == 1
NoCall == [op |-> "none", s |-> 0]

VARIABLES
    sem,         \* the table semaphores[]
    semHandles,  \* the semaphores a process obtained from semCreate or semOpen
    call,        \* the semaphore call a process is suspended in
    given,       \* history: initial value plus signals of the semaphore in a slot
    taken        \* history: the tokens a wait took, or a signal handed to the queue

semVars == <<sem, semHandles, call, given, taken>>
allVars == <<procState, current, used, name, pidCreator, mutex, queue, cardinalBlocked,
             handles, holds, frame, sem, semHandles, call, given, taken>>

Calls == [op : {"none", "waitLock", "waitSleep", "semCreate"}, s : Sems]

SemTypeOK ==
    /\ procState \in [Pids -> States]
    /\ name \in [Mutexes -> Names \cup {NoName, SemMutexName}]
    /\ cardinalBlocked \in [Mutexes -> 0 .. Cardinality(Pids)]
    /\ frame \in [Pids -> Mutexes \cup {NoMutex}]
    /\ sem \in [Sems -> [used : BOOLEAN, name : Names \cup {NoName}, mutex : Mutexes,
                         semaphore : -Cardinality(Pids) .. MaxGiven,
                         queue : [Slots -> Pids \cup {NoPid}],
                         cardinalBlocked : 0 .. Cardinality(Pids),
                         pidCreator : Pids \cup {NoPid}]]
    /\ semHandles \in [Pids -> SUBSET Sems]
    /\ call \in [Pids -> Calls]
    /\ given \in [Sems -> 0 .. MaxGiven]
    /\ taken \in [Sems -> Nat]

\* initializeMutexes and initializeSemaphores, whose getMutex takes slot 1.
SemInit ==
    /\ PTInit
    /\ used = [m \in Mutexes |-> m \in {adminMutex, semaphoreMutex}]
    /\ name = [m \in Mutexes |-> IF m = semaphoreMutex THEN SemMutexName ELSE NoName]
    /\ pidCreator = [m \in Mutexes |-> NoPid]
    /\ mutex = [m \in Mutexes |-> 0]
    /\ queue = [m \in Mutexes |-> [i \in Slots |-> NoPid]]
    /\ cardinalBlocked = [m \in Mutexes |-> 0]
    /\ handles = [p \in Pids |-> {}]
    /\ holds = [p \in Pids |-> {}]
    /\ frame = [p \in Pids |-> NoMutex]
    /\ sem = [s \in Sems |-> [used |-> FALSE, name |-> NoName, mutex |-> 0, semaphore |-> 0,
                              queue |-> [i \in Slots |-> NoPid], cardinalBlocked |-> 0,
                              pidCreator |-> NoPid]]
    /\ semHandles = [p \in Pids |-> {}]
    /\ call = [p \in Pids |-> NoCall]
    /\ given = [s \in Sems |-> 0]
    /\ taken = [s \in Sems |-> 0]

\* The current process executes user code.
InUserCode == UserMode /\ call[current] = NoCall

-----------------------------------------------------------------------------
\* getSemIndex
SemNamed(n) == {s \in Sems : sem[s].used /\ sem[s].name = n}
SemUnused == {s \in Sems : ~sem[s].used}

SemOccupied(q) == {i \in Slots : q[i] # NoPid}
SemFree(q) == {i \in Slots : q[i] = NoPid}

\* createSemaphore in slot s; queue and counter are left as they are.  Its
\* getMutex finds or creates the mutex of that name.
createSemaphore(s, n, start) ==
    \E m \in Mutexes :
        /\ IF Named(n) # {} THEN First(m, Named(n)) /\ UNCHANGED tableVars
                            ELSE First(m, Unused) /\ createMutex(m, n)
        /\ sem' = [sem EXCEPT ![s].used = TRUE, ![s].name = n, ![s].mutex = m,
                              ![s].semaphore = start, ![s].pidCreator = current]
        /\ semHandles' = [semHandles EXCEPT ![current] = @ \cup {s}]
        /\ given' = [given EXCEPT ![s] = start]
        /\ taken' = [taken EXCEPT ![s] = 0]

\* semCreate of a new name: semaphoreMutex is locked and freed in one go.
semCreate(n, start) ==
    /\ InUserCode
    /\ Acquirable(semaphoreMutex) /\ Acquirable(adminMutex)
    /\ SemNamed(n) = {}
    /\ \E s \in Sems : First(s, SemUnused) /\ createSemaphore(s, n, start)
    /\ UNCHANGED <<procState, current, lockVars, clientVars, call>>

\* semCreate of a name in use returns ERROR and leaves semaphoreMutex locked.
semCreateExisting(n) ==
    /\ InUserCode
    /\ Acquirable(semaphoreMutex)
    /\ SemNamed(n) # {}
    /\ mutex' = [mutex EXCEPT ![semaphoreMutex] = 1]
    /\ UNCHANGED <<procState, current, tableVars, queue, cardinalBlocked, clientVars, semVars>>

\* semCreate with semaphoreMutex locked suspends its caller.  No call ever frees
\* a semaphoreMutex that stayed locked, so there is no continuation.
semCreateBlock ==
    /\ InUserCode
    /\ ~Acquirable(semaphoreMutex)
    /\ suspendInLock(semaphoreMutex)
    /\ call' = [call EXCEPT ![current] = [op |-> "semCreate", s |-> 0]]
    /\ UNCHANGED <<tableVars, mutex, handles, holds, sem, semHandles, given, taken>>

semOpen(n) ==
    /\ InUserCode
    /\ \E s \in Sems :
         /\ First(s, SemNamed(n))
         /\ semHandles' = [semHandles EXCEPT ![current] = @ \cup {s}]
    /\ UNCHANGED <<procState, current, tableVars, lockVars, clientVars, sem, call, given, taken>>

\* semClose, which only has an effect for the creator; with CleanClose nobody
\* else has the semaphore.
semClose(s) ==
    /\ InUserCode
    /\ s \in semHandles[current]
    /\ CleanClose => /\ \A p \in Pids \ {current} : s \notin semHandles[p]
                     /\ SemOccupied(sem[s].queue) = {}
    /\ semHandles' = [semHandles EXCEPT ![current] = @ \ {s}]
    /\ sem' = IF sem[s].used /\ sem[s].pidCreator = current
              THEN [sem EXCEPT ![s].used = FALSE] ELSE sem
    /\ UNCHANGED <<procState, current, tableVars, lockVars, clientVars, call, given, taken>>

-----------------------------------------------------------------------------
\* Mutant of addToSemBlocked: the waiter is counted twice.
addToSemBlockedTwice(s, pid) ==
    LET free == SemFree(sem[s].queue)
    IN [sem[s] EXCEPT !.queue = [i \in Slots |-> IF First(i, free) THEN pid ELSE @[i]],
                      !.cardinalBlocked = @ + 2]

\* addToSemBlocked: the first free slot of the queue.
addToSemBlocked(s, pid) ==
    LET free == SemFree(sem[s].queue)
    IN IF free = {} THEN sem[s]
       ELSE [sem[s] EXCEPT !.queue = [i \in Slots |-> IF First(i, free) THEN pid ELSE @[i]],
                           !.cardinalBlocked = @ + 1]

\* Mutant of HasToken: the sign is tested before the decrement.
HasTokenEarly(s) == sem[s].semaphore >= 0

\* The value stays non-negative when wait decrements it.
HasToken(s) == sem[s].semaphore > 0

\* The part of wait(s) after lockMutex(sem->mutex), in a state where freeMutex
\* makes w READY: take a token and return, or queue, free the mutex and yield.
waitBody(s, w) ==
    IF HasToken(s)
    THEN /\ sem' = [sem EXCEPT ![s].semaphore = @ - 1]
         /\ call' = [call EXCEPT ![current] = NoCall]
         /\ taken' = [taken EXCEPT ![s] = @ + 1]
         /\ procState' = changeProcessState(procState, w, "READY")
         /\ UNCHANGED current
    ELSE /\ sem' = [sem EXCEPT ![s] = [addToSemBlocked(s, current) EXCEPT !.semaphore = @ - 1]]
         /\ call' = [call EXCEPT ![current] = [op |-> "waitSleep", s |-> s]]
         /\ schedule(changeProcessState(changeProcessState(procState, current, "BLOCKED"),
                                        w, "READY"))
         /\ UNCHANGED taken

\* wait with the mutex free: it is locked and freed again without a _yield.
wait(s) ==
    /\ InUserCode
    /\ s \in semHandles[current] /\ sem[s].used
    /\ Passable(sem[s].mutex)
    /\ waitBody(s, NoPid)
    /\ UNCHANGED <<tableVars, lockVars, clientVars, semHandles, given>>

\* wait while somebody has locked the mutex of the semaphore's name.
waitBlock(s) ==
    /\ InUserCode
    /\ s \in semHandles[current] /\ sem[s].used
    /\ ~Passable(sem[s].mutex)
    /\ suspendInLock(sem[s].mutex)
    /\ call' = [call EXCEPT ![current] = [op |-> "waitLock", s |-> s]]
    /\ UNCHANGED <<tableVars, mutex, handles, holds, sem, semHandles, given, taken>>

\* wait continues as the owner of the mutex.
waitResume ==
    /\ Calling
    /\ call[current].op = "waitLock"
    /\ LET m == frame[current]
       IN waitBody(call[current].s, Woken(m)) /\ freeInTable(m)
    /\ frame' = [frame EXCEPT ![current] = NoMutex]
    /\ UNCHANGED <<tableVars, handles, holds, semHandles, given>>

\* The _yield of wait itself returns: a signal woke the caller.
waitReturn ==
    /\ Calling
    /\ call[current].op = "waitSleep"
    /\ call' = [call EXCEPT ![current] = NoCall]
    /\ UNCHANGED <<procState, current, tableVars, lockVars, clientVars, sem, semHandles, given,
                   taken>>

\* Mutant of SemWoken: the slot is emptied before its pid is read.
SemWokenNobody(r) == NoPid

\* The process that signal wakes, for the slot contents r: the lowest in the queue.
SemWoken(r) ==
    IF r.cardinalBlocked > 0 /\ SemOccupied(r.queue) # {}
    THEN r.queue[CHOOSE i \in Slots : First(i, SemOccupied(r.queue))] ELSE NoPid

\* unblockProcessSemaphore empties the slot of the woken process.
SemUnqueued(r) ==
    [i \in Slots |-> IF First(i, SemOccupied(r.queue)) THEN NoPid ELSE r.queue[i]]

\* Mutant of Signalled: a token handed to a waiter is not counted.
SignalledHandOff(r) ==
    IF r.cardinalBlocked > 0
    THEN [r EXCEPT !.queue = SemUnqueued(r), !.cardinalBlocked = @ - 1]
    ELSE [r EXCEPT !.semaphore = @ + 1]

\* Mutant of Signalled: the queue shrinks and its counter does not.
SignalledUncounted(r) ==
    IF r.cardinalBlocked > 0
    THEN [r EXCEPT !.queue = SemUnqueued(r), !.semaphore = @ + 1]
    ELSE [r EXCEPT !.semaphore = @ + 1]

\* The slot contents r after signal: the value grows in any case.
Signalled(r) ==
    IF r.cardinalBlocked > 0
    THEN [r EXCEPT !.queue = SemUnqueued(r), !.cardinalBlocked = @ - 1, !.semaphore = @ + 1]
    ELSE [r EXCEPT !.semaphore = @ + 1]

\* signal takes no mutex.
signal(s) ==
    /\ InUserCode
    /\ s \in semHandles[current] /\ sem[s].used
    /\ given[s] < MaxGiven
    /\ given' = [given EXCEPT ![s] = @ + 1]
    /\ procState' = changeProcessState(procState, SemWoken(sem[s]), "READY")
    /\ sem' = [sem EXCEPT ![s] = Signalled(@)]
    /\ taken' = IF SemOccupied(sem[s].queue) = {} THEN taken ELSE [taken EXCEPT ![s] = @ + 1]
    /\ UNCHANGED <<current, tableVars, lockVars, clientVars, semHandles, call>>

-----------------------------------------------------------------------------
\* The calls of module Mutex, made by a process in user code.
mutexCall ==
    /\ call[current] = NoCall
    /\ \/ \E n \in Names : getMutex(n)
       \/ \E m \in Mutexes : lockMutex(m) \/ lockMutexBlock(m) \/ freeMutex(m) \/ closeMutex(m)
       \/ lockMutexReturn
       \/ \E p \in Pids : createProcess(p)
    /\ UNCHANGED semVars

killProcess(p) ==
    /\ call[current] = NoCall
    /\ kill(p)
    /\ call' = [call EXCEPT ![p] = NoCall]
    /\ semHandles' = [semHandles EXCEPT ![p] = {}]
    /\ UNCHANGED <<sem, given, taken>>

\* The timer preempts user code only.
tick == call[current] = NoCall /\ timerTick /\ UNCHANGED semVars

SemNext ==
    \/ mutexCall \/ tick
    \/ \E p \in Mortal : killProcess(p)
    \/ \E n \in Names : semOpen(n) \/ semCreateExisting(n)
    \/ \E n \in Names, start \in Starts : semCreate(n, start)
    \/ semCreateBlock
    \/ \E s \in Sems : semClose(s) \/ wait(s) \/ waitBlock(s) \/ signal(s)
    \/ waitResume \/ waitReturn

SemSpec == SemInit /\ [][SemNext]_allVars

-----------------------------------------------------------------------------
SemWaiting(s) == {p \in Pids : \E i \in Slots : sem[s].queue[i] = p}

\* No token is lost or made: what a semaphore was given and has not passed on is its
\* value, once the processes in its queue are paid back, the killed ones included.
TokensConserved ==
    \A s \in Sems : sem[s].used =>
        given[s] - taken[s] = sem[s].semaphore + Cardinality(SemWaiting(s))

\* A negative value counts the queue, which is what signal() looks at to decide
\* whether somebody has to be woken: no waiter is queued while tokens are left.
NegativeIsQueue ==
    \A s \in Sems : sem[s].used =>
        /\ sem[s].cardinalBlocked = Cardinality(SemWaiting(s))
        /\ sem[s].cardinalBlocked = (IF sem[s].semaphore < 0 THEN -sem[s].semaphore ELSE 0)

\* A BLOCKED process is where its waker will look for it: in the queue of the
\* semaphore it waits for, or in the queue of the mutex it is locking; and a wait
\* does not return while it is queued.
SleeperIsQueued ==
    \A p \in Alive(procState) :
        /\ procState[p] = "BLOCKED" =>
              call[p].op = "waitSleep" \/ \E m \in Mutexes : frame[p] = m /\ p \in Waiting(m)
        /\ call[p].op = "waitSleep" => (procState[p] = "BLOCKED" <=> p \in SemWaiting(call[p].s))

\* semCreate answers: a process suspended in it has somebody to wake it.
CreateAnswers ==
    \A p \in Pids : call[p].op = "semCreate" => Owners(semaphoreMutex) # {}

Tokens == INSTANCE CountingSemaphore
              WITH Semaphores <- Sems, Processes <- Pids,
                   open <- [s \in Sems |-> sem[s].used],
                   value <- [s \in Sems |-> given[s] - taken[s]],
                   waiting <- [s \in Sems |-> SemWaiting(s)]

\* wait and signal, whose value goes below zero and whose wait may be suspended in
\* the mutex of the semaphore before it looks at it, are those of a counting
\* semaphore: each one takes effect at once, and once.
SemIsCounting == Tokens!CSSpec

-----------------------------------------------------------------------------
(* The parts of the inductive invariant behind the properties above.        *)

\* A process in the queue of a mutex is BLOCKED in lockMutex on it, or dead.
QueuedInLock ==
    \A m \in Mutexes : \A p \in Waiting(m) :
        /\ procState[p] # "UNBORN"
        /\ p \in Alive(procState) => frame[p] = m /\ procState[p] = "BLOCKED"

\* A process in the queue of a semaphore is BLOCKED in the wait on it, or dead.
QueuedInWait ==
    \A s \in Sems : \A p \in SemWaiting(s) :
        /\ procState[p] # "UNBORN"
        /\ p \in Alive(procState) =>
              call[p] = [op |-> "waitSleep", s |-> s] /\ procState[p] = "BLOCKED"

\* A BLOCKED process is in the queue its call is about.
BlockedHasQueue ==
    \A p \in Pids : procState[p] = "BLOCKED" =>
        \/ call[p].op = "waitSleep" /\ p \in SemWaiting(call[p].s)
        \/ \E m \in Mutexes : frame[p] = m /\ p \in Waiting(m)

\* Where a process is inside wait or semCreate: in lockMutex until it has the mutex,
\* then in wait's own _yield, and all the time on a semaphore it has opened.
CallsMatch ==
    \A p \in Pids :
        /\ call[p].op = "waitSleep" => frame[p] = NoMutex
        /\ call[p].op \in {"waitLock", "semCreate"} => frame[p] # NoMutex
        /\ call[p].op \in {"waitLock", "waitSleep"} => call[p].s \in semHandles[p]
        /\ \A s \in semHandles[p] : sem[s].used

\* The queue of a semaphore holds no process twice, and nobody in a free slot.
SemQueueOnce ==
    \A s \in Sems :
        /\ \A i, j \in Slots :
               sem[s].queue[i] # NoPid /\ sem[s].queue[i] = sem[s].queue[j] => i = j
        /\ ~sem[s].used => SemWaiting(s) = {} /\ sem[s].cardinalBlocked = 0

\* The types of what SemTypeOK leaves to module Mutex.
TablesOK ==
    /\ current \in Pids
    /\ used \in [Mutexes -> BOOLEAN]
    /\ pidCreator \in [Mutexes -> Pids \cup {NoPid}]
    /\ mutex \in [Mutexes -> {0, 1}]
    /\ queue \in [Mutexes -> [Slots -> Pids \cup {NoPid}]]
    /\ handles \in [Pids -> SUBSET Mutexes]
    /\ holds \in [Pids -> SUBSET Mutexes]

SemInv ==
    /\ SemTypeOK /\ TablesOK /\ InitSchedulable /\ OneRunning
    /\ QueueCounted /\ QueuedInLock /\ QueuedInWait /\ BlockedHasQueue
    /\ CallsMatch /\ SemQueueOnce /\ NegativeIsQueue /\ TokensConserved
=============================================================================
