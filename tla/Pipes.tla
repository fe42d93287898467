------------------------------- MODULE Pipes --------------------------------
(***************************************************************************)
(* Kernel/IPC.c on top of Kernel/mutex.c.  initializePipes is never        *)
(* called, so ipcAdminMutex is 0, the index of adminMutex: createPipe      *)
(* holds the mutex its own getMutex asks for and waits for itself.  It     *)
(* returns only once the queue of adminMutex overflows, because a process  *)
(* that does not fit into the queue comes back from lockMutex as an owner  *)
(* and frees the mutex.  The model starts at boot and gets to a pipe that  *)
(* way.                                                                    *)
(*                                                                         *)
(* The mutex of a pipe has the pipe's name, so clients may lock it too.    *)
(* read and write take a pointer into the ring before they lock it.  A     *)
(* write that finds the pipe full returns to its caller, which executes on *)
(* although it is BLOCKED, until it yields or the timer ticks.             *)
(***************************************************************************)
EXTENDS Mutex, Sequences

CONSTANTS
    PIPE_LENGTH,
    Bytes,        \* the contents that are told apart
    ZeroByte,     \* what the ring holds before anything was written
    Messages,     \* the messages that are written
    MaxRead,      \* bound on the length of a read
    PipeName,     \* the name of the pipe
    Creators,     \* who calls createPipe; one pipe is ever created
    Openers,      \* who calls openPipe
    Lockers       \* who calls getMutex

ASSUME PipesAssumption ==
    /\ PIPE_LENGTH \in Nat \ {0}
    /\ Messages \subseteq Seq(Bytes) /\ <<>> \in Messages
    /\ MaxRead \in Nat \ {0}
    /\ PipeName \in Names
    /\ Creators \subseteq Clients /\ Openers \subseteq Clients /\ Lockers \subseteq Clients
    /\ Mortal = {}

Ring == 0 .. PIPE_LENGTH - 1
ipcAdminMutex == 0

VARIABLES
    lastPipeName,  \* the number of pipes in pipeNames and pipes
    pipe,          \* pipes[0]: mutex, ring, position, end, readFlag, blocked
    pipePids,      \* the processes createPipe or openPipe returned the pipe to
    closed,        \* closePipe took it out of pipes[]
    call,          \* the call of this module a process is suspended in
    content,       \* history: the bytes written and not read, unless garbled
    garbled,       \* history: a transfer locked the mutex after another moved its pointer,
                   \* or moved no byte but the flag of a pipe whose indices meet
    stray          \* history: who sleeps because the garbage pid of a lockMutex hit it

pipeVars == <<lastPipeName, pipe, pipePids, closed, call, content, garbled>>
pVars == <<procState, current, used, name, pidCreator, mutex, queue, cardinalBlocked,
           handles, holds, frame, lastPipeName, pipe, pipePids, closed, call, content,
           garbled, stray>>

NoCall == [op |-> "none", aux |-> 0, msg |-> <<>>, n |-> 0]

Calls == [op : {"none", "getMutex", "openPipe", "createPipe", "createPipeGet", "createPipeEnd",
                "write", "read", "readYield"},
          aux : Ring, msg : Messages, n : 0 .. MaxRead]

PipesTypeOK ==
    /\ lastPipeName \in 0 .. 1
    /\ pipe \in [mutex : Mutexes, ring : [Ring -> Bytes \cup {ZeroByte}], position : Ring,
                 end : Ring, readFlag : BOOLEAN, blocked : Seq(Pids)]
    /\ pipePids \subseteq Clients /\ closed \in BOOLEAN
    /\ call \in [Pids -> Calls]
    /\ content \in Seq(Bytes) /\ garbled \in BOOLEAN /\ stray \subseteq Pids

PipesInit ==
    /\ Init
    /\ lastPipeName = 0
    /\ pipe \in [mutex : {adminMutex}, ring : [Ring -> {ZeroByte}],
                 position : {0}, end : {0}, readFlag : {FALSE}, blocked : {<<>>}]
    /\ pipePids = {} /\ closed = FALSE
    /\ call = [p \in Pids |-> NoCall]
    /\ content = <<>> /\ garbled = FALSE /\ stray = {}

\* The current process executes user code and is one of the clients.
Client == UserMode /\ call[current] = NoCall /\ current \in Clients

Resumes(op) == Calling /\ call[current].op = op

-----------------------------------------------------------------------------
(* lockMutex and freeMutex within a call; the other variables are left to  *)
(* the caller.                                                             *)

\* lockMutex(m) does not get through: the caller is queued, or yields READY when
\* the queue is full, and continues in c as an owner.
LockWaits(m, c) ==
    /\ IF isQueueFull(m)
       THEN /\ frame' = [frame EXCEPT ![current] = m]
            /\ \E garbage \in Pids \cup {NoPid} :
                 schedule(changeProcessState(procState, garbage, "BLOCKED"))
            /\ UNCHANGED <<queue, cardinalBlocked>>
       ELSE suspendInLock(m)
    /\ call' = [call EXCEPT ![current] = c]

Op(op) == [NoCall EXCEPT !.op = op]

\* The caller of a suspended call is back in user code.
Returns ==
    /\ call' = [call EXCEPT ![current] = NoCall]
    /\ frame' = [frame EXCEPT ![current] = NoMutex]

\* freeMutex(adminMutex), with the waiter it wakes.
freeAdmin ==
    /\ procState' = changeProcessState(procState, Woken(adminMutex), "READY")
    /\ freeInTable(adminMutex)

-----------------------------------------------------------------------------
\* getMutex between its lockMutex and its freeMutex; the table is never full.
getMutexBody(n, m) ==
    IF Named(n) # {} THEN First(m, Named(n)) /\ UNCHANGED tableVars
                     ELSE First(m, Unused) /\ createMutex(m, n)

\* getMutex of a client while adminMutex is locked, and its continuation.
getMutexWait ==
    /\ Client /\ current \in Lockers /\ ~Acquirable(adminMutex)
    /\ LockWaits(adminMutex, Op("getMutex"))
    /\ UNCHANGED <<tableVars, mutex, handles, holds, lastPipeName, pipe, pipePids, closed,
                   content, garbled>>

getMutexResume ==
    /\ Resumes("getMutex")
    /\ \E m \in Mutexes : /\ getMutexBody(PipeName, m)
                          /\ handles' = [handles EXCEPT ![current] = @ \cup {m}]
    /\ freeAdmin /\ Returns
    /\ UNCHANGED <<current, holds, lastPipeName, pipe, pipePids, closed, content, garbled>>

\* The suspension points of createPipe.
Creating == {"createPipe", "createPipeGet", "createPipeEnd"}

\* createPipe: lockMutex(ipcAdminMutex), which getMutex asks for again.
createPipe ==
    /\ Client /\ current \in Creators
    /\ lastPipeName = 0 /\ \A p \in Pids : call[p].op \notin Creating
    /\ IF Acquirable(ipcAdminMutex)
       THEN /\ mutex' = [mutex EXCEPT ![ipcAdminMutex] = 1]
            /\ LockWaits(adminMutex, Op("createPipeGet"))
       ELSE LockWaits(ipcAdminMutex, Op("createPipe")) /\ UNCHANGED mutex
    /\ UNCHANGED <<tableVars, handles, holds, lastPipeName, pipe, pipePids, closed,
                   content, garbled>>

createPipeResume ==
    /\ Resumes("createPipe") /\ ~Acquirable(adminMutex)
    /\ LockWaits(adminMutex, Op("createPipeGet"))
    /\ UNCHANGED <<tableVars, mutex, handles, holds, lastPipeName, pipe, pipePids, closed,
                   content, garbled>>

\* The getMutex of createPipe returns, and frees adminMutex for the first time;
\* createPipeStruct made an empty pipe.
createPipeGot ==
    /\ \/ Resumes("createPipeGet")
       \/ Resumes("createPipe") /\ Acquirable(adminMutex)
    /\ \E m \in Mutexes : getMutexBody(PipeName, m) /\ pipe' = [pipe EXCEPT !.mutex = m]
    /\ freeAdmin
    /\ call' = [call EXCEPT ![current] = Op("createPipeEnd")]
    /\ UNCHANGED <<current, clientVars, lastPipeName, pipePids, closed, content, garbled>>

\* createPipe goes on with interrupts off, so that nothing comes between, and frees the
\* same mutex again: with two waiters both are its owners now.
createPipeReturn ==
    /\ Resumes("createPipeEnd")
    /\ lastPipeName' = lastPipeName + 1
    /\ pipePids' = {current}
    /\ freeAdmin /\ Returns
    /\ UNCHANGED <<current, tableVars, handles, holds, pipe, closed, content, garbled>>

\* openPipe by the owner of adminMutex.  A name that is not found returns NULL and
\* leaves the mutex locked; a pipe that was closed is found, and is not opened.
openPipeFound ==
    /\ lastPipeName = 1 /\ ~closed
    /\ pipePids' = pipePids \cup {current}

openPipe ==
    /\ Client /\ current \in Openers /\ Acquirable(ipcAdminMutex)
    /\ \/ openPipeFound /\ UNCHANGED mutex
       \/ /\ lastPipeName = 0 /\ mutex' = [mutex EXCEPT ![ipcAdminMutex] = 1]
          /\ UNCHANGED pipePids
    /\ UNCHANGED <<procState, current, tableVars, queue, cardinalBlocked, clientVars,
                   lastPipeName, pipe, closed, call, content, garbled>>

openPipeWait ==
    /\ Client /\ current \in Openers \ pipePids /\ ~Acquirable(ipcAdminMutex)
    /\ LockWaits(ipcAdminMutex, Op("openPipe"))
    /\ UNCHANGED <<tableVars, mutex, handles, holds, lastPipeName, pipe, pipePids, closed,
                   content, garbled>>

openPipeResume ==
    /\ Resumes("openPipe")
    /\ \/ openPipeFound /\ freeAdmin
       \/ /\ lastPipeName = 0
          /\ UNCHANGED <<pipePids, procState, lockVars>>
    /\ Returns
    /\ UNCHANGED <<current, tableVars, handles, holds, lastPipeName, pipe, closed, content,
                   garbled>>

\* closePipe has an effect for the creator only.
closePipe ==
    /\ Client /\ current \in Creators \cap pipePids /\ ~closed
    /\ closed' = TRUE
    /\ UNCHANGED <<procState, current, tableVars, lockVars, clientVars, lastPipeName, pipe,
                   pipePids, call, content, garbled>>

-----------------------------------------------------------------------------
isFull == pipe.position = pipe.end /\ pipe.readFlag
isEmpty == pipe.position = pipe.end /\ ~pipe.readFlag

Least(a, b) == IF a < b THEN a ELSE b

\* How many bytes lie from index a to index b of the ring; all of them if a = b.
Span(a, b) == IF a = b THEN PIPE_LENGTH ELSE (b - a + PIPE_LENGTH) % PIPE_LENGTH

\* The ring after msg was copied to it from aux on, n bytes.
copied(aux, msg, n) ==
    [k \in Ring |-> LET d == (k - aux + PIPE_LENGTH) % PIPE_LENGTH
                    IN IF d < n THEN msg[d + 1] ELSE pipe.ring[k]]

\* Mutant of written: the pipe that got full is not marked.
writtenUnmarked(aux, msg) ==
    LET n == Least(Len(msg), Span(pipe.end, pipe.position))
    IN [pipe EXCEPT !.ring = copied(aux, msg, n), !.end = (@ + n) % PIPE_LENGTH,
                    !.blocked = <<>>]

\* write into a pipe that is not full, aux being the end it saw before lockMutex;
\* unlockProcesses empties the list of readers.
written(aux, msg) ==
    LET n == Least(Len(msg), Span(pipe.end, pipe.position))
        e == (pipe.end + n) % PIPE_LENGTH
    IN [pipe EXCEPT !.ring = copied(aux, msg, n), !.end = e,
                    !.readFlag = @ \/ e = pipe.position, !.blocked = <<>>]

\* unlockProcesses and the waiter w of the mutex: who becomes READY.
Awake(st, w) ==
    [p \in Pids |-> IF p \in Alive(st) /\ (p = w \/ \E k \in DOMAIN pipe.blocked :
                                                       pipe.blocked[k] = p)
                    THEN "READY" ELSE st[p]]

\* write by the owner of the mutex; w is the waiter its freeMutex wakes.  A full
\* pipe leaves the caller BLOCKED, in no queue, and write returns.  unlockProcesses
\* reads a closed pipe through a NULL pointer: a write that gets there is left out.
writeBody(aux, msg, w) ==
    /\ closed => isFull
    /\ IF isFull
       THEN /\ procState' = changeProcessState(changeProcessState(procState, current, "BLOCKED"),
                                               w, "READY")
            /\ UNCHANGED <<pipe, content, garbled>>
       ELSE /\ pipe' = written(aux, msg)
            /\ garbled' = (garbled \/ aux # pipe.end \/ (msg = <<>> /\ isEmpty))
            /\ procState' = Awake(procState, w)
            /\ LET n == Least(Len(msg), Span(pipe.end, pipe.position))
               IN content' = IF garbled' THEN <<>> ELSE content \o SubSeq(msg, 1, n)
    /\ UNCHANGED current

\* Mutant of readBody: an empty pipe returns at once, its reader BLOCKED.
readBodyNoList(aux, bytes, w) ==
    IF isEmpty
    THEN /\ call' = [call EXCEPT ![current] = Op("readYield")]
         /\ schedule(changeProcessState(changeProcessState(procState, current, "BLOCKED"),
                                        w, "READY"))
         /\ UNCHANGED <<pipe, content, garbled>>
    ELSE LET n == Least(bytes, Span(pipe.position, pipe.end))
         IN /\ garbled' = (garbled \/ aux # pipe.position \/ (bytes = 0 /\ isFull))
            /\ pipe' = [pipe EXCEPT !.position = (@ + n) % PIPE_LENGTH, !.readFlag = FALSE]
            /\ content' = IF garbled' THEN <<>> ELSE SubSeq(content, n + 1, Len(content))
            /\ call' = [call EXCEPT ![current] = NoCall]
            /\ procState' = changeProcessState(procState, w, "READY")
            /\ UNCHANGED current

\* read by the owner of the mutex.  An empty pipe puts the caller on the list
\* blocked, and it yields with the mutex freed.
readBody(aux, bytes, w) ==
    IF isEmpty
    THEN /\ pipe' = [pipe EXCEPT !.blocked = Append(@, current)]
         /\ call' = [call EXCEPT ![current] = Op("readYield")]
         /\ schedule(changeProcessState(changeProcessState(procState, current, "BLOCKED"),
                                        w, "READY"))
         /\ UNCHANGED <<content, garbled>>
    ELSE LET n == Least(bytes, Span(pipe.position, pipe.end))
         IN /\ garbled' = (garbled \/ aux # pipe.position \/ (bytes = 0 /\ isFull))
            /\ pipe' = [pipe EXCEPT !.position = (@ + n) % PIPE_LENGTH, !.readFlag = FALSE]
            /\ content' = IF garbled' THEN <<>> ELSE SubSeq(content, n + 1, Len(content))
            /\ call' = [call EXCEPT ![current] = NoCall]
            /\ procState' = changeProcessState(procState, w, "READY")
            /\ UNCHANGED current

\* closePipe takes the pipe from nobody who has it.
HasPipe == Client /\ current \in pipePids

\* write and read find the mutex free, or closed: it is locked and freed in one go.
write(msg) ==
    /\ HasPipe /\ Passable(pipe.mutex)
    /\ writeBody(pipe.end, msg, NoPid)
    /\ UNCHANGED <<tableVars, lockVars, clientVars, lastPipeName, pipePids, closed, call>>

read(bytes) ==
    /\ HasPipe /\ Passable(pipe.mutex)
    /\ readBody(pipe.position, bytes, NoPid)
    /\ UNCHANGED <<tableVars, lockVars, clientVars, lastPipeName, pipePids, closed>>

\* The mutex is taken: the pointer into the ring is kept.
transferWait ==
    /\ HasPipe /\ ~Passable(pipe.mutex)
    /\ \/ \E msg \in Messages :
            LockWaits(pipe.mutex, [op |-> "write", aux |-> pipe.end, msg |-> msg, n |-> 0])
       \/ \E n \in 0 .. MaxRead :
            LockWaits(pipe.mutex, [op |-> "read", aux |-> pipe.position, msg |-> <<>>, n |-> n])
    /\ UNCHANGED <<tableVars, mutex, handles, holds, lastPipeName, pipe, pipePids, closed,
                   content, garbled>>

writeResume ==
    /\ Resumes("write")
    /\ LET c == call[current] IN writeBody(c.aux, c.msg, Woken(pipe.mutex))
    /\ freeInTable(pipe.mutex) /\ Returns
    /\ UNCHANGED <<tableVars, handles, holds, lastPipeName, pipePids, closed>>

readResume ==
    /\ Resumes("read")
    /\ LET c == call[current] IN readBody(c.aux, c.n, Woken(pipe.mutex))
    /\ freeInTable(pipe.mutex)
    /\ frame' = [frame EXCEPT ![current] = NoMutex]
    /\ UNCHANGED <<tableVars, handles, holds, lastPipeName, pipePids, closed>>

\* The _yield of read returns: read returns 0 and the caller may try again.
readReturn ==
    /\ Resumes("readYield")
    /\ call' = [call EXCEPT ![current] = NoCall]
    /\ UNCHANGED <<procState, current, tableVars, lockVars, clientVars, lastPipeName, pipe,
                   pipePids, closed, content, garbled>>

-----------------------------------------------------------------------------
mutexCalls ==
    /\ call[current] = NoCall
    /\ \/ current \in Lockers /\ \E n \in Names : getMutex(n)
       \/ \E m \in Mutexes : lockMutex(m) \/ lockMutexSuspend(m)
                              \/ freeMutex(m) \/ closeMutex(m)
       \/ lockMutexReturn
       \/ \E p \in Pids : createProcess(p)
    /\ UNCHANGED pipeVars

tick == call[current] = NoCall /\ timerTick /\ UNCHANGED pipeVars

PipesStep ==
    \/ mutexCalls \/ tick
    \/ getMutexWait \/ getMutexResume
    \/ createPipe \/ createPipeResume \/ createPipeGot \/ createPipeReturn
    \/ openPipe \/ openPipeWait \/ openPipeResume \/ closePipe
    \/ \E msg \in Messages : write(msg)
    \/ \E n \in 0 .. MaxRead : read(n)
    \/ transferWait \/ writeResume \/ readResume \/ readReturn

\* Only the garbage pid of a lockMutex that met a full queue puts a process to
\* sleep that is not the current one.
PipesNext ==
    /\ PipesStep
    /\ stray' = {p \in Pids : /\ procState'[p] = "BLOCKED"
                             /\ \/ p \in stray
                                \/ p # current /\ procState[p] # "BLOCKED"}

PipesSpec == PipesInit /\ [][PipesNext]_pVars

-----------------------------------------------------------------------------
\* The content lies between position and end.
RingHolds ==
    /\ Len(content) = (IF isEmpty THEN 0 ELSE Span(pipe.position, pipe.end))
    /\ \A k \in 1 .. Len(content) :
         content[k] = pipe.ring[(pipe.position + k - 1) % PIPE_LENGTH]

\* The ring is a queue of bytes: what was written and not read lies between
\* position and end, in order, also when the indices meet with the pipe full; unless
\* a transfer kept its pointer while it waited for the mutex and another one moved the
\* index meanwhile, or an empty message marked an empty pipe full, or a read of no byte
\* marked a full pipe empty: these are the only ways the ring loses or repeats bytes.
RingInOrder == PipesTypeOK /\ (garbled \/ RingHolds)

\* No reader sleeps while there is something to read: a process that is BLOCKED in
\* the _yield of read is on the list of the pipe, which is empty then; unless it was
\* woken already and the garbage pid of somebody's lockMutex put it to sleep again,
\* where no write will find it.
SleepingReaderListed ==
    \A p \in Pids \ stray : call[p].op = "readYield" /\ procState[p] = "BLOCKED" =>
        isEmpty /\ \E k \in DOMAIN pipe.blocked : pipe.blocked[k] = p

\* A lockMutex that finds the queue full queues nobody and one of a re-created
\* mutex meets the queue of its predecessor: counter and queue of adminMutex and of
\* the pipe's mutex agree nevertheless.
PipeQueuesCounted == QueueCounted

-----------------------------------------------------------------------------
(* The parts of the inductive invariant behind the three properties.        *)

TablesTyped ==
    /\ procState \in [Pids -> States]
    /\ current \in Pids
    /\ queue \in [Mutexes -> [Slots -> Pids \cup {NoPid}]]
    /\ cardinalBlocked \in [Mutexes -> Int]
    /\ frame \in [Pids -> Mutexes \cup {NoMutex}]

\* Only clients are inside a call, and the one createPipe that is under way has made no
\* pipe yet.
CallsMatch ==
    /\ \A p \in Pids : call[p].op # "none" => p \in Clients
    /\ \A p, q \in Pids : /\ call[p].op \in Creating
                          /\ call[q].op \in Creating
                         => p = q /\ lastPipeName = 0

\* A process in the queue of a mutex sleeps in the lockMutex of that mutex, one on the
\* list of the pipe in the _yield of read: nobody is in two places, or executes.
WaitersSleep ==
    /\ \A m \in Mutexes : \A p \in Waiting(m) :
         /\ procState[p] = "BLOCKED" /\ frame[p] = m /\ call[p].op # "readYield"
         /\ p # current
    /\ \A k \in DOMAIN pipe.blocked :
         /\ procState[pipe.blocked[k]] = "BLOCKED" /\ call[pipe.blocked[k]].op = "readYield"
         /\ pipe.blocked[k] # current

PipesInv ==
    /\ TablesTyped /\ RingInOrder /\ SleepingReaderListed /\ PipeQueuesCounted
    /\ CallsMatch /\ WaitersSleep
=============================================================================
