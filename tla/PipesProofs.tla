---------------------------- MODULE PipesProofs -----------------------------
(***************************************************************************)
(* The pipe of Kernel/IPC.c, for any number of processes, any length of    *)
(* the ring and of the queues: its bytes stay in order unless a transfer   *)
(* was garbled, its readers do not sleep beside bytes, and the queues of *)
(* the mutexes it hangs on are counted right, also when they overflow.     *)
(***************************************************************************)
EXTENDS Pipes, ProcessTableProofs, SequenceTheorems

-----------------------------------------------------------------------------
(* The process table.                                                      *)

\* schedule() puts nobody to sleep and wakes nobody.
LEMMA ScheduleSleeps ==
    ASSUME NEW st \in [Pids -> States], current \in Pids, schedule(st)
    PROVE  /\ procState' \in [Pids -> States] /\ current' \in Pids
           /\ \A p \in Pids : procState'[p] = "BLOCKED" <=> st[p] = "BLOCKED"
           /\ procState'[current'] = "RUNNING"
  <1>1. PICK q \in Pids :
          /\ Demoted(st)[q] = "READY"
          /\ current' = q /\ procState' = [Demoted(st) EXCEPT ![q] = "RUNNING"]
    BY DEF schedule
  <1>2. /\ Demoted(st) \in [Pids -> States]
        /\ \A p \in Pids : Demoted(st)[p] = "BLOCKED" <=> st[p] = "BLOCKED"
    BY DEF Demoted, States
  <1> QED BY <1>1, <1>2 DEF States

\* changeProcessState of a process that is alive, or of none.
LEMMA ChangeFacts ==
    ASSUME NEW st \in [Pids -> States], NEW pid, NEW s \in States
    PROVE  /\ changeProcessState(st, pid, s) \in [Pids -> States]
           /\ \A p \in Pids : p # pid => changeProcessState(st, pid, s)[p] = st[p]
           /\ \A p \in Pids : p = pid /\ st[p] \in {"READY", "RUNNING", "BLOCKED"} =>
                                changeProcessState(st, pid, s)[p] = s
           /\ \A p \in Pids : changeProcessState(st, pid, s)[p] \in {st[p], s}
  BY DEF changeProcessState, Alive

\* The process that executes waits nowhere, even if a full pipe left it BLOCKED.
LEMMA CallerSleepsNot ==
    ASSUME PipesInv, Executing
    PROVE  /\ current \in Pids /\ procState[current] \in {"RUNNING", "BLOCKED"}
           /\ \A m \in Mutexes : current \notin Waiting(m)
           /\ \A k \in DOMAIN pipe.blocked : pipe.blocked[k] # current
  <1>1. current \in Pids /\ procState[current] \in {"RUNNING", "BLOCKED"}
    BY DEF PipesInv, TablesTyped, Executing
  <1>2. \A m \in Mutexes : current \notin Waiting(m)
    BY DEF PipesInv, WaitersSleep
  <1>3. \A k \in DOMAIN pipe.blocked : pipe.blocked[k] # current
    BY DEF PipesInv, WaitersSleep
  <1> QED BY <1>1, <1>2, <1>3

-----------------------------------------------------------------------------
(* The queues of the mutexes.                                              *)

\* The processes of a queue form a finite set.
LEMMA WaitingFinite ==
    ASSUME NEW m \in Mutexes
    PROVE  /\ Waiting(m) \subseteq Pids
           /\ IsFiniteSet(Waiting(m)) /\ Cardinality(Waiting(m)) \in Nat
  <1>1. Waiting(m) \subseteq Pids
    BY DEF Waiting
  <1>2. IsFiniteSet(Waiting(m))
    BY <1>1, MutexAssumption, FS_Subset
  <1> QED BY <1>1, <1>2, FS_CardinalityType

\* A process waits in the queue of one mutex only.
LEMMA OneQueue ==
    ASSUME PipesInv, NEW m \in Mutexes, NEW n \in Mutexes, NEW p \in Waiting(m), p \in Waiting(n)
    PROVE  m = n
  BY DEF PipesInv, WaitersSleep

\* While the counter is below the queue's length, the queue has a free slot.
LEMMA FreeSlotExists ==
    ASSUME PipesInv, NEW m \in Mutexes, ~isQueueFull(m)
    PROVE  \E i \in Slots : First(i, Free(m))
  <1>1. Free(m) # {}
    <2> SUFFICES ASSUME Free(m) = {} PROVE FALSE
      OBVIOUS
    <2> DEFINE f == [i \in Slots |-> queue[m][i]]
    <2>1. \A i \in Slots : queue[m][i] \in Waiting(m) /\ queue[m][i] # NoPid
      BY DEF PipesInv, TablesTyped, Free, Waiting
    <2>2. f \in Injection(Slots, Waiting(m))
      BY <2>1 DEF PipesInv, PipeQueuesCounted, QueueCounted, Injection, IsInjective
    <2>3. Slots = 0 .. (MAX_BLOCKED_QUEUE_SIZE - 1)
      BY DEF Slots
    <2>4. IsFiniteSet(Slots) /\ Cardinality(Slots) = MAX_BLOCKED_QUEUE_SIZE
      BY <2>3, MutexAssumption, FS_Interval
    <2>5. Cardinality(Slots) =< Cardinality(Waiting(m))
      BY <2>2, <2>4, WaitingFinite, FS_Injection
    <2>6. cardinalBlocked[m] = Cardinality(Waiting(m)) /\ Cardinality(Waiting(m)) \in Nat
      BY WaitingFinite DEF PipesInv, PipeQueuesCounted, QueueCounted
    <2> QED BY <2>4, <2>5, <2>6, MutexAssumption DEF isQueueFull
  <1>2. Free(m) \in SUBSET Nat /\ Free(m) \subseteq Slots
    BY MutexAssumption DEF Free, Slots
  <1>3. PICK i \in Free(m) : \A j \in Free(m) : i =< j
    BY <1>1, <1>2, LeastExists
  <1> QED BY <1>2, <1>3 DEF First

\* addToBlocked of a process that waits nowhere, into a queue that is not full.
LEMMA Enqueued ==
    ASSUME PipesInv, NEW m \in Mutexes, ~isQueueFull(m), NEW p \in Pids,
           \A n \in Mutexes : p \notin Waiting(n), addToBlocked(m, p)
    PROVE  /\ queue' \in [Mutexes -> [Slots -> Pids \cup {NoPid}]]
           /\ cardinalBlocked' \in [Mutexes -> Int]
           /\ QueueCounted'
           /\ Waiting(m)' = Waiting(m) \cup {p}
           /\ \A n \in Mutexes \ {m} : Waiting(n)' = Waiting(n)
  <1> USE DEF PipesInv, TablesTyped
  <1>1. Free(m) # {}
    BY FreeSlotExists DEF First
  <1>2. PICK i \in Slots : i \in Free(m) /\ queue' = [queue EXCEPT ![m][i] = p]
    BY <1>1 DEF addToBlocked, First
  <1>3. cardinalBlocked' = [cardinalBlocked EXCEPT ![m] = @ + 1]
    BY <1>1 DEF addToBlocked
  <1>4. queue' \in [Mutexes -> [Slots -> Pids \cup {NoPid}]]
    BY <1>2
  <1>5. cardinalBlocked' \in [Mutexes -> Int]
    BY <1>3
  <1>6. /\ queue[m][i] = NoPid /\ queue'[m][i] = p
        /\ \A j \in Slots \ {i} : queue'[m][j] = queue[m][j]
        /\ \A n \in Mutexes \ {m} : queue'[n] = queue[n]
    BY <1>2 DEF Free
  <1>7. Waiting(m)' = Waiting(m) \cup {p}
    BY <1>6, PidAssumption, SMTT(30) DEF Waiting
  <1>8. \A n \in Mutexes \ {m} : Waiting(n)' = Waiting(n)
    BY <1>6 DEF Waiting
  <1>9. \A n \in Mutexes : cardinalBlocked'[n] = Cardinality(Waiting(n)')
    <2>1. Cardinality(Waiting(m) \cup {p}) = Cardinality(Waiting(m)) + 1
      BY WaitingFinite, FS_AddElement
    <2>2. \A n \in Mutexes : cardinalBlocked[n] = Cardinality(Waiting(n))
      BY DEF PipeQueuesCounted, QueueCounted
    <2> QED BY <1>3, <1>7, <1>8, <2>1, <2>2
  <1>10. ASSUME NEW n \in Mutexes, NEW j \in Slots, NEW k \in Slots,
                queue'[n][j] # NoPid, queue'[n][j] = queue'[n][k]
         PROVE  j = k
    <2>1. \A l \in Slots : queue[m][l] # p
      BY DEF Waiting
    <2>2. queue[n][j] # NoPid /\ queue[n][j] = queue[n][k] => j = k
      BY DEF PipeQueuesCounted, QueueCounted
    <2> QED BY <1>6, <1>10, <2>1, <2>2
  <1>11. QueueCounted'
    BY <1>9, <1>10 DEF QueueCounted
  <1> QED BY <1>4, <1>5, <1>7, <1>8, <1>11

\* One occupied slot of the queue of m is emptied, and counted.
LEMMA Emptied ==
    ASSUME PipesInv, NEW m \in Mutexes, NEW i \in Slots, queue[m][i] # NoPid,
           queue' \in [Mutexes -> [Slots -> Pids \cup {NoPid}]],
           queue'[m][i] = NoPid,
           \A j \in Slots \ {i} : queue'[m][j] = queue[m][j],
           \A n \in Mutexes \ {m} : queue'[n] = queue[n],
           cardinalBlocked'[m] = cardinalBlocked[m] - 1,
           \A n \in Mutexes \ {m} : cardinalBlocked'[n] = cardinalBlocked[n]
    PROVE  QueueCounted' /\ \A n \in Mutexes : Waiting(n)' = Waiting(n) \ {queue[m][i]}
  <1> DEFINE w == queue[m][i]
  <1>1. w \in Pids /\ w \in Waiting(m) /\ \A j \in Slots : queue[m][j] = w => j = i
    <2>1. queue[m][i] \in Pids
      BY DEF PipesInv, TablesTyped
    <2>2. queue[m][i] \in Waiting(m)
      BY <2>1 DEF Waiting
    <2>3. \A j \in Slots : queue[m][j] = w => j = i
      BY DEF PipesInv, PipeQueuesCounted, QueueCounted
    <2> QED BY <2>1, <2>2, <2>3
  <1>2. Waiting(m)' = Waiting(m) \ {w}
    BY <1>1, PidAssumption DEF Waiting
  <1>3. ASSUME NEW n \in Mutexes \ {m} PROVE Waiting(n)' = Waiting(n) /\ w \notin Waiting(n)
    <2>1. Waiting(n)' = Waiting(n)
      BY <1>3 DEF Waiting
    <2> HIDE DEF w
    <2> QED BY <1>1, <1>3, <2>1, OneQueue
  <1>4. \A n \in Mutexes : Waiting(n)' = Waiting(n) \ {w}
    <2> HIDE DEF w
    <2> QED BY <1>2, <1>3
  <1>5. \A n \in Mutexes : cardinalBlocked'[n] = Cardinality(Waiting(n)')
    <2>1. Cardinality(Waiting(m) \ {w}) = Cardinality(Waiting(m)) - 1
      BY <1>1, WaitingFinite, FS_RemoveElement
    <2>2. \A n \in Mutexes : cardinalBlocked[n] = Cardinality(Waiting(n))
      BY DEF PipesInv, PipeQueuesCounted, QueueCounted
    <2> HIDE DEF w
    <2> QED BY <1>2, <1>3, <2>1, <2>2
  <1>6. ASSUME NEW n \in Mutexes, NEW j \in Slots, NEW k \in Slots,
               queue'[n][j] # NoPid, queue'[n][j] = queue'[n][k]
        PROVE  j = k
    <2>1. queue[n][j] # NoPid /\ queue[n][j] = queue[n][k] => j = k
      BY DEF PipesInv, PipeQueuesCounted, QueueCounted
    <2>2. CASE n = m
      BY <1>6, <2>1, <2>2
    <2>3. CASE n # m
      BY <1>6, <2>1, <2>3
    <2> QED BY <2>2, <2>3
  <1> QED BY <1>4, <1>5, <1>6 DEF QueueCounted

\* A queue whose counter is not zero has a first waiter: the one freeMutex wakes.
LEMMA WokenIs ==
    ASSUME PipesInv, NEW m \in Mutexes, cardinalBlocked[m] > 0
    PROVE  \E i \in Slots : /\ First(i, Occupied(m))
                            /\ \A j \in Slots : First(j, Occupied(m)) => j = i
                            /\ queue[m][i] \in Waiting(m)
                            /\ used[m] => Woken(m) = queue[m][i]
  <1>1. Occupied(m) # {}
    <2> SUFFICES ASSUME Occupied(m) = {} PROVE FALSE
      OBVIOUS
    <2>1. Waiting(m) = {}
      BY PidAssumption DEF Occupied, Waiting
    <2> QED BY <2>1, FS_EmptySet DEF PipesInv, PipeQueuesCounted, QueueCounted
  <1>2. Occupied(m) \in SUBSET Nat /\ Occupied(m) \subseteq Slots
    BY MutexAssumption DEF Occupied, Slots
  <1>3. PICK i \in Occupied(m) : \A j \in Occupied(m) : i =< j
    BY <1>1, <1>2, LeastExists
  <1>4. i \in Slots /\ First(i, Occupied(m))
    BY <1>2, <1>3 DEF First
  <1>5. \A j \in Slots : First(j, Occupied(m)) => j = i
    BY <1>2, <1>3 DEF First
  <1>6. queue[m][i] \in Waiting(m)
    BY <1>2, <1>3 DEF Occupied, Waiting, PipesInv, TablesTyped
  <1>7. used[m] => Woken(m) = queue[m][i]
    <2>1. (CHOOSE j \in Slots : First(j, Occupied(m))) = i
      BY <1>4, <1>5
    <2> QED BY <1>1, <2>1 DEF Woken
  <1> QED BY <1>4, <1>5, <1>6, <1>7

\* The process that freeMutex wakes sleeps in the queue, or there is none.
LEMMA WokenSleeps ==
    ASSUME PipesInv, NEW m \in Mutexes
    PROVE  \/ Woken(m) = NoPid
           \/ /\ Woken(m) \in Waiting(m) /\ Woken(m) \in Pids
              /\ procState[Woken(m)] = "BLOCKED" /\ call[Woken(m)].op # "readYield"
              /\ Woken(m) # current
  <1>1. CASE used[m] /\ cardinalBlocked[m] > 0
    <2>1. Woken(m) \in Waiting(m)
      BY <1>1, WokenIs
    <2> QED BY <2>1, WaitingFinite DEF PipesInv, WaitersSleep
  <1>2. CASE ~(used[m] /\ cardinalBlocked[m] > 0)
    BY <1>2 DEF Woken
  <1> QED BY <1>1, <1>2

\* What the ways to free a mutex do to the queues: at most the woken one leaves.
QueueLeft(w) ==
    /\ queue' \in [Mutexes -> [Slots -> Pids \cup {NoPid}]]
    /\ cardinalBlocked' \in [Mutexes -> Int]
    /\ QueueCounted'
    /\ \A n \in Mutexes : Waiting(n)' \subseteq Waiting(n) /\ w \notin Waiting(n)'

\* A step that frees nobody leaves the queues as they are.
LEMMA NobodyFreed ==
    ASSUME PipesInv, UNCHANGED <<queue, cardinalBlocked>>
    PROVE  QueueLeft(NoPid) /\ \A n \in Mutexes : Waiting(n)' = Waiting(n)
  <1>1. \A n \in Mutexes : Waiting(n)' = Waiting(n) /\ NoPid \notin Waiting(n)
    BY PidAssumption DEF Waiting
  <1>2. QueueCounted'
    BY <1>1 DEF PipesInv, PipeQueuesCounted, QueueCounted
  <1> QED BY <1>1, <1>2 DEF QueueLeft, PipesInv, TablesTyped

\* freeMutex in a longer call.
LEMMA Freed ==
    ASSUME PipesInv, NEW m \in Mutexes, freeInTable(m)
    PROVE  QueueLeft(Woken(m))
  <1> USE DEF PipesInv, TablesTyped
  <1>1. CASE used[m] /\ cardinalBlocked[m] > 0
    <2>1. PICK i \in Slots :
                            /\ First(i, Occupied(m))
                            /\ \A j \in Slots : First(j, Occupied(m)) => j = i
                            /\ queue[m][i] \in Waiting(m)
                            /\ Woken(m) = queue[m][i]
      BY <1>1, WokenIs
    <2>2. /\ queue' = [queue EXCEPT ![m] = [j \in Slots |->
                          IF First(j, Occupied(m)) THEN NoPid ELSE queue[m][j]]]
          /\ cardinalBlocked' = [cardinalBlocked EXCEPT ![m] = @ - 1]
      BY <1>1 DEF freeInTable
    <2>3. /\ queue' \in [Mutexes -> [Slots -> Pids \cup {NoPid}]]
          /\ queue'[m][i] = NoPid
          /\ \A j \in Slots \ {i} : queue'[m][j] = queue[m][j]
          /\ \A n \in Mutexes \ {m} : queue'[n] = queue[n]
      BY <2>1, <2>2
    <2>4. /\ cardinalBlocked' \in [Mutexes -> Int]
          /\ cardinalBlocked'[m] = cardinalBlocked[m] - 1
          /\ \A n \in Mutexes \ {m} : cardinalBlocked'[n] = cardinalBlocked[n]
      BY <2>2
    <2>5. queue[m][i] # NoPid
      BY <2>1, PidAssumption DEF Waiting
    <2>6. QueueCounted' /\ \A n \in Mutexes : Waiting(n)' = Waiting(n) \ {queue[m][i]}
      BY <2>3, <2>4, <2>5, Emptied
    <2> QED BY <2>1, <2>3, <2>4, <2>6 DEF QueueLeft
  <1>2. CASE ~(used[m] /\ cardinalBlocked[m] > 0)
    <2>1. UNCHANGED <<queue, cardinalBlocked>> /\ Woken(m) = NoPid
      BY <1>2 DEF freeInTable, Woken
    <2> QED BY <2>1, NobodyFreed
  <1> QED BY <1>1, <1>2

\* freeMutex as a call of its own.
LEMMA FreedByClient ==
    ASSUME PipesInv, NEW m \in Mutexes, freeMutex(m)
    PROVE  /\ QueueLeft(Woken(m))
           /\ \A p \in Pids : procState'[p] = IF p = Woken(m) THEN "READY" ELSE procState[p]
  <1> USE DEF PipesInv, TablesTyped
  <1>1. CASE used[m] /\ cardinalBlocked[m] > 0
    <2>1. PICK i \in Slots :
                            /\ First(i, Occupied(m))
                            /\ \A j \in Slots : First(j, Occupied(m)) => j = i
                            /\ queue[m][i] \in Waiting(m)
                            /\ Woken(m) = queue[m][i]
      BY <1>1, WokenIs
    <2>2. unblockProcess(m) /\ cardinalBlocked' = [cardinalBlocked EXCEPT ![m] = @ - 1]
      BY <1>1 DEF freeMutex
    <2>3. /\ queue' = [queue EXCEPT ![m][i] = NoPid]
          /\ procState' = changeProcessState(procState, queue[m][i], "READY")
      BY <2>1, <2>2 DEF unblockProcess, First
    <2>4. /\ queue' \in [Mutexes -> [Slots -> Pids \cup {NoPid}]]
          /\ queue'[m][i] = NoPid
          /\ \A j \in Slots \ {i} : queue'[m][j] = queue[m][j]
          /\ \A n \in Mutexes \ {m} : queue'[n] = queue[n]
      BY <2>3
    <2>5. /\ cardinalBlocked' \in [Mutexes -> Int]
          /\ cardinalBlocked'[m] = cardinalBlocked[m] - 1
          /\ \A n \in Mutexes \ {m} : cardinalBlocked'[n] = cardinalBlocked[n]
      BY <2>2
    <2>6. queue[m][i] # NoPid
      BY <2>1, PidAssumption DEF Waiting
    <2>7. QueueCounted' /\ \A n \in Mutexes : Waiting(n)' = Waiting(n) \ {queue[m][i]}
      BY <2>4, <2>5, <2>6, Emptied
    <2>8. procState[queue[m][i]] = "BLOCKED"
      BY <2>1 DEF WaitersSleep
    <2>9. \A p \in Pids : procState'[p] = IF p = Woken(m) THEN "READY" ELSE procState[p]
      BY <2>1, <2>3, <2>8 DEF changeProcessState, Alive
    <2> QED BY <2>1, <2>4, <2>5, <2>7, <2>9 DEF QueueLeft
  <1>2. CASE ~(used[m] /\ cardinalBlocked[m] > 0)
    <2>1. UNCHANGED <<procState, queue, cardinalBlocked>> /\ Woken(m) = NoPid
      BY <1>2 DEF freeMutex, Woken
    <2> QED BY <2>1, NobodyFreed, PidAssumption
  <1> QED BY <1>1, <1>2

-----------------------------------------------------------------------------
(* Kinds of steps, and the parts of the invariant they keep.               *)

\* What PipesNext says of stray.
StrayNoted ==
    stray' = {p \in Pids : /\ procState'[p] = "BLOCKED"
                          /\ \/ p \in stray
                             \/ p # current /\ procState[p] # "BLOCKED"}

\* Only the call of the current process changes, and it becomes c.
CallBecomes(c) == call'[current] = c /\ \A p \in Pids \ {current} : call'[p] = call[p]

\* The indices and the list of the pipe stay; createPipe may still set its mutex.
SamePipe ==
    /\ pipe' \in [mutex : Mutexes, ring : {pipe.ring}, position : {pipe.position},
                 end : {pipe.end}, readFlag : {pipe.readFlag}, blocked : {pipe.blocked}]
    /\ content' = content /\ garbled' \in BOOLEAN /\ (garbled => garbled')

\* A step that wakes w or nobody and lets the caller go on.
LEMMA AwakeStep ==
    ASSUME PipesInv, Executing, NEW w, QueueLeft(w),
           w # NoPid => call[w].op # "readYield",
           current' = current, procState' \in [Pids -> States],
           \A p \in Pids : p # w /\ procState[p] = "BLOCKED" => procState'[p] = "BLOCKED",
           frame' \in [Pids -> Mutexes \cup {NoMutex}],
           \A p \in Pids \ {current} : frame'[p] = frame[p] /\ call'[p] = call[p],
           pipe'.blocked = pipe.blocked
    PROVE  TablesTyped' /\ WaitersSleep' /\ PipeQueuesCounted'
  <1>1. TablesTyped' /\ PipeQueuesCounted'
    BY DEF PipesInv, TablesTyped, QueueLeft, PipeQueuesCounted
  <1>2. ASSUME NEW m \in Mutexes, NEW p \in Waiting(m)'
        PROVE  /\ procState'[p] = "BLOCKED" /\ frame'[p] = m /\ call'[p].op # "readYield"
               /\ p # current'
    <2>1. p \in Waiting(m) /\ p # w /\ p \in Pids
      BY <1>2, WaitingFinite DEF QueueLeft
    <2>2. /\ procState[p] = "BLOCKED" /\ frame[p] = m /\ call[p].op # "readYield"
          /\ p # current
      BY <2>1 DEF PipesInv, WaitersSleep
    <2> QED BY <2>1, <2>2
  <1>3. ASSUME NEW k \in DOMAIN pipe.blocked
        PROVE  /\ procState'[pipe.blocked[k]] = "BLOCKED"
               /\ call'[pipe.blocked[k]].op = "readYield"
               /\ pipe.blocked[k] # current'
    <2> DEFINE p == pipe.blocked[k]
    <2>1. procState[p] = "BLOCKED" /\ call[p].op = "readYield" /\ p # current
      BY DEF PipesInv, WaitersSleep
    <2>2. p \in Pids
      <3>1. pipe.blocked \in Seq(Pids)
        BY DEF PipesInv, RingInOrder, PipesTypeOK
      <3> QED BY <1>3, <3>1, ElementOfSeq
    <2>3. p # current /\ p # w
      BY <2>1, <2>2, PidAssumption
    <2> QED BY <2>1, <2>2, <2>3
  <1> QED BY <1>1, <1>2, <1>3 DEF WaitersSleep

\* lockMutex does not get through, whatever its caller goes on to do.
Suspends(m) ==
    IF isQueueFull(m)
    THEN /\ frame' = [frame EXCEPT ![current] = m]
         /\ \E garbage \in Pids \cup {NoPid} :
              schedule(changeProcessState(procState, garbage, "BLOCKED"))
         /\ UNCHANGED <<queue, cardinalBlocked>>
    ELSE suspendInLock(m)

\* The caller goes to sleep in a queue, or the queue is full and a garbage pid is put
\* to sleep instead: the queues stay well-formed either way.
LEMMA SuspendStep ==
    ASSUME PipesInv, Executing, NEW m \in Mutexes, Suspends(m),
           NEW c, c.op # "readYield", CallBecomes(c), pipe'.blocked = pipe.blocked
    PROVE  TablesTyped' /\ WaitersSleep' /\ PipeQueuesCounted'
  <1>1. /\ current \in Pids /\ procState[current] \in {"RUNNING", "BLOCKED"}
        /\ \A n \in Mutexes : current \notin Waiting(n)
        /\ \A k \in DOMAIN pipe.blocked : pipe.blocked[k] # current
    BY CallerSleepsNot
  <1>2. frame' = [frame EXCEPT ![current] = m]
    BY DEF Suspends, suspendInLock
  <1>3. /\ frame' \in [Pids -> Mutexes \cup {NoMutex}]
        /\ frame'[current] = m
        /\ \A p \in Pids \ {current} : frame'[p] = frame[p]
    BY <1>1, <1>2 DEF PipesInv, TablesTyped
  <1>4. PICK pid \in Pids \cup {NoPid} :
          /\ schedule(changeProcessState(procState, pid, "BLOCKED"))
          /\ ~isQueueFull(m) => pid = current
    BY <1>1 DEF Suspends, suspendInLock
  <1> DEFINE st == changeProcessState(procState, pid, "BLOCKED")
  <1>5. /\ st \in [Pids -> States]
        /\ \A p \in Pids : procState[p] = "BLOCKED" => st[p] = "BLOCKED"
        /\ ~isQueueFull(m) => st[current] = "BLOCKED"
    BY <1>1, <1>4, ChangeFacts DEF PipesInv, TablesTyped, States
  <1>6. /\ procState' \in [Pids -> States] /\ current' \in Pids
        /\ \A p \in Pids : procState[p] = "BLOCKED" => procState'[p] = "BLOCKED"
        /\ ~isQueueFull(m) => procState'[current] = "BLOCKED"
        /\ procState'[current'] = "RUNNING"
    <2> HIDE DEF st
    <2> QED BY <1>1, <1>4, <1>5, ScheduleSleeps DEF st
  <1>7. /\ queue' \in [Mutexes -> [Slots -> Pids \cup {NoPid}]]
        /\ cardinalBlocked' \in [Mutexes -> Int]
        /\ QueueCounted'
        /\ \A n \in Mutexes : \A p \in Waiting(n)' :
             p \in Waiting(n) \/ (p = current /\ n = m /\ ~isQueueFull(m))
    <2>1. CASE isQueueFull(m)
      <3>1. UNCHANGED <<queue, cardinalBlocked>>
        BY <2>1 DEF Suspends
      <3> QED BY <3>1, NobodyFreed DEF QueueLeft
    <2>2. CASE ~isQueueFull(m)
      <3>1. addToBlocked(m, current)
        BY <2>2 DEF Suspends, suspendInLock
      <3> QED BY <1>1, <2>2, <3>1, Enqueued
    <2> QED BY <2>1, <2>2
  <1>8. ASSUME NEW n \in Mutexes, NEW p \in Waiting(n)'
        PROVE  /\ procState'[p] = "BLOCKED" /\ frame'[p] = n /\ call'[p].op # "readYield"
               /\ p # current'
    <2>1. CASE p \in Waiting(n)
      <3>1. p \in Pids /\ p # current
        BY <1>1, <2>1, WaitingFinite
      <3>2. procState[p] = "BLOCKED" /\ frame[p] = n /\ call[p].op # "readYield"
        BY <2>1 DEF PipesInv, WaitersSleep
      <3> QED BY <1>3, <1>6, <3>1, <3>2 DEF CallBecomes
    <2>2. CASE p = current /\ n = m /\ ~isQueueFull(m)
      BY <1>3, <1>6, <2>2 DEF CallBecomes
    <2> QED BY <1>7, <2>1, <2>2
  <1>9. ASSUME NEW k \in DOMAIN pipe.blocked
        PROVE  /\ procState'[pipe.blocked[k]] = "BLOCKED"
               /\ call'[pipe.blocked[k]].op = "readYield"
               /\ pipe.blocked[k] # current'
    <2> DEFINE p == pipe.blocked[k]
    <2>1. procState[p] = "BLOCKED" /\ call[p].op = "readYield"
      BY DEF PipesInv, WaitersSleep
    <2>2. p \in Pids
      <3>1. pipe.blocked \in Seq(Pids)
        BY DEF PipesInv, RingInOrder, PipesTypeOK
      <3> QED BY <1>9, <3>1, ElementOfSeq
    <2>3. p # current
      BY <1>1
    <2> QED BY <1>6, <2>1, <2>2, <2>3 DEF CallBecomes
  <1>10. TablesTyped' /\ PipeQueuesCounted'
    BY <1>3, <1>6, <1>7 DEF TablesTyped, PipeQueuesCounted
  <1> QED BY <1>8, <1>9, <1>10 DEF WaitersSleep

\* Unless the indices or the list of the pipe change, a reader that is found asleep
\* slept before or is stray.
LEMMA ReadersKept ==
    ASSUME PipesInv, StrayNoted, NEW c, c.op # "readYield", CallBecomes(c), SamePipe
    PROVE  SleepingReaderListed'
  <1> SUFFICES ASSUME NEW p \in Pids \ stray', call'[p].op = "readYield",
                      procState'[p] = "BLOCKED"
               PROVE  isEmpty' /\ \E k \in DOMAIN pipe'.blocked : pipe'.blocked[k] = p
    BY DEF SleepingReaderListed
  <1>1. p # current /\ call[p].op = "readYield"
    BY DEF CallBecomes
  <1>2. p \notin stray /\ procState[p] = "BLOCKED"
    BY <1>1 DEF StrayNoted
  <1>3. isEmpty /\ \E k \in DOMAIN pipe.blocked : pipe.blocked[k] = p
    BY <1>1, <1>2 DEF PipesInv, SleepingReaderListed
  <1>4. /\ pipe'.position = pipe.position /\ pipe'.end = pipe.end
        /\ pipe'.readFlag = pipe.readFlag /\ pipe'.blocked = pipe.blocked
    BY DEF SamePipe
  <1> QED BY <1>3, <1>4 DEF isEmpty

\* Calls of the module that are typed.
LEMMA CallTypes ==
    /\ NoCall \in Calls
    /\ \A op \in {"none", "getMutex", "openPipe", "createPipe", "createPipeGet", "createPipeEnd",
               "readYield"} :
         Op(op) \in Calls /\ Op(op).op = op
    /\ \A i \in Ring, msg \in Messages :
         [op |-> "write", aux |-> i, msg |-> msg, n |-> 0] \in Calls
    /\ \A i \in Ring, n \in 0 .. MaxRead :
         [op |-> "read", aux |-> i, msg |-> <<>>, n |-> n] \in Calls
  <1>1. 0 \in Ring /\ 0 \in 0 .. MaxRead
    BY PipesAssumption DEF Ring
  <1>2. <<>> \in Messages
    BY PipesAssumption
  <1> QED BY <1>1, <1>2 DEF NoCall, Op, Calls

\* A step in which the call of the current process becomes c, not a createPipe.
LEMMA CallsKept ==
    ASSUME PipesInv, current \in Pids, NEW c \in Calls, call' = [call EXCEPT ![current] = c],
           c.op # "none" => current \in Clients,
           c.op \notin Creating,
           lastPipeName' = lastPipeName
    PROVE  CallsMatch' /\ call' \in [Pids -> Calls] /\ CallBecomes(c)
  <1>1. call \in [Pids -> Calls]
    BY DEF PipesInv, RingInOrder, PipesTypeOK
  <1>2. call' \in [Pids -> Calls] /\ CallBecomes(c)
    BY <1>1 DEF CallBecomes
  <1>3. CallsMatch'
    BY <1>2 DEF CallBecomes, PipesInv, CallsMatch
  <1> QED BY <1>2, <1>3

\* The ring holds what it held.
LEMMA RingKept ==
    ASSUME PipesInv, SamePipe, StrayNoted, call' \in [Pids -> Calls],
           lastPipeName' \in 0 .. 1, pipePids' \subseteq Clients, closed' \in BOOLEAN
    PROVE  RingInOrder'
  <1>1. /\ pipe' \in [mutex : Mutexes, ring : [Ring -> Bytes \cup {ZeroByte}], position : Ring,
                      end : Ring, readFlag : BOOLEAN, blocked : Seq(Pids)]
        /\ pipe'.position = pipe.position /\ pipe'.end = pipe.end
        /\ pipe'.readFlag = pipe.readFlag /\ pipe'.ring = pipe.ring
    BY DEF SamePipe, PipesInv, RingInOrder, PipesTypeOK
  <1>2. stray' \subseteq Pids
    BY DEF StrayNoted
  <1>3. content' = content /\ garbled' \in BOOLEAN /\ (garbled => garbled')
    BY DEF SamePipe
  <1>4. content' \in Seq(Bytes) /\ garbled' \in BOOLEAN
    BY <1>3 DEF PipesInv, RingInOrder, PipesTypeOK
  <1>5. PipesTypeOK'
    BY <1>1, <1>2, <1>4 DEF PipesTypeOK
  <1>6. garbled' \/ RingHolds'
    <2>1. garbled \/ RingHolds
      BY DEF PipesInv, RingInOrder
    <2>2. isEmpty' = isEmpty
      BY <1>1 DEF isEmpty
    <2>3. RingHolds => RingHolds'
      BY <1>1, <1>3, <2>2 DEF RingHolds
    <2> QED BY <1>3, <2>1, <2>3
  <1> QED BY <1>5, <1>6 DEF RingInOrder

\* A step that does not move a byte keeps the invariant, once it is known what it does
\* to sleepers and queues.
LEMMA QuietStep ==
    ASSUME PipesInv, StrayNoted, SamePipe, current \in Pids,
           NEW c \in Calls, call' = [call EXCEPT ![current] = c],
           c.op # "none" => current \in Clients,
           c.op \notin Creating \cup {"readYield"},
           lastPipeName' = lastPipeName, pipePids' \subseteq Clients, closed' \in BOOLEAN,
           TablesTyped' /\ WaitersSleep' /\ PipeQueuesCounted'
    PROVE  PipesInv'
  <1>1. CallsMatch' /\ call' \in [Pids -> Calls] /\ CallBecomes(c)
    BY CallsKept
  <1>2. lastPipeName' \in 0 .. 1
    BY DEF PipesInv, RingInOrder, PipesTypeOK
  <1>3. RingInOrder'
    BY <1>1, <1>2, RingKept
  <1>4. SleepingReaderListed'
    BY <1>1, ReadersKept
  <1> QED BY <1>1, <1>3, <1>4 DEF PipesInv

\* A step of module Mutex, or another one that leaves the pipe and the calls alone.
LEMMA PipeUntouched ==
    ASSUME PipesInv, StrayNoted, current \in Pids, call[current] = NoCall, UNCHANGED pipeVars,
           TablesTyped' /\ WaitersSleep' /\ PipeQueuesCounted'
    PROVE  PipesInv'
  <1>1. /\ call \in [Pids -> Calls] /\ pipePids \subseteq Clients /\ closed \in BOOLEAN
        /\ garbled \in BOOLEAN
        /\ pipe \in [mutex : Mutexes, ring : [Ring -> Bytes \cup {ZeroByte}], position : Ring,
                     end : Ring, readFlag : BOOLEAN, blocked : Seq(Pids)]
    BY DEF PipesInv, RingInOrder, PipesTypeOK
  <1>2. call' = [call EXCEPT ![current] = NoCall]
    BY <1>1 DEF pipeVars
  <1>3. SamePipe
    BY <1>1 DEF pipeVars, SamePipe
  <1>4. NoCall \in Calls /\ NoCall.op = "none"
    BY CallTypes DEF NoCall
  <1>5. lastPipeName' = lastPipeName /\ pipePids' \subseteq Clients /\ closed' \in BOOLEAN
    BY <1>1 DEF pipeVars
  <1> QED BY <1>2, <1>3, <1>4, <1>5, QuietStep DEF Creating

\* The calls of module Mutex.
LEMMA mutexCallsKeep ==
    ASSUME PipesInv, StrayNoted, mutexCalls
    PROVE  PipesInv'
  <1> USE DEF PipesInv, TablesTyped
  <1>1. call[current] = NoCall /\ UNCHANGED pipeVars /\ current \in Pids
    BY DEF mutexCalls
  <1>2. /\ pipe'.blocked = pipe.blocked /\ call' = call
        /\ CallBecomes(NoCall) /\ NoCall.op # "readYield"
    BY <1>1 DEF pipeVars, CallBecomes, NoCall
  <1>3. CASE /\ Executing /\ UNCHANGED <<procState, current, queue, cardinalBlocked>>
             /\ frame' \in [Pids -> Mutexes \cup {NoMutex}]
             /\ \A p \in Pids \ {current} : frame'[p] = frame[p]
    <2>1. QueueLeft(NoPid)
      BY <1>3, NobodyFreed
    <2>2. procState' \in [Pids -> States] /\ current' = current
      BY <1>3
    <2>3. \A p \in Pids : p # NoPid => (procState'[p] = "BLOCKED" <=> procState[p] = "BLOCKED")
      BY <1>3
    <2>4. \A p \in Pids \ {current} : frame'[p] = frame[p] /\ call'[p] = call[p]
      BY <1>2, <1>3
    <2>5. TablesTyped' /\ WaitersSleep' /\ PipeQueuesCounted'
      BY <1>2, <1>3, <2>1, <2>2, <2>3, <2>4, AwakeStep
    <2> QED BY <1>1, <2>5, PipeUntouched
  <1>4. ASSUME NEW n \in Names, getMutex(n) PROVE PipesInv'
    BY <1>3, <1>4 DEF getMutex, UserMode
  <1>5. ASSUME NEW m \in Mutexes, lockMutex(m) PROVE PipesInv'
    BY <1>3, <1>5 DEF lockMutex, Requests, UserMode
  <1>6. ASSUME NEW m \in Mutexes, lockMutexSuspend(m) PROVE PipesInv'
    <2>1. Executing /\ Suspends(m)
      BY <1>6 DEF lockMutexSuspend, lockMutexFull, lockMutexBlock, Suspends, suspendInLock,
                  Requests, UserMode
    <2>2. TablesTyped' /\ WaitersSleep' /\ PipeQueuesCounted'
      BY <1>2, <2>1, SuspendStep
    <2> QED BY <1>1, <2>2, PipeUntouched
  <1>7. ASSUME NEW m \in Mutexes, freeMutex(m) PROVE PipesInv'
    <2>1. /\ QueueLeft(Woken(m))
          /\ \A p \in Pids : procState'[p] = IF p = Woken(m) THEN "READY" ELSE procState[p]
      BY <1>7, FreedByClient
    <2>2. Executing /\ UNCHANGED <<current, frame>>
      BY <1>7 DEF freeMutex, UserMode
    <2>3. Woken(m) # NoPid => call[Woken(m)].op # "readYield"
      BY WokenSleeps
    <2>4. procState' \in [Pids -> States]
      BY <1>7 DEF freeMutex, unblockProcess, changeProcessState, States
    <2>5. TablesTyped' /\ WaitersSleep' /\ PipeQueuesCounted'
      BY <1>2, <2>1, <2>2, <2>3, <2>4, AwakeStep
    <2> QED BY <1>1, <2>5, PipeUntouched
  <1>8. ASSUME NEW m \in Mutexes, closeMutex(m) PROVE PipesInv'
    BY <1>3, <1>8 DEF closeMutex, UserMode
  <1>9. ASSUME lockMutexReturn PROVE PipesInv'
    BY <1>1, <1>3, <1>9 DEF lockMutexReturn, Calling, Executing
  <1>10. ASSUME NEW q \in Pids, createProcess(q) PROVE PipesInv'
    <2>1. /\ Executing /\ UNCHANGED <<current, queue, cardinalBlocked, frame>>
          /\ procState[q] = "UNBORN" /\ procState' = [procState EXCEPT ![q] = "READY"]
      BY <1>10 DEF createProcess, UserMode, lockVars, clientVars
    <2>2. QueueLeft(NoPid)
      BY <2>1, NobodyFreed
    <2>3. procState' \in [Pids -> States]
      BY <2>1 DEF States
    <2>4. \A p \in Pids : procState'[p] = "BLOCKED" <=> procState[p] = "BLOCKED"
      BY <2>1
    <2>5. TablesTyped' /\ WaitersSleep' /\ PipeQueuesCounted'
      BY <1>2, <2>1, <2>2, <2>3, <2>4, AwakeStep
    <2> QED BY <1>1, <2>5, PipeUntouched
  <1> QED BY <1>4, <1>5, <1>6, <1>7, <1>8, <1>9, <1>10 DEF mutexCalls

\* The timer: nobody falls asleep, nobody wakes up.
LEMMA tickKeeps ==
    ASSUME PipesInv, StrayNoted, tick
    PROVE  PipesInv'
  <1>1. /\ call[current] = NoCall /\ UNCHANGED pipeVars /\ current \in Pids
        /\ schedule(procState) /\ UNCHANGED <<queue, cardinalBlocked, frame>>
    BY DEF tick, timerTick, lockVars, clientVars, PipesInv, TablesTyped
  <1>2. /\ procState' \in [Pids -> States] /\ current' \in Pids
        /\ \A p \in Pids : procState'[p] = "BLOCKED" <=> procState[p] = "BLOCKED"
        /\ procState'[current'] = "RUNNING"
    BY <1>1, ScheduleSleeps DEF PipesInv, TablesTyped
  <1>3. QueueLeft(NoPid) /\ \A n \in Mutexes : Waiting(n)' = Waiting(n)
    BY <1>1, NobodyFreed
  <1>4. TablesTyped' /\ PipeQueuesCounted'
    BY <1>1, <1>2, <1>3 DEF PipesInv, TablesTyped, PipeQueuesCounted, QueueLeft
  <1>5. WaitersSleep'
    <2>1. call' = call /\ pipe' = pipe
      BY <1>1 DEF pipeVars
    <2>2. \A k \in DOMAIN pipe.blocked : pipe.blocked[k] \in Pids
      BY ElementOfSeq DEF PipesInv, RingInOrder, PipesTypeOK
    <2>3. \A m \in Mutexes : \A p \in Waiting(m) : p \in Pids
      BY WaitingFinite
    <2> QED BY <1>1, <1>2, <1>3, <2>1, <2>2, <2>3 DEF PipesInv, WaitersSleep
  <1> QED BY <1>1, <1>4, <1>5, PipeUntouched

-----------------------------------------------------------------------------
(* The calls that do not move a byte.                                      *)

\* Types of what the calls read.
LEMMA PipeTypes ==
    ASSUME PipesInv
    PROVE  /\ lastPipeName \in 0 .. 1 /\ pipePids \subseteq Clients /\ closed \in BOOLEAN
           /\ pipe \in [mutex : Mutexes, ring : [Ring -> Bytes \cup {ZeroByte}],
                        position : Ring, end : Ring, readFlag : BOOLEAN, blocked : Seq(Pids)]
           /\ call \in [Pids -> Calls] /\ content \in Seq(Bytes) /\ garbled \in BOOLEAN
           /\ current \in Pids /\ adminMutex \in Mutexes /\ ipcAdminMutex = adminMutex
  <1>1. adminMutex \in Mutexes /\ ipcAdminMutex = adminMutex
    BY MutexAssumption DEF adminMutex, ipcAdminMutex, Mutexes
  <1> QED BY <1>1 DEF PipesInv, RingInOrder, PipesTypeOK, TablesTyped

\* A pipe that is not touched is the same pipe.
LEMMA SamePipeFact ==
    ASSUME PipesInv, UNCHANGED <<pipe, content, garbled>>
    PROVE  SamePipe
  BY PipeTypes DEF SamePipe

\* A lockMutex within a call does not get through, and the call c goes on later.
LEMMA WaitKeeps ==
    ASSUME PipesInv, StrayNoted, Executing, current \in Clients, NEW m \in Mutexes, NEW c \in Calls,
           c.op \notin Creating \cup {"readYield"},
           LockWaits(m, c), UNCHANGED <<lastPipeName, pipe, pipePids, closed, content, garbled>>
    PROVE  PipesInv'
  <1>1. Suspends(m) /\ call' = [call EXCEPT ![current] = c]
    BY DEF LockWaits, Suspends
  <1>2. CallBecomes(c) /\ pipe'.blocked = pipe.blocked
    BY <1>1, PipeTypes DEF CallBecomes
  <1>3. TablesTyped' /\ WaitersSleep' /\ PipeQueuesCounted'
    BY <1>1, <1>2, SuspendStep
  <1>4. /\ SamePipe /\ current \in Pids /\ lastPipeName' = lastPipeName
        /\ pipePids' \subseteq Clients /\ closed' \in BOOLEAN
    BY PipeTypes, SamePipeFact
  <1> QED BY <1>1, <1>3, <1>4, QuietStep

\* A suspended call frees a mutex, wakes w and returns or goes on.
LEMMA ReturnTables ==
    ASSUME PipesInv, Executing, NEW w, QueueLeft(w), w # NoPid => call[w].op # "readYield",
           procState' = changeProcessState(procState, w, "READY"), current' = current,
           frame' \in {frame, [frame EXCEPT ![current] = NoMutex]},
           NEW c \in Calls, call' = [call EXCEPT ![current] = c],
           pipe'.blocked = pipe.blocked
    PROVE  TablesTyped' /\ WaitersSleep' /\ PipeQueuesCounted' /\ CallBecomes(c)
  <1>1. current \in Pids /\ call \in [Pids -> Calls]
    BY PipeTypes
  <1>2. /\ procState' \in [Pids -> States]
        /\ \A p \in Pids : p # w => (procState'[p] = "BLOCKED" <=> procState[p] = "BLOCKED")
    BY ChangeFacts DEF PipesInv, TablesTyped, States
  <1>3. /\ frame' \in [Pids -> Mutexes \cup {NoMutex}]
        /\ \A p \in Pids \ {current} : frame'[p] = frame[p] /\ call'[p] = call[p]
    BY <1>1 DEF PipesInv, TablesTyped
  <1>4. CallBecomes(c)
    BY <1>1 DEF CallBecomes
  <1> QED BY <1>2, <1>3, <1>4, AwakeStep

\* getMutex of a client that has to wait for adminMutex.
LEMMA getMutexWaitKeeps ==
    ASSUME PipesInv, StrayNoted, getMutexWait
    PROVE  PipesInv'
  <1>1. /\ Executing /\ current \in Clients /\ LockWaits(adminMutex, Op("getMutex"))
        /\ UNCHANGED <<lastPipeName, pipe, pipePids, closed, content, garbled>>
    BY DEF getMutexWait, Client, UserMode
  <1>2. Op("getMutex") \in Calls /\ Op("getMutex").op = "getMutex"
    BY CallTypes
  <1> QED BY <1>1, <1>2, PipeTypes, WaitKeeps DEF Creating

\* The getMutex that waited returns.
LEMMA getMutexResumeKeeps ==
    ASSUME PipesInv, StrayNoted, getMutexResume
    PROVE  PipesInv'
  <1>1. /\ Executing /\ procState' = changeProcessState(procState, Woken(adminMutex), "READY")
        /\ freeInTable(adminMutex) /\ call' = [call EXCEPT ![current] = NoCall]
        /\ frame' = [frame EXCEPT ![current] = NoMutex] /\ current' = current
        /\ UNCHANGED <<lastPipeName, pipe, pipePids, closed, content, garbled>>
    BY DEF getMutexResume, Resumes, Calling, Executing, freeAdmin, Returns
  <1>2. /\ QueueLeft(Woken(adminMutex))
        /\ Woken(adminMutex) # NoPid => call[Woken(adminMutex)].op # "readYield"
    BY <1>1, PipeTypes, Freed, WokenSleeps
  <1>3. NoCall \in Calls /\ NoCall.op = "none"
    BY CallTypes DEF NoCall
  <1>4. pipe'.blocked = pipe.blocked
    BY <1>1
  <1>5. TablesTyped' /\ WaitersSleep' /\ PipeQueuesCounted'
    BY <1>1, <1>2, <1>3, <1>4, ReturnTables
  <1> QED BY <1>1, <1>3, <1>5, PipeTypes, SamePipeFact, QuietStep DEF Creating

\* createPipe starts or goes on, and waits for a mutex: there is no other createPipe
\* and no pipe.
LEMMA createPipeWaits ==
    ASSUME PipesInv, StrayNoted, Executing, current \in Clients,
           NEW op \in {"createPipe", "createPipeGet"},
           LockWaits(adminMutex, Op(op)), lastPipeName = 0,
           \A p \in Pids \ {current} : call[p].op \notin Creating,
           UNCHANGED <<lastPipeName, pipe, pipePids, closed, content, garbled>>
    PROVE  PipesInv'
  <1>1. Suspends(adminMutex) /\ call' = [call EXCEPT ![current] = Op(op)]
    BY DEF LockWaits, Suspends
  <1>2. Op(op) \in Calls /\ Op(op).op = op
    BY CallTypes
  <1>3. CallBecomes(Op(op)) /\ call' \in [Pids -> Calls] /\ pipe'.blocked = pipe.blocked
    BY <1>1, <1>2, PipeTypes DEF CallBecomes
  <1>4. TablesTyped' /\ WaitersSleep' /\ PipeQueuesCounted'
    BY <1>1, <1>2, <1>3, PipeTypes, SuspendStep
  <1>5. CallsMatch'
    BY <1>2, <1>3 DEF CallBecomes, CallsMatch, PipesInv, Creating
  <1>6. SamePipe
    BY SamePipeFact
  <1>7. RingInOrder'
    BY <1>3, <1>6, PipeTypes, RingKept
  <1>8. SleepingReaderListed'
    BY <1>2, <1>3, <1>6, ReadersKept
  <1> QED BY <1>4, <1>5, <1>7, <1>8 DEF PipesInv

\* createPipe.
LEMMA createPipeKeeps ==
    ASSUME PipesInv, StrayNoted, createPipe
    PROVE  PipesInv'
  <1>1. /\ Executing /\ current \in Clients /\ lastPipeName = 0
        /\ \A p \in Pids : call[p].op \notin Creating
        /\ UNCHANGED <<lastPipeName, pipe, pipePids, closed, content, garbled>>
    BY DEF createPipe, Client, UserMode
  <1>2. \E op \in {"createPipe", "createPipeGet"} : LockWaits(adminMutex, Op(op))
    BY PipeTypes DEF createPipe
  <1> QED BY <1>1, <1>2, createPipeWaits

\* createPipe got ipcAdminMutex and asks for adminMutex.
LEMMA createPipeResumeKeeps ==
    ASSUME PipesInv, StrayNoted, createPipeResume
    PROVE  PipesInv'
  <1>1. /\ Executing /\ call[current].op = "createPipe"
        /\ LockWaits(adminMutex, Op("createPipeGet"))
        /\ UNCHANGED <<lastPipeName, pipe, pipePids, closed, content, garbled>>
    BY DEF createPipeResume, Resumes, Calling, Executing
  <1>2. /\ current \in Clients /\ lastPipeName = 0
        /\ \A p \in Pids \ {current} : call[p].op \notin Creating
    BY <1>1, PipeTypes DEF PipesInv, CallsMatch, Creating
  <1> QED BY <1>1, <1>2, createPipeWaits

\* The getMutex of createPipe returns and frees the mutex: still the only createPipe.
LEMMA createPipeGotKeeps ==
    ASSUME PipesInv, StrayNoted, createPipeGot
    PROVE  PipesInv'
  <1> DEFINE c == Op("createPipeEnd")
  <1>1. /\ Executing /\ call[current].op \in Creating
        /\ procState' = changeProcessState(procState, Woken(adminMutex), "READY")
        /\ freeInTable(adminMutex) /\ call' = [call EXCEPT ![current] = c]
        /\ frame' = frame /\ current' = current
        /\ UNCHANGED <<lastPipeName, pipePids, closed, content, garbled>>
    BY DEF createPipeGot, Resumes, Calling, Executing, Creating, freeAdmin, clientVars
  <1>2. PICK m \in Mutexes : pipe' = [pipe EXCEPT !.mutex = m]
    BY DEF createPipeGot
  <1>3. /\ QueueLeft(Woken(adminMutex))
        /\ Woken(adminMutex) # NoPid => call[Woken(adminMutex)].op # "readYield"
    BY <1>1, PipeTypes, Freed, WokenSleeps
  <1>4. c \in Calls /\ c.op = "createPipeEnd"
    BY CallTypes
  <1> HIDE DEF c
  <1>5. SamePipe /\ pipe'.blocked = pipe.blocked
    BY <1>1, <1>2, PipeTypes DEF SamePipe
  <1>6. TablesTyped' /\ WaitersSleep' /\ PipeQueuesCounted' /\ CallBecomes(c)
    BY <1>1, <1>3, <1>4, <1>5, ReturnTables
  <1>7. /\ current \in Clients /\ lastPipeName = 0
        /\ \A p \in Pids \ {current} : call[p].op \notin Creating
    BY <1>1, PipeTypes DEF PipesInv, CallsMatch, Creating
  <1>8. call' \in [Pids -> Calls] /\ lastPipeName' \in 0 .. 1 /\ pipePids' \subseteq Clients
        /\ closed' \in BOOLEAN
    BY <1>1, <1>4, <1>7, PipeTypes
  <1>9. CallsMatch'
    BY <1>1, <1>4, <1>6, <1>7 DEF CallBecomes, CallsMatch, PipesInv
  <1>10. RingInOrder'
    BY <1>5, <1>8, RingKept
  <1>11. SleepingReaderListed'
    BY <1>4, <1>5, <1>6, ReadersKept
  <1> QED BY <1>6, <1>9, <1>10, <1>11 DEF PipesInv

\* createPipe frees the mutex again and returns: there is a pipe now.
LEMMA createPipeReturnKeeps ==
    ASSUME PipesInv, StrayNoted, createPipeReturn
    PROVE  PipesInv'
  <1>1. /\ Executing /\ call[current].op \in Creating
        /\ procState' = changeProcessState(procState, Woken(adminMutex), "READY")
        /\ freeInTable(adminMutex) /\ call' = [call EXCEPT ![current] = NoCall]
        /\ frame' = [frame EXCEPT ![current] = NoMutex] /\ current' = current
        /\ lastPipeName' = lastPipeName + 1 /\ pipePids' = {current}
        /\ UNCHANGED <<pipe, closed, content, garbled>>
    BY DEF createPipeReturn, Resumes, Calling, Executing, Creating, freeAdmin, Returns
  <1>2. /\ QueueLeft(Woken(adminMutex))
        /\ Woken(adminMutex) # NoPid => call[Woken(adminMutex)].op # "readYield"
    BY <1>1, PipeTypes, Freed, WokenSleeps
  <1>3. NoCall \in Calls /\ NoCall.op = "none"
    BY CallTypes DEF NoCall
  <1>4. SamePipe /\ pipe'.blocked = pipe.blocked
    BY <1>1, SamePipeFact
  <1>5. TablesTyped' /\ WaitersSleep' /\ PipeQueuesCounted' /\ CallBecomes(NoCall)
    BY <1>1, <1>2, <1>3, <1>4, ReturnTables
  <1>6. /\ current \in Clients /\ lastPipeName = 0
        /\ \A p \in Pids \ {current} : call[p].op \notin Creating
    BY <1>1, PipeTypes DEF PipesInv, CallsMatch, Creating
  <1>7. call' \in [Pids -> Calls] /\ lastPipeName' \in 0 .. 1 /\ pipePids' \subseteq Clients
        /\ closed' \in BOOLEAN
    BY <1>1, <1>3, <1>6, PipeTypes
  <1>8. CallsMatch'
    BY <1>3, <1>5, <1>6 DEF CallBecomes, CallsMatch, PipesInv, Creating
  <1>9. RingInOrder'
    BY <1>4, <1>7, RingKept
  <1>10. SleepingReaderListed'
    BY <1>3, <1>4, <1>5, ReadersKept
  <1> QED BY <1>5, <1>8, <1>9, <1>10 DEF PipesInv

\* openPipe and closePipe of a client that runs on.
LEMMA openOrCloseKeeps ==
    ASSUME PipesInv, StrayNoted, openPipe \/ closePipe
    PROVE  PipesInv'
  <1>1. /\ Executing /\ current \in Clients /\ call[current] = NoCall
        /\ UNCHANGED <<procState, current, queue, cardinalBlocked, frame, lastPipeName, pipe, call,
                       content, garbled>>
        /\ pipePids' \subseteq pipePids \cup {current} /\ closed' \in BOOLEAN
    BY PipeTypes DEF openPipe, openPipeFound, closePipe, Client, UserMode, lockVars, clientVars
  <1>2. call' = [call EXCEPT ![current] = NoCall] /\ CallBecomes(NoCall)
    BY <1>1, PipeTypes DEF CallBecomes
  <1>3. NoCall \in Calls /\ NoCall.op = "none"
    BY CallTypes DEF NoCall
  <1>4. QueueLeft(NoPid)
    BY <1>1, NobodyFreed
  <1>5. /\ procState' \in [Pids -> States] /\ current' = current
        /\ \A p \in Pids : p # NoPid => (procState'[p] = "BLOCKED" <=> procState[p] = "BLOCKED")
        /\ frame' \in [Pids -> Mutexes \cup {NoMutex}]
        /\ \A p \in Pids \ {current} : frame'[p] = frame[p] /\ call'[p] = call[p]
        /\ pipe'.blocked = pipe.blocked
    BY <1>1 DEF PipesInv, TablesTyped
  <1>6. TablesTyped' /\ WaitersSleep' /\ PipeQueuesCounted'
    BY <1>1, <1>4, <1>5, AwakeStep
  <1>7. SamePipe /\ lastPipeName' = lastPipeName /\ pipePids' \subseteq Clients
    BY <1>1, PipeTypes, SamePipeFact
  <1> QED BY <1>1, <1>2, <1>3, <1>6, <1>7, PipeTypes, QuietStep DEF Creating

\* openPipe has to wait.
LEMMA openPipeWaitKeeps ==
    ASSUME PipesInv, StrayNoted, openPipeWait
    PROVE  PipesInv'
  <1>1. /\ Executing /\ current \in Clients /\ LockWaits(ipcAdminMutex, Op("openPipe"))
        /\ UNCHANGED <<lastPipeName, pipe, pipePids, closed, content, garbled>>
    BY DEF openPipeWait, Client, UserMode
  <1>2. Op("openPipe") \in Calls /\ Op("openPipe").op = "openPipe"
    BY CallTypes
  <1> QED BY <1>1, <1>2, PipeTypes, WaitKeeps DEF Creating

\* The openPipe that waited returns, with the pipe or with NULL.
LEMMA openPipeResumeKeeps ==
    ASSUME PipesInv, StrayNoted, openPipeResume
    PROVE  PipesInv'
  <1>1. /\ Executing /\ call[current].op = "openPipe" /\ call' = [call EXCEPT ![current] = NoCall]
        /\ frame' = [frame EXCEPT ![current] = NoMutex] /\ current' = current
        /\ UNCHANGED <<lastPipeName, pipe, closed, content, garbled>>
        /\ pipePids' \subseteq pipePids \cup {current}
    BY DEF openPipeResume, openPipeFound, Resumes, Calling, Executing, Returns
  <1>2. current \in Clients
    BY <1>1, PipeTypes DEF PipesInv, CallsMatch
  <1>3. NoCall \in Calls /\ NoCall.op = "none"
    BY CallTypes DEF NoCall
  <1>4. pipe'.blocked = pipe.blocked
    BY <1>1
  <1>5. CASE freeAdmin
    <2>1. /\ QueueLeft(Woken(adminMutex))
          /\ Woken(adminMutex) # NoPid => call[Woken(adminMutex)].op # "readYield"
          /\ procState' = changeProcessState(procState, Woken(adminMutex), "READY")
      BY <1>5, PipeTypes, Freed, WokenSleeps DEF freeAdmin
    <2>2. TablesTyped' /\ WaitersSleep' /\ PipeQueuesCounted'
      BY <1>1, <1>3, <1>4, <2>1, ReturnTables
    <2> QED BY <1>1, <1>2, <1>3, <2>2, PipeTypes, SamePipeFact, QuietStep DEF Creating
  <1>6. CASE UNCHANGED <<procState, lockVars>>
    <2>1. QueueLeft(NoPid)
      BY <1>6, NobodyFreed DEF lockVars
    <2>2. procState' = changeProcessState(procState, NoPid, "READY")
      BY <1>6, PidAssumption DEF changeProcessState, PipesInv, TablesTyped
    <2>3. TablesTyped' /\ WaitersSleep' /\ PipeQueuesCounted'
      BY <1>1, <1>3, <1>4, <2>1, <2>2, ReturnTables
    <2> QED BY <1>1, <1>2, <1>3, <2>3, PipeTypes, SamePipeFact, QuietStep DEF Creating
  <1> QED BY <1>5, <1>6 DEF openPipeResume

\* A transfer finds the mutex of the pipe taken.
LEMMA transferWaitKeeps ==
    ASSUME PipesInv, StrayNoted, transferWait
    PROVE  PipesInv'
  <1>1. /\ Executing /\ current \in Clients
        /\ UNCHANGED <<lastPipeName, pipe, pipePids, closed, content, garbled>>
        /\ pipe.mutex \in Mutexes /\ pipe.end \in Ring /\ pipe.position \in Ring
    BY PipeTypes DEF transferWait, HasPipe, Client, UserMode
  <1>2. ASSUME NEW msg \in Messages,
               LockWaits(pipe.mutex, [op |-> "write", aux |-> pipe.end, msg |-> msg, n |-> 0])
        PROVE  PipesInv'
    <2> DEFINE c == [op |-> "write", aux |-> pipe.end, msg |-> msg, n |-> 0]
    <2>1. c \in Calls /\ c.op = "write"
      BY <1>1, CallTypes
    <2> HIDE DEF c
    <2>2. LockWaits(pipe.mutex, c)
      BY <1>2 DEF c
    <2> QED BY <1>1, <2>1, <2>2, WaitKeeps DEF Creating
  <1>3. ASSUME NEW n \in 0 .. MaxRead,
               LockWaits(pipe.mutex, [op |-> "read", aux |-> pipe.position, msg |-> <<>>, n |-> n])
        PROVE  PipesInv'
    <2> DEFINE c == [op |-> "read", aux |-> pipe.position, msg |-> <<>>, n |-> n]
    <2>1. c \in Calls /\ c.op = "read"
      BY <1>1, CallTypes
    <2> HIDE DEF c
    <2>2. LockWaits(pipe.mutex, c)
      BY <1>3 DEF c
    <2> QED BY <1>1, <2>1, <2>2, WaitKeeps DEF Creating
  <1> QED BY <1>2, <1>3 DEF transferWait

\* The _yield of read returns.
LEMMA readReturnKeeps ==
    ASSUME PipesInv, StrayNoted, readReturn
    PROVE  PipesInv'
  <1>1. /\ Executing /\ call' = [call EXCEPT ![current] = NoCall]
        /\ UNCHANGED <<procState, current, queue, cardinalBlocked, frame, lastPipeName, pipe,
                       pipePids, closed, content, garbled>>
    BY DEF readReturn, Resumes, Calling, Executing, lockVars, clientVars
  <1>2. NoCall \in Calls /\ NoCall.op = "none"
    BY CallTypes DEF NoCall
  <1>3. CallBecomes(NoCall)
    BY <1>1, PipeTypes DEF CallBecomes
  <1>4. QueueLeft(NoPid)
    BY <1>1, NobodyFreed
  <1>5. /\ procState' \in [Pids -> States] /\ current' = current
        /\ \A p \in Pids : p # NoPid => (procState'[p] = "BLOCKED" <=> procState[p] = "BLOCKED")
        /\ frame' \in [Pids -> Mutexes \cup {NoMutex}]
        /\ \A p \in Pids \ {current} : frame'[p] = frame[p] /\ call'[p] = call[p]
        /\ pipe'.blocked = pipe.blocked
    BY <1>1, <1>3 DEF PipesInv, TablesTyped, CallBecomes
  <1>6. TablesTyped' /\ WaitersSleep' /\ PipeQueuesCounted'
    BY <1>1, <1>4, <1>5, AwakeStep
  <1>7. SamePipe
    BY <1>1, SamePipeFact
  <1> QED BY <1>1, <1>2, <1>6, <1>7, PipeTypes, QuietStep DEF Creating

-----------------------------------------------------------------------------
(* The arithmetic of the ring.                                             *)

\* An index that is at most one turn too far.
Turn(x) == x % PIPE_LENGTH

\* Turn without a remainder of a division.
LEMMA Wrap ==
    ASSUME NEW x \in Nat, x < 2 * PIPE_LENGTH
    PROVE  Turn(x) = (IF x < PIPE_LENGTH THEN x ELSE x - PIPE_LENGTH) /\ Turn(x) \in Ring
  <1>1. PIPE_LENGTH \in Nat \ {0}
    BY PipesAssumption
  <1>2. CASE x < PIPE_LENGTH
    <2>1. x % PIPE_LENGTH = x
      BY <1>1, <1>2
    <2> QED BY <1>1, <1>2, <2>1 DEF Ring, Turn
  <1>3. CASE x >= PIPE_LENGTH
    <2>1. x % PIPE_LENGTH = x - PIPE_LENGTH
      BY <1>1, <1>3
    <2> QED BY <1>1, <1>3, <2>1 DEF Ring, Turn
  <1> QED BY <1>1, <1>2, <1>3

\* The length of the ring, and its indices.
LEMMA RingFacts ==
    /\ PIPE_LENGTH \in Nat /\ PIPE_LENGTH > 0
    /\ \A a : a \in Ring <=> a \in Nat /\ a < PIPE_LENGTH
  BY PipesAssumption DEF Ring

\* The bytes from a to b.
LEMMA SpanIs ==
    ASSUME NEW a \in Ring, NEW b \in Ring
    PROVE  /\ Span(a, b) = IF a < b THEN b - a ELSE b - a + PIPE_LENGTH
           /\ Span(a, b) \in Nat /\ Span(a, b) >= 1 /\ Span(a, b) =< PIPE_LENGTH
  <1>1. b - a + PIPE_LENGTH \in Nat /\ b - a + PIPE_LENGTH < 2 * PIPE_LENGTH
    BY RingFacts
  <1>2. Turn(b - a + PIPE_LENGTH) = IF b - a + PIPE_LENGTH < PIPE_LENGTH
                                    THEN b - a + PIPE_LENGTH ELSE b - a
    BY <1>1, Wrap, RingFacts
  <1>3. Span(a, b) = IF a = b THEN PIPE_LENGTH ELSE Turn(b - a + PIPE_LENGTH)
    BY DEF Span, Turn
  <1> QED BY <1>1, <1>2, <1>3, RingFacts

\* n bytes are taken from position x on, of those that lie between x and y.
LEMMA RingTaken ==
    ASSUME NEW x \in Ring, NEW y \in Ring, NEW n \in Nat, n = 0 => x # y, n =< Span(x, y)
    PROVE  /\ Turn(x + n) \in Ring
           /\ n = Span(x, y) <=> Turn(x + n) = y
           /\ n < Span(x, y) => Span(Turn(x + n), y) = Span(x, y) - n
           /\ \A k \in Nat : k >= 1 /\ k + n =< Span(x, y) =>
                  Turn(Turn(x + n) + k - 1) = Turn(x + (n + k) - 1)
  <1>1. Span(x, y) =< PIPE_LENGTH
    BY SpanIs
  <1>2. x + n \in Nat /\ x + n < 2 * PIPE_LENGTH
    BY <1>1, SpanIs, RingFacts
  <1> DEFINE z == Turn(x + n)
  <1>3. z \in Ring /\ z = IF x + n < PIPE_LENGTH THEN x + n ELSE x + n - PIPE_LENGTH
    BY <1>2, Wrap, RingFacts
  <1>4. Span(x, y) = (IF x < y THEN y - x ELSE y - x + PIPE_LENGTH)
    BY SpanIs
  <1> HIDE DEF z
  <1>5. Span(z, y) = (IF z < y THEN y - z ELSE y - z + PIPE_LENGTH)
    BY <1>3, SpanIs
  <1>6. n = Span(x, y) <=> z = y
    BY <1>3, <1>4, RingFacts
  <1>7. n < Span(x, y) => Span(z, y) = Span(x, y) - n
    BY <1>3, <1>4, <1>5, RingFacts
  <1>8. ASSUME NEW k \in Nat, k >= 1, k + n =< Span(x, y)
        PROVE  Turn(z + k - 1) = Turn(x + (n + k) - 1)
    <2>1. z + k - 1 \in Nat /\ z + k - 1 < 2 * PIPE_LENGTH
      BY <1>3, <1>4, <1>8, RingFacts
    <2>2. x + (n + k) - 1 \in Nat /\ x + (n + k) - 1 < 2 * PIPE_LENGTH
      BY <1>4, <1>8, RingFacts
    <2>3. Turn(z + k - 1) = IF z + k - 1 < PIPE_LENGTH THEN z + k - 1 ELSE z + k - 1 - PIPE_LENGTH
      BY <1>3, <2>1, Wrap, RingFacts
    <2>4. Turn(x + (n + k) - 1) = IF x + (n + k) - 1 < PIPE_LENGTH THEN x + (n + k) - 1
                                  ELSE x + (n + k) - 1 - PIPE_LENGTH
      BY <2>2, Wrap, RingFacts
    <2> QED BY <1>3, <1>4, <1>8, <2>3, <2>4, RingFacts
  <1> QED BY <1>3, <1>6, <1>7, <1>8 DEF z

\* n bytes are put behind the l bytes that start at x and end before y.
LEMMA RingPut ==
    ASSUME NEW x \in Ring, NEW y \in Ring, NEW l \in Nat, NEW n \in Nat,
           n = 0 => x # y, n =< Span(y, x), l = PIPE_LENGTH - Span(y, x)
    PROVE  /\ Turn(y + n) \in Ring
           /\ n = Span(y, x) <=> Turn(y + n) = x
           /\ Turn(y + n) # x => Span(x, Turn(y + n)) = l + n
           /\ \A k \in Nat : k >= 1 /\ k =< l =>
                  /\ Turn(x + k - 1) \in Ring
                  /\ ~(Turn(Turn(x + k - 1) - y + PIPE_LENGTH) < n)
           /\ \A k \in Nat : k >= 1 /\ k > l /\ k =< l + n =>
                  /\ Turn(x + k - 1) \in Ring
                  /\ Turn(Turn(x + k - 1) - y + PIPE_LENGTH) = k - l - 1
  <1>1. /\ Turn(y + n) \in Ring
        /\ n = Span(y, x) <=> Turn(y + n) = x
    BY RingTaken
  <1>2. Span(y, x) = (IF y < x THEN x - y ELSE x - y + PIPE_LENGTH)
    BY SpanIs
  <1> DEFINE z == Turn(y + n)
  <1>3. z \in Ring /\ z = IF y + n < PIPE_LENGTH THEN y + n ELSE y + n - PIPE_LENGTH
    <2>1. y + n < 2 * PIPE_LENGTH /\ y + n \in Nat
      BY <1>2, RingFacts
    <2> QED BY <2>1, Wrap, RingFacts
  <1>4. Span(x, z) = (IF x < z THEN z - x ELSE z - x + PIPE_LENGTH)
    BY <1>3, SpanIs
  <1> HIDE DEF z
  <1>5. z # x => Span(x, z) = l + n
    BY <1>1, <1>2, <1>3, <1>4, RingFacts DEF z
  <1>6. ASSUME NEW k \in Nat, k >= 1, k =< l + n
        PROVE  /\ Turn(x + k - 1) \in Ring
               /\ k =< l => ~(Turn(Turn(x + k - 1) - y + PIPE_LENGTH) < n)
               /\ k > l => Turn(Turn(x + k - 1) - y + PIPE_LENGTH) = k - l - 1
    <2>1. x + k - 1 \in Nat /\ x + k - 1 < 2 * PIPE_LENGTH
      BY <1>2, <1>6, RingFacts
    <2> DEFINE i == Turn(x + k - 1)
    <2>2. i \in Ring /\ i = IF x + k - 1 < PIPE_LENGTH THEN x + k - 1 ELSE x + k - 1 - PIPE_LENGTH
      BY <2>1, Wrap, RingFacts
    <2> HIDE DEF i
    <2>3. i - y + PIPE_LENGTH \in Nat /\ i - y + PIPE_LENGTH < 2 * PIPE_LENGTH
      BY <2>2, RingFacts
    <2>4. Turn(i - y + PIPE_LENGTH) = IF i - y + PIPE_LENGTH < PIPE_LENGTH
                                      THEN i - y + PIPE_LENGTH ELSE i - y
      <3> DEFINE v == i - y + PIPE_LENGTH
      <3>1. v \in Nat /\ v < 2 * PIPE_LENGTH /\ v - PIPE_LENGTH = i - y
        BY <2>2, <2>3, RingFacts
      <3> HIDE DEF v
      <3>2. Turn(v) = IF v < PIPE_LENGTH THEN v ELSE v - PIPE_LENGTH
        BY <3>1, Wrap
      <3>3. Turn(v) = IF v < PIPE_LENGTH THEN v ELSE i - y
        BY <3>1, <3>2
      <3> QED BY <3>3 DEF v
    <2>5. k =< l => ~(Turn(i - y + PIPE_LENGTH) < n)
      BY <1>2, <1>6, <2>2, <2>4, RingFacts
    <2>6. k > l => Turn(i - y + PIPE_LENGTH) = k - l - 1
      BY <1>2, <1>6, <2>2, <2>4, RingFacts
    <2> QED BY <2>2, <2>5, <2>6 DEF i
  <1>7. \A k \in Nat : k >= 1 /\ k =< l =>
             Turn(x + k - 1) \in Ring /\ ~(Turn(Turn(x + k - 1) - y + PIPE_LENGTH) < n)
    BY <1>6
  <1>8. \A k \in Nat : k >= 1 /\ k > l /\ k =< l + n =>
             Turn(x + k - 1) \in Ring /\ Turn(Turn(x + k - 1) - y + PIPE_LENGTH) = k - l - 1
    BY <1>6
  <1> QED BY <1>1, <1>5, <1>7, <1>8 DEF z

-----------------------------------------------------------------------------
(* The transfers.                                                          *)

\* A message is a sequence of bytes.
LEMMA MessageFacts ==
    ASSUME NEW msg \in Messages
    PROVE  msg \in Seq(Bytes) /\ Len(msg) \in Nat /\ (Len(msg) = 0 <=> msg = <<>>)
  <1>1. msg \in Seq(Bytes)
    BY PipesAssumption
  <1> QED BY <1>1

\* The shorter one of a transfer and the room for it.
LEMMA LeastIs ==
    ASSUME NEW a \in Nat, NEW b \in Nat, b >= 1
    PROVE  /\ Least(a, b) \in Nat
           /\ Least(a, b) = 0 <=> a = 0
           /\ Least(a, b) =< a
           /\ Least(a, b) =< b
  BY DEF Least

\* What a step leaves of the pipe, apart from its list.
RingLeft ==
    /\ pipe' \in [mutex : Mutexes, ring : [Ring -> Bytes \cup {ZeroByte}], position : Ring,
                  end : Ring, readFlag : BOOLEAN, blocked : Seq(Pids)]
    /\ content' \in Seq(Bytes) /\ garbled' \in BOOLEAN
    /\ garbled' \/ RingHolds'

\* A cursor that moves by at most the length of the ring stays on the ring.
LEMMA TurnFrom ==
    ASSUME NEW y \in Ring, NEW n \in Nat, n =< PIPE_LENGTH
    PROVE  Turn(y + n) \in Ring /\ (n = 0 => Turn(y + n) = y)
  <1>1. PICK v \in Nat : v = y + n
    BY RingFacts
  <1>2. v < 2 * PIPE_LENGTH
    BY <1>1, RingFacts
  <1>3. Turn(v) \in Ring /\ (v < PIPE_LENGTH => Turn(v) = v)
    BY <1>2, Wrap
  <1>4. n = 0 => v = y /\ v < PIPE_LENGTH
    BY <1>1, RingFacts
  <1>5. Turn(y + n) = Turn(v)
    BY <1>1
  <1> QED BY <1>3, <1>4, <1>5

\* write copies the bytes behind the content, unless it was garbled.
LEMMA WriteRing ==
    ASSUME PipesInv, ~isFull, NEW aux \in Ring, NEW msg \in Messages,
           garbled' = (garbled \/ aux # pipe.end \/ (msg = <<>> /\ isEmpty)),
           pipe' = written(aux, msg),
           content' = IF garbled' THEN <<>> ELSE content \o
                          SubSeq(msg, 1, Least(Len(msg), Span(pipe.end, pipe.position)))
    PROVE  RingLeft /\ pipe'.blocked = <<>>
  <1> DEFINE x == pipe.position
             y == pipe.end
             n == Least(Len(msg), Span(y, x))
             l == Len(content)
  <1>1. /\ x \in Ring /\ y \in Ring /\ pipe.ring \in [Ring -> Bytes \cup {ZeroByte}]
        /\ content \in Seq(Bytes) /\ l \in Nat /\ garbled \in BOOLEAN
    BY PipeTypes
  <1>2. Span(y, x) \in Nat /\ Span(y, x) >= 1 /\ Span(y, x) =< PIPE_LENGTH
    BY <1>1, SpanIs
  <1>3. n \in Nat /\ n =< Len(msg) /\ n =< Span(y, x) /\ (n = 0 <=> msg = <<>>)
    BY <1>2, MessageFacts, LeastIs
  <1>4. /\ pipe'.ring = copied(aux, msg, n) /\ pipe'.end = Turn(y + n)
        /\ pipe'.position = x /\ pipe'.mutex = pipe.mutex
        /\ pipe'.readFlag = (pipe.readFlag \/ Turn(y + n) = x) /\ pipe'.blocked = <<>>
    BY PipeTypes DEF written, Turn
  <1>5. pipe' \in [mutex : Mutexes, ring : {pipe'.ring}, position : {pipe'.position},
                  end : {pipe'.end}, readFlag : {pipe'.readFlag}, blocked : {pipe'.blocked}]
    BY PipeTypes DEF written
  <1> HIDE DEF n
  <1>6. SubSeq(msg, 1, n) \in Seq(Bytes) /\ Len(SubSeq(msg, 1, n)) = n
        /\ \A i \in 1 .. n : SubSeq(msg, 1, n)[i] = msg[i]
    BY <1>3, MessageFacts, SubSeqProperties
  <1>7. content' = IF garbled' THEN <<>> ELSE content \o SubSeq(msg, 1, n)
    BY DEF n
  <1>8. ASSUME ~garbled'
        PROVE  /\ content' \in Seq(Bytes) /\ Len(content') = l + n
               /\ \A k \in 1 .. l : content'[k] = content[k]
               /\ \A k \in Nat : k > l /\ k =< l + n => content'[k] = msg[k - l]
    <2>1. /\ content' \in Seq(Bytes) /\ Len(content') = l + n
          /\ \A k \in 1 .. l + n :
               content'[k] = IF k =< l THEN content[k] ELSE SubSeq(msg, 1, n)[k - l]
      <3> DEFINE q == SubSeq(msg, 1, n)
      <3>1. q \in Seq(Bytes) /\ Len(q) = n /\ content' = content \o q
        BY <1>6, <1>7, <1>8
      <3> HIDE DEF q
      <3>2. /\ content \o q \in Seq(Bytes) /\ Len(content \o q) = Len(content) + Len(q)
            /\ \A k \in 1 .. Len(content) + Len(q) :
                 (content \o q)[k] = IF k =< Len(content) THEN content[k] ELSE q[k - Len(content)]
        BY <1>1, <3>1, ConcatProperties
      <3> QED BY <3>1, <3>2 DEF q
    <2>2. \A k \in 1 .. l : k \in 1 .. l + n /\ k =< l
      BY <1>1, <1>3
    <2>3. \A k \in Nat : k > l /\ k =< l + n =>
             k \in 1 .. l + n /\ ~(k =< l) /\ k - l \in 1 .. n
      BY <1>1, <1>3
    <2> QED BY <1>6, <2>1, <2>2, <2>3
  <1>9. copied(aux, msg, n) \in [Ring -> Bytes \cup {ZeroByte}]
    <2>1. ASSUME NEW k \in Ring, Turn(k - aux + PIPE_LENGTH) < n
          PROVE  msg[Turn(k - aux + PIPE_LENGTH) + 1] \in Bytes
      <3>1. Turn(k - aux + PIPE_LENGTH) \in Nat
        BY RingFacts DEF Turn
      <3>2. Turn(k - aux + PIPE_LENGTH) + 1 \in 1 .. Len(msg)
        BY <1>3, <2>1, <3>1, MessageFacts
      <3> QED BY <3>2, MessageFacts, ElementOfSeq
    <2> QED BY <1>1, <2>1 DEF copied, Turn
  <1>10. Turn(y + n) \in Ring /\ (n = 0 => Turn(y + n) = y)
    <2>1. n =< PIPE_LENGTH
      BY <1>2, <1>3, RingFacts
    <2> QED BY <1>1, <1>3, <2>1, TurnFrom
  <1>11. pipe' \in [mutex : Mutexes, ring : [Ring -> Bytes \cup {ZeroByte}], position : Ring,
                   end : Ring, readFlag : BOOLEAN, blocked : Seq(Pids)]
    <2>1. pipe'.mutex \in Mutexes /\ pipe'.position \in Ring
      BY <1>4, PipeTypes
    <2>2. pipe'.ring \in [Ring -> Bytes \cup {ZeroByte}] /\ pipe'.end \in Ring
      BY <1>4, <1>9, <1>10
    <2>3. pipe'.readFlag \in BOOLEAN
      BY <1>4, PipeTypes
    <2>4. pipe'.blocked \in Seq(Pids)
      BY <1>4
    <2> QED BY <1>5, <2>1, <2>2, <2>3, <2>4
  <1>12. ASSUME ~garbled' PROVE RingHolds'
    <2>1. ~garbled /\ aux = y /\ RingHolds /\ (n = 0 => ~isEmpty)
      BY <1>1, <1>3, <1>12 DEF PipesInv, RingInOrder
    <2>2. l = (IF isEmpty THEN 0 ELSE Span(x, y))
      BY <2>1 DEF RingHolds
    <2>3. l = PIPE_LENGTH - Span(y, x)
      <3>1. pipe.readFlag \in BOOLEAN
        BY PipeTypes
      <3>2. CASE x = y
        BY <1>1, <2>2, <3>1, <3>2, SpanIs, RingFacts DEF isEmpty, isFull
      <3>3. CASE x # y
        <4>1. l = Span(x, y)
          BY <2>2, <3>3 DEF isEmpty
        <4>2. /\ Span(x, y) = IF x < y THEN y - x ELSE y - x + PIPE_LENGTH
              /\ Span(y, x) = IF y < x THEN x - y ELSE x - y + PIPE_LENGTH
          BY <1>1, SpanIs
        <4> QED BY <1>1, <3>3, <4>1, <4>2, RingFacts
      <3> QED BY <3>2, <3>3
    <2>0. n = 0 => x # y
      BY <2>1, PipeTypes DEF isEmpty, isFull
    <2> HIDE DEF x, y, l
    <2>4. /\ n = Span(y, x) <=> Turn(y + n) = x
          /\ Turn(y + n) # x => Span(x, Turn(y + n)) = l + n
          /\ \A k \in Nat : k >= 1 /\ k =< l =>
                 /\ Turn(x + k - 1) \in Ring
                 /\ ~(Turn(Turn(x + k - 1) - y + PIPE_LENGTH) < n)
          /\ \A k \in Nat : k >= 1 /\ k > l /\ k =< l + n =>
                 /\ Turn(x + k - 1) \in Ring
                 /\ Turn(Turn(x + k - 1) - y + PIPE_LENGTH) = k - l - 1
      BY <1>1, <1>3, <2>0, <2>3, RingPut
    <2>5. ~isEmpty' /\ Len(content') = Span(pipe'.position, pipe'.end)
      <3>1. CASE Turn(y + n) = x
        <4>1. pipe'.readFlag
          BY <1>4, <3>1
        <4>2. Span(x, x) = PIPE_LENGTH
          BY DEF Span
        <4> QED BY <1>1, <1>2, <1>4, <1>8, <1>12, <2>3, <2>4, <3>1, <4>1, <4>2, RingFacts
                DEF isEmpty
      <3>2. CASE Turn(y + n) # x
        BY <1>4, <1>8, <1>12, <2>4, <3>2 DEF isEmpty
      <3> QED BY <3>1, <3>2
    <2>6. ASSUME NEW k \in 1 .. l + n
          PROVE  content'[k] = pipe'.ring[Turn(x + k - 1)]
      <3> DEFINE i == Turn(x + k - 1)
      <3>1. k \in Nat /\ k >= 1 /\ k =< l + n
        BY <1>1, <1>3, <2>6
      <3>2. i \in Ring
        BY <1>1, <2>4, <3>1
      <3>3. pipe'.ring[i] = IF Turn(i - y + PIPE_LENGTH) < n THEN msg[Turn(i - y + PIPE_LENGTH) + 1]
                            ELSE pipe.ring[i]
        <4> HIDE DEF i
        <4> QED BY <1>4, <2>1, <3>2 DEF copied, Turn, y
      <3>4. CASE k =< l
        <4>1. content'[k] = content[k] /\ pipe'.ring[i] = pipe.ring[i]
          BY <1>1, <1>8, <1>12, <2>4, <3>1, <3>3, <3>4
        <4>2. content[k] = pipe.ring[i]
          <5>1. k \in 1 .. l
            BY <1>1, <3>1, <3>4
          <5> QED BY <2>1, <5>1 DEF RingHolds, Turn, x, l
        <4> QED BY <4>1, <4>2
      <3>5. CASE k > l
        <4>1. Turn(i - y + PIPE_LENGTH) = k - l - 1
          BY <2>4, <3>1, <3>5
        <4> HIDE DEF i
        <4>2. k - l - 1 < n /\ (k - l - 1) + 1 = k - l
          BY <1>1, <1>3, <3>1, <3>5
        <4>3. pipe'.ring[i] = msg[k - l]
          BY <3>3, <4>1, <4>2
        <4> QED BY <1>8, <1>12, <3>1, <3>5, <4>3 DEF i
      <3>6. k =< l \/ k > l
        BY <1>1, <3>1
      <3> QED BY <3>4, <3>5, <3>6
    <2> QED BY <1>4, <1>8, <1>12, <2>5, <2>6 DEF RingHolds, Turn
  <1>13. garbled' \in BOOLEAN /\ content' \in Seq(Bytes)
    <2>1. garbled' => content' = <<>>
      BY <1>7
    <2> QED BY <1>1, <1>8, <2>1
  <1> QED BY <1>4, <1>11, <1>12, <1>13 DEF RingLeft

\* read takes its bytes from the front of the content.
LEMMA ReadRing ==
    ASSUME PipesInv, ~isEmpty, NEW aux \in Ring, NEW bytes \in Nat,
           garbled' = (garbled \/ aux # pipe.position \/ (bytes = 0 /\ isFull)),
           NEW n, n = Least(bytes, Span(pipe.position, pipe.end)),
           pipe' = [pipe EXCEPT !.position = (@ + n) % PIPE_LENGTH, !.readFlag = FALSE],
           content' = IF garbled' THEN <<>> ELSE SubSeq(content, n + 1, Len(content))
    PROVE  RingLeft /\ pipe'.blocked = pipe.blocked
  <1> DEFINE x == pipe.position
             y == pipe.end
             l == Len(content)
  <1>1. /\ x \in Ring /\ y \in Ring /\ content \in Seq(Bytes) /\ l \in Nat /\ garbled \in BOOLEAN
    BY PipeTypes
  <1>2. Span(x, y) \in Nat /\ Span(x, y) >= 1
    BY <1>1, SpanIs
  <1>3. n \in Nat /\ n =< Span(x, y) /\ (n = 0 <=> bytes = 0)
    BY <1>2, LeastIs
  <1>4. /\ pipe'.position = Turn(x + n) /\ pipe'.readFlag = FALSE /\ pipe'.end = y
        /\ pipe'.ring = pipe.ring /\ pipe'.blocked = pipe.blocked
    BY PipeTypes DEF Turn
  <1>5. Turn(x + n) \in Ring
    BY <1>1, <1>3, RingFacts DEF Turn, Ring
  <1>6. pipe' \in [mutex : Mutexes, ring : [Ring -> Bytes \cup {ZeroByte}], position : Ring,
                  end : Ring, readFlag : BOOLEAN, blocked : Seq(Pids)]
    BY <1>4, <1>5, PipeTypes DEF Turn
  <1>7. content' \in Seq(Bytes)
    <2>1. \A i \in (n + 1) .. l : content[i] \in Bytes
      BY <1>1, <1>3, ElementOfSeq
    <2>2. SubSeq(content, n + 1, l) \in Seq(Bytes)
      BY <1>1, <1>3, <2>1, SubSeqProperties
    <2> QED BY <2>2
  <1>8. ASSUME ~garbled' PROVE RingHolds'
    <2>1. RingHolds /\ l = Span(x, y)
      BY <1>1, <1>8 DEF PipesInv, RingInOrder, RingHolds
    <2>2. /\ Len(content') = l - n
          /\ \A k \in 1 .. l - n : content'[k] = content[n + k]
      <3>1. n + 1 \in 1 .. l + 1 /\ l - (n + 1) + 1 = l - n
        BY <1>1, <1>3, <2>1
      <3>2. /\ Len(SubSeq(content, n + 1, l)) = (IF n + 1 =< l THEN l - (n + 1) + 1 ELSE 0)
            /\ \A k \in 1 .. l - (n + 1) + 1 :
                  SubSeq(content, n + 1, l)[k] = content[n + 1 + k - 1]
        BY <1>1, <3>1, SubSeqProperties
      <3>3. \A k \in 1 .. l - n : n + 1 + k - 1 = n + k
        BY <1>1, <1>3
      <3>4. content' = SubSeq(content, n + 1, l)
        BY <1>8
      <3> QED BY <1>1, <1>3, <2>1, <3>1, <3>2, <3>3, <3>4
    <2>0. n = 0 => x # y
      BY <1>3, <1>8 DEF isEmpty, isFull
    <2> HIDE DEF x, y, l
    <2>3. /\ n = Span(x, y) <=> Turn(x + n) = y
          /\ n < Span(x, y) => Span(Turn(x + n), y) = Span(x, y) - n
          /\ \A k \in Nat : k >= 1 /\ k + n =< Span(x, y) =>
                 Turn(Turn(x + n) + k - 1) = Turn(x + (n + k) - 1)
      BY <1>1, <1>3, <2>0, RingTaken
    <2>4. Len(content') = (IF isEmpty' THEN 0 ELSE Span(pipe'.position, pipe'.end))
      <3>1. CASE n = Span(x, y)
        <4>1. isEmpty'
          BY <1>4, <2>3, <3>1 DEF isEmpty
        <4> QED BY <1>2, <2>1, <2>2, <3>1, <4>1
      <3>2. CASE n < Span(x, y)
        <4>1. ~isEmpty'
          BY <1>2, <1>3, <1>4, <2>3, <3>2 DEF isEmpty
        <4> QED BY <1>4, <2>1, <2>2, <2>3, <3>2, <4>1
      <3> QED BY <1>2, <1>3, <3>1, <3>2
    <2>5. ASSUME NEW k \in 1 .. l - n
          PROVE  content'[k] = pipe'.ring[Turn(pipe'.position + k - 1)]
      <3>1. k \in Nat /\ k >= 1 /\ k + n =< l /\ n + k \in 1 .. l
        BY <1>1, <1>3, <2>5
      <3>2. content[n + k] = pipe.ring[Turn(x + (n + k) - 1)]
        BY <2>1, <3>1 DEF RingHolds, Turn, x, l
      <3> QED BY <1>4, <2>1, <2>2, <2>3, <3>1, <3>2
    <2> QED BY <2>2, <2>4, <2>5 DEF RingHolds, Turn
  <1>9. garbled' \in BOOLEAN
    BY <1>1
  <1> QED BY <1>4, <1>6, <1>7, <1>8, <1>9 DEF RingLeft

\* A step that moves bytes keeps the ring in order, if it leaves a ring that is.
LEMMA RingMoved ==
    ASSUME PipesInv, RingLeft, StrayNoted, call' \in [Pids -> Calls],
           UNCHANGED <<lastPipeName, pipePids, closed>>
    PROVE  RingInOrder'
  <1>1. stray' \subseteq Pids
    BY DEF StrayNoted
  <1>2. PipesTypeOK'
    BY <1>1, PipeTypes DEF PipesTypeOK, RingLeft
  <1> QED BY <1>2 DEF RingInOrder, RingLeft

\* A transfer that moves no byte.
LEMMA NothingMoved ==
    ASSUME PipesInv, garbled' \in BOOLEAN, garbled => garbled', content' = content,
           pipe' \in [mutex : Mutexes, ring : {pipe.ring}, position : {pipe.position},
                     end : {pipe.end}, readFlag : {pipe.readFlag}, blocked : Seq(Pids)]
    PROVE  RingLeft /\ isEmpty' = isEmpty
  <1>1. /\ pipe' \in [mutex : Mutexes, ring : [Ring -> Bytes \cup {ZeroByte}], position : Ring,
                      end : Ring, readFlag : BOOLEAN, blocked : Seq(Pids)]
        /\ pipe'.position = pipe.position /\ pipe'.end = pipe.end
        /\ pipe'.readFlag = pipe.readFlag /\ pipe'.ring = pipe.ring
    BY PipeTypes
  <1>2. isEmpty' = isEmpty
    BY <1>1 DEF isEmpty
  <1>3. RingHolds => RingHolds'
    BY <1>1, <1>2 DEF RingHolds
  <1>4. garbled \/ RingHolds
    BY DEF PipesInv, RingInOrder
  <1>5. content' \in Seq(Bytes)
    BY PipeTypes
  <1> QED BY <1>1, <1>2, <1>3, <1>4, <1>5 DEF RingLeft

\* The waiter w that a transfer wakes when it frees the mutex.
WokenBy(w) ==
    /\ QueueLeft(w)
    /\ w # NoPid => /\ w \in Pids /\ w # current
                    /\ procState[w] = "BLOCKED" /\ call[w].op # "readYield"

\* write, with the mutex at once or after a wait: the readers on the list wake up.
LEMMA writeBodyKeeps ==
    ASSUME PipesInv, StrayNoted, Executing, current \in Clients,
           NEW aux \in Ring, NEW msg \in Messages, NEW w, WokenBy(w), writeBody(aux, msg, w),
           frame' \in [Pids -> Mutexes \cup {NoMutex}],
           \A p \in Pids \ {current} : frame'[p] = frame[p],
           call' = [call EXCEPT ![current] = NoCall], UNCHANGED <<lastPipeName, pipePids, closed>>
    PROVE  PipesInv'
  <1>1. NoCall \in Calls /\ NoCall.op = "none"
    BY CallTypes DEF NoCall
  <1>2. CallsMatch' /\ call' \in [Pids -> Calls] /\ CallBecomes(NoCall)
    BY <1>1, PipeTypes, CallsKept DEF Creating
  <1>3. garbled' \in BOOLEAN /\ (garbled => garbled') /\ current' = current
    BY PipeTypes DEF writeBody
  <1>4. CASE isFull
    <2>1. /\ procState' = changeProcessState(changeProcessState(procState, current, "BLOCKED"),
                                             w, "READY")
          /\ UNCHANGED <<pipe, content>>
      BY <1>4 DEF writeBody
    <2> DEFINE st == changeProcessState(procState, current, "BLOCKED")
    <2>2. /\ st \in [Pids -> States]
          /\ \A p \in Pids : procState[p] = "BLOCKED" => st[p] = "BLOCKED"
      <3>1. procState \in [Pids -> States] /\ "BLOCKED" \in States
        BY DEF PipesInv, TablesTyped, States
      <3>2. st \in [Pids -> States] /\ \A p \in Pids : st[p] \in {procState[p], "BLOCKED"}
        BY <3>1, ChangeFacts
      <3> QED BY <3>2
    <2> HIDE DEF st
    <2>3. /\ procState' \in [Pids -> States]
          /\ \A p \in Pids : p # w /\ procState[p] = "BLOCKED" => procState'[p] = "BLOCKED"
      <3>1. procState' = changeProcessState(st, w, "READY") /\ "READY" \in States
        BY <2>1 DEF st, States
      <3>2. /\ procState' \in [Pids -> States]
            /\ \A p \in Pids : p # w => procState'[p] = st[p]
        BY <2>2, <3>1, ChangeFacts
      <3> QED BY <2>2, <3>2
    <2>4. SamePipe /\ pipe'.blocked = pipe.blocked
      BY <1>3, <2>1, PipeTypes DEF SamePipe
    <2>5. TablesTyped' /\ WaitersSleep' /\ PipeQueuesCounted'
      BY <1>2, <1>3, <2>3, <2>4, AwakeStep DEF WokenBy, CallBecomes
    <2> QED BY <1>1, <2>4, <2>5, PipeTypes, QuietStep DEF Creating
  <1>5. CASE ~isFull
    <2>1. /\ pipe' = written(aux, msg) /\ procState' = Awake(procState, w)
          /\ content' = IF garbled' THEN <<>> ELSE content \o
                           SubSeq(msg, 1, Least(Len(msg), Span(pipe.end, pipe.position)))
          /\ garbled' = (garbled \/ aux # pipe.end \/ (msg = <<>> /\ isEmpty))
      BY <1>5 DEF writeBody
    <2>2. RingLeft /\ pipe'.blocked = <<>>
      BY <1>5, <2>1, WriteRing
    <2>3. /\ procState' \in [Pids -> States]
          /\ \A p \in Pids : p # w /\ (\A k \in DOMAIN pipe.blocked : pipe.blocked[k] # p) =>
                              procState'[p] = procState[p]
          /\ \A k \in DOMAIN pipe.blocked : procState'[pipe.blocked[k]] # "BLOCKED"
      <3>1. procState \in [Pids -> States]
        BY DEF PipesInv, TablesTyped
      <3>2. \A k \in DOMAIN pipe.blocked :
               pipe.blocked[k] \in Pids /\ procState[pipe.blocked[k]] = "BLOCKED"
        BY PipeTypes, ElementOfSeq DEF PipesInv, WaitersSleep
      <3> QED BY <2>1, <3>1, <3>2 DEF Awake, Alive, States
    <2>4. TablesTyped' /\ PipeQueuesCounted'
      BY <1>3, <2>3 DEF WokenBy, QueueLeft, PipesInv, TablesTyped, PipeQueuesCounted
    <2>5. WaitersSleep'
      <3>1. ASSUME NEW m \in Mutexes, NEW p \in Waiting(m)'
            PROVE  /\ procState'[p] = "BLOCKED" /\ frame'[p] = m /\ call'[p].op # "readYield"
                   /\ p # current'
        <4>1. p \in Waiting(m) /\ p # w /\ p \in Pids
          BY <3>1, WaitingFinite DEF WokenBy, QueueLeft
        <4>2. /\ procState[p] = "BLOCKED" /\ frame[p] = m /\ call[p].op # "readYield"
              /\ p # current
          BY <4>1 DEF PipesInv, WaitersSleep
        <4>3. \A k \in DOMAIN pipe.blocked : pipe.blocked[k] # p
          BY <4>2 DEF PipesInv, WaitersSleep
        <4> QED BY <1>2, <1>3, <2>3, <4>1, <4>2, <4>3 DEF CallBecomes
      <3> QED BY <2>2, <3>1 DEF WaitersSleep
    <2>6. SleepingReaderListed'
      <3> SUFFICES ASSUME NEW p \in Pids \ stray', call'[p].op = "readYield",
                          procState'[p] = "BLOCKED"
                   PROVE  FALSE
        BY DEF SleepingReaderListed
      <3>1. p # current /\ call[p].op = "readYield"
        BY <1>1, <1>2 DEF CallBecomes
      <3>2. p \notin stray /\ procState[p] = "BLOCKED"
        BY <3>1 DEF StrayNoted
      <3>3. PICK k \in DOMAIN pipe.blocked : pipe.blocked[k] = p
        BY <3>1, <3>2 DEF PipesInv, SleepingReaderListed
      <3> QED BY <2>3, <3>3
    <2>7. RingInOrder'
      BY <1>2, <2>2, RingMoved
    <2> QED BY <1>2, <2>4, <2>5, <2>6, <2>7 DEF PipesInv
  <1> QED BY <1>4, <1>5

\* read, with the mutex at once or after a wait: of an empty pipe it goes to sleep on
\* the list.
LEMMA readBodyKeeps ==
    ASSUME PipesInv, StrayNoted, Executing, current \in Clients,
           NEW aux \in Ring, NEW bytes \in Nat, NEW w, WokenBy(w), readBody(aux, bytes, w),
           frame' \in [Pids -> Mutexes \cup {NoMutex}],
           \A p \in Pids \ {current} : frame'[p] = frame[p],
           UNCHANGED <<lastPipeName, pipePids, closed>>
    PROVE  PipesInv'
  <1>1. garbled' \in BOOLEAN /\ (garbled => garbled') /\ current \in Pids
    BY PipeTypes DEF readBody
  <1>2. CASE isEmpty
    <2> DEFINE st1 == changeProcessState(procState, current, "BLOCKED")
               st == changeProcessState(st1, w, "READY")
    <2>1. /\ pipe' = [pipe EXCEPT !.blocked = Append(@, current)] /\ content' = content
          /\ call' = [call EXCEPT ![current] = Op("readYield")] /\ schedule(st)
      BY <1>2 DEF readBody
    <2>2. /\ st1 \in [Pids -> States] /\ st1[current] = "BLOCKED"
          /\ \A p \in Pids : procState[p] = "BLOCKED" => st1[p] = "BLOCKED"
      <3>1. procState \in [Pids -> States] /\ "BLOCKED" \in States
        BY DEF PipesInv, TablesTyped, States
      <3>2. procState[current] \in {"READY", "RUNNING", "BLOCKED"}
        BY DEF Executing
      <3> QED BY <1>1, <3>1, <3>2, ChangeFacts
    <2> HIDE DEF st1
    <2>3. /\ st \in [Pids -> States] /\ st[current] = "BLOCKED"
          /\ \A p \in Pids : p # w /\ procState[p] = "BLOCKED" => st[p] = "BLOCKED"
      <3>1. "READY" \in States
        BY DEF States
      <3>2. /\ st \in [Pids -> States]
            /\ \A p \in Pids : p # w => st[p] = st1[p]
        BY <2>2, <3>1, ChangeFacts
      <3>3. current # w
        BY <1>1, PidAssumption DEF WokenBy
      <3> QED BY <1>1, <2>2, <3>2, <3>3
    <2> HIDE DEF st
    <2>4. /\ procState' \in [Pids -> States] /\ current' \in Pids
          /\ procState'[current] = "BLOCKED" /\ procState'[current'] = "RUNNING"
          /\ \A p \in Pids : p # w /\ procState[p] = "BLOCKED" => procState'[p] = "BLOCKED"
      BY <1>1, <2>1, <2>3, ScheduleSleeps
    <2>5. Op("readYield") \in Calls /\ Op("readYield").op = "readYield"
      BY CallTypes
    <2>6. CallsMatch' /\ call' \in [Pids -> Calls] /\ CallBecomes(Op("readYield"))
      BY <1>1, <2>1, <2>5, CallsKept DEF Creating
    <2>7. /\ pipe'.blocked = Append(pipe.blocked, current)
          /\ pipe'.blocked \in Seq(Pids)
          /\ pipe' \in [mutex : Mutexes, ring : {pipe.ring}, position : {pipe.position},
                        end : {pipe.end}, readFlag : {pipe.readFlag}, blocked : Seq(Pids)]
      <3>1. pipe'.blocked = Append(pipe.blocked, current)
        BY <2>1, PipeTypes
      <3>2. Append(pipe.blocked, current) \in Seq(Pids)
        BY <1>1, PipeTypes, AppendProperties
      <3> QED BY <2>1, <3>1, <3>2, PipeTypes
    <2>8. RingLeft /\ isEmpty'
      BY <1>1, <1>2, <2>1, <2>7, NothingMoved
    <2>9. /\ Len(pipe.blocked) \in Nat /\ DOMAIN pipe.blocked = 1 .. Len(pipe.blocked)
          /\ DOMAIN pipe'.blocked = 1 .. Len(pipe.blocked) + 1
          /\ \A k \in 1 .. Len(pipe.blocked) : pipe'.blocked[k] = pipe.blocked[k]
          /\ pipe'.blocked[Len(pipe.blocked) + 1] = current
      <3> DEFINE b == pipe.blocked
      <3>1. b \in Seq(Pids)
        BY PipeTypes
      <3> HIDE DEF b
      <3>2. /\ Len(b) \in Nat /\ DOMAIN b = 1 .. Len(b)
            /\ DOMAIN Append(b, current) = 1 .. Len(b) + 1
            /\ \A k \in 1 .. Len(b) : Append(b, current)[k] = b[k]
            /\ Append(b, current)[Len(b) + 1] = current
        BY <1>1, <3>1, AppendProperties, LenProperties
      <3> QED BY <2>7, <3>2 DEF b
    <2>10. TablesTyped' /\ PipeQueuesCounted'
      BY <2>4 DEF WokenBy, QueueLeft, TablesTyped, PipeQueuesCounted
    <2>11. WaitersSleep'
      <3>1. ASSUME NEW m \in Mutexes, NEW p \in Waiting(m)'
            PROVE  /\ procState'[p] = "BLOCKED" /\ frame'[p] = m /\ call'[p].op # "readYield"
                   /\ p # current'
        <4>1. p \in Waiting(m) /\ p # w /\ p \in Pids
          BY <3>1, WaitingFinite DEF WokenBy, QueueLeft
        <4>2. /\ procState[p] = "BLOCKED" /\ frame[p] = m /\ call[p].op # "readYield"
              /\ p # current
          BY <4>1 DEF PipesInv, WaitersSleep
        <4> QED BY <2>4, <2>6, <4>1, <4>2 DEF CallBecomes
      <3>2. ASSUME NEW k \in DOMAIN pipe.blocked
            PROVE  /\ procState'[pipe.blocked[k]] = "BLOCKED"
                   /\ call'[pipe.blocked[k]].op = "readYield"
                   /\ pipe.blocked[k] # current'
        <4> DEFINE p == pipe.blocked[k]
        <4>1. procState[p] = "BLOCKED" /\ call[p].op = "readYield" /\ p # current
          BY DEF PipesInv, WaitersSleep
        <4>2. p \in Pids
          BY <3>2, PipeTypes, ElementOfSeq
        <4>3. p # current /\ p # w
          BY <4>1, <4>2, PidAssumption DEF WokenBy
        <4> HIDE DEF p
        <4>4. procState'[p] = "BLOCKED" /\ call'[p].op = "readYield" /\ p # current'
          BY <2>4, <2>6, <4>1, <4>2, <4>3 DEF CallBecomes
        <4> QED BY <4>4 DEF p
      <3>3. ASSUME NEW k \in DOMAIN pipe'.blocked
            PROVE  /\ procState'[pipe'.blocked[k]] = "BLOCKED"
                   /\ call'[pipe'.blocked[k]].op = "readYield"
                   /\ pipe'.blocked[k] # current'
        <4>1. CASE k = Len(pipe.blocked) + 1
          BY <2>4, <2>5, <2>6, <2>9, <4>1 DEF CallBecomes
        <4>2. CASE k # Len(pipe.blocked) + 1
          <5>1. k \in DOMAIN pipe.blocked /\ pipe'.blocked[k] = pipe.blocked[k]
            BY <2>9, <3>3, <4>2
          <5> QED BY <3>2, <5>1
        <4> QED BY <4>1, <4>2
      <3> QED BY <3>1, <3>3 DEF WaitersSleep
    <2>12. SleepingReaderListed'
      <3> SUFFICES ASSUME NEW p \in Pids \ stray', call'[p].op = "readYield",
                          procState'[p] = "BLOCKED"
                   PROVE  \E k \in DOMAIN pipe'.blocked : pipe'.blocked[k] = p
        BY <2>8 DEF SleepingReaderListed
      <3>1. CASE p = current
        BY <2>9, <3>1
      <3>2. CASE p # current
        <4>1. call[p].op = "readYield"
          BY <2>6, <3>2 DEF CallBecomes
        <4>2. p \notin stray /\ procState[p] = "BLOCKED"
          BY <3>2 DEF StrayNoted
        <4>3. PICK k \in DOMAIN pipe.blocked : pipe.blocked[k] = p
          BY <4>1, <4>2 DEF PipesInv, SleepingReaderListed
        <4> QED BY <2>9, <4>3
      <3> QED BY <3>1, <3>2
    <2>13. RingInOrder'
      BY <2>6, <2>8, RingMoved
    <2> QED BY <2>6, <2>10, <2>11, <2>12, <2>13 DEF PipesInv
  <1>3. CASE ~isEmpty
    <2> DEFINE n == Least(bytes, Span(pipe.position, pipe.end))
    <2>1. /\ pipe' = [pipe EXCEPT !.position = (@ + n) % PIPE_LENGTH, !.readFlag = FALSE]
          /\ content' = IF garbled' THEN <<>> ELSE SubSeq(content, n + 1, Len(content))
          /\ call' = [call EXCEPT ![current] = NoCall] /\ current' = current
          /\ procState' = changeProcessState(procState, w, "READY")
          /\ garbled' = (garbled \/ aux # pipe.position \/ (bytes = 0 /\ isFull))
      BY <1>3 DEF readBody
    <2> HIDE DEF n
    <2>2. RingLeft /\ pipe'.blocked = pipe.blocked
      BY <1>3, <2>1, ReadRing DEF n
    <2>3. NoCall \in Calls /\ NoCall.op = "none"
      BY CallTypes DEF NoCall
    <2>4. CallsMatch' /\ call' \in [Pids -> Calls] /\ CallBecomes(NoCall)
      BY <1>1, <2>1, <2>3, CallsKept DEF Creating
    <2>5. /\ procState' \in [Pids -> States]
          /\ \A p \in Pids : p # w /\ procState[p] = "BLOCKED" => procState'[p] = "BLOCKED"
      <3>1. procState \in [Pids -> States] /\ "READY" \in States
        BY DEF PipesInv, TablesTyped, States
      <3>2. /\ procState' \in [Pids -> States]
            /\ \A p \in Pids : p # w => procState'[p] = procState[p]
        BY <2>1, <3>1, ChangeFacts
      <3> QED BY <3>2
    <2>6. TablesTyped' /\ WaitersSleep' /\ PipeQueuesCounted'
      BY <2>1, <2>2, <2>4, <2>5, AwakeStep DEF WokenBy, CallBecomes
    <2>7. SleepingReaderListed'
      <3> SUFFICES ASSUME NEW p \in Pids \ stray', call'[p].op = "readYield",
                          procState'[p] = "BLOCKED"
                   PROVE  FALSE
        BY DEF SleepingReaderListed
      <3>1. p # current /\ call[p].op = "readYield"
        BY <2>3, <2>4 DEF CallBecomes
      <3>2. p \notin stray /\ procState[p] = "BLOCKED"
        BY <3>1 DEF StrayNoted
      <3> QED BY <1>3, <3>1, <3>2 DEF PipesInv, SleepingReaderListed
    <2>8. RingInOrder'
      BY <2>2, <2>4, RingMoved
    <2> QED BY <2>4, <2>6, <2>7, <2>8 DEF PipesInv
  <1> QED BY <1>2, <1>3

\* Whoever frees a mutex wakes its waiter, who sleeps and is somebody else.
LEMMA WokenByOwner ==
    ASSUME PipesInv, Executing, NEW m \in Mutexes, freeInTable(m)
    PROVE  WokenBy(Woken(m))
  <1>1. QueueLeft(Woken(m))
    BY Freed
  <1> QED BY <1>1, WokenSleeps DEF WokenBy

\* A transfer that does not wait wakes nobody through the mutex.
LEMMA WokenByNobody ==
    ASSUME PipesInv, UNCHANGED lockVars
    PROVE  WokenBy(NoPid)
  BY NobodyFreed DEF WokenBy, lockVars

\* write and read that find the mutex free.
LEMMA writeKeeps ==
    ASSUME PipesInv, StrayNoted, NEW msg \in Messages, write(msg)
    PROVE  PipesInv'
  <1>1. /\ Executing /\ current \in Clients /\ call[current] = NoCall
        /\ writeBody(pipe.end, msg, NoPid) /\ UNCHANGED lockVars
        /\ UNCHANGED <<frame, call, lastPipeName, pipePids, closed>>
    BY DEF write, HasPipe, Client, UserMode, clientVars
  <1>2. call' = [call EXCEPT ![current] = NoCall]
    BY <1>1, PipeTypes
  <1>3. /\ frame' \in [Pids -> Mutexes \cup {NoMutex}]
        /\ \A p \in Pids \ {current} : frame'[p] = frame[p]
    BY <1>1 DEF PipesInv, TablesTyped
  <1>4. pipe.end \in Ring
    BY PipeTypes
  <1> QED BY <1>1, <1>2, <1>3, <1>4, WokenByNobody, writeBodyKeeps

\* Likewise read.
LEMMA readKeeps ==
    ASSUME PipesInv, StrayNoted, NEW bytes \in 0 .. MaxRead, read(bytes)
    PROVE  PipesInv'
  <1>1. /\ Executing /\ current \in Clients
        /\ readBody(pipe.position, bytes, NoPid) /\ UNCHANGED lockVars
        /\ UNCHANGED <<frame, lastPipeName, pipePids, closed>>
    BY DEF read, HasPipe, Client, UserMode, clientVars
  <1>2. /\ frame' \in [Pids -> Mutexes \cup {NoMutex}]
        /\ \A p \in Pids \ {current} : frame'[p] = frame[p]
    BY <1>1 DEF PipesInv, TablesTyped
  <1>3. pipe.position \in Ring /\ bytes \in Nat
    BY PipeTypes, PipesAssumption
  <1> QED BY <1>1, <1>2, <1>3, WokenByNobody, readBodyKeeps

\* A write that waited has the mutex now.
LEMMA writeResumeKeeps ==
    ASSUME PipesInv, StrayNoted, writeResume
    PROVE  PipesInv'
  <1>1. /\ Executing /\ call[current].op = "write"
        /\ writeBody(call[current].aux, call[current].msg, Woken(pipe.mutex))
        /\ freeInTable(pipe.mutex) /\ call' = [call EXCEPT ![current] = NoCall]
        /\ frame' = [frame EXCEPT ![current] = NoMutex]
        /\ UNCHANGED <<lastPipeName, pipePids, closed>>
    BY DEF writeResume, Resumes, Calling, Executing, Returns
  <1>2. /\ current \in Clients /\ call[current].msg \in Messages
        /\ call[current].aux \in Ring /\ pipe.mutex \in Mutexes
    <2>1. current \in Pids /\ call[current] \in Calls /\ pipe.mutex \in Mutexes
      BY PipeTypes
    <2>2. call[current].aux \in Ring /\ call[current].msg \in Messages
      BY <2>1 DEF Calls
    <2> QED BY <1>1, <2>1, <2>2 DEF PipesInv, CallsMatch
  <1>3. /\ frame' \in [Pids -> Mutexes \cup {NoMutex}]
        /\ \A p \in Pids \ {current} : frame'[p] = frame[p]
    BY <1>1, PipeTypes DEF PipesInv, TablesTyped
  <1>4. WokenBy(Woken(pipe.mutex))
    BY <1>1, <1>2, WokenByOwner
  <1> QED BY <1>1, <1>2, <1>3, <1>4, writeBodyKeeps

\* A read that waited has the mutex now.
LEMMA readResumeKeeps ==
    ASSUME PipesInv, StrayNoted, readResume
    PROVE  PipesInv'
  <1>1. /\ Executing /\ call[current].op = "read"
        /\ readBody(call[current].aux, call[current].n, Woken(pipe.mutex))
        /\ freeInTable(pipe.mutex) /\ frame' = [frame EXCEPT ![current] = NoMutex]
        /\ UNCHANGED <<lastPipeName, pipePids, closed>>
    BY DEF readResume, Resumes, Calling, Executing
  <1>2. /\ current \in Clients /\ call[current].aux \in Ring /\ pipe.mutex \in Mutexes
        /\ call[current].n \in Nat
    <2>1. current \in Pids /\ call[current] \in Calls /\ pipe.mutex \in Mutexes
      BY PipeTypes
    <2>2. call[current].aux \in Ring /\ call[current].n \in 0 .. MaxRead
      BY <2>1 DEF Calls
    <2>3. current \in Clients
      BY <1>1, <2>1 DEF PipesInv, CallsMatch
    <2> QED BY <2>1, <2>2, <2>3, PipesAssumption
  <1>3. /\ frame' \in [Pids -> Mutexes \cup {NoMutex}]
        /\ \A p \in Pids \ {current} : frame'[p] = frame[p]
    BY <1>1, PipeTypes DEF PipesInv, TablesTyped
  <1>4. WokenBy(Woken(pipe.mutex))
    BY <1>1, <1>2, WokenByOwner
  <1> QED BY <1>1, <1>2, <1>3, <1>4, readBodyKeeps

-----------------------------------------------------------------------------
\* At boot there is no pipe and nobody waits.
LEMMA PipesInitInv == PipesInit => PipesInv
  <1> SUFFICES ASSUME PipesInit PROVE PipesInv
    OBVIOUS
  <1> USE PidAssumption, MutexAssumption, PipesAssumption
  <1>1. /\ procState = [p \in Pids |-> IF p \in {InitPid, ShellPid} THEN "READY" ELSE "UNBORN"]
        /\ current = InitPid /\ call = [p \in Pids |-> NoCall]
        /\ queue = [m \in Mutexes |-> [i \in Slots |-> NoPid]]
        /\ cardinalBlocked = [m \in Mutexes |-> 0] /\ frame = [p \in Pids |-> NoMutex]
        /\ lastPipeName = 0 /\ pipePids = {} /\ closed = FALSE
        /\ content = <<>> /\ garbled = FALSE /\ stray = {}
    BY DEF PipesInit, Init, PTInit
  <1>2. TablesTyped
    BY <1>1 DEF TablesTyped, States
  <1>3. \A m \in Mutexes : Waiting(m) = {}
    BY <1>1 DEF Waiting
  <1>4. PipeQueuesCounted
    BY <1>1, <1>3, FS_EmptySet DEF PipeQueuesCounted, QueueCounted
  <1>5. /\ pipe \in [mutex : Mutexes, ring : [Ring -> Bytes \cup {ZeroByte}],
                     position : Ring, end : Ring, readFlag : BOOLEAN, blocked : Seq(Pids)]
        /\ pipe.position = 0 /\ pipe.end = 0 /\ pipe.readFlag = FALSE /\ pipe.blocked = <<>>
    <2>1. 0 \in Ring /\ adminMutex \in Mutexes
      BY DEF Ring, adminMutex, Mutexes
    <2>2. [Ring -> {ZeroByte}] \subseteq [Ring -> Bytes \cup {ZeroByte}]
      OBVIOUS
    <2>3. pipe \in [mutex : {adminMutex}, ring : [Ring -> {ZeroByte}],
                   position : {0}, end : {0}, readFlag : {FALSE}, blocked : {<<>>}]
      BY DEF PipesInit
    <2>4. <<>> \in Seq(Pids)
      OBVIOUS
    <2> QED BY <2>1, <2>2, <2>3, <2>4
  <1>6. NoCall \in Calls /\ NoCall.op = "none"
    BY CallTypes DEF NoCall
  <1>7. PipesTypeOK
    <2>1. call \in [Pids -> Calls]
      BY <1>1, <1>6
    <2>2. content = <<>> /\ stray = {} /\ pipePids = {} /\ lastPipeName = 0
      BY <1>1
    <2>3. content \in Seq(Bytes) /\ stray \subseteq Pids /\ pipePids \subseteq Clients
      BY <2>2
    <2>4. lastPipeName \in 0 .. 1
      BY <2>2
    <2>5. closed \in BOOLEAN /\ garbled \in BOOLEAN
      BY <1>1, Zenon
    <2> QED BY <1>5, <2>1, <2>3, <2>4, <2>5 DEF PipesTypeOK
  <1>8. RingInOrder
    BY <1>1, <1>5, <1>7 DEF RingInOrder, RingHolds, isEmpty
  <1>9. SleepingReaderListed /\ CallsMatch
    BY <1>1, <1>6 DEF SleepingReaderListed, CallsMatch, Creating
  <1>10. WaitersSleep
    BY <1>3, <1>5 DEF WaitersSleep
  <1> QED BY <1>2, <1>4, <1>8, <1>9, <1>10 DEF PipesInv

\* Every step keeps the invariant.
LEMMA PipesNextInv == PipesInv /\ [PipesNext]_pVars => PipesInv'
  <1> SUFFICES ASSUME PipesInv, [PipesNext]_pVars PROVE PipesInv'
    OBVIOUS
  <1>1. CASE PipesNext
    <2>1. StrayNoted /\ PipesStep
      BY <1>1 DEF PipesNext, StrayNoted
    <2>2. CASE mutexCalls \/ tick
      BY <2>1, <2>2, mutexCallsKeep, tickKeeps
    <2>3. CASE getMutexWait \/ getMutexResume
      BY <2>1, <2>3, getMutexWaitKeeps, getMutexResumeKeeps
    <2>4. CASE createPipe \/ createPipeResume \/ createPipeGot \/ createPipeReturn
      BY <2>1, <2>4, createPipeKeeps, createPipeResumeKeeps, createPipeGotKeeps,
         createPipeReturnKeeps
    <2>5. CASE openPipe \/ openPipeWait \/ openPipeResume \/ closePipe
      BY <2>1, <2>5, openOrCloseKeeps, openPipeWaitKeeps, openPipeResumeKeeps
    <2>6. ASSUME NEW msg \in Messages, write(msg) PROVE PipesInv'
      BY <2>1, <2>6, writeKeeps
    <2>7. ASSUME NEW n \in 0 .. MaxRead, read(n) PROVE PipesInv'
      BY <2>1, <2>7, readKeeps
    <2>8. CASE transferWait \/ writeResume \/ readResume \/ readReturn
      BY <2>1, <2>8, transferWaitKeeps, writeResumeKeeps, readResumeKeeps, readReturnKeeps
    <2> QED BY <2>1, <2>2, <2>3, <2>4, <2>5, <2>6, <2>7, <2>8 DEF PipesStep
  <1>2. CASE UNCHANGED pVars
    <2>1. /\ UNCHANGED <<procState, current, queue, cardinalBlocked, frame>>
          /\ UNCHANGED <<lastPipeName, pipe, pipePids, closed, call, content, garbled, stray>>
      BY <1>2 DEF pVars
    <2>2. \A m \in Mutexes : Waiting(m)' = Waiting(m)
      BY <2>1 DEF Waiting
    <2>3. TablesTyped' /\ PipeQueuesCounted' /\ CallsMatch'
      BY <2>1, <2>2 DEF PipesInv, TablesTyped, PipeQueuesCounted, QueueCounted, CallsMatch
    <2>4. WaitersSleep'
      BY <2>1, <2>2 DEF PipesInv, WaitersSleep
    <2>5. PipesTypeOK' /\ isEmpty' = isEmpty
      BY <2>1 DEF PipesInv, RingInOrder, PipesTypeOK, isEmpty
    <2>6. RingInOrder' /\ SleepingReaderListed'
      BY <2>1, <2>5 DEF PipesInv, RingInOrder, RingHolds, SleepingReaderListed
    <2> QED BY <2>3, <2>4, <2>6 DEF PipesInv
  <1> QED BY <1>1, <1>2

\* The inductive invariant of Kernel/IPC.c on its mutexes, for every number of
\* processes and every length of ring and queues, queues that overflow included.
THEOREM PipesInvariant == PipesSpec => []PipesInv
  BY PipesInitInv, PipesNextInv, PTL DEF PipesSpec

\* The bytes of a pipe come out of read in the order write put them in, none lost or
\* repeated, unless a transfer was garbled between its look at the pointer and its
\* lockMutex.
THEOREM PipesInOrder == PipesSpec => []RingInOrder
  <1>1. PipesInv => RingInOrder
    BY DEF PipesInv
  <1> QED BY <1>1, PipesInvariant, PTL

\* read: whoever sleeps in it sleeps on the list of an empty pipe, unless the garbage
\* pid of lockMutex put it to sleep.
THEOREM PipesWakeReaders == PipesSpec => []SleepingReaderListed
  <1>1. PipesInv => SleepingReaderListed
    BY DEF PipesInv
  <1> QED BY <1>1, PipesInvariant, PTL

\* addToBlocked and freeMutex, called from inside createPipe, openPipe, read and write
\* too, keep counter and queue of every mutex in step.
THEOREM PipesCountQueues == PipesSpec => []PipeQueuesCounted
  <1>1. PipesInv => PipeQueuesCounted
    BY DEF PipesInv
  <1> QED BY <1>1, PipesInvariant, PTL
=============================================================================
