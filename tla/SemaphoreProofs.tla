--------------------------- MODULE SemaphoreProofs ---------------------------
(***************************************************************************)
(* The two blocking primitives, for any number of processes, mutexes,      *)
(* semaphores and names; any process may be killed, at any time.           *)
(* - Kernel/mutex.c: mutual exclusion, as long as the queue of a mutex can *)
(*   hold every process (the overflow branch of lockMutex breaks it) and   *)
(*   mutexes are closed when nobody else uses them.                        *)
(* - Kernel/semaphores.c, for any initial values: tokens, when a semaphore *)
(*   is closed once nobody else uses it.  Its clients may also lock the    *)
(*   mutex wait() goes through.                                            *)
(***************************************************************************)
EXTENDS Semaphore, ProcessTableProofs, FiniteSetTheorems, TLAPS

(* Mutexes: module Mutex.                                                  *)

\* The hypotheses of the theorems.
QueueFits == Cardinality(Pids) =< MAX_BLOCKED_QUEUE_SIZE

-----------------------------------------------------------------------------
\* A process in user code is alive, is not init, and waits in no queue.
LEMMA CallerFacts ==
    ASSUME MutexInv, Calling
    PROVE  /\ current \in Pids /\ current \in Alive(procState)
           /\ procState[current] = "RUNNING" /\ current # InitPid
           /\ \A m \in Mutexes : current \notin Waiting(m)
  BY DEF MutexInv, TypeOK, Calling, Alive, QueuedIsBlocked, Waiting, States

\* Here the current process is RUNNING whenever it executes: no call leaves it BLOCKED.
LEMMA UserCalls ==
    (OneRunning \/ MutexInv \/ SemInv) /\ UserMode => Calling /\ frame[current] = NoMutex
  <1>1. OneRunning /\ UserMode => Calling /\ frame[current] = NoMutex
    BY DEF OneRunning, UserMode, Executing, Calling
  <1>2. MutexInv \/ SemInv => OneRunning
    BY DEF MutexInv, SemInv
  <1> QED BY <1>1, <1>2

\* The processes of a queue form a finite set.
LEMMA WaitingFinite ==
    ASSUME NEW m \in Mutexes
    PROVE  IsFiniteSet(Waiting(m)) /\ Cardinality(Waiting(m)) \in Nat
  <1>1. Waiting(m) \subseteq Pids
    BY DEF Waiting
  <1>2. IsFiniteSet(Waiting(m))
    BY <1>1, MutexAssumption, FS_Subset
  <1> QED BY <1>2, FS_CardinalityType

\* The overflow branch of lockMutex is never taken: the caller is not queued, so
\* a queue with room for every process has room for it.
LEMMA NeverFull ==
    ASSUME MutexInv, QueueFits, NEW m \in Mutexes, Calling
    PROVE  ~isQueueFull(m)
  <1>1. current \in Pids /\ Waiting(m) \subseteq Pids \ {current}
    BY CallerFacts DEF Waiting
  <1>2. /\ IsFiniteSet(Pids \ {current})
        /\ Cardinality(Pids \ {current}) = Cardinality(Pids) - 1
    BY <1>1, MutexAssumption, FS_RemoveElement
  <1>3. Cardinality(Waiting(m)) =< Cardinality(Pids \ {current})
    BY <1>1, <1>2, FS_Subset
  <1>4. Cardinality(Pids) \in Nat /\ Cardinality(Waiting(m)) \in Nat
    BY MutexAssumption, FS_CardinalityType, WaitingFinite
  <1>5. cardinalBlocked[m] = Cardinality(Waiting(m))
    BY DEF MutexInv, QueueCounted
  <1> QED BY <1>2, <1>3, <1>4, <1>5, MutexAssumption DEF isQueueFull, QueueFits

\* A lockMutex that does not get through always queues its caller.
LEMMA OnlyBlocks ==
    ASSUME MutexInv, QueueFits, NEW m \in Mutexes, lockMutexSuspend(m)
    PROVE  lockMutexBlock(m)
  <1>1. Calling
    BY UserCalls DEF lockMutexSuspend, lockMutexFull, lockMutexBlock, Requests
  <1> QED BY <1>1, NeverFull DEF lockMutexSuspend

\* While the counter is below the queue's length, addToBlocked finds a slot.
LEMMA FreeSlotExists ==
    ASSUME MutexInv, NEW m \in Mutexes, ~isQueueFull(m)
    PROVE  Free(m) # {}
  <1> SUFFICES ASSUME Free(m) = {} PROVE FALSE
    OBVIOUS
  <1> DEFINE f == [i \in Slots |-> queue[m][i]]
  <1>1. \A i \in Slots : queue[m][i] \in Waiting(m) /\ queue[m][i] # NoPid
    BY DEF MutexInv, TypeOK, Free, Waiting
  <1>2. f \in Injection(Slots, Waiting(m))
    BY <1>1 DEF MutexInv, QueueCounted, Injection, IsInjective
  <1>3. Slots = 0 .. (MAX_BLOCKED_QUEUE_SIZE - 1)
    BY DEF Slots
  <1>4. /\ IsFiniteSet(Slots)
        /\ Cardinality(Slots) = MAX_BLOCKED_QUEUE_SIZE
    BY <1>3, MutexAssumption, FS_Interval
  <1>5. Cardinality(Slots) =< Cardinality(Waiting(m))
    BY <1>2, <1>4, WaitingFinite, FS_Injection
  <1>6. cardinalBlocked[m] = Cardinality(Waiting(m)) /\ Cardinality(Waiting(m)) \in Nat
    BY WaitingFinite DEF MutexInv, QueueCounted
  <1> QED BY <1>4, <1>5, <1>6, MutexAssumption DEF isQueueFull

-----------------------------------------------------------------------------
\* The boot state satisfies the invariant: no queue has anybody in it.
LEMMA InitInv == Init => MutexInv
  <1> SUFFICES ASSUME Init PROVE MutexInv
    OBVIOUS
  <1> USE PidAssumption, MutexAssumption
  <1>1. TypeOK
    BY DEF Init, PTInit, TypeOK, States, Mutexes, adminMutex
  <1>2. InitSchedulable /\ OneRunning
    BY DEF Init, PTInit, InitSchedulable, OneRunning
  <1>3. \A m \in Mutexes : Waiting(m) = {} /\ Owners(m) = {}
    BY DEF Init, Waiting, Owners, NoMutex, Mutexes
  <1>4. QueueCounted
    BY <1>3, FS_EmptySet DEF Init, QueueCounted
  <1>5. BlockedIsQueued
    BY DEF Init, PTInit, BlockedIsQueued
  <1>6. OneOwner
    BY <1>3 DEF OneOwner
  <1>7. QueuedIsBlocked
    BY <1>3 DEF Init, QueuedIsBlocked
  <1>8. ClientsLive
    <2>1. adminMutex \in Mutexes
      BY DEF Mutexes, adminMutex
    <2>2. used[adminMutex] /\ name[adminMutex] = NoName /\ mutex[adminMutex] = 0
      BY <2>1 DEF Init
    <2>3. \A m \in Mutexes : \A p \in Waiting(m) : procState[p] # "UNBORN"
      BY <1>3
    <2>4. \A p \in Pids : handles[p] = {} /\ holds[p] = {} /\ frame[p] = NoMutex
      BY DEF Init
    <2>5. \A m \in Mutexes : mutex[m] = 0
      BY DEF Init
    <2> QED BY <2>2, <2>3, <2>4, <2>5 DEF ClientsLive
  <1> QED BY <1>1, <1>2, <1>4, <1>5, <1>6, <1>7, <1>8 DEF MutexInv

\* Slot 0 of the table is a mutex.
LEMMA AdminIsMutex == adminMutex \in Mutexes
  BY MutexAssumption DEF adminMutex, Mutexes

\* The parts of the invariant that speak of locks and queues only.
LEMMA SameQueues ==
    ASSUME MutexInv,
           UNCHANGED <<procState, mutex, queue, cardinalBlocked, holds, frame>>
    PROVE  QueueCounted' /\ BlockedIsQueued' /\ OneOwner' /\ QueuedIsBlocked'
  <1>1. \A m \in Mutexes : Waiting(m)' = Waiting(m) /\ Owners(m)' = Owners(m)
    BY DEF Waiting, Owners
  <1>2. QueueCounted'
    BY <1>1 DEF MutexInv, QueueCounted
  <1>3. BlockedIsQueued'
    BY <1>1 DEF MutexInv, TypeOK, BlockedIsQueued, Waiting
  <1>4. OneOwner'
    BY <1>1 DEF MutexInv, OneOwner
  <1>5. QueuedIsBlocked'
    BY <1>1 DEF MutexInv, QueuedIsBlocked
  <1> QED BY <1>2, <1>3, <1>4, <1>5

\* getMutex creates or finds a name; it touches no lock and no queue.
LEMMA getMutexInv ==
    ASSUME MutexInv, NEW n \in Names, getMutex(n)
    PROVE  MutexInv'
  <1> USE DEF MutexInv
  <1>1. PICK m \in Mutexes :
          /\ IF Named(n) # {} THEN First(m, Named(n)) /\ UNCHANGED tableVars
                              ELSE First(m, Unused) /\ createMutex(m, n)
          /\ handles' = [handles EXCEPT ![current] = @ \cup {m}]
    BY DEF getMutex
  <1>2. UNCHANGED <<procState, current, mutex, queue, cardinalBlocked, holds, frame>>
    BY DEF getMutex
  <1>3. current \in Pids /\ current # InitPid /\ current \in Alive(procState)
    BY CallerFacts, UserCalls DEF getMutex
  <1>4. m # adminMutex
    BY <1>1, MutexAssumption DEF Named, Unused, First, ClientsLive
  <1>5. /\ used' \in [Mutexes -> BOOLEAN] /\ used'[m]
        /\ name' \in [Mutexes -> Names \cup {NoName}]
        /\ pidCreator' \in [Mutexes -> Pids \cup {NoPid}]
        /\ \A k \in Mutexes : used[k] => used'[k]
        /\ name'[adminMutex] = name[adminMutex]
    <2>1. CASE Named(n) # {}
      BY <1>1, <2>1 DEF TypeOK, tableVars, Named, First
    <2>2. CASE Named(n) = {}
      BY AdminIsMutex, <1>1, <1>3, <1>4, <2>2 DEF TypeOK, createMutex
    <2> QED BY <2>1, <2>2
  <1>6. TypeOK'
    BY <1>1, <1>2, <1>5 DEF TypeOK
  <1>7. InitSchedulable' /\ OneRunning'
    BY <1>2 DEF InitSchedulable, OneRunning
  <1>8. QueueCounted' /\ BlockedIsQueued' /\ OneOwner' /\ QueuedIsBlocked'
    BY <1>2, SameQueues
  <1>9. ClientsLive'
    <2>1. /\ \A p \in Pids \ {current} : handles'[p] = handles[p]
          /\ handles'[current] = handles[current] \cup {m}
      BY <1>1, <1>3 DEF TypeOK
    <2>2. \A p \in Pids : \A k \in handles'[p] : used'[k] /\ k # adminMutex
      BY <1>4, <1>5, <2>1, SMTT(30) DEF ClientsLive, TypeOK
    <2>3. \A p \in Pids : p = InitPid \/ p \notin Alive(procState') =>
              handles'[p] = {} /\ holds'[p] = {} /\ frame'[p] = NoMutex
      BY <1>2, <1>3, <2>1 DEF ClientsLive
    <2>4. /\ \A p \in Pids : holds'[p] \subseteq handles'[p]
          /\ \A p \in Pids : frame'[p] # NoMutex => frame'[p] \in handles'[p]
      BY <1>2, <1>3, <2>1 DEF ClientsLive
    <2>5. \A k \in Mutexes : Waiting(k)' = Waiting(k)
      BY <1>2 DEF Waiting
    <2>6. /\ \A k \in Mutexes : \A p \in Waiting(k)' : procState'[p] # "UNBORN"
          /\ \A k \in Mutexes : ~used'[k] => mutex'[k] = 0
          /\ used'[adminMutex] /\ name'[adminMutex] = NoName /\ mutex'[adminMutex] = 0
      BY <1>2, <1>5, <2>5, AdminIsMutex DEF ClientsLive
    <2> QED BY <2>2, <2>3, <2>4, <2>6 DEF ClientsLive
  <1> QED BY <1>6, <1>7, <1>8, <1>9

\* lockMutex on a free mutex: it had no owner and no queue.
LEMMA lockMutexInv ==
    ASSUME MutexInv, NEW m \in Mutexes, lockMutex(m)
    PROVE  MutexInv'
  <1> USE DEF MutexInv
  <1>1. /\ current \in Pids /\ current # InitPid /\ current \in Alive(procState)
        /\ m \in handles[current] /\ frame[current] = NoMutex
    BY CallerFacts, UserCalls DEF lockMutex, Requests
  <1>2. used[m] /\ m # adminMutex /\ mutex[m] = 0
    BY <1>1 DEF lockMutex, Acquirable, ClientsLive
  <1>3. /\ mutex' = [mutex EXCEPT ![m] = 1]
        /\ holds' = [holds EXCEPT ![current] = @ \cup {m}]
        /\ UNCHANGED <<procState, current, used, name, pidCreator, queue,
                       cardinalBlocked, handles, frame>>
    BY <1>2 DEF lockMutex, Acquired
  <1>4. TypeOK'
    BY <1>1, <1>3 DEF TypeOK
  <1>5. InitSchedulable' /\ OneRunning' /\ QueueCounted' /\ BlockedIsQueued'
    <2>1. InitSchedulable' /\ OneRunning'
      BY <1>3 DEF InitSchedulable, OneRunning
    <2>2. QueueCounted' /\ BlockedIsQueued'
      BY <1>3 DEF QueueCounted, BlockedIsQueued, Waiting
    <2> QED BY <2>1, <2>2
  <1>6. OneOwner'
    <2>1. Owners(m) = {}
      BY <1>2 DEF OneOwner
    <2>2. Owners(m)' \subseteq {current}
      BY <1>1, <1>3, <2>1 DEF Owners, Waiting, TypeOK
    <2>3. \A k \in Mutexes \ {m} : Owners(k)' = Owners(k) /\ mutex'[k] = mutex[k]
      BY <1>1, <1>3 DEF Owners, Waiting, TypeOK
    <2>4. mutex'[m] = 1
      BY <1>3 DEF TypeOK
    <2> QED BY <1>3, <2>2, <2>3, <2>4 DEF OneOwner, Waiting
  <1>7. QueuedIsBlocked'
    BY <1>1, <1>3 DEF QueuedIsBlocked, Waiting, Alive, TypeOK
  <1>8. ClientsLive'
    BY <1>1, <1>2, <1>3 DEF ClientsLive, TypeOK, Alive, Waiting
  <1> QED BY <1>4, <1>5, <1>6, <1>7, <1>8

\* lockMutex on a taken mutex: the caller moves into the queue.
LEMMA lockMutexBlockInv ==
    ASSUME MutexInv, NEW m \in Mutexes, lockMutexBlock(m)
    PROVE  MutexInv'
  <1> USE DEF MutexInv
  <1> DEFINE st == changeProcessState(procState, current, "BLOCKED")
  <1>1. /\ current \in Pids /\ current # InitPid /\ current \in Alive(procState)
        /\ procState[current] = "RUNNING"
        /\ \A k \in Mutexes : current \notin Waiting(k)
        /\ m \in handles[current] /\ m \notin holds[current] /\ frame[current] = NoMutex
    BY CallerFacts, UserCalls DEF lockMutexBlock, Requests
  <1>2. Free(m) # {}
    BY FreeSlotExists DEF lockMutexBlock
  <1>3. PICK i \in Slots : First(i, Free(m)) /\ queue' = [queue EXCEPT ![m][i] = current]
    BY <1>2 DEF lockMutexBlock, addToBlocked
  <1>4. /\ cardinalBlocked' = [cardinalBlocked EXCEPT ![m] = @ + 1]
        /\ frame' = [frame EXCEPT ![current] = m]
        /\ schedule(st)
        /\ UNCHANGED <<used, name, pidCreator, mutex, handles, holds>>
    BY <1>2 DEF lockMutexBlock, addToBlocked
  <1>5. /\ st \in [Pids -> States]
        /\ \A p \in Pids : st[p] = IF p = current THEN "BLOCKED" ELSE procState[p]
    BY <1>1 DEF TypeOK, changeProcessState, States
  <1>6. /\ procState' \in [Pids -> States] /\ current' \in Pids
        /\ OneRunning' /\ InitSchedulable'
        /\ \A p \in Pids, s \in {"UNBORN", "BLOCKED", "SLEEPING", "REMOVED"} :
               procState'[p] = s <=> st[p] = s
    <2>1. \A p \in Pids : st[p] = "RUNNING" => p = current
      BY <1>5 DEF OneRunning
    <2>2. st[InitPid] \in {"READY", "RUNNING"}
      BY <1>1, <1>5, PidAssumption DEF InitSchedulable
    <2> HIDE DEF st
    <2> QED BY <1>1, <1>4, <1>5, <2>1, <2>2, ScheduleFacts
  <1> HIDE DEF st
  <1>7. queue[m][i] = NoPid
    BY <1>3 DEF First, Free
  <1>8. /\ Waiting(m)' = Waiting(m) \cup {current}
        /\ \A k \in Mutexes \ {m} : Waiting(k)' = Waiting(k)
    BY <1>1, <1>3, <1>7, PidAssumption DEF TypeOK, Waiting
  <1>9. \A k \in Mutexes : Owners(k)' = Owners(k)
    <2> SUFFICES ASSUME NEW k \in Mutexes, NEW p \in Pids
                 PROVE  p \in Owners(k)' <=> p \in Owners(k)
      BY DEF Owners
    <2>1. CASE p = current
      BY <1>1, <1>4, <1>8, <2>1 DEF TypeOK, Owners, Mutexes, NoMutex
    <2>2. CASE p # current
      <3>1. frame'[p] = frame[p] /\ holds'[p] = holds[p]
        BY <1>1, <1>4, <2>2 DEF TypeOK
      <3>2. p \in Waiting(k)' <=> p \in Waiting(k)
        BY <1>8, <2>2
      <3> QED BY <3>1, <3>2 DEF Owners
    <2> QED BY <2>1, <2>2
  <1>10. TypeOK'
    <2>1. queue' \in [Mutexes -> [Slots -> Pids \cup {NoPid}]]
      BY <1>1, <1>3 DEF TypeOK
    <2>2. cardinalBlocked' \in [Mutexes -> Int]
      BY <1>4 DEF TypeOK
    <2>3. frame' \in [Pids -> Mutexes \cup {NoMutex}]
      BY <1>4 DEF TypeOK
    <2> QED BY <1>4, <1>6, <2>1, <2>2, <2>3 DEF TypeOK
  <1>11. QueueCounted'
    <2>1. Cardinality(Waiting(m)') = Cardinality(Waiting(m)) + 1
      BY <1>1, <1>8, WaitingFinite, FS_AddElement, ZenonT(30)
    <2>2. \A k \in Mutexes : cardinalBlocked'[k] = Cardinality(Waiting(k)')
      BY <1>4, <1>8, <2>1 DEF TypeOK, QueueCounted
    <2>3. \A j \in Slots : queue[m][j] # current
      BY <1>1 DEF Waiting
    <2>4. \A k \in Mutexes, j, l \in Slots :
             queue'[k][j] # NoPid /\ queue'[k][j] = queue'[k][l] => j = l
      BY <1>3, <2>3 DEF TypeOK, QueueCounted
    <2> QED BY <2>2, <2>4 DEF QueueCounted
  <1>12. BlockedIsQueued'
    <2> SUFFICES ASSUME NEW p \in Pids, procState'[p] = "BLOCKED"
                 PROVE  \E k \in Mutexes : frame'[p] = k /\ p \in Waiting(k)'
      BY DEF BlockedIsQueued
    <2>1. CASE p = current
      BY <1>1, <1>4, <1>8, <2>1 DEF TypeOK
    <2>2. CASE p # current
      <3>1. procState[p] = "BLOCKED" /\ frame'[p] = frame[p]
        BY <1>4, <1>5, <1>6, <2>2 DEF TypeOK
      <3>2. PICK k \in Mutexes : frame[p] = k /\ p \in Waiting(k)
        BY <3>1 DEF BlockedIsQueued
      <3> QED BY <1>8, <3>1, <3>2
    <2> QED BY <2>1, <2>2
  <1>13. OneOwner'
    <2>1. mutex[m] # 0
      <3>1. cardinalBlocked[m] # 0 => Waiting(m) # {}
        BY FS_EmptySet DEF QueueCounted
      <3> QED BY <3>1 DEF lockMutexBlock, Acquirable, OneOwner
    <2> QED BY <1>4, <1>8, <1>9, <2>1 DEF OneOwner, TypeOK
  <1>14. Alive(procState') = Alive(procState)
    BY <1>1, <1>5, <1>6 DEF Alive
  <1>15. QueuedIsBlocked'
    <2>1. \A k \in Mutexes, p \in Pids : p \in Waiting(k)' /\ p \in Alive(procState') =>
             frame'[p] = k /\ procState'[p] = "BLOCKED"
      BY <1>1, <1>4, <1>5, <1>6, <1>8, <1>14 DEF TypeOK, QueuedIsBlocked
    <2>2. \A p \in Pids : frame'[p] # NoMutex => frame'[p] \notin holds'[p]
      BY <1>1, <1>4 DEF TypeOK, QueuedIsBlocked
    <2> QED BY <2>1, <2>2 DEF QueuedIsBlocked
  <1>16. ClientsLive'
    <2>1. \A p \in Pids : p = InitPid \/ p \notin Alive(procState') =>
              handles'[p] = {} /\ holds'[p] = {} /\ frame'[p] = NoMutex
      BY <1>1, <1>4, <1>14 DEF ClientsLive, TypeOK
    <2>2. \A p \in Pids : frame'[p] # NoMutex => frame'[p] \in handles'[p]
      BY <1>1, <1>4 DEF ClientsLive, TypeOK
    <2>3. \A k \in Mutexes : \A p \in Waiting(k)' : procState'[p] # "UNBORN"
      <3> SUFFICES ASSUME NEW k \in Mutexes, NEW p \in Waiting(k)'
                   PROVE  procState'[p] # "UNBORN"
        OBVIOUS
      <3>1. p \in Pids /\ (p = current \/ p \in Waiting(k))
        BY <1>1, <1>8 DEF Waiting
      <3> QED BY <1>5, <1>6, <3>1 DEF ClientsLive
    <2> QED BY <1>4, <2>1, <2>2, <2>3 DEF ClientsLive
  <1> QED BY <1>6, <1>10, <1>11, <1>12, <1>13, <1>15, <1>16

\* lockMutex returns after a hand-over: the caller was the owner already.
LEMMA lockMutexReturnInv ==
    ASSUME MutexInv, lockMutexReturn
    PROVE  MutexInv'
  <1> USE DEF MutexInv
  <1> DEFINE m == frame[current]
  <1>1. /\ current \in Pids /\ current # InitPid /\ current \in Alive(procState)
        /\ \A k \in Mutexes : current \notin Waiting(k)
        /\ m \in Mutexes /\ m \in handles[current]
    BY CallerFacts DEF lockMutexReturn, TypeOK, ClientsLive
  <1>2. /\ holds' = [holds EXCEPT ![current] = @ \cup {m}]
        /\ frame' = [frame EXCEPT ![current] = NoMutex]
        /\ UNCHANGED <<procState, current, used, name, pidCreator, mutex, queue,
                       cardinalBlocked, handles>>
    BY DEF lockMutexReturn, Acquired
  <1>3. \A k \in Mutexes : Waiting(k)' = Waiting(k)
    BY <1>2 DEF Waiting
  <1>4. /\ \A p \in Pids \ {current} : frame'[p] = frame[p] /\ holds'[p] = holds[p]
        /\ frame'[current] = NoMutex /\ holds'[current] = holds[current] \cup {m}
    BY <1>1, <1>2 DEF TypeOK
  <1>5. \A k \in Mutexes : Owners(k)' = Owners(k)
    <2> SUFFICES ASSUME NEW k \in Mutexes, NEW p \in Pids
                 PROVE  p \in Owners(k)' <=> p \in Owners(k)
      BY DEF Owners
    <2>1. CASE p = current
      BY <1>1, <1>3, <1>4, <2>1 DEF Owners, Mutexes, NoMutex
    <2>2. CASE p # current
      BY <1>3, <1>4, <2>2 DEF Owners
    <2> QED BY <2>1, <2>2
  <1>6. TypeOK'
    BY <1>1, <1>2 DEF TypeOK
  <1>7. InitSchedulable' /\ OneRunning' /\ QueueCounted'
    BY <1>2, <1>3 DEF InitSchedulable, OneRunning, QueueCounted
  <1>8. BlockedIsQueued'
    <2> SUFFICES ASSUME NEW p \in Pids, procState[p] = "BLOCKED"
                 PROVE  \E k \in Mutexes : frame'[p] = k /\ p \in Waiting(k)'
      BY <1>2 DEF BlockedIsQueued
    <2>1. p # current
      BY DEF lockMutexReturn, Calling
    <2> QED BY <1>3, <1>4, <2>1 DEF BlockedIsQueued
  <1>9. OneOwner'
    BY <1>2, <1>3, <1>5 DEF OneOwner
  <1>10. QueuedIsBlocked'
    BY <1>1, <1>2, <1>3, <1>4 DEF QueuedIsBlocked
  <1>11. ClientsLive'
    BY <1>1, <1>2, <1>3, <1>4 DEF ClientsLive
  <1> QED BY <1>6, <1>7, <1>8, <1>9, <1>10, <1>11

\* closeMutex of an idle mutex.
LEMMA closeMutexInv ==
    ASSUME MutexInv, CleanClose, NEW m \in Mutexes, closeMutex(m)
    PROVE  MutexInv'
  <1> USE DEF MutexInv
  <1>1. /\ current \in Pids /\ current # InitPid /\ current \in Alive(procState)
        /\ m \in handles[current] /\ m \notin holds[current] /\ frame[current] = NoMutex
    BY CallerFacts, UserCalls DEF closeMutex
  <1>2. m # adminMutex /\ used[m]
    BY <1>1 DEF ClientsLive
  <1>3. /\ mutex[m] = 0
        /\ \A p \in Pids \ {current} : m \notin handles[p]
        /\ handles' = [handles EXCEPT ![current] = @ \ {m}]
        /\ UNCHANGED <<procState, current, name, pidCreator, mutex, queue,
                       cardinalBlocked, holds, frame>>
    BY DEF closeMutex, Idle
  <1>4. used' = [used EXCEPT ![m] = FALSE] \/ used' = used
    BY DEF closeMutex
  <1>5. /\ used' \in [Mutexes -> BOOLEAN]
        /\ \A k \in Mutexes \ {m} : used'[k] = used[k]
    BY <1>4 DEF TypeOK
  <1>6. /\ \A p \in Pids \ {current} : handles'[p] = handles[p]
        /\ handles'[current] = handles[current] \ {m}
    BY <1>1, <1>3 DEF TypeOK
  <1>7. TypeOK'
    BY <1>1, <1>3, <1>5 DEF TypeOK
  <1>8. InitSchedulable' /\ OneRunning'
    BY <1>3 DEF InitSchedulable, OneRunning
  <1>9. QueueCounted' /\ BlockedIsQueued' /\ OneOwner' /\ QueuedIsBlocked'
    BY <1>3, SameQueues
  <1>10. ClientsLive'
    <2>1. \A p \in Pids : \A k \in handles'[p] : used'[k] /\ k # adminMutex
      BY <1>3, <1>5, <1>6 DEF ClientsLive, TypeOK
    <2>2. \A p \in Pids : p = InitPid \/ p \notin Alive(procState') =>
              handles'[p] = {} /\ holds'[p] = {} /\ frame'[p] = NoMutex
      BY <1>1, <1>3, <1>6 DEF ClientsLive
    <2>3. /\ \A p \in Pids : holds'[p] \subseteq handles'[p]
          /\ \A p \in Pids : frame'[p] # NoMutex => frame'[p] \in handles'[p]
      BY <1>1, <1>3, <1>6 DEF ClientsLive
    <2>4. \A k \in Mutexes : Waiting(k)' = Waiting(k)
      BY <1>3 DEF Waiting
    <2>5. /\ \A k \in Mutexes : \A p \in Waiting(k)' : procState'[p] # "UNBORN"
          /\ \A k \in Mutexes : ~used'[k] => mutex'[k] = 0
          /\ used'[adminMutex] /\ name'[adminMutex] = NoName /\ mutex'[adminMutex] = 0
      BY <1>2, <1>3, <1>5, <2>4, AdminIsMutex DEF ClientsLive
    <2> QED BY <2>1, <2>2, <2>3, <2>5 DEF ClientsLive
  <1> QED BY <1>7, <1>8, <1>9, <1>10

\* freeMutex with nobody waiting: the lock word is cleared and the mutex has no
\* owner left.
LEMMA freeMutexReleaseInv ==
    ASSUME MutexInv, NEW m \in Mutexes, freeMutex(m), ~(cardinalBlocked[m] > 0)
    PROVE  MutexInv'
  <1> USE DEF MutexInv
  <1>1. /\ current \in Pids /\ current # InitPid /\ current \in Alive(procState)
        /\ m \in holds[current] /\ m \in handles[current] /\ frame[current] = NoMutex
    BY CallerFacts, UserCalls DEF freeMutex, ClientsLive
  <1>2. used[m] /\ m # adminMutex
    BY <1>1 DEF ClientsLive
  <1>3. /\ mutex' = [mutex EXCEPT ![m] = 0]
        /\ holds' = [holds EXCEPT ![current] = @ \ {m}]
        /\ UNCHANGED <<procState, current, used, name, pidCreator, queue,
                       cardinalBlocked, handles, frame>>
    BY <1>2 DEF freeMutex
  <1>4. Waiting(m) = {}
    <2>1. cardinalBlocked[m] = Cardinality(Waiting(m)) /\ Cardinality(Waiting(m)) \in Nat
      BY WaitingFinite DEF QueueCounted
    <2>2. Cardinality(Waiting(m)) = 0
      BY <2>1
    <2> QED BY <2>2, WaitingFinite, FS_EmptySet
  <1>5. \A k \in Mutexes : Waiting(k)' = Waiting(k)
    BY <1>3 DEF Waiting
  <1>6. /\ \A p \in Pids \ {current} : holds'[p] = holds[p]
        /\ holds'[current] = holds[current] \ {m}
        /\ \A k \in Mutexes \ {m} : mutex'[k] = mutex[k]
        /\ mutex'[m] = 0
    BY <1>1, <1>3 DEF TypeOK
  <1>7. TypeOK'
    BY <1>1, <1>3 DEF TypeOK
  <1>8. InitSchedulable' /\ OneRunning' /\ QueueCounted' /\ BlockedIsQueued'
    BY <1>3, <1>5 DEF InitSchedulable, OneRunning, QueueCounted, BlockedIsQueued
  <1>9. OneOwner'
    <2>1. Owners(m) \subseteq {current}
      BY <1>1 DEF OneOwner, Owners
    <2>2. Owners(m)' = {}
      BY <1>1, <1>3, <1>5, <1>6, <2>1 DEF Owners, Mutexes, NoMutex
    <2>3. \A k \in Mutexes \ {m} : Owners(k)' = Owners(k)
      BY <1>3, <1>5, <1>6 DEF Owners
    <2> QED BY <1>4, <1>5, <1>6, <2>2, <2>3 DEF OneOwner
  <1>10. QueuedIsBlocked'
    BY <1>3, <1>5, <1>6 DEF QueuedIsBlocked
  <1>11. ClientsLive'
    BY <1>1, <1>2, <1>3, <1>5, <1>6 DEF ClientsLive
  <1> QED BY <1>7, <1>8, <1>9, <1>10, <1>11

\* freeMutex with a queue: the mutex is handed to the waiter in the lowest slot,
\* or lost when that waiter was killed.
LEMMA freeMutexHandOverInv ==
    ASSUME MutexInv, NEW m \in Mutexes, freeMutex(m), cardinalBlocked[m] > 0
    PROVE  MutexInv'
  <1> USE DEF MutexInv
  <1>1. /\ current \in Pids /\ current # InitPid /\ current \in Alive(procState)
        /\ \A k \in Mutexes : current \notin Waiting(k)
        /\ m \in holds[current] /\ m \in handles[current] /\ frame[current] = NoMutex
    BY CallerFacts, UserCalls DEF freeMutex, ClientsLive
  <1>2. used[m] /\ m # adminMutex
    BY <1>1 DEF ClientsLive
  <1>3. /\ unblockProcess(m)
        /\ cardinalBlocked' = [cardinalBlocked EXCEPT ![m] = @ - 1]
        /\ holds' = [holds EXCEPT ![current] = @ \ {m}]
        /\ UNCHANGED <<current, used, name, pidCreator, mutex, handles, frame>>
    BY <1>2 DEF freeMutex
  <1>4. Occupied(m) # {}
    <2> SUFFICES ASSUME Occupied(m) = {} PROVE FALSE
      OBVIOUS
    <2>1. Waiting(m) = {}
      BY PidAssumption DEF Occupied, Waiting
    <2> QED BY <2>1, FS_EmptySet DEF QueueCounted
  <1>5. PICK i \in Slots :
          /\ i \in Occupied(m)
          /\ procState' = changeProcessState(procState, queue[m][i], "READY")
          /\ queue' = [queue EXCEPT ![m][i] = NoPid]
    BY <1>3, <1>4 DEF unblockProcess, First
  <1> DEFINE w == queue[m][i]
  <1>6. w \in Pids /\ w \in Waiting(m) /\ w # current
    BY <1>1, <1>5 DEF Occupied, Waiting, TypeOK
  <1>7. w \in Alive(procState) => frame[w] = m /\ procState[w] = "BLOCKED"
    BY <1>6 DEF QueuedIsBlocked
  <1>8. w # InitPid
    BY <1>7, PidAssumption DEF ClientsLive, Alive, InitSchedulable
  <1>9. \A p \in Pids : procState'[p] =
            IF p = w /\ w \in Alive(procState) THEN "READY" ELSE procState[p]
    BY <1>5 DEF changeProcessState
  <1>10. procState' \in [Pids -> States] /\ Alive(procState') = Alive(procState)
    <2>1. procState' \in [Pids -> States]
      BY <1>5, <1>6 DEF changeProcessState, TypeOK, States
    <2>2. Alive(procState') = Alive(procState)
      BY <1>9 DEF Alive
    <2> QED BY <2>1, <2>2
  <1>11. /\ Waiting(m)' = Waiting(m) \ {w}
         /\ \A k \in Mutexes \ {m} : Waiting(k)' = Waiting(k)
    <2>1. \A j \in Slots : queue[m][j] = w => j = i
      BY <1>6, PidAssumption DEF QueueCounted
    <2>2. /\ queue'[m][i] = NoPid
          /\ \A j \in Slots \ {i} : queue'[m][j] = queue[m][j]
          /\ \A k \in Mutexes \ {m} : queue'[k] = queue[k]
      BY <1>5 DEF TypeOK
    <2>3. Waiting(m)' = Waiting(m) \ {w}
      BY <2>1, <2>2, PidAssumption DEF Waiting
    <2> QED BY <2>2, <2>3 DEF Waiting
  <1>12. /\ \A p \in Pids \ {current} : holds'[p] = holds[p]
         /\ holds'[current] = holds[current] \ {m}
    BY <1>1, <1>3 DEF TypeOK
  <1> HIDE DEF w
  <1>13. TypeOK'
    <2>1. queue' \in [Mutexes -> [Slots -> Pids \cup {NoPid}]]
      BY <1>5 DEF TypeOK
    <2>2. cardinalBlocked' \in [Mutexes -> Int]
      BY <1>3 DEF TypeOK
    <2>3. holds' \in [Pids -> SUBSET Mutexes]
      BY <1>1, <1>3 DEF TypeOK
    <2> QED BY <1>3, <1>10, <2>1, <2>2, <2>3 DEF TypeOK
  <1>14. InitSchedulable' /\ OneRunning'
    BY <1>1, <1>3, <1>6, <1>8, <1>9, PidAssumption DEF InitSchedulable, OneRunning
  <1>15. QueueCounted'
    <2>1. Cardinality(Waiting(m)') = Cardinality(Waiting(m)) - 1
      BY <1>6, <1>11, WaitingFinite, FS_RemoveElement, ZenonT(30)
    <2>2. \A k \in Mutexes : cardinalBlocked'[k] = Cardinality(Waiting(k)')
      BY <1>3, <1>11, <2>1 DEF TypeOK, QueueCounted
    <2>3. \A k \in Mutexes, j, l \in Slots :
             queue'[k][j] # NoPid /\ queue'[k][j] = queue'[k][l] => j = l
      BY <1>5 DEF TypeOK, QueueCounted
    <2> QED BY <2>2, <2>3 DEF QueueCounted
  <1>16. BlockedIsQueued'
    <2> SUFFICES ASSUME NEW p \in Pids, procState'[p] = "BLOCKED"
                 PROVE  \E k \in Mutexes : frame'[p] = k /\ p \in Waiting(k)'
      BY DEF BlockedIsQueued
    <2>1. procState[p] = "BLOCKED" /\ p # w
      BY <1>9 DEF Alive
    <2> QED BY <1>3, <1>11, <2>1 DEF BlockedIsQueued
  <1>17. OneOwner'
    <2>1. Owners(m) \subseteq {current}
      BY <1>1 DEF OneOwner, Owners
    <2>2. Owners(m)' \subseteq {w}
      <3> SUFFICES ASSUME NEW p \in Owners(m)' PROVE p = w
        OBVIOUS
      <3>1. p \in Pids /\ (m \in holds'[p] \/ (frame'[p] = m /\ p \notin Waiting(m)'))
        BY DEF Owners
      <3>2. p # current
        BY <1>1, <1>3, <1>12, <3>1 DEF Mutexes, NoMutex
      <3>3. p \notin Owners(m)
        BY <2>1, <3>2
      <3> QED BY <1>3, <1>11, <1>12, <3>1, <3>2, <3>3 DEF Owners
    <2>3. \A k \in Mutexes \ {m} : Owners(k)' = Owners(k)
      BY <1>3, <1>11, <1>12 DEF Owners
    <2>4. mutex'[m] # 0
      BY <1>3, <1>6 DEF OneOwner
    <2> QED BY <1>3, <1>11, <2>2, <2>3, <2>4 DEF OneOwner
  <1>18. QueuedIsBlocked'
    <2>1. \A k \in Mutexes, p \in Pids : p \in Waiting(k)' /\ p \in Alive(procState') =>
             frame'[p] = k /\ procState'[p] = "BLOCKED"
      <3> SUFFICES ASSUME NEW k \in Mutexes, NEW p \in Pids,
                          p \in Waiting(k)', p \in Alive(procState)
                   PROVE  frame[p] = k /\ procState'[p] = "BLOCKED"
        BY <1>3, <1>10
      <3>1. p \in Waiting(k) /\ (k = m => p # w)
        BY <1>11
      <3>2. frame[p] = k /\ procState[p] = "BLOCKED"
        BY <3>1 DEF QueuedIsBlocked
      <3>3. p # w
        BY <1>7, <3>1, <3>2
      <3> QED BY <1>9, <3>2, <3>3
    <2>2. \A p \in Pids : frame'[p] # NoMutex => frame'[p] \notin holds'[p]
      BY <1>1, <1>3, <1>12 DEF QueuedIsBlocked
    <2> QED BY <2>1, <2>2 DEF QueuedIsBlocked
  <1>19. ClientsLive'
    <2>1. \A k \in Mutexes : \A p \in Waiting(k)' : procState'[p] # "UNBORN"
      <3> SUFFICES ASSUME NEW k \in Mutexes, NEW p \in Waiting(k)'
                   PROVE  procState'[p] # "UNBORN"
        OBVIOUS
      <3>1. p \in Pids /\ p \in Waiting(k)
        BY <1>11 DEF Waiting
      <3> QED BY <1>9, <3>1 DEF ClientsLive
    <2>2. \A p \in Pids : p = InitPid \/ p \notin Alive(procState') =>
              handles'[p] = {} /\ holds'[p] = {} /\ frame'[p] = NoMutex
      BY <1>1, <1>3, <1>10, <1>12 DEF ClientsLive
    <2>3. \A p \in Pids : holds'[p] \subseteq handles'[p]
      BY <1>1, <1>3, <1>12 DEF ClientsLive
    <2> QED BY <1>3, <2>1, <2>2, <2>3 DEF ClientsLive
  <1> QED BY <1>13, <1>14, <1>15, <1>16, <1>17, <1>18, <1>19

\* createProcess: the new process has no handle and is in no queue.
LEMMA createProcessInv ==
    ASSUME MutexInv, NEW p \in Pids, createProcess(p)
    PROVE  MutexInv'
  <1> USE DEF MutexInv
  <1>1. /\ procState[p] = "UNBORN"
        /\ procState' = [procState EXCEPT ![p] = "READY"]
        /\ UNCHANGED <<current, used, name, pidCreator, mutex, queue, cardinalBlocked,
                       handles, holds, frame>>
    BY DEF createProcess, tableVars, lockVars, clientVars
  <1>2. p # InitPid /\ p # current /\ p \notin Alive(procState)
    BY PidAssumption, UserCalls DEF InitSchedulable, OneRunning, createProcess, Calling, Alive
  <1>3. /\ procState'[p] = "READY"
        /\ \A q \in Pids \ {p} : procState'[q] = procState[q]
    BY <1>1 DEF TypeOK
  <1>4. \A m \in Mutexes : /\ Waiting(m)' = Waiting(m)
                           /\ Owners(m)' = Owners(m)
                           /\ p \notin Waiting(m)
    BY <1>1 DEF Waiting, Owners, ClientsLive
  <1>5. TypeOK'
    BY <1>1 DEF TypeOK, States
  <1>6. InitSchedulable' /\ OneRunning'
    BY <1>1, <1>2, <1>3, PidAssumption DEF InitSchedulable, OneRunning, TypeOK
  <1>7. QueueCounted' /\ OneOwner'
    BY <1>1, <1>4 DEF QueueCounted, OneOwner
  <1>8. BlockedIsQueued'
    BY <1>1, <1>3, <1>4 DEF BlockedIsQueued
  <1>9. QueuedIsBlocked'
    BY <1>1, <1>3, <1>4 DEF QueuedIsBlocked, Alive
  <1>10. ClientsLive'
    <2>1. \A q \in Pids : q = InitPid \/ q \notin Alive(procState') =>
              handles'[q] = {} /\ holds'[q] = {} /\ frame'[q] = NoMutex
      BY <1>1, <1>3 DEF ClientsLive, Alive
    <2>2. \A m \in Mutexes : \A q \in Waiting(m)' : procState'[q] # "UNBORN"
      BY <1>3, <1>4 DEF ClientsLive, Waiting
    <2> QED BY <1>1, <2>1, <2>2 DEF ClientsLive
  <1> QED BY <1>5, <1>6, <1>7, <1>8, <1>9, <1>10

\* kill: what the process held has no owner any more, its queue entry stays.
LEMMA killInv ==
    ASSUME MutexInv, NEW p \in Mortal, kill(p)
    PROVE  MutexInv'
  <1> USE DEF MutexInv
  <1> DEFINE st == Removed(procState, p)
  <1>1. /\ p \in Pids /\ p # InitPid /\ p \in Alive(procState)
        /\ current \in Pids /\ procState[current] = "RUNNING" /\ current # InitPid
    BY MutexAssumption, CallerFacts, UserCalls DEF kill
  <1>2. /\ handles' = [handles EXCEPT ![p] = {}]
        /\ holds' = [holds EXCEPT ![p] = {}]
        /\ frame' = [frame EXCEPT ![p] = NoMutex]
        /\ UNCHANGED <<used, name, pidCreator, mutex, queue, cardinalBlocked>>
    BY DEF kill, tableVars, lockVars
  <1>3. /\ st \in [Pids -> States]
        /\ \A q \in Pids : st[q] = IF q = p THEN "REMOVED" ELSE procState[q]
    BY <1>1 DEF Removed, changeProcessState, TypeOK, States
  <1>4. /\ procState' \in [Pids -> States] /\ current' \in Pids
        /\ OneRunning' /\ InitSchedulable'
        /\ \A q \in Pids, s \in {"UNBORN", "BLOCKED", "SLEEPING", "REMOVED"} :
               procState'[q] = s <=> st[q] = s
    <2>1. \A q \in Pids : st[q] = "RUNNING" => q = current
      BY <1>3 DEF OneRunning
    <2>2. st[InitPid] \in {"READY", "RUNNING"}
      BY <1>1, <1>3, PidAssumption DEF InitSchedulable
    <2>3. CASE p = current
      <3>1. schedule(st)
        BY <2>3 DEF kill
      <3> HIDE DEF st
      <3> QED BY <1>1, <1>3, <2>1, <2>2, <3>1, ScheduleFacts
    <2>4. CASE p # current
      <3>1. procState' = st /\ current' = current
        BY <2>4 DEF kill
      <3> HIDE DEF st
      <3> QED BY <1>1, <1>3, <2>1, <2>2, <2>4, <3>1 DEF OneRunning, InitSchedulable
    <2> QED BY <2>3, <2>4
  <1> HIDE DEF st
  <1>5. /\ \A q \in Pids \ {p} : /\ handles'[q] = handles[q]
                                  /\ holds'[q] = holds[q]
                                  /\ frame'[q] = frame[q]
        /\ handles'[p] = {} /\ holds'[p] = {} /\ frame'[p] = NoMutex
    BY <1>1, <1>2 DEF TypeOK
  <1>6. \A m \in Mutexes : Waiting(m)' = Waiting(m)
    BY <1>2 DEF Waiting
  <1>7. \A m \in Mutexes : Owners(m)' \subseteq Owners(m)
    BY <1>5, <1>6 DEF Owners, Mutexes, NoMutex
  <1>8. Alive(procState') = Alive(procState) \ {p}
    BY <1>3, <1>4 DEF Alive
  <1>9. TypeOK'
    BY <1>1, <1>2, <1>4 DEF TypeOK
  <1>10. QueueCounted' /\ OneOwner'
    BY <1>2, <1>6, <1>7 DEF QueueCounted, OneOwner
  <1>11. BlockedIsQueued'
    BY <1>3, <1>4, <1>5, <1>6 DEF BlockedIsQueued
  <1>12. QueuedIsBlocked'
    BY <1>3, <1>4, <1>5, <1>6, <1>8 DEF QueuedIsBlocked
  <1>13. ClientsLive'
    <2>1. \A q \in Pids : q = InitPid \/ q \notin Alive(procState') =>
              handles'[q] = {} /\ holds'[q] = {} /\ frame'[q] = NoMutex
      BY <1>5, <1>8 DEF ClientsLive
    <2>2. \A m \in Mutexes : \A q \in Waiting(m)' : procState'[q] # "UNBORN"
      BY <1>3, <1>4, <1>6 DEF ClientsLive, Waiting
    <2>3. /\ \A q \in Pids : holds'[q] \subseteq handles'[q]
          /\ \A q \in Pids : frame'[q] # NoMutex => frame'[q] \in handles'[q]
          /\ \A q \in Pids : \A m \in handles'[q] : used'[m] /\ m # adminMutex
      BY <1>2, <1>5 DEF ClientsLive
    <2> QED BY <1>2, <2>1, <2>2, <2>3 DEF ClientsLive
  <1> QED BY <1>4, <1>9, <1>10, <1>11, <1>12, <1>13

\* The timer tick blocks and wakes nobody.
LEMMA timerTickInv ==
    ASSUME MutexInv, timerTick
    PROVE  MutexInv'
  <1> USE DEF MutexInv
  <1>1. UNCHANGED <<used, name, pidCreator, mutex, queue, cardinalBlocked,
                    handles, holds, frame>>
    BY DEF timerTick, tableVars, lockVars, clientVars
  <1>2. /\ procState' \in [Pids -> States] /\ current' \in Pids
        /\ OneRunning' /\ InitSchedulable'
        /\ \A p \in Pids, s \in {"UNBORN", "BLOCKED", "SLEEPING", "REMOVED"} :
               procState'[p] = s <=> procState[p] = s
    BY ScheduleFacts DEF timerTick, TypeOK, OneRunning, InitSchedulable
  <1>3. \A m \in Mutexes : Waiting(m)' = Waiting(m) /\ Owners(m)' = Owners(m)
    BY <1>1 DEF Waiting, Owners
  <1>4. Alive(procState') = Alive(procState)
    BY <1>2 DEF Alive
  <1>5. TypeOK'
    BY <1>1, <1>2 DEF TypeOK
  <1>6. QueueCounted' /\ OneOwner'
    BY <1>1, <1>3 DEF QueueCounted, OneOwner
  <1>7. BlockedIsQueued' /\ QueuedIsBlocked'
    BY <1>1, <1>2, <1>3, <1>4 DEF BlockedIsQueued, QueuedIsBlocked
  <1>8. ClientsLive'
    <2>1. \A m \in Mutexes : \A p \in Waiting(m)' : procState'[p] # "UNBORN"
      BY <1>2, <1>3 DEF ClientsLive, Waiting
    <2> QED BY <1>1, <1>4, <2>1 DEF ClientsLive
  <1> QED BY <1>2, <1>5, <1>6, <1>7, <1>8

-----------------------------------------------------------------------------
\* Every step of the kernel keeps the invariant.
LEMMA NextInv ==
    ASSUME MutexInv, QueueFits, CleanClose, [Next]_vars
    PROVE  MutexInv'
  <1>1. CASE UNCHANGED vars
    <2>1. TypeOK' /\ InitSchedulable' /\ OneRunning'
      BY <1>1 DEF vars, MutexInv, TypeOK, InitSchedulable, OneRunning
    <2>2. QueueCounted' /\ BlockedIsQueued' /\ OneOwner' /\ QueuedIsBlocked'
      BY <1>1, SameQueues DEF vars
    <2>3. ClientsLive'
      BY <1>1 DEF vars, MutexInv, ClientsLive, Waiting
    <2> QED BY <2>1, <2>2, <2>3 DEF MutexInv
  <1>2. ASSUME NEW n \in Names, getMutex(n) PROVE MutexInv'
    BY <1>2, getMutexInv
  <1>3. ASSUME NEW m \in Mutexes, lockMutex(m) PROVE MutexInv'
    BY <1>3, lockMutexInv
  <1>4. ASSUME NEW m \in Mutexes, lockMutexSuspend(m) PROVE MutexInv'
    BY <1>4, OnlyBlocks, lockMutexBlockInv
  <1>5. ASSUME NEW m \in Mutexes, freeMutex(m) PROVE MutexInv'
    BY <1>5, freeMutexReleaseInv, freeMutexHandOverInv
  <1>6. ASSUME NEW m \in Mutexes, closeMutex(m) PROVE MutexInv'
    BY <1>6, closeMutexInv
  <1>7. CASE lockMutexReturn
    BY <1>7, lockMutexReturnInv
  <1>8. ASSUME NEW p \in Pids, createProcess(p) PROVE MutexInv'
    BY <1>8, createProcessInv
  <1>9. ASSUME NEW p \in Mortal, kill(p) PROVE MutexInv'
    BY <1>9, killInv
  <1>10. CASE timerTick
    BY <1>10, timerTickInv
  <1> QED
    BY <1>1, <1>2, <1>3, <1>4, <1>5, <1>6, <1>7, <1>8, <1>9, <1>10 DEF Next

\* The invariant holds in every reachable state: types, the queue bookkeeping of
\* addToBlocked and unblockProcess, and one owner per mutex.
THEOREM MutexInvariant ==
    ASSUME QueueFits, CleanClose
    PROVE  Spec => []MutexInv
  <1>1. MutexInv /\ [Next]_vars => MutexInv'
    BY NextInv
  <1> QED BY InitInv, <1>1, PTL DEF Spec

\* Mutual exclusion of lockMutex and freeMutex, also when clients are killed in
\* the middle of a critical section or while they wait.
THEOREM MutexSafety ==
    ASSUME QueueFits, CleanClose
    PROVE  Spec => []MutualExclusion
  <1>1. MutexInv => MutualExclusion
    BY DEF MutexInv, OneOwner, Owners, MutualExclusion
  <1> QED BY MutexInvariant, <1>1, PTL

-----------------------------------------------------------------------------
\* As long as nobody was killed, a locked mutex belongs to somebody: to the client
\* lockMutex returned to, or to the waiter freeMutex handed it to.
LockedHasOwner ==
    (\A p \in Pids : procState[p] # "REMOVED") =>
        \A m \in Mutexes : mutex[m] = 1 => Owners(m) # {}

\* Nobody comes back from removeProcess.
LEMMA RemovedStays ==
    ASSUME MutexInv, [Next]_vars, NEW p \in Pids, procState'[p] # "REMOVED"
    PROVE  procState[p] # "REMOVED"
  <1> SUFFICES ASSUME procState[p] = "REMOVED" PROVE procState'[p] = "REMOVED"
    OBVIOUS
  <1> USE DEF changeProcessState, Alive
  <1>1. ASSUME NEW st, st[p] = "REMOVED", schedule(st) PROVE procState'[p] = "REMOVED"
    BY <1>1 DEF schedule, Demoted
  <1>2. ASSUME NEW m \in Mutexes, lockMutexSuspend(m) PROVE procState'[p] = "REMOVED"
    BY <1>1, <1>2 DEF lockMutexSuspend, lockMutexBlock, lockMutexFull
  <1>3. ASSUME NEW m \in Mutexes, freeMutex(m) PROVE procState'[p] = "REMOVED"
    BY <1>3 DEF freeMutex, unblockProcess
  <1>4. ASSUME NEW q \in Pids, createProcess(q) PROVE procState'[p] = "REMOVED"
    BY <1>4 DEF createProcess, MutexInv, TypeOK
  <1>5. ASSUME NEW q \in Mortal, kill(q) PROVE procState'[p] = "REMOVED"
    BY <1>1, <1>5 DEF kill, Removed
  <1>6. CASE timerTick
    BY <1>1, <1>6 DEF timerTick
  <1> QED
    BY <1>2, <1>3, <1>4, <1>5, <1>6
    DEF Next, vars, getMutex, lockMutex, closeMutex, lockMutexReturn

\* A hand-over while nobody was killed: the woken process is alive, so it sits in
\* lockMutex and owns the mutex it is handed.
LEMMA HandOverOwned ==
    ASSUME MutexInv, NEW m \in Mutexes, freeMutex(m), cardinalBlocked[m] > 0,
           \A p \in Pids : procState[p] # "REMOVED"
    PROVE  Owners(m)' # {}
  <1> USE DEF MutexInv
  <1>1. used[m] /\ Occupied(m) # {}
    <2>1. used[m]
      BY CallerFacts, UserCalls DEF freeMutex, ClientsLive
    <2>2. Waiting(m) # {}
      BY FS_EmptySet DEF QueueCounted
    <2> QED BY <2>1, <2>2, PidAssumption DEF Occupied, Waiting
  <1>2. PICK i \in Slots : i \in Occupied(m) /\ queue' = [queue EXCEPT ![m][i] = NoPid]
    BY <1>1 DEF freeMutex, unblockProcess, First
  <1> DEFINE w == queue[m][i]
  <1>3. w \in Waiting(m) /\ w \in Pids /\ w # NoPid
    BY <1>2, PidAssumption DEF Occupied, Waiting, TypeOK
  <1>4. frame'[w] = m
    BY <1>3 DEF freeMutex, ClientsLive, QueuedIsBlocked, Alive
  <1>5. w \notin Waiting(m)'
    <2>1. \A j \in Slots : queue[m][j] = w => j = i
      BY <1>3 DEF QueueCounted
    <2>2. \A j \in Slots : queue'[m][j] = IF j = i THEN NoPid ELSE queue[m][j]
      BY <1>2 DEF TypeOK
    <2> QED BY <1>3, <2>1, <2>2 DEF Waiting
  <1> QED BY <1>3, <1>4, <1>5 DEF Owners

\* Every step keeps a locked mutex owned: lockMutex makes its caller the owner, a
\* process that is queued or comes back from the queue takes no owner away, and
\* freeMutex hands over or clears the lock word.
LEMMA LockedHasOwnerStep ==
    ASSUME MutexInv, QueueFits, CleanClose, LockedHasOwner, [Next]_vars
    PROVE  LockedHasOwner'
  <1> USE DEF MutexInv
  <1> SUFFICES ASSUME \A p \in Pids : procState'[p] # "REMOVED",
                      NEW k \in Mutexes, mutex'[k] = 1
               PROVE  Owners(k)' # {}
    BY DEF LockedHasOwner
  <1>1. \A p \in Pids : procState[p] # "REMOVED"
    BY RemovedStays
  <1>2. mutex[k] = 1 => Owners(k) # {}
    BY <1>1 DEF LockedHasOwner
  <1>3. ASSUME UNCHANGED <<mutex, queue, holds, frame>> PROVE Owners(k)' # {}
    BY <1>2, <1>3 DEF Owners, Waiting
  <1>4. CASE UNCHANGED vars
    BY <1>3, <1>4 DEF vars
  <1>5. ASSUME NEW n \in Names, getMutex(n) PROVE Owners(k)' # {}
    BY <1>3, <1>5 DEF getMutex
  <1>6. ASSUME NEW m \in Mutexes, lockMutex(m) PROVE Owners(k)' # {}
    <2>1. current \in Pids /\ UNCHANGED <<queue, frame>>
      BY <1>6 DEF lockMutex, TypeOK
    <2>2. holds' = [holds EXCEPT ![current] = @ \cup {m}]
      BY <1>6 DEF lockMutex, Acquired
    <2>3. CASE k = m
      BY <2>1, <2>2, <2>3 DEF Owners, TypeOK
    <2>4. CASE k # m
      <3>1. mutex[k] = 1
        BY <1>6, <2>4 DEF lockMutex, TypeOK
      <3> QED BY <1>2, <2>1, <2>2, <3>1 DEF Owners, Waiting, TypeOK
    <2> QED BY <2>3, <2>4
  <1>7. ASSUME NEW m \in Mutexes, lockMutexSuspend(m) PROVE Owners(k)' # {}
    <2>1. lockMutexBlock(m)
      BY <1>7, OnlyBlocks
    <2>2. mutex[k] = 1 /\ holds' = holds /\ frame' = [frame EXCEPT ![current] = m]
      BY <2>1 DEF lockMutexBlock
    <2>3. PICK p \in Owners(k) : TRUE
      BY <1>2, <2>2
    <2>4. PICK i \in Slots : queue' = [queue EXCEPT ![m][i] = current]
      BY <2>1, FreeSlotExists DEF lockMutexBlock, addToBlocked
    <2>5. frame[current] = NoMutex
      BY <2>1, UserCalls DEF lockMutexBlock, Requests
    <2>6. CASE k \in holds[p]
      BY <2>2, <2>3, <2>6 DEF Owners
    <2>7. CASE k \notin holds[p]
      <3>1. p \in Pids /\ frame[p] = k /\ p \notin Waiting(k) /\ p # current
        BY <2>3, <2>5, <2>7 DEF Owners, Mutexes, NoMutex
      <3>2. frame'[p] = k
        BY <2>2, <3>1 DEF TypeOK
      <3>3. p \notin Waiting(k)'
        BY <2>4, <3>1 DEF Waiting, TypeOK
      <3> QED BY <3>1, <3>2, <3>3 DEF Owners
    <2> QED BY <2>6, <2>7
  <1>8. ASSUME NEW m \in Mutexes, freeMutex(m) PROVE Owners(k)' # {}
    <2>1. /\ current \in Pids /\ frame[current] = NoMutex /\ m \in holds[current]
          /\ holds' = [holds EXCEPT ![current] = @ \ {m}] /\ UNCHANGED frame
      BY <1>8, CallerFacts, UserCalls DEF freeMutex
    <2>2. used[m]
      BY <2>1 DEF ClientsLive
    <2>3. CASE k = m
      <3>1. cardinalBlocked[m] > 0
        BY <1>8, <2>2, <2>3 DEF freeMutex, TypeOK
      <3> QED BY <1>1, <1>8, <2>3, <3>1, HandOverOwned
    <2>4. CASE k # m
      <3>1. mutex[k] = 1 /\ queue'[k] = queue[k]
        BY <1>8, <2>4 DEF freeMutex, unblockProcess, TypeOK
      <3>2. Owners(k)' = Owners(k)
        BY <2>1, <2>4, <3>1 DEF Owners, Waiting, TypeOK
      <3> QED BY <1>2, <3>1, <3>2
    <2> QED BY <2>3, <2>4
  <1>9. ASSUME NEW m \in Mutexes, closeMutex(m) PROVE Owners(k)' # {}
    BY <1>3, <1>9 DEF closeMutex
  <1>10. CASE lockMutexReturn
    <2>1. /\ current \in Pids /\ frame[current] \in Mutexes /\ UNCHANGED <<mutex, queue>>
          /\ holds' = [holds EXCEPT ![current] = @ \cup {frame[current]}]
          /\ frame' = [frame EXCEPT ![current] = NoMutex]
      BY <1>10 DEF lockMutexReturn, Acquired, TypeOK
    <2>2. PICK p \in Owners(k) : TRUE
      BY <1>2, <2>1
    <2>3. p \in Owners(k)'
      BY <2>1, <2>2 DEF Owners, Waiting, TypeOK
    <2> QED BY <2>3
  <1>11. ASSUME NEW p \in Pids, createProcess(p) PROVE Owners(k)' # {}
    BY <1>3, <1>11 DEF createProcess, lockVars, clientVars
  <1>12. ASSUME NEW p \in Mortal, kill(p) PROVE FALSE
    <2>1. p \in Pids /\ p \in Alive(procState) /\ p # InitPid
      BY <1>12, MutexAssumption DEF kill
    <2>2. Removed(procState, p)[p] = "REMOVED"
      BY <2>1 DEF Removed, changeProcessState
    <2>3. procState'[p] = "REMOVED"
      BY <1>12, <2>1, <2>2 DEF kill, schedule, Demoted, Removed, changeProcessState
    <2> QED BY <2>1, <2>3
  <1>13. CASE timerTick
    BY <1>3, <1>13 DEF timerTick, lockVars, clientVars
  <1> QED
    BY <1>4, <1>5, <1>6, <1>7, <1>8, <1>9, <1>10, <1>11, <1>12, <1>13 DEF Next

\* No lost wake-up (mutex.c:174-222): while no process was killed, whoever waits for a
\* mutex waits for a process that owns it.
THEOREM MutexNoLostWakeup ==
    ASSUME QueueFits, CleanClose
    PROVE  Spec => []WaiterHasOwner
  <1>1. Init => LockedHasOwner
    BY DEF Init, LockedHasOwner
  <1>2. MutexInv /\ LockedHasOwner /\ [Next]_vars => LockedHasOwner'
    BY LockedHasOwnerStep
  <1>3. MutexInv /\ LockedHasOwner => WaiterHasOwner
    BY DEF MutexInv, TypeOK, OneOwner, LockedHasOwner, WaiterHasOwner
  <1> QED BY MutexInvariant, <1>1, <1>2, <1>3, PTL DEF Spec

-----------------------------------------------------------------------------
\* A step of the mutex module is a step of the process table or leaves it alone:
\* lockMutex suspends its caller, freeMutex wakes the one process it hands the
\* mutex to (nobody, when that process was killed while it waited).
LEMMA StepImplements ==
    ASSUME MutexInv, QueueFits, CleanClose, [Next]_vars
    PROVE  [PTNext]_ptVars
  <1>1. CASE UNCHANGED vars
    BY <1>1 DEF vars, ptVars
  <1>2. ASSUME NEW n \in Names, getMutex(n) PROVE UNCHANGED ptVars
    BY <1>2 DEF getMutex, ptVars
  <1>3. ASSUME NEW m \in Mutexes, lockMutex(m) PROVE UNCHANGED ptVars
    BY <1>3 DEF lockMutex, ptVars
  <1>4. ASSUME NEW m \in Mutexes, lockMutexSuspend(m) PROVE PTSuspend
    <2>1. Calling /\ schedule(changeProcessState(procState, current, "BLOCKED"))
      BY <1>4, OnlyBlocks, UserCalls DEF lockMutexBlock, Requests
    <2>2. current \in Alive(procState)
      BY <2>1, CallerFacts
    <2>3. changeProcessState(procState, current, "BLOCKED")
            = [p \in Pids |-> IF p = current THEN "BLOCKED"
                              ELSE IF p = NoPid THEN "READY" ELSE procState[p]]
      BY <2>2, PidAssumption DEF changeProcessState
    <2> QED BY <2>1, <2>3 DEF PTSuspend
  <1>5. ASSUME NEW m \in Mutexes, freeMutex(m) PROVE PTWake \/ UNCHANGED ptVars
    <2>1. Calling /\ UNCHANGED current
      BY <1>5, UserCalls DEF freeMutex
    <2>2. CASE UNCHANGED procState
      BY <2>1, <2>2 DEF ptVars
    <2>3. CASE procState' # procState
      <3>1. unblockProcess(m)
        BY <1>5, <2>3 DEF freeMutex
      <3>2. PICK i \in Slots : /\ i \in Occupied(m)
                               /\ procState' = changeProcessState(procState, queue[m][i], "READY")
        BY <2>3, <3>1 DEF unblockProcess, First
      <3>3. queue[m][i] \in Pids /\ queue[m][i] \in Waiting(m)
        BY <3>2 DEF Occupied, Waiting, MutexInv, TypeOK
      <3>4. procState \in [Pids -> States]
        BY DEF MutexInv, TypeOK
      <3>5. queue[m][i] \in Alive(procState)
        BY <2>3, <3>2, <3>4 DEF changeProcessState
      <3>6. procState[queue[m][i]] = "BLOCKED"
        BY <3>3, <3>5 DEF MutexInv, QueuedIsBlocked
      <3>7. procState' = [procState EXCEPT ![queue[m][i]] = "READY"]
        BY <3>2, <3>4, <3>5 DEF changeProcessState
      <3> QED BY <2>1, <3>3, <3>6, <3>7 DEF PTWake
    <2> QED BY <2>2, <2>3
  <1>6. ASSUME NEW m \in Mutexes, closeMutex(m) PROVE UNCHANGED ptVars
    BY <1>6 DEF closeMutex, ptVars
  <1>7. CASE lockMutexReturn
    BY <1>7 DEF lockMutexReturn, ptVars
  <1>8. ASSUME NEW p \in Pids, createProcess(p) PROVE PTCreate
    BY <1>8, UserCalls DEF createProcess, PTCreate
  <1>9. ASSUME NEW p \in Mortal, kill(p) PROVE PTKill \/ PTExit
    BY <1>9, MutexAssumption, UserCalls DEF kill, PTKill, PTExit
  <1>10. CASE timerTick
    <2>1. procState = [p \in Pids |-> IF p \in {} THEN "READY" ELSE procState[p]]
      BY DEF MutexInv, TypeOK
    <2>2. schedule(procState)
      BY <1>10 DEF timerTick
    <2>3. schedule([p \in Pids |-> IF p \in {} THEN "READY" ELSE procState[p]])
      BY <2>1, <2>2
    <2>4. {} \in SUBSET {p \in Pids : procState[p] = "SLEEPING"}
      OBVIOUS
    <2>5. PTTick
      BY <2>3, <2>4, Zenon DEF PTTick
    <2> QED BY <2>5 DEF PTNext
  <1> QED
    BY <1>1, <1>2, <1>3, <1>4, <1>5, <1>6, <1>7, <1>8, <1>9, <1>10 DEF Next, PTNext

\* The mutexes implement the process table: what TableInvariant says of the table
\* holds of them.
THEOREM MutexImplementsTable ==
    ASSUME QueueFits, CleanClose
    PROVE  Spec => ImplementsTable
  <1>1. Init => PTInit
    BY DEF Init
  <1>2. MutexInv /\ [Next]_vars => [PTNext]_ptVars
    BY StepImplements
  <1> QED BY MutexInvariant, <1>1, <1>2, PTL DEF Spec, ImplementsTable, PTSpec
-----------------------------------------------------------------------------
(***************************************************************************)
(* Each mutex is a counting semaphore of one token: lockMutex and          *)
(* freeMutex implement wait and signal, and every call takes effect on it  *)
(* at once.                                                                *)
(***************************************************************************)
\* The state of the semaphores a mutex table stands for.
lockTokens == [m \in Mutexes |-> 1 - mutex[m]]
lockQueue == [m \in Mutexes |-> Waiting(m)]

\* At boot no mutex is taken and nobody waits.
LEMMA InitIsCSInit == Init => Lock!CSInit
  <1> SUFFICES ASSUME Init PROVE Lock!CSInit
    OBVIOUS
  <1>1. used \in [Mutexes -> BOOLEAN]
    BY DEF Init
  <1>2. lockTokens \in [Mutexes -> Nat]
    BY DEF Init, lockTokens
  <1>3. lockQueue = [m \in Mutexes |-> {}]
    BY PidAssumption DEF Init, Waiting, lockQueue
  <1> QED BY <1>1, <1>2, <1>3 DEF Lock!CSInit, lockTokens, lockQueue

\* Nobody waits for a mutex that is free, and its counter is 0.
LEMMA FreeHasNoQueue ==
    ASSUME MutexInv, NEW m \in Mutexes
    PROVE  /\ mutex[m] \in {0, 1}
           /\ mutex[m] = 0 => Waiting(m) = {}
           /\ Waiting(m) = {} <=> cardinalBlocked[m] = 0
           /\ cardinalBlocked[m] \in Nat
  <1>1. Waiting(m) = {} <=> cardinalBlocked[m] = 0
    BY WaitingFinite, FS_EmptySet DEF MutexInv, QueueCounted
  <1> QED BY <1>1, WaitingFinite DEF MutexInv, TypeOK, OneOwner, QueueCounted

\* A step that leaves the table, the locks and the queues alone.
LEMMA SameTokens ==
    ASSUME UNCHANGED <<used, mutex, queue>>
    PROVE  UNCHANGED <<used, lockTokens, lockQueue>>
  BY DEF lockTokens, lockQueue, Waiting

\* getMutex that creates a mutex creates a semaphore in a slot without a queue.
LEMMA getMutexCreates ==
    ASSUME MutexInv, NEW n \in Names, getMutex(n)
    PROVE  (\E m \in Mutexes : Lock!Create(m)) \/ UNCHANGED <<used, lockTokens, lockQueue>>
  <1>1. PICK m \in Mutexes :
          IF Named(n) # {} THEN First(m, Named(n)) /\ UNCHANGED tableVars
                           ELSE First(m, Unused) /\ createMutex(m, n)
    BY DEF getMutex
  <1>2. UNCHANGED <<mutex, queue>>
    BY DEF getMutex
  <1>3. CASE Named(n) # {}
    BY <1>1, <1>2, <1>3, SameTokens DEF tableVars
  <1>4. CASE Named(n) = {}
    <2>1. ~used[m] /\ used' = [used EXCEPT ![m] = TRUE]
      BY <1>1, <1>4 DEF First, Unused, createMutex
    <2>2. Waiting(m) = {}
      BY <2>1, FreeHasNoQueue DEF MutexInv, ClientsLive
    <2>3. lockTokens' = lockTokens /\ lockQueue' = lockQueue /\ lockTokens[m] \in Nat
      BY <1>2, FreeHasNoQueue DEF lockTokens, lockQueue, Waiting
    <2>4. lockTokens' = [lockTokens EXCEPT ![m] = lockTokens'[m]]
      BY <2>3 DEF lockTokens
    <2> QED BY <2>1, <2>2, <2>3, <2>4 DEF Lock!Create, lockTokens, lockQueue
  <1> QED BY <1>3, <1>4

\* lockMutex on a free mutex takes its token.
LEMMA lockMutexWaits ==
    ASSUME MutexInv, NEW m \in Mutexes, lockMutex(m)
    PROVE  \E p \in Pids : Lock!Wait(m, p)
  <1>1. used[m] /\ mutex[m] = 0
    BY UserCalls DEF lockMutex, Requests, Acquirable, MutexInv, ClientsLive, TypeOK, Calling
  <1>2. mutex' = [mutex EXCEPT ![m] = 1] /\ UNCHANGED <<used, queue>>
    BY <1>1 DEF lockMutex
  <1>3. Waiting(m) = {} /\ lockQueue' = lockQueue
    BY <1>1, <1>2, FreeHasNoQueue DEF lockQueue, Waiting
  <1>4. lockTokens[m] = 1 /\ lockTokens' = [lockTokens EXCEPT ![m] = @ - 1]
    <2>1. \A k \in Mutexes : lockTokens'[k] = IF k = m THEN lockTokens[k] - 1 ELSE lockTokens[k]
      BY <1>1, <1>2 DEF lockTokens, MutexInv, TypeOK
    <2>2. lockTokens[m] = 1
      BY <1>1 DEF lockTokens
    <2> QED BY <2>1, <2>2 DEF lockTokens
  <1>5. current \in Pids
    BY DEF MutexInv, TypeOK
  <1>6. Lock!Wait(m, current)
    BY <1>1, <1>2, <1>3, <1>4 DEF Lock!Wait, lockTokens, lockQueue
  <1> QED BY <1>5, <1>6 DEF Lock!Wait

\* lockMutex on a taken mutex puts its caller into the queue.
LEMMA lockMutexBlockWaits ==
    ASSUME MutexInv, NEW m \in Mutexes, lockMutexBlock(m)
    PROVE  \E p \in Pids : Lock!Wait(m, p)
  <1>1. current \in Pids /\ current \notin Waiting(m) /\ used[m]
    BY CallerFacts, UserCalls DEF lockMutexBlock, Requests
  <1>2. mutex[m] = 1
    BY FreeHasNoQueue DEF lockMutexBlock, Acquirable
  <1>3. PICK i \in Slots : First(i, Free(m)) /\ queue' = [queue EXCEPT ![m][i] = current]
    BY FreeSlotExists DEF lockMutexBlock, addToBlocked
  <1>4. queue[m][i] = NoPid
    BY <1>3 DEF First, Free
  <1>5. /\ Waiting(m)' = Waiting(m) \cup {current}
        /\ \A k \in Mutexes \ {m} : Waiting(k)' = Waiting(k)
    BY <1>1, <1>3, <1>4, PidAssumption DEF MutexInv, TypeOK, Waiting
  <1>6. lockQueue' = [lockQueue EXCEPT ![m] = @ \cup {current}]
    BY <1>5 DEF lockQueue
  <1>7. UNCHANGED <<used, lockTokens>>
    BY DEF lockMutexBlock, lockTokens
  <1>8. Lock!Wait(m, current)
    BY <1>1, <1>2, <1>6, <1>7 DEF Lock!Wait, lockTokens, lockQueue
  <1> QED BY <1>1, <1>8 DEF Lock!Wait

\* freeMutex wakes one process of the queue, or returns the token.
LEMMA freeMutexSignals ==
    ASSUME MutexInv, NEW m \in Mutexes, freeMutex(m)
    PROVE  Lock!Signal(m)
  <1>1. used[m] /\ current \in Owners(m) /\ mutex[m] = 1
    <2>1. current \in Pids /\ m \in holds[current]
      BY CallerFacts, UserCalls DEF freeMutex
    <2>2. current \in Owners(m)
      BY <2>1 DEF Owners
    <2> QED BY <2>1, <2>2, FreeHasNoQueue DEF MutexInv, ClientsLive, OneOwner
  <1>2. CASE cardinalBlocked[m] > 0
    <2>1. Waiting(m) # {}
      BY <1>2, FreeHasNoQueue
    <2>2. Occupied(m) # {}
      BY <2>1, PidAssumption DEF Occupied, Waiting
    <2>3. PICK i \in Slots : First(i, Occupied(m)) /\ queue' = [queue EXCEPT ![m][i] = NoPid]
      BY <1>1, <1>2, <2>2 DEF freeMutex, unblockProcess
    <2>4. queue[m][i] \in Waiting(m) /\ queue[m][i] # NoPid
      BY <2>3 DEF First, Occupied, Waiting, MutexInv, TypeOK
    <2>5. /\ Waiting(m)' = Waiting(m) \ {queue[m][i]}
          /\ \A k \in Mutexes \ {m} : Waiting(k)' = Waiting(k)
      <3>1. queue \in [Mutexes -> [Slots -> Pids \cup {NoPid}]]
        BY DEF MutexInv, TypeOK
      <3>2. \A j \in Slots : queue'[m][j] = IF j = i THEN NoPid ELSE queue[m][j]
        BY <2>3, <3>1
      <3>3. \A j \in Slots : queue[m][j] = queue[m][i] => j = i
        BY <2>4 DEF MutexInv, QueueCounted
      <3>4. Waiting(m)' = Waiting(m) \ {queue[m][i]}
        BY <3>2, <3>3, PidAssumption DEF Waiting
      <3>5. \A k \in Mutexes \ {m} : queue'[k] = queue[k]
        BY <2>3, <3>1
      <3> QED BY <3>4, <3>5 DEF Waiting
    <2>6. lockQueue' = [lockQueue EXCEPT ![m] = @ \ {queue[m][i]}]
      BY <2>5 DEF lockQueue
    <2>7. UNCHANGED <<used, lockTokens>>
      BY <1>1, <1>2 DEF freeMutex, lockTokens
    <2> QED BY <1>1, <2>1, <2>4, <2>6, <2>7 DEF Lock!Signal, lockTokens, lockQueue
  <1>3. CASE ~(cardinalBlocked[m] > 0)
    <2>1. Waiting(m) = {}
      BY <1>3, FreeHasNoQueue
    <2>2. mutex' = [mutex EXCEPT ![m] = 0] /\ UNCHANGED <<used, queue>>
      BY <1>1, <1>3 DEF freeMutex
    <2>3. \A k \in Mutexes : lockTokens'[k] = IF k = m THEN lockTokens[k] + 1 ELSE lockTokens[k]
      BY <1>1, <2>2 DEF lockTokens, MutexInv, TypeOK
    <2>4. lockTokens' = [lockTokens EXCEPT ![m] = @ + 1] /\ lockQueue' = lockQueue
      BY <2>2, <2>3 DEF lockTokens, lockQueue, Waiting
    <2> QED BY <1>1, <2>1, <2>2, <2>4 DEF Lock!Signal, lockTokens, lockQueue
  <1> QED BY <1>2, <1>3

\* closeMutex of an idle mutex closes a semaphore nobody waits for.
LEMMA closeMutexCloses ==
    ASSUME MutexInv, CleanClose, NEW m \in Mutexes, closeMutex(m)
    PROVE  Lock!Close(m) \/ UNCHANGED <<used, lockTokens, lockQueue>>
  <1>1. UNCHANGED <<mutex, queue>> /\ mutex[m] = 0
    BY DEF closeMutex, Idle
  <1>2. Waiting(m) = {}
    BY <1>1, FreeHasNoQueue
  <1>3. UNCHANGED <<lockTokens, lockQueue>>
    BY <1>1 DEF lockTokens, lockQueue, Waiting
  <1> QED BY <1>2, <1>3 DEF closeMutex, Lock!Close, lockTokens, lockQueue

\* Every step of the mutexes is a step of the semaphores, or leaves them alone.
LEMMA StepIsCSNext ==
    ASSUME MutexInv, QueueFits, CleanClose, [Next]_vars
    PROVE  [Lock!CSNext]_(Lock!csVars)
  <1>1. Lock!csVars = <<used, lockTokens, lockQueue>>
    BY DEF Lock!csVars, lockTokens, lockQueue
  <1>2. ASSUME UNCHANGED <<used, lockTokens, lockQueue>> PROVE UNCHANGED Lock!csVars
    BY <1>2 DEF Lock!csVars, lockTokens, lockQueue
  <1>3. CASE UNCHANGED vars
    BY <1>2, <1>3, SameTokens DEF vars
  <1>4. ASSUME NEW n \in Names, getMutex(n) PROVE Lock!CSNext \/ UNCHANGED Lock!csVars
    BY <1>2, <1>4, getMutexCreates DEF Lock!CSNext
  <1>5. ASSUME NEW m \in Mutexes, lockMutex(m) \/ lockMutexSuspend(m) PROVE Lock!CSNext
    BY <1>5, OnlyBlocks, lockMutexWaits, lockMutexBlockWaits DEF Lock!CSNext
  <1>6. ASSUME NEW m \in Mutexes, freeMutex(m) PROVE Lock!CSNext
    BY <1>6, freeMutexSignals DEF Lock!CSNext
  <1>7. ASSUME NEW m \in Mutexes, closeMutex(m) PROVE Lock!CSNext \/ UNCHANGED Lock!csVars
    BY <1>2, <1>7, closeMutexCloses DEF Lock!CSNext
  <1>8. CASE lockMutexReturn
    BY <1>2, <1>8, SameTokens DEF lockMutexReturn
  <1>9. ASSUME NEW p \in Pids, createProcess(p) PROVE UNCHANGED Lock!csVars
    BY <1>2, <1>9, SameTokens DEF createProcess, tableVars, lockVars
  <1>10. ASSUME NEW p \in Mortal, kill(p) PROVE UNCHANGED Lock!csVars
    BY <1>2, <1>10, SameTokens DEF kill, tableVars, lockVars
  <1>11. CASE timerTick
    BY <1>2, <1>11, SameTokens DEF timerTick, tableVars, lockVars
  <1> QED
    BY <1>3, <1>4, <1>5, <1>6, <1>7, <1>8, <1>9, <1>10, <1>11 DEF Next

\* A mutex is a semaphore of one token (mutex.c:168-222): every call takes effect on
\* it at once, and once, also when a process is killed while it waits or owns.
THEOREM MutexImplementsSemaphore ==
    ASSUME QueueFits, CleanClose
    PROVE  Spec => MutexIsSemaphore
  <1>1. MutexInv /\ [Next]_vars => [Lock!CSNext]_(Lock!csVars)
    BY StepIsCSNext
  <1> QED BY MutexInvariant, InitIsCSInit, <1>1, PTL DEF Spec, MutexIsSemaphore, Lock!CSSpec

-----------------------------------------------------------------------------
(* Semaphores: module Semaphore.                                           *)

\* The loops over the slots of a queue find the first slot of a non-empty set.
LEMMA FirstSlot ==
    ASSUME NEW S \in SUBSET Slots
    PROVE  /\ S # {} => \E i \in Slots : First(i, S)
           /\ \A i, j \in Slots : First(i, S) /\ First(j, S) => i = j
  <1>1. ASSUME S # {} PROVE \E i \in Slots : First(i, S)
    <2>1. S \in SUBSET Nat
      BY DEF Slots
    <2> QED BY <1>1, <2>1, LeastExists DEF First
  <1>2. \A i, j \in Slots : First(i, S) /\ First(j, S) => i = j
    BY DEF First, Slots
  <1> QED BY <1>1, <1>2

\* What a loop over the slots of the queue q finds, if it holds no process twice.
Queues == [Slots -> Pids \cup {NoPid}]
Members(q) == {p \in Pids : \E i \in Slots : q[i] = p}
Once(q) == \A i, j \in Slots : q[i] # NoPid /\ q[i] = q[j] => i = j

\* The processes of a queue form a finite set, no larger than that of all processes.
LEMMA MembersFinite ==
    ASSUME NEW q \in Queues
    PROVE  /\ IsFiniteSet(Members(q)) /\ Cardinality(Members(q)) \in Nat
           /\ Cardinality(Members(q)) =< Cardinality(Pids)
           /\ Cardinality(Pids) \in Nat
           /\ Cardinality(Members(q)) = 0 <=> Members(q) = {}
  <1>1. Members(q) \subseteq Pids
    BY DEF Members
  <1> QED BY <1>1, MutexAssumption, FS_Subset, FS_CardinalityType, FS_EmptySet

\* A queue that a process is not in has a free slot for it.
LEMMA RoomInQueue ==
    ASSUME NEW q \in Queues, Once(q), NEW p \in Pids, p \notin Members(q)
    PROVE  SemFree(q) # {}
  <1> SUFFICES ASSUME SemFree(q) = {} PROVE FALSE
    OBVIOUS
  <1>1. \A i \in Slots : q[i] \in Pids /\ q[i] # NoPid /\ q[i] \in Pids \ {p}
    BY DEF SemFree, Queues, Members
  <1>2. q \in Injection(Slots, Pids \ {p})
    BY <1>1 DEF Queues, Once, Injection, IsInjective
  <1>3. /\ IsFiniteSet(Pids \ {p})
        /\ Cardinality(Pids \ {p}) = Cardinality(Pids) - 1
        /\ Cardinality(Pids) \in Nat
    BY MutexAssumption, FS_RemoveElement, FS_CardinalityType
  <1>4. Cardinality(Slots) = MAX_BLOCKED_QUEUE_SIZE
    BY MutexAssumption, FS_Interval DEF Slots
  <1>5. Cardinality(Slots) =< Cardinality(Pids \ {p})
    BY <1>2, <1>3, FS_Injection
  <1> QED BY <1>3, <1>4, <1>5, MutexAssumption, SemaphoreAssumption

\* Filling the first free slot adds one process to the queue.
LEMMA Enqueued ==
    ASSUME NEW q \in Queues, Once(q), NEW p \in Pids, p \notin Members(q),
           NEW r, r = [i \in Slots |-> IF First(i, SemFree(q)) THEN p ELSE q[i]]
    PROVE  /\ r \in Queues /\ Once(r)
           /\ Members(r) = Members(q) \cup {p}
           /\ Cardinality(Members(r)) = Cardinality(Members(q)) + 1
  <1>1. PICK i \in Slots : First(i, SemFree(q))
    BY RoomInQueue, FirstSlot DEF SemFree
  <1>2. \A j \in Slots : First(j, SemFree(q)) => j = i
    BY <1>1, FirstSlot DEF SemFree
  <1>3. \A j \in Slots : r[j] = IF j = i THEN p ELSE q[j]
    BY <1>1, <1>2
  <1>4. q[i] = NoPid
    BY <1>1 DEF First, SemFree
  <1>5. r \in Queues /\ Once(r)
    BY <1>3, PidAssumption DEF Queues, Once, Members
  <1>6. Members(r) = Members(q) \cup {p}
    BY <1>3, <1>4, PidAssumption DEF Members
  <1> QED BY <1>5, <1>6, MembersFinite, FS_AddElement

\* The process in the first occupied slot of q; emptying that slot removes it.
Lowest(q) == q[CHOOSE i \in Slots : First(i, SemOccupied(q))]

\* signal() and freeMutex() empty the first occupied slot of a queue: who was there, and
\* nobody else, is out of it.
LEMMA Dequeued ==
    ASSUME NEW q \in Queues, Once(q), Members(q) # {},
           NEW r, r = [i \in Slots |-> IF First(i, SemOccupied(q)) THEN NoPid ELSE q[i]]
    PROVE  /\ SemOccupied(q) # {}
           /\ Lowest(q) \in Members(q)
           /\ r \in Queues /\ Once(r)
           /\ Members(r) = Members(q) \ {Lowest(q)}
           /\ Cardinality(Members(r)) = Cardinality(Members(q)) - 1
  <1>1. SemOccupied(q) # {}
    BY PidAssumption DEF Members, SemOccupied
  <1> DEFINE i == CHOOSE k \in Slots : First(k, SemOccupied(q))
  <1>2. i \in Slots /\ First(i, SemOccupied(q))
    BY <1>1, FirstSlot DEF SemOccupied
  <1>3. \A j \in Slots : First(j, SemOccupied(q)) => j = i
    BY <1>2, FirstSlot DEF SemOccupied
  <1> HIDE DEF i
  <1>4. Lowest(q) = q[i]
    BY DEF Lowest, i
  <1>5. q[i] # NoPid /\ q[i] \in Members(q)
    BY <1>2 DEF First, SemOccupied, Members, Queues
  <1>6. \A j \in Slots : r[j] = IF j = i THEN NoPid ELSE q[j]
    BY <1>2, <1>3
  <1>7. r \in Queues /\ Once(r)
    BY <1>6 DEF Queues, Once
  <1>8. Members(r) = Members(q) \ {q[i]}
    <2>1. \A j \in Slots : q[j] = q[i] => j = i
      BY <1>2, <1>5 DEF Once
    <2>2. ASSUME NEW p \in Pids PROVE p \in Members(r) <=> p \in Members(q) /\ p # q[i]
      BY <1>2, <1>6, <2>1, PidAssumption DEF Members
    <2> QED BY <2>2 DEF Members
  <1>9. Cardinality(Members(q) \ {q[i]}) = Cardinality(Members(q)) - 1
    <2>1. IsFiniteSet(Members(q))
      BY MembersFinite
    <2> QED BY <1>5, <2>1, FS_RemoveElement
  <1> QED BY <1>1, <1>4, <1>5, <1>7, <1>8, <1>9

-----------------------------------------------------------------------------
\* What the invariant says about one process: it is queued where its call and its
\* frame say, and only while it is BLOCKED (or dead).
WaitOK(p) ==
    /\ \A m \in Mutexes : p \in Waiting(m) =>
          /\ procState[p] # "UNBORN"
          /\ p \in Alive(procState) => frame[p] = m /\ procState[p] = "BLOCKED"
    /\ \A s \in Sems : p \in SemWaiting(s) =>
          /\ procState[p] # "UNBORN"
          /\ p \in Alive(procState) =>
                call[p] = [op |-> "waitSleep", s |-> s] /\ procState[p] = "BLOCKED"
    /\ procState[p] = "BLOCKED" =>
          \/ call[p].op = "waitSleep" /\ p \in SemWaiting(call[p].s)
          \/ \E m \in Mutexes : frame[p] = m /\ p \in Waiting(m)
    /\ call[p].op = "waitSleep" => frame[p] = NoMutex
    /\ call[p].op \in {"waitLock", "semCreate"} => frame[p] # NoMutex
    /\ call[p].op \in {"waitLock", "waitSleep"} => call[p].s \in semHandles[p]
    /\ \A s \in semHandles[p] : sem[s].used

\* The invariant, process by process.
LEMMA WaitsAgree ==
    SemInv => \A p \in Pids : WaitOK(p)
  BY DEF SemInv, QueuedInLock, QueuedInWait, BlockedHasQueue, CallsMatch, WaitOK

\* The other way round, in the next state.
LEMMA WaitsAgreeNext ==
    ASSUME \A p \in Pids : WaitOK(p)'
    PROVE  QueuedInLock' /\ QueuedInWait' /\ BlockedHasQueue' /\ CallsMatch'
  <1>1. /\ \A m \in Mutexes : Waiting(m)' \subseteq Pids
        /\ \A s \in Sems : SemWaiting(s)' \subseteq Pids
    BY DEF Waiting, SemWaiting
  <1>2. QueuedInLock'
    BY <1>1 DEF QueuedInLock, WaitOK
  <1>3. QueuedInWait'
    BY <1>1 DEF QueuedInWait, WaitOK
  <1>4. BlockedHasQueue'
    BY DEF BlockedHasQueue, WaitOK
  <1>5. CallsMatch'
    BY DEF CallsMatch, WaitOK
  <1> QED BY <1>2, <1>3, <1>4, <1>5

\* The waiting sets are the members of the queues, which hold no process twice.
LEMMA WaitingMembers ==
    ASSUME SemInv
    PROVE  /\ \A m \in Mutexes : /\ Waiting(m) = Members(queue[m])
                                 /\ queue[m] \in Queues /\ Once(queue[m])
           /\ \A s \in Sems : /\ SemWaiting(s) = Members(sem[s].queue)
                              /\ sem[s].queue \in Queues /\ Once(sem[s].queue)
  <1>1. /\ \A m \in Mutexes : queue[m] \in Queues
        /\ \A s \in Sems : sem[s].queue \in Queues
    BY DEF SemInv, TablesOK, SemTypeOK, Queues
  <1>2. /\ \A m \in Mutexes : Once(queue[m])
        /\ \A s \in Sems : Once(sem[s].queue)
    BY DEF SemInv, QueueCounted, SemQueueOnce, Once
  <1> QED BY <1>1, <1>2 DEF Waiting, SemWaiting, Members

\* A process inside a system call is RUNNING, is not init, and is in no queue.
LEMMA SemCallerFacts ==
    ASSUME SemInv, Calling
    PROVE  /\ current \in Pids /\ current # InitPid /\ current # NoPid
           /\ current \in Alive(procState) /\ procState[current] = "RUNNING"
           /\ \A m \in Mutexes : current \notin Waiting(m)
           /\ \A s \in Sems : current \notin SemWaiting(s)
  <1>1. current \in Pids /\ current # NoPid /\ procState[current] = "RUNNING"
    BY PidAssumption DEF SemInv, TablesOK, Calling
  <1>2. current \in Alive(procState)
    BY <1>1 DEF Alive
  <1> QED BY <1>1, <1>2 DEF SemInv, QueuedInLock, QueuedInWait, Calling

-----------------------------------------------------------------------------
\* addToBlocked of a process that is in no queue.
LEMMA MutexEnqueue ==
    ASSUME SemInv, NEW m \in Mutexes, NEW p \in Pids, p \notin Waiting(m), addToBlocked(m, p)
    PROVE  /\ queue' \in [Mutexes -> [Slots -> Pids \cup {NoPid}]]
           /\ cardinalBlocked' \in [Mutexes -> 0 .. Cardinality(Pids)]
           /\ QueueCounted'
           /\ Waiting(m)' = Waiting(m) \cup {p}
           /\ \A k \in Mutexes \ {m} : Waiting(k)' = Waiting(k)
  <1> DEFINE q == queue[m]
             r == [i \in Slots |-> IF First(i, SemFree(q)) THEN p ELSE q[i]]
  <1>1. q \in Queues /\ Once(q) /\ p \notin Members(q)
    BY WaitingMembers
  <1>2. /\ r \in Queues /\ Once(r)
        /\ Members(r) = Members(q) \cup {p}
        /\ Cardinality(Members(r)) = Cardinality(Members(q)) + 1
    <2> HIDE DEF q
    <2> QED BY <1>1, Enqueued
  <1>3. Free(m) = SemFree(q)
    BY DEF Free, SemFree
  <1>4. Free(m) # {}
    BY <1>1, <1>3, RoomInQueue
  <1>5. PICK i \in Slots : First(i, Free(m)) /\ queue' = [queue EXCEPT ![m][i] = p]
    BY <1>4 DEF addToBlocked
  <1>6. cardinalBlocked' = [cardinalBlocked EXCEPT ![m] = @ + 1]
    BY <1>4 DEF addToBlocked
  <1>7. \A j \in Slots : First(j, SemFree(q)) <=> j = i
    BY <1>3, <1>5, FirstSlot DEF SemFree
  <1>8. queue' = [queue EXCEPT ![m] = r]
    <2>1. queue \in [Mutexes -> [Slots -> Pids \cup {NoPid}]]
      BY DEF SemInv, TablesOK
    <2>2. r = [q EXCEPT ![i] = p]
      BY <1>1, <1>7 DEF Queues
    <2> HIDE DEF r
    <2> QED BY <1>5, <2>1, <2>2
  <1> HIDE DEF r
  <1>9. /\ queue'[m] = r
        /\ \A k \in Mutexes \ {m} : queue'[k] = queue[k]
        /\ queue' \in [Mutexes -> [Slots -> Pids \cup {NoPid}]]
    BY <1>2, <1>8 DEF SemInv, TablesOK, Queues
  <1>10. /\ Waiting(m)' = Members(r)
         /\ \A k \in Mutexes \ {m} : Waiting(k)' = Waiting(k)
    BY <1>9 DEF Waiting, Members
  <1>11. cardinalBlocked'[m] = Cardinality(Members(r))
    BY <1>2, <1>6, WaitingMembers DEF SemInv, SemTypeOK, QueueCounted
  <1>12. cardinalBlocked' \in [Mutexes -> 0 .. Cardinality(Pids)]
    <2>1. Cardinality(Members(r)) \in 0 .. Cardinality(Pids)
      <3>1. r \in Queues
        BY <1>2
      <3> QED BY <3>1, MembersFinite
    <2>2. cardinalBlocked \in [Mutexes -> 0 .. Cardinality(Pids)]
      BY DEF SemInv, SemTypeOK
    <2> QED BY <1>6, <1>11, <2>1, <2>2
  <1>13. QueueCounted'
    <2>1. \A k \in Mutexes : cardinalBlocked'[k] = Cardinality(Waiting(k)')
      BY <1>6, <1>10, <1>11 DEF SemInv, SemTypeOK, QueueCounted
    <2>2. \A k \in Mutexes : Once(queue'[k])
      BY <1>2, <1>9, WaitingMembers
    <2> QED BY <2>1, <2>2 DEF QueueCounted, Once
  <1> QED BY <1>2, <1>9, <1>10, <1>12, <1>13, WaitingMembers

\* freeMutex inside wait: the process it wakes leaves the queue, and no other.
LEMMA MutexDequeue ==
    ASSUME SemInv, NEW m \in Mutexes, freeInTable(m)
    PROVE  /\ mutex' \in [Mutexes -> {0, 1}]
           /\ queue' \in [Mutexes -> [Slots -> Pids \cup {NoPid}]]
           /\ cardinalBlocked' \in [Mutexes -> 0 .. Cardinality(Pids)]
           /\ QueueCounted'
           /\ Woken(m) = NoPid \/ Woken(m) \in Waiting(m)
           /\ Waiting(m)' = Waiting(m) \ {Woken(m)}
           /\ \A k \in Mutexes \ {m} : Waiting(k)' = Waiting(k)
  <1> DEFINE q == queue[m]
             r == [i \in Slots |-> IF First(i, SemOccupied(q)) THEN NoPid ELSE q[i]]
  <1>1. q \in Queues /\ Once(q) /\ Waiting(m) = Members(q)
    BY WaitingMembers
  <1>2. cardinalBlocked[m] = Cardinality(Members(q)) /\ NoPid \notin Waiting(m)
    BY <1>1, PidAssumption DEF SemInv, QueueCounted, Waiting
  <1>3. CASE used[m] /\ cardinalBlocked[m] > 0
    <2>1. Members(q) # {}
      BY <1>1, <1>2, <1>3, MembersFinite
    <2>2. /\ SemOccupied(q) # {}
          /\ Lowest(q) \in Members(q)
          /\ r \in Queues /\ Once(r)
          /\ Members(r) = Members(q) \ {Lowest(q)}
          /\ Cardinality(Members(r)) = Cardinality(Members(q)) - 1
      <3> HIDE DEF q
      <3> QED BY <1>1, <2>1, Dequeued
    <2>3. Occupied(m) = SemOccupied(q)
      BY DEF Occupied, SemOccupied
    <2>4. Woken(m) = Lowest(q)
      BY <1>3, <2>2, <2>3 DEF Woken, Lowest
    <2>5. /\ queue' = [queue EXCEPT ![m] = r]
          /\ cardinalBlocked' = [cardinalBlocked EXCEPT ![m] = @ - 1]
          /\ mutex' = mutex
      BY <1>3, <2>3 DEF freeInTable
    <2> HIDE DEF r
    <2>6. /\ queue'[m] = r
          /\ \A k \in Mutexes \ {m} : queue'[k] = queue[k]
          /\ queue' \in [Mutexes -> [Slots -> Pids \cup {NoPid}]]
      BY <2>2, <2>5 DEF SemInv, TablesOK, Queues
    <2>7. /\ Waiting(m)' = Members(r)
          /\ \A k \in Mutexes \ {m} : Waiting(k)' = Waiting(k)
      BY <2>6 DEF Waiting, Members
    <2>8. cardinalBlocked'[m] = Cardinality(Members(r))
      BY <1>2, <2>2, <2>5 DEF SemInv, SemTypeOK
    <2>9. cardinalBlocked' \in [Mutexes -> 0 .. Cardinality(Pids)]
      <3>1. Cardinality(Members(r)) \in 0 .. Cardinality(Pids)
        BY <2>2, MembersFinite
      <3>2. cardinalBlocked \in [Mutexes -> 0 .. Cardinality(Pids)]
        BY DEF SemInv, SemTypeOK
      <3> QED BY <2>5, <2>8, <3>1, <3>2
    <2>10. QueueCounted'
      <3>1. \A k \in Mutexes : cardinalBlocked'[k] = Cardinality(Waiting(k)')
        BY <2>5, <2>7, <2>8 DEF SemInv, SemTypeOK, QueueCounted
      <3>2. \A k \in Mutexes : Once(queue'[k])
        BY <2>2, <2>6, WaitingMembers
      <3> QED BY <3>1, <3>2 DEF QueueCounted, Once
    <2>11. mutex' \in [Mutexes -> {0, 1}]
      BY <2>5 DEF SemInv, TablesOK
    <2> QED BY <1>1, <2>2, <2>4, <2>6, <2>7, <2>9, <2>10, <2>11
  <1>4. CASE ~(used[m] /\ cardinalBlocked[m] > 0)
    <2>1. Woken(m) = NoPid
      BY <1>4 DEF Woken
    <2>2. UNCHANGED <<queue, cardinalBlocked>> /\ mutex' \in [Mutexes -> {0, 1}]
      BY <1>4 DEF freeInTable, SemInv, TablesOK
    <2>3. \A k \in Mutexes : Waiting(k)' = Waiting(k)
      BY <2>2 DEF Waiting
    <2>4. QueueCounted'
      BY <2>2, <2>3 DEF SemInv, QueueCounted
    <2> QED BY <1>2, <2>1, <2>2, <2>3, <2>4 DEF SemInv, SemTypeOK, TablesOK
  <1> QED BY <1>3, <1>4

-----------------------------------------------------------------------------
\* What a call of the kernel may do to the process table.
TableOK == procState \in [Pids -> States] /\ current \in Pids /\ OneRunning /\ InitSchedulable

\* freeMutex and signal make at most one BLOCKED process READY.
LEMMA WakeFacts ==
    ASSUME SemInv, Calling, NEW w \in Pids \cup {NoPid},
           w \in Alive(procState) => procState[w] = "BLOCKED",
           procState' = changeProcessState(procState, w, "READY"), current' = current
    PROVE  /\ TableOK' /\ Alive(procState') = Alive(procState)
           /\ \A p \in Pids :
                 /\ procState'[p] = "BLOCKED" <=> procState[p] = "BLOCKED" /\ p # w
                 /\ procState'[p] = "UNBORN" <=> procState[p] = "UNBORN"
  <1>1. procState \in [Pids -> States] /\ current \in Pids
    BY DEF SemInv, SemTypeOK, TablesOK
  <1>2. \A p \in Pids : procState'[p] =
            IF p = w /\ p \in Alive(procState) THEN "READY" ELSE procState[p]
    BY DEF changeProcessState
  <1>3. procState' \in [Pids -> States]
    BY <1>1 DEF changeProcessState, States
  <1>4. \A p \in Pids :
            /\ procState'[p] = "BLOCKED" <=> procState[p] = "BLOCKED" /\ p # w
            /\ procState'[p] = "UNBORN" <=> procState[p] = "UNBORN"
    BY <1>2 DEF Alive
  <1>5. Alive(procState') = Alive(procState)
    BY <1>2 DEF Alive
  <1>6. OneRunning' /\ InitSchedulable'
    BY <1>1, <1>2, PidAssumption DEF SemInv, Calling, OneRunning, InitSchedulable
  <1> QED BY <1>1, <1>3, <1>4, <1>5, <1>6 DEF TableOK

\* A call that suspends its caller, perhaps after it woke a BLOCKED process.
LEMMA SuspendFacts ==
    ASSUME SemInv, Calling, NEW w \in Pids \cup {NoPid},
           w \in Alive(procState) => procState[w] = "BLOCKED",
           schedule(changeProcessState(changeProcessState(procState, current, "BLOCKED"),
                                       w, "READY"))
    PROVE  /\ TableOK' /\ Alive(procState') = Alive(procState)
           /\ \A p \in Pids :
                 /\ procState'[p] = "BLOCKED" <=>
                       p = current \/ (procState[p] = "BLOCKED" /\ p # w)
                 /\ procState'[p] = "UNBORN" <=> procState[p] = "UNBORN"
  <1> DEFINE st == changeProcessState(changeProcessState(procState, current, "BLOCKED"),
                                      w, "READY")
  <1>1. /\ procState \in [Pids -> States] /\ current \in Pids /\ current # InitPid
        /\ current \in Alive(procState) /\ procState[current] = "RUNNING"
    BY SemCallerFacts DEF SemInv, SemTypeOK
  <1>2. \A p \in Pids : st[p] = IF p = current THEN "BLOCKED"
                                ELSE IF p = w /\ p \in Alive(procState) THEN "READY"
                                ELSE procState[p]
    BY <1>1 DEF changeProcessState, Alive
  <1>3. st \in [Pids -> States]
    BY <1>1 DEF changeProcessState, States
  <1>4. \A p \in Pids : st[p] = "RUNNING" => p = current
    BY <1>2 DEF SemInv, OneRunning
  <1>5. st[InitPid] \in {"READY", "RUNNING"}
    BY <1>1, <1>2, PidAssumption DEF SemInv, InitSchedulable
  <1>6. schedule(st)
    OBVIOUS
  <1> HIDE DEF st
  <1>7. /\ procState' \in [Pids -> States] /\ current' \in Pids
        /\ OneRunning' /\ InitSchedulable'
        /\ \A p \in Pids, s \in {"UNBORN", "BLOCKED", "SLEEPING", "REMOVED"} :
               procState'[p] = s <=> st[p] = s
    BY <1>1, <1>3, <1>4, <1>5, <1>6, ScheduleFacts
  <1>8. \A p \in Pids :
            /\ procState'[p] = "BLOCKED" <=> p = current \/ (procState[p] = "BLOCKED" /\ p # w)
            /\ procState'[p] = "UNBORN" <=> procState[p] = "UNBORN"
            /\ procState'[p] = "REMOVED" <=> procState[p] = "REMOVED"
    BY <1>1, <1>2, <1>7 DEF Alive
  <1>9. Alive(procState') = Alive(procState)
    BY <1>8 DEF Alive
  <1> QED BY <1>7, <1>8, <1>9 DEF TableOK

\* A call that suspends its caller and wakes nobody.
LEMMA SuspendOnly ==
    ASSUME SemInv, schedule(changeProcessState(procState, current, "BLOCKED"))
    PROVE  schedule(changeProcessState(changeProcessState(procState, current, "BLOCKED"),
                                       NoPid, "READY"))
  <1> DEFINE st == changeProcessState(procState, current, "BLOCKED")
  <1>1. st = changeProcessState(st, NoPid, "READY")
    BY PidAssumption DEF changeProcessState
  <1> QED BY <1>1

-----------------------------------------------------------------------------
\* A live process is in one queue at most.
LEMMA OneQueueOnly ==
    ASSUME SemInv, NEW p \in Alive(procState)
    PROVE  /\ \A m \in Mutexes : p \in Waiting(m) =>
                  /\ \A k \in Mutexes \ {m} : p \notin Waiting(k)
                  /\ \A s \in Sems : p \notin SemWaiting(s)
           /\ \A s \in Sems : p \in SemWaiting(s) =>
                  /\ \A t \in Sems \ {s} : p \notin SemWaiting(t)
                  /\ \A m \in Mutexes : p \notin Waiting(m)
  <1>1. p \in Pids
    BY DEF Alive
  <1>2. WaitOK(p)
    BY <1>1, WaitsAgree
  <1>3. NoMutex \notin Mutexes
    BY DEF NoMutex, Mutexes
  <1>4. \A m \in Mutexes : p \in Waiting(m) => frame[p] = m
    BY <1>2 DEF WaitOK
  <1>5. \A s \in Sems : p \in SemWaiting(s) => call[p] = [op |-> "waitSleep", s |-> s]
    BY <1>2 DEF WaitOK
  <1>6. \A s \in Sems : p \in SemWaiting(s) =>
            call[p].op = "waitSleep" /\ call[p].s = s /\ frame[p] = NoMutex
    <2>1. call[p].op = "waitSleep" => frame[p] = NoMutex
      BY <1>2 DEF WaitOK
    <2>2. ASSUME NEW s \in Sems, p \in SemWaiting(s)
          PROVE  call[p].op = "waitSleep" /\ call[p].s = s
      <3>1. call[p] = [op |-> "waitSleep", s |-> s]
        BY <1>5, <2>2
      <3> QED BY <3>1
    <2> QED BY <2>1, <2>2
  <1> QED BY <1>3, <1>4, <1>6

\* A process whose state, queues, frame and call a step leaves alone.
LEMMA Unmoved ==
    ASSUME SemInv, NEW p \in Pids,
           \A m \in Mutexes : p \in Waiting(m)' <=> p \in Waiting(m),
           \A s \in Sems : p \in SemWaiting(s)' <=> p \in SemWaiting(s),
           p \in Alive(procState') <=> p \in Alive(procState),
           procState'[p] = "BLOCKED" <=> procState[p] = "BLOCKED",
           procState'[p] = "UNBORN" <=> procState[p] = "UNBORN",
           frame'[p] = frame[p], call'[p] = call[p],
           semHandles[p] \subseteq semHandles'[p],
           \A s \in semHandles'[p] : sem'[s].used
    PROVE  WaitOK(p)'
  <1>1. call[p].s \in Sems
    BY DEF SemInv, SemTypeOK, Calls
  <1>2. WaitOK(p)
    BY WaitsAgree
  <1> QED BY <1>1, <1>2 DEF WaitOK

\* A process that was woken, or that would have been, had it not been killed.
LEMMA Awakened ==
    ASSUME SemInv, NEW p \in Pids,
           \A m \in Mutexes : p \in Waiting(m)' => p \in Waiting(m),
           \A s \in Sems : p \in SemWaiting(s)' => p \in SemWaiting(s),
           p \in Alive(procState) =>
               /\ \A m \in Mutexes : p \notin Waiting(m)'
               /\ \A s \in Sems : p \notin SemWaiting(s)',
           p \in Alive(procState') <=> p \in Alive(procState),
           procState'[p] # "BLOCKED",
           procState'[p] = "UNBORN" <=> procState[p] = "UNBORN",
           frame'[p] = frame[p], call'[p] = call[p], semHandles'[p] = semHandles[p],
           \A s \in semHandles[p] : sem'[s].used
    PROVE  WaitOK(p)'
  <1>1. WaitOK(p)
    BY WaitsAgree
  <1> QED BY <1>1 DEF WaitOK

\* The parts of the invariant about semaphores, when no semaphore changes.
LEMMA SameSems ==
    ASSUME SemInv, UNCHANGED <<sem, given, taken>>
    PROVE  /\ \A s \in Sems : SemWaiting(s)' = SemWaiting(s)
           /\ SemQueueOnce' /\ NegativeIsQueue' /\ TokensConserved'
  <1>1. \A s \in Sems : SemWaiting(s)' = SemWaiting(s)
    BY DEF SemWaiting
  <1> QED BY <1>1 DEF SemInv, SemQueueOnce, NegativeIsQueue, TokensConserved

\* The queues of the mutexes, when none changes.
LEMMA SameLocks ==
    ASSUME SemInv, UNCHANGED <<queue, cardinalBlocked>>
    PROVE  QueueCounted' /\ \A m \in Mutexes : Waiting(m)' = Waiting(m)
  <1>1. \A m \in Mutexes : Waiting(m)' = Waiting(m)
    BY DEF Waiting
  <1> QED BY <1>1 DEF SemInv, QueueCounted

-----------------------------------------------------------------------------
\* The parts of the invariant about the semaphores alone.
SemRec == [used : BOOLEAN, name : Names \cup {NoName}, mutex : Mutexes,
           semaphore : -Cardinality(Pids) .. MaxGiven,
           queue : Queues,
           cardinalBlocked : 0 .. Cardinality(Pids),
           pidCreator : Pids \cup {NoPid}]

SemsOK ==
    /\ sem \in [Sems -> SemRec]
    /\ given \in [Sems -> 0 .. MaxGiven]
    /\ taken \in [Sems -> Nat]
    /\ SemQueueOnce /\ NegativeIsQueue /\ TokensConserved

\* What SemInv says of the semaphores.
LEMMA SemsAgree == SemInv => SemsOK
  BY DEF SemInv, SemTypeOK, SemsOK, SemRec, Queues

\* One semaphore changes: it is enough to look at that one.
LEMMA OneSemChanges ==
    ASSUME SemInv, NEW s \in Sems,
           sem' = [sem EXCEPT ![s] = sem'[s]], sem'[s] \in SemRec,
           given' = [given EXCEPT ![s] = given'[s]], given'[s] \in 0 .. MaxGiven,
           taken' = [taken EXCEPT ![s] = taken'[s]], taken'[s] \in Nat,
           Once(sem'[s].queue),
           ~sem'[s].used => Members(sem'[s].queue) = {} /\ sem'[s].cardinalBlocked = 0,
           sem'[s].used =>
               /\ sem'[s].cardinalBlocked = Cardinality(Members(sem'[s].queue))
               /\ sem'[s].cardinalBlocked =
                     (IF sem'[s].semaphore < 0 THEN -sem'[s].semaphore ELSE 0)
               /\ given'[s] - taken'[s] =
                     sem'[s].semaphore + Cardinality(Members(sem'[s].queue))
    PROVE  /\ SemsOK'
           /\ SemWaiting(s)' = Members(sem'[s].queue)
           /\ \A u \in Sems \ {s} : sem'[u] = sem[u] /\ SemWaiting(u)' = SemWaiting(u)
  <1> USE SemsAgree DEF SemsOK
  <1>1. /\ sem' \in [Sems -> SemRec]
        /\ given' \in [Sems -> 0 .. MaxGiven]
        /\ taken' \in [Sems -> Nat]
    OBVIOUS
  <1>2. \A u \in Sems \ {s} : sem'[u] = sem[u] /\ given'[u] = given[u] /\ taken'[u] = taken[u]
    OBVIOUS
  <1>3. /\ SemWaiting(s)' = Members(sem'[s].queue)
        /\ \A u \in Sems \ {s} : SemWaiting(u)' = SemWaiting(u)
    BY <1>2 DEF SemWaiting, Members
  <1>4. SemQueueOnce'
    BY <1>2, <1>3 DEF SemQueueOnce, Once
  <1>5. NegativeIsQueue'
    BY <1>2, <1>3 DEF NegativeIsQueue
  <1>6. TokensConserved'
    BY <1>2, <1>3 DEF TokensConserved
  <1> QED BY <1>1, <1>2, <1>3, <1>4, <1>5, <1>6

\* There are finitely many processes.
LEMMA CardPids == Cardinality(Pids) \in Nat
  BY MutexAssumption, FS_CardinalityType

\* What is known of the semaphore in slot s.
LEMMA SemFacts ==
    ASSUME SemInv, NEW s \in Sems
    PROVE  /\ sem[s] \in SemRec /\ given[s] \in 0 .. MaxGiven /\ taken[s] \in Nat
           /\ MaxGiven \in Nat
           /\ sem[s].queue \in Queues /\ Once(sem[s].queue)
           /\ SemWaiting(s) = Members(sem[s].queue)
           /\ ~sem[s].used => Members(sem[s].queue) = {} /\ sem[s].cardinalBlocked = 0
           /\ sem[s].used =>
                 /\ sem[s].cardinalBlocked = Cardinality(Members(sem[s].queue))
                 /\ sem[s].cardinalBlocked =
                       (IF sem[s].semaphore < 0 THEN -sem[s].semaphore ELSE 0)
                 /\ given[s] - taken[s] = sem[s].semaphore + Cardinality(Members(sem[s].queue))
  BY SemsAgree, WaitingMembers, SemaphoreAssumption
  DEF SemsOK, SemQueueOnce, NegativeIsQueue, TokensConserved

\* A wait that finds a token takes it.
LEMMA SemTakes ==
    ASSUME SemInv, NEW s \in Sems, sem[s].used, HasToken(s),
           NEW w, waitBody(s, w), given' = given
    PROVE  /\ SemsOK'
           /\ \A u \in Sems : (sem'[u].used <=> sem[u].used) /\ SemWaiting(u)' = SemWaiting(u)
  <1> DEFINE r == sem[s]
             v == r.semaphore - 1
  <1>1. r \in SemRec
    BY SemFacts
  <1>2. r.semaphore \in Int /\ r.semaphore > 0 /\ v \in 0 .. MaxGiven
    BY <1>1, CardPids, SemFacts DEF SemRec, HasToken
  <1>3. v \in -Cardinality(Pids) .. MaxGiven
    BY <1>2, CardPids
  <1>4. /\ sem' = [sem EXCEPT ![s] = sem'[s]] /\ sem'[s] = [r EXCEPT !.semaphore = v]
        /\ given' = [given EXCEPT ![s] = given'[s]] /\ given'[s] = given[s]
        /\ taken' = [taken EXCEPT ![s] = taken'[s]] /\ taken'[s] = taken[s] + 1
    BY SemsAgree DEF SemsOK, waitBody
  <1>5. /\ sem'[s] \in SemRec /\ sem'[s].used /\ sem'[s].queue = r.queue
        /\ sem'[s].cardinalBlocked = r.cardinalBlocked /\ sem'[s].semaphore = v
    <2>1. sem'[s] = [r EXCEPT !.semaphore = v]
      BY <1>4
    <2>2. r.used
      OBVIOUS
    <2> HIDE DEF r, v
    <2> QED BY <1>1, <1>3, <2>1, <2>2 DEF SemRec
  <1>6. /\ r.cardinalBlocked = Cardinality(Members(r.queue)) /\ r.cardinalBlocked = 0
        /\ given[s] - taken[s] = r.semaphore + 0
    <2>1. r.cardinalBlocked = Cardinality(Members(r.queue)) /\ r.cardinalBlocked = 0
      BY <1>2, SemFacts
    <2> QED BY <2>1, SemFacts
  <1>7. /\ given'[s] \in 0 .. MaxGiven /\ taken'[s] \in Nat /\ Once(sem'[s].queue)
        /\ sem'[s].cardinalBlocked = Cardinality(Members(sem'[s].queue))
        /\ sem'[s].cardinalBlocked = (IF sem'[s].semaphore < 0 THEN -sem'[s].semaphore ELSE 0)
        /\ given'[s] - taken'[s] = sem'[s].semaphore + Cardinality(Members(sem'[s].queue))
    <2>1. given[s] \in 0 .. MaxGiven /\ taken[s] \in Nat /\ Once(r.queue)
      BY SemFacts
    <2>2. given'[s] = given[s] /\ taken'[s] = taken[s] + 1
      BY <1>4
    <2> QED BY <1>2, <1>5, <1>6, <2>1, <2>2
  <1>8. /\ SemsOK' /\ SemWaiting(s)' = Members(sem'[s].queue)
        /\ \A u \in Sems \ {s} : sem'[u] = sem[u] /\ SemWaiting(u)' = SemWaiting(u)
    BY <1>4, <1>5, <1>7, OneSemChanges
  <1>9. \A u \in Sems : sem'[u].used <=> sem[u].used
    BY <1>5, <1>8
  <1>10. \A u \in Sems : SemWaiting(u)' = SemWaiting(u)
    BY <1>5, <1>8, SemFacts
  <1> QED BY <1>8, <1>9, <1>10

\* A semaphore without a token counts its queue below zero.
LEMMA NoToken ==
    ASSUME SemInv, NEW s \in Sems, sem[s].used, ~HasToken(s)
    PROVE  /\ sem[s].semaphore = -Cardinality(SemWaiting(s))
           /\ sem[s].cardinalBlocked = Cardinality(SemWaiting(s))
           /\ given[s] - taken[s] = 0
           /\ Cardinality(SemWaiting(s)) \in Nat
  <1>1. Cardinality(SemWaiting(s)) \in Nat
    BY SemFacts, MembersFinite
  <1>2. sem[s].semaphore \in Int /\ sem[s].semaphore =< 0
    BY SemFacts, CardPids DEF SemRec, HasToken
  <1> QED BY <1>1, <1>2, SemFacts

\* A wait that finds none is queued, and the value counts it.
LEMMA SemEnqueues ==
    ASSUME SemInv, Calling, NEW s \in Sems, sem[s].used, ~HasToken(s),
           NEW w, waitBody(s, w), given' = given
    PROVE  /\ SemsOK'
           /\ SemWaiting(s)' = SemWaiting(s) \cup {current}
           /\ \A u \in Sems \ {s} : SemWaiting(u)' = SemWaiting(u)
           /\ \A u \in Sems : (sem'[u].used <=> sem[u].used)
  <1> DEFINE r == sem[s]
             q == [i \in Slots |-> IF First(i, SemFree(r.queue)) THEN current ELSE r.queue[i]]
             c == r.cardinalBlocked + 1
             v == r.semaphore - 1
  <1>1. /\ r \in SemRec /\ r.queue \in Queues /\ Once(r.queue)
        /\ current \in Pids /\ current \notin Members(r.queue)
    BY SemFacts, SemCallerFacts
  <1>2. /\ q \in Queues /\ Once(q)
        /\ Members(q) = SemWaiting(s) \cup {current}
        /\ Cardinality(Members(q)) = Cardinality(SemWaiting(s)) + 1
    <2> HIDE DEF r
    <2>1. /\ q \in Queues /\ Once(q)
          /\ Members(q) = Members(r.queue) \cup {current}
          /\ Cardinality(Members(q)) = Cardinality(Members(r.queue)) + 1
      BY <1>1, Enqueued
    <2> QED BY <2>1, SemFacts DEF r
  <1>3. SemFree(r.queue) # {}
    BY <1>1, RoomInQueue
  <1>4. sem' = [sem EXCEPT ![s] = [addToSemBlocked(s, current) EXCEPT !.semaphore = @ - 1]]
    BY DEF waitBody
  <1>5. addToSemBlocked(s, current) = [r EXCEPT !.queue = q, !.cardinalBlocked = c]
    BY <1>3 DEF addToSemBlocked
  <1> HIDE DEF q
  <1>6. Cardinality(Members(q)) \in 0 .. Cardinality(Pids)
    <2>1. q \in Queues
      BY <1>2
    <2> QED BY <2>1, MembersFinite
  <1>7. /\ c = Cardinality(Members(q)) /\ v = -Cardinality(Members(q))
        /\ c \in 0 .. Cardinality(Pids) /\ v \in -Cardinality(Pids) .. MaxGiven
    BY <1>2, <1>6, NoToken, CardPids, SemFacts
  <1>8. /\ sem' = [sem EXCEPT ![s] = sem'[s]]
        /\ sem'[s] = [r EXCEPT !.queue = q, !.cardinalBlocked = c, !.semaphore = v]
    BY <1>1, <1>4, <1>5, SemsAgree DEF SemsOK, SemRec
  <1>9. /\ given' = [given EXCEPT ![s] = given'[s]] /\ given'[s] = given[s]
        /\ taken' = [taken EXCEPT ![s] = taken'[s]] /\ taken'[s] = taken[s]
    BY SemsAgree DEF SemsOK, waitBody
  <1>10. /\ sem'[s] \in SemRec /\ sem'[s].used /\ sem'[s].queue = q
         /\ sem'[s].cardinalBlocked = c /\ sem'[s].semaphore = v
    <2>1. q \in Queues /\ r \in SemRec
      BY <1>1, <1>2
    <2>2. c \in 0 .. Cardinality(Pids) /\ v \in -Cardinality(Pids) .. MaxGiven
      BY <1>7
    <2>3. sem'[s] = [r EXCEPT !.queue = q, !.cardinalBlocked = c, !.semaphore = v]
      BY <1>8
    <2>4. r.used
      OBVIOUS
    <2> HIDE DEF r, c, v
    <2> QED BY <2>1, <2>2, <2>3, <2>4, ZenonT(30) DEF SemRec
  <1>11. /\ given'[s] \in 0 .. MaxGiven /\ taken'[s] \in Nat /\ Once(sem'[s].queue)
         /\ sem'[s].cardinalBlocked = Cardinality(Members(sem'[s].queue))
         /\ sem'[s].cardinalBlocked = (IF sem'[s].semaphore < 0 THEN -sem'[s].semaphore ELSE 0)
         /\ given'[s] - taken'[s] = sem'[s].semaphore + Cardinality(Members(sem'[s].queue))
    <2>1. given[s] \in 0 .. MaxGiven /\ taken[s] \in Nat /\ given[s] - taken[s] = 0
      BY SemFacts, NoToken
    <2>2. given'[s] = given[s] /\ taken'[s] = taken[s]
      BY <1>9
    <2>3. Cardinality(Members(q)) \in Nat
      BY <1>6, CardPids
    <2>4. c = Cardinality(Members(q)) /\ v = -Cardinality(Members(q))
      BY <1>7
    <2>5. Once(q)
      BY <1>2
    <2> HIDE DEF c, v
    <2> QED BY <1>10, <2>1, <2>2, <2>3, <2>4, <2>5
  <1>12. /\ SemsOK' /\ SemWaiting(s)' = Members(sem'[s].queue)
         /\ \A u \in Sems \ {s} : sem'[u] = sem[u] /\ SemWaiting(u)' = SemWaiting(u)
    BY <1>8, <1>9, <1>10, <1>11, OneSemChanges
  <1>13. \A u \in Sems : sem'[u].used <=> sem[u].used
    BY <1>10, <1>12
  <1> QED BY <1>2, <1>10, <1>12, <1>13

\* signal with a queue wakes the process in its lowest slot and counts one less
\* below zero; without one it leaves a token.
LEMMA SemSignals ==
    ASSUME SemInv, NEW s \in Sems, signal(s)
    PROVE  /\ SemsOK'
           /\ SemWoken(sem[s]) = NoPid \/ SemWoken(sem[s]) \in SemWaiting(s)
           /\ SemWaiting(s) # {} => SemWoken(sem[s]) \in SemWaiting(s)
           /\ SemWaiting(s) # {} <=> SemOccupied(sem[s].queue) # {}
           /\ SemWaiting(s)' = SemWaiting(s) \ {SemWoken(sem[s])}
           /\ \A u \in Sems \ {s} : SemWaiting(u)' = SemWaiting(u)
           /\ \A u \in Sems : (sem'[u].used <=> sem[u].used)
  <1> DEFINE r == sem[s]
             q == SemUnqueued(r)
  <1>1. /\ r \in SemRec /\ r.queue \in Queues /\ Once(r.queue)
        /\ SemWaiting(s) = Members(r.queue) /\ NoPid \notin Members(r.queue)
    BY SemFacts, PidAssumption DEF Members
  <1>2. /\ r.used /\ given[s] < MaxGiven /\ given'[s] = given[s] + 1
        /\ sem' = [sem EXCEPT ![s] = sem'[s]] /\ sem'[s] = Signalled(r)
        /\ given' = [given EXCEPT ![s] = given'[s]]
        /\ taken' = [taken EXCEPT ![s] = taken'[s]]
        /\ taken'[s] = taken[s] + (IF SemOccupied(r.queue) = {} THEN 0 ELSE 1)
    <2>1. /\ given' = [given EXCEPT ![s] = @ + 1]
          /\ sem' = [sem EXCEPT ![s] = Signalled(@)]
          /\ taken' = IF SemOccupied(r.queue) = {} THEN taken ELSE [taken EXCEPT ![s] = @ + 1]
          /\ r.used /\ given[s] < MaxGiven
      BY DEF signal
    <2>2. /\ given' = [given EXCEPT ![s] = given'[s]] /\ given'[s] = given[s] + 1
      BY <2>1, SemsAgree DEF SemsOK
    <2>3. sem' = [sem EXCEPT ![s] = sem'[s]] /\ sem'[s] = Signalled(r)
      BY <2>1, SemsAgree DEF SemsOK
    <2>4. taken \in [Sems -> Nat]
      BY SemsAgree DEF SemsOK
    <2>5. CASE SemOccupied(r.queue) = {}
      <3>1. taken' = taken
        BY <2>1, <2>5
      <3>2. /\ taken' = [taken EXCEPT ![s] = taken'[s]]
            /\ taken'[s] = taken[s] + (IF SemOccupied(r.queue) = {} THEN 0 ELSE 1)
        <4> HIDE DEF r
        <4> QED BY <2>4, <2>5, <3>1
      <3> QED BY <2>1, <2>2, <2>3, <3>2
    <2>6. CASE SemOccupied(r.queue) # {}
      <3>1. taken' = [taken EXCEPT ![s] = @ + 1]
        BY <2>1, <2>6
      <3>2. /\ taken' = [taken EXCEPT ![s] = taken'[s]]
            /\ taken'[s] = taken[s] + (IF SemOccupied(r.queue) = {} THEN 0 ELSE 1)
        <4> HIDE DEF r
        <4> QED BY <2>4, <2>6, <3>1
      <3> QED BY <2>1, <2>2, <2>3, <3>2
    <2> QED BY <2>5, <2>6
  <1>3. SemOccupied(r.queue) = {} <=> Members(r.queue) = {}
    BY <1>1, PidAssumption DEF SemOccupied, Members, Queues
  <1>4. /\ Cardinality(Members(r.queue)) \in Nat
        /\ Cardinality(Members(r.queue)) = 0 <=> Members(r.queue) = {}
    <2> HIDE DEF r
    <2>1. r.queue \in Queues
      BY <1>1
    <2> QED BY <2>1, MembersFinite
  <1>5. /\ given[s] \in 0 .. MaxGiven /\ taken[s] \in Nat /\ MaxGiven \in Nat
        /\ r.semaphore \in Int
        /\ r.cardinalBlocked = Cardinality(Members(r.queue))
        /\ r.cardinalBlocked = (IF r.semaphore < 0 THEN -r.semaphore ELSE 0)
        /\ given[s] - taken[s] = r.semaphore + Cardinality(Members(r.queue))
    BY <1>1, <1>2, CardPids, SemFacts DEF SemRec
  <1>6. CASE Members(r.queue) # {}
    <2> DEFINE c == r.cardinalBlocked - 1
               v == r.semaphore + 1
    <2>1. /\ SemOccupied(r.queue) # {}
          /\ Lowest(r.queue) \in Members(r.queue)
          /\ q \in Queues /\ Once(q)
          /\ Members(q) = Members(r.queue) \ {Lowest(r.queue)}
          /\ Cardinality(Members(q)) = Cardinality(Members(r.queue)) - 1
      <3> HIDE DEF r
      <3> QED BY <1>1, <1>6, Dequeued DEF SemUnqueued
    <2>2. r.cardinalBlocked > 0 /\ c = Cardinality(Members(q)) /\ v = -c
      BY <1>4, <1>5, <1>6, <2>1
    <2>3. SemWoken(r) = Lowest(r.queue)
      BY <2>1, <2>2 DEF SemWoken, Lowest
    <2>4. sem'[s] = [r EXCEPT !.queue = q, !.cardinalBlocked = c, !.semaphore = v]
      BY <1>2, <2>2 DEF Signalled
    <2> HIDE DEF q
    <2>5. c \in 0 .. Cardinality(Pids) /\ v \in -Cardinality(Pids) .. MaxGiven
      <3>1. q \in Queues
        BY <2>1
      <3>2. Cardinality(Members(q)) \in 0 .. Cardinality(Pids)
        BY <3>1, MembersFinite
      <3> QED BY <1>5, <2>2, <3>2, CardPids
    <2>6. /\ sem'[s] \in SemRec /\ sem'[s].used /\ sem'[s].queue = q
          /\ sem'[s].cardinalBlocked = c /\ sem'[s].semaphore = v
      <3>1. q \in Queues /\ r \in SemRec /\ r.used
        BY <1>1, <1>2, <2>1
      <3> HIDE DEF r, c, v
      <3> QED BY <2>4, <2>5, <3>1, ZenonT(30) DEF SemRec
    <2>7. /\ given'[s] \in 0 .. MaxGiven /\ taken'[s] = taken[s] + 1 /\ taken'[s] \in Nat
          /\ Once(sem'[s].queue)
          /\ sem'[s].cardinalBlocked = Cardinality(Members(sem'[s].queue))
          /\ sem'[s].cardinalBlocked = (IF sem'[s].semaphore < 0 THEN -sem'[s].semaphore ELSE 0)
          /\ given'[s] - taken'[s] = sem'[s].semaphore + Cardinality(Members(sem'[s].queue))
      <3>1. given'[s] = given[s] + 1 /\ taken'[s] = taken[s] + 1 /\ given[s] < MaxGiven
        BY <1>2, <2>1
      <3>2. c \in Nat /\ r.cardinalBlocked = -r.semaphore
        BY <1>5, <2>2, <2>5, CardPids
      <3>3. given[s] - taken[s] = 0 /\ given[s] + 1 \in 0 .. MaxGiven
        BY <1>5, <3>1, <3>2
      <3>4. sem'[s].queue = q /\ sem'[s].cardinalBlocked = c /\ sem'[s].semaphore = v
        BY <2>6
      <3>5. c = Cardinality(Members(q)) /\ v = -c /\ Once(q)
        BY <2>1, <2>2
      <3>6. given[s] \in Nat /\ taken[s] \in Nat
        BY <1>5
      <3> HIDE DEF r, c, v
      <3> QED BY <3>1, <3>2, <3>3, <3>4, <3>5, <3>6
    <2>8. /\ SemsOK' /\ SemWaiting(s)' = Members(sem'[s].queue)
          /\ \A u \in Sems \ {s} : sem'[u] = sem[u] /\ SemWaiting(u)' = SemWaiting(u)
      BY <1>2, <2>6, <2>7, OneSemChanges
    <2>9. \A u \in Sems : sem'[u].used <=> sem[u].used
      BY <1>2, <2>6, <2>8
    <2> QED BY <1>1, <1>3, <2>1, <2>3, <2>6, <2>8, <2>9
  <1>7. CASE Members(r.queue) = {}
    <2> DEFINE v == r.semaphore + 1
    <2>1. r.cardinalBlocked = 0 /\ r.semaphore >= 0
      BY <1>4, <1>5, <1>7
    <2>2. SemWoken(r) = NoPid
      BY <2>1 DEF SemWoken
    <2>3. sem'[s] = [r EXCEPT !.semaphore = v]
      BY <1>2, <2>1 DEF Signalled
    <2>4. v \in 0 .. MaxGiven /\ v \in -Cardinality(Pids) .. MaxGiven
      BY <1>2, <1>5, <2>1, CardPids
    <2>5. /\ sem'[s] \in SemRec /\ sem'[s].used /\ sem'[s].queue = r.queue
          /\ sem'[s].cardinalBlocked = r.cardinalBlocked /\ sem'[s].semaphore = v
      <3>1. r \in SemRec /\ r.used
        BY <1>1, <1>2
      <3> HIDE DEF r, v
      <3> QED BY <2>3, <2>4, <3>1 DEF SemRec
    <2>6. /\ given'[s] \in 0 .. MaxGiven /\ taken'[s] \in Nat /\ Once(sem'[s].queue)
          /\ sem'[s].cardinalBlocked = Cardinality(Members(sem'[s].queue))
          /\ sem'[s].cardinalBlocked = (IF sem'[s].semaphore < 0 THEN -sem'[s].semaphore ELSE 0)
          /\ given'[s] - taken'[s] = sem'[s].semaphore + Cardinality(Members(sem'[s].queue))
      <3>1. given'[s] = given[s] + 1 /\ taken'[s] = taken[s] /\ given[s] < MaxGiven
        BY <1>2, <1>3, <1>5, <1>7
      <3>2. r.cardinalBlocked = Cardinality(Members(r.queue)) /\ r.cardinalBlocked = 0
        BY <1>5, <2>1
      <3>3. /\ given[s] \in Nat /\ taken[s] \in Nat /\ MaxGiven \in Nat
            /\ given[s] - taken[s] = v - 1 /\ v \in Nat
        BY <1>5, <2>1, <2>4, <3>2
      <3>4. Once(r.queue)
        BY <1>1
      <3>5. /\ sem'[s].queue = r.queue /\ sem'[s].semaphore = v
            /\ sem'[s].cardinalBlocked = r.cardinalBlocked
        BY <2>5
      <3> HIDE DEF r, v
      <3>6. given'[s] \in 0 .. MaxGiven /\ taken'[s] \in Nat
        BY <3>1, <3>3
      <3>7. Once(sem'[s].queue) /\ Cardinality(Members(sem'[s].queue)) = 0
        BY <3>2, <3>4, <3>5
      <3>8. given'[s] - taken'[s] = v
        BY <3>1, <3>3
      <3> QED BY <3>2, <3>3, <3>5, <3>6, <3>7, <3>8
    <2>7. /\ SemsOK' /\ SemWaiting(s)' = Members(sem'[s].queue)
          /\ \A u \in Sems \ {s} : sem'[u] = sem[u] /\ SemWaiting(u)' = SemWaiting(u)
      BY <1>2, <2>5, <2>6, OneSemChanges
    <2>8. \A u \in Sems : sem'[u].used <=> sem[u].used
      BY <1>2, <2>5, <2>7
    <2> QED BY <1>1, <1>3, <1>7, <2>2, <2>5, <2>7, <2>8
  <1> QED BY <1>6, <1>7

\* A semaphore is created in a slot without a queue.
LEMMA SemCreates ==
    ASSUME SemInv, NEW n \in Names, NEW start \in Starts, semCreate(n, start)
    PROVE  /\ SemsOK'
           /\ \A u \in Sems : SemWaiting(u)' = SemWaiting(u)
           /\ \E s \in Sems :
                 /\ ~sem[s].used /\ SemWaiting(s) = {}
                 /\ sem'[s].used /\ given'[s] = start /\ taken'[s] = 0
                 /\ \A u \in Sems \ {s} : sem'[u] = sem[u]
                 /\ given' = [given EXCEPT ![s] = given'[s]]
                 /\ taken' = [taken EXCEPT ![s] = taken'[s]]
                 /\ semHandles' = [semHandles EXCEPT ![current] = @ \cup {s}]
  <1>1. PICK s \in Sems : First(s, SemUnused) /\ createSemaphore(s, n, start)
    BY DEF semCreate
  <1> DEFINE r == sem[s]
  <1>2. /\ r \in SemRec /\ ~r.used
        /\ Members(r.queue) = {} /\ r.cardinalBlocked = 0 /\ r.queue \in Queues
        /\ SemWaiting(s) = {} /\ Cardinality(Members(r.queue)) = 0
    BY <1>1, SemFacts, FS_EmptySet DEF First, SemUnused
  <1>3. PICK m \in Mutexes :
          sem' = [sem EXCEPT ![s].used = TRUE, ![s].name = n, ![s].mutex = m,
                             ![s].semaphore = start, ![s].pidCreator = current]
    BY <1>1 DEF createSemaphore
  <1>4. /\ sem' = [sem EXCEPT ![s] = sem'[s]]
        /\ sem'[s] = [r EXCEPT !.used = TRUE, !.name = n, !.mutex = m, !.semaphore = start,
                               !.pidCreator = current]
    BY <1>3, SemsAgree DEF SemsOK
  <1>5. /\ given' = [given EXCEPT ![s] = given'[s]] /\ given'[s] = start
        /\ taken' = [taken EXCEPT ![s] = taken'[s]] /\ taken'[s] = 0
        /\ semHandles' = [semHandles EXCEPT ![current] = @ \cup {s}]
    BY <1>1, SemsAgree DEF SemsOK, createSemaphore
  <1>6. start \in 0 .. MaxGiven /\ start \in -Cardinality(Pids) .. MaxGiven
    BY CardPids, SemaphoreAssumption
  <1>7. /\ sem'[s] \in SemRec /\ sem'[s].used /\ sem'[s].queue = r.queue
        /\ sem'[s].cardinalBlocked = r.cardinalBlocked /\ sem'[s].semaphore = start
    <2>1. r \in SemRec /\ current \in Pids /\ n \in Names
      BY <1>2 DEF SemInv, TablesOK
    <2>2. sem'[s] = [r EXCEPT !.used = TRUE, !.name = n, !.mutex = m, !.semaphore = start,
                              !.pidCreator = current]
      BY <1>4
    <2> HIDE DEF r
    <2> QED BY <1>6, <2>1, <2>2 DEF SemRec
  <1>8. /\ Once(sem'[s].queue)
        /\ sem'[s].cardinalBlocked = Cardinality(Members(sem'[s].queue))
        /\ sem'[s].cardinalBlocked = (IF sem'[s].semaphore < 0 THEN -sem'[s].semaphore ELSE 0)
        /\ given'[s] - taken'[s] = sem'[s].semaphore + Cardinality(Members(sem'[s].queue))
    <2>1. Once(r.queue)
      BY SemFacts
    <2>2. r.cardinalBlocked = 0 /\ Cardinality(Members(r.queue)) = 0
      BY <1>2
    <2>3. start \in Nat
      BY <1>6
    <2> HIDE DEF r
    <2> QED BY <1>5, <1>7, <2>1, <2>2, <2>3
  <1>9. /\ SemsOK' /\ SemWaiting(s)' = Members(sem'[s].queue)
        /\ \A u \in Sems \ {s} : sem'[u] = sem[u] /\ SemWaiting(u)' = SemWaiting(u)
    <2>1. given'[s] \in 0 .. MaxGiven /\ taken'[s] \in Nat
      BY <1>5, <1>6
    <2> QED BY <1>4, <1>5, <1>7, <1>8, <2>1, OneSemChanges
  <1>10. \A u \in Sems : SemWaiting(u)' = SemWaiting(u)
    BY <1>2, <1>7, <1>9
  <1> QED BY <1>2, <1>5, <1>7, <1>9, <1>10

\* A semaphore is closed, by its creator, when nobody waits for it.
LEMMA SemCloses ==
    ASSUME SemInv, CleanClose, NEW s \in Sems, semClose(s)
    PROVE  /\ SemsOK'
           /\ \A u \in Sems : SemWaiting(u)' = SemWaiting(u)
           /\ \A u \in Sems \ {s} : sem'[u] = sem[u]
           /\ SemWaiting(s) = {}
           /\ ~sem'[s].used \/ sem' = sem
  <1> DEFINE r == sem[s]
  <1>1. UNCHANGED <<given, taken>> /\ SemOccupied(r.queue) = {}
    BY DEF semClose
  <1>2. r \in SemRec /\ r.queue \in Queues /\ SemWaiting(s) = Members(r.queue) /\ Once(r.queue)
    BY SemFacts
  <1>3. SemWaiting(s) = {}
    BY <1>1, <1>2, PidAssumption DEF SemOccupied, Members
  <1>4. CASE sem' = sem
    <2>1. SemsOK' /\ \A u \in Sems : SemWaiting(u)' = SemWaiting(u)
      BY <1>1, <1>4, SameSems, SemsAgree DEF SemsOK
    <2> QED BY <1>3, <1>4, <2>1
  <1>5. CASE sem' # sem
    <2>1. r.used /\ sem' = [sem EXCEPT ![s].used = FALSE]
      BY <1>5 DEF semClose
    <2>2. sem' = [sem EXCEPT ![s] = sem'[s]] /\ sem'[s] = [r EXCEPT !.used = FALSE]
      BY <2>1, SemsAgree DEF SemsOK
    <2>3. /\ sem'[s] \in SemRec /\ ~sem'[s].used /\ sem'[s].queue = r.queue
          /\ sem'[s].cardinalBlocked = r.cardinalBlocked
      <3>1. r \in SemRec /\ sem'[s] = [r EXCEPT !.used = FALSE]
        BY <1>2, <2>2
      <3> HIDE DEF r
      <3> QED BY <3>1 DEF SemRec
    <2>4. r.cardinalBlocked = 0 /\ Members(r.queue) = {}
      BY <1>2, <1>3, <2>1, SemFacts, FS_EmptySet
    <2>5. /\ given' = [given EXCEPT ![s] = given'[s]] /\ given'[s] \in 0 .. MaxGiven
          /\ taken' = [taken EXCEPT ![s] = taken'[s]] /\ taken'[s] \in Nat
      BY <1>1, SemsAgree DEF SemsOK
    <2>6. /\ SemsOK' /\ SemWaiting(s)' = Members(sem'[s].queue)
          /\ \A u \in Sems \ {s} : sem'[u] = sem[u] /\ SemWaiting(u)' = SemWaiting(u)
      BY <1>2, <2>2, <2>3, <2>4, <2>5, OneSemChanges
    <2>7. \A u \in Sems : SemWaiting(u)' = SemWaiting(u)
      BY <1>2, <2>3, <2>6
    <2> QED BY <1>3, <2>3, <2>6, <2>7
  <1> QED BY <1>4, <1>5

-----------------------------------------------------------------------------
\* The parts of the invariant about the mutex table, the locks with their queues, and
\* the clients: what is left besides TableOK, SemsOK and WaitOK.
NamesOK ==
    /\ used \in [Mutexes -> BOOLEAN]
    /\ name \in [Mutexes -> Names \cup {NoName, SemMutexName}]
    /\ pidCreator \in [Mutexes -> Pids \cup {NoPid}]

LocksOK ==
    /\ mutex \in [Mutexes -> {0, 1}]
    /\ queue \in [Mutexes -> [Slots -> Pids \cup {NoPid}]]
    /\ cardinalBlocked \in [Mutexes -> 0 .. Cardinality(Pids)]
    /\ QueueCounted

ClientsOK ==
    /\ handles \in [Pids -> SUBSET Mutexes]
    /\ holds \in [Pids -> SUBSET Mutexes]
    /\ frame \in [Pids -> Mutexes \cup {NoMutex}]
    /\ semHandles \in [Pids -> SUBSET Sems]
    /\ call \in [Pids -> Calls]

\* What it says of the process table, the names, the mutexes and the clients.
LEMMA PartsHold == SemInv => TableOK /\ NamesOK /\ LocksOK /\ ClientsOK
  BY DEF SemInv, SemTypeOK, TablesOK, TableOK, NamesOK, LocksOK, ClientsOK

\* A step preserves the invariant if it preserves its parts.
LEMMA Assemble ==
    ASSUME TableOK', NamesOK', LocksOK', ClientsOK', SemsOK', \A p \in Pids : WaitOK(p)'
    PROVE  SemInv'
  <1>1. QueuedInLock' /\ QueuedInWait' /\ BlockedHasQueue' /\ CallsMatch'
    BY WaitsAgreeNext
  <1>2. SemTypeOK' /\ TablesOK'
    BY DEF SemTypeOK, TablesOK, TableOK, NamesOK, LocksOK, ClientsOK, SemsOK, SemRec, Queues
  <1> QED BY <1>1, <1>2 DEF SemInv, TableOK, LocksOK, SemsOK

\* What the steps that leave a part alone cite.
LEMMA SameTable == SemInv /\ UNCHANGED <<procState, current>> =>
                       TableOK' /\ Alive(procState') = Alive(procState)
  BY PartsHold DEF TableOK, OneRunning, InitSchedulable

\* A call that leaves the table of the mutexes alone keeps their names.
LEMMA SameNames == SemInv /\ UNCHANGED tableVars => NamesOK'
  BY PartsHold DEF NamesOK, tableVars

\* A call that leaves the queues of the mutexes alone keeps what is said of them.
LEMMA SameLocksOK ==
    ASSUME SemInv, UNCHANGED <<queue, cardinalBlocked>>, mutex' \in [Mutexes -> {0, 1}]
    PROVE  LocksOK' /\ \A m \in Mutexes : Waiting(m)' = Waiting(m)
  <1>1. QueueCounted' /\ \A m \in Mutexes : Waiting(m)' = Waiting(m)
    BY SameLocks
  <1>2. /\ queue' \in [Mutexes -> [Slots -> Pids \cup {NoPid}]]
        /\ cardinalBlocked' \in [Mutexes -> 0 .. Cardinality(Pids)]
    BY PartsHold DEF LocksOK
  <1> QED BY <1>1, <1>2 DEF LocksOK

\* And one that leaves the semaphores alone what is said of those.
LEMMA SameSemsOK ==
    ASSUME SemInv, UNCHANGED <<sem, given, taken>>
    PROVE  SemsOK' /\ \A s \in Sems : SemWaiting(s)' = SemWaiting(s)
  BY SameSems, SemsAgree DEF SemsOK

\* getMutex and createSemaphore find the mutex of a name, or create it.
LEMMA TableGrows ==
    ASSUME SemInv, NEW n \in Names, NEW m \in Mutexes,
           UNCHANGED tableVars \/ createMutex(m, n)
    PROVE  NamesOK'
  <1>1. NamesOK /\ current \in Pids
    BY PartsHold DEF TableOK
  <1>2. CASE UNCHANGED tableVars
    BY <1>2, SameNames
  <1>3. CASE createMutex(m, n)
    BY <1>1, <1>3 DEF NamesOK, createMutex
  <1> QED BY <1>2, <1>3

\* The processes, when no state, queue, frame or call changes and no semaphore is closed.
LEMMA NobodyMoves ==
    ASSUME SemInv, UNCHANGED <<procState, frame, call>>,
           \A m \in Mutexes : Waiting(m)' = Waiting(m),
           \A s \in Sems : SemWaiting(s)' = SemWaiting(s),
           \A p \in Pids : semHandles[p] \subseteq semHandles'[p],
           \A p \in Pids : \A s \in semHandles'[p] : sem'[s].used
    PROVE  \A p \in Pids : WaitOK(p)'
  <1> TAKE p \in Pids
  <1> QED BY Unmoved

\* The semaphores a process has are in use.
LEMMA HandlesUsed == SemInv => \A p \in Pids : \A s \in semHandles[p] : s \in Sems /\ sem[s].used
  BY DEF SemInv, CallsMatch, SemTypeOK

-----------------------------------------------------------------------------
\* The steps of the clients of the mutexes that touch no queue.
LEMMA SemGetMutex ==
    ASSUME SemInv, NEW n \in Names, getMutex(n), UNCHANGED semVars
    PROVE  SemInv'
  <1>1. UNCHANGED <<procState, current, mutex, queue, cardinalBlocked, holds, frame>>
    BY DEF getMutex
  <1>2. UNCHANGED <<sem, semHandles, call, given, taken>>
    BY DEF semVars
  <1>3. PICK m \in Mutexes : /\ UNCHANGED tableVars \/ createMutex(m, n)
                             /\ handles' = [handles EXCEPT ![current] = @ \cup {m}]
    BY DEF getMutex
  <1>4. NamesOK'
    BY <1>3, TableGrows
  <1>5. ClientsOK'
    BY <1>1, <1>2, <1>3, PartsHold DEF ClientsOK
  <1>6. LocksOK' /\ \A k \in Mutexes : Waiting(k)' = Waiting(k)
    BY <1>1, SameLocksOK, PartsHold DEF LocksOK
  <1>7. SemsOK' /\ \A s \in Sems : SemWaiting(s)' = SemWaiting(s)
    BY <1>2, SameSemsOK
  <1>8. \A p \in Pids : WaitOK(p)'
    BY <1>1, <1>2, <1>6, <1>7, NobodyMoves, HandlesUsed
  <1>9. TableOK'
    BY <1>1, SameTable
  <1> QED BY <1>4, <1>5, <1>6, <1>7, <1>8, <1>9, Assemble

\* lockMutex of a client that finds the mutex free.
LEMMA SemLockMutex ==
    ASSUME SemInv, NEW m \in Mutexes, lockMutex(m), UNCHANGED semVars
    PROVE  SemInv'
  <1>1. /\ UNCHANGED <<procState, current, queue, cardinalBlocked, handles, frame>>
        /\ UNCHANGED tableVars
        /\ mutex' = mutex \/ mutex' = [mutex EXCEPT ![m] = 1]
        /\ holds' = [holds EXCEPT ![current] = @ \cup {m}]
    BY DEF lockMutex, tableVars, Acquired
  <1>2. UNCHANGED <<sem, semHandles, call, given, taken>>
    BY DEF semVars
  <1>3. mutex' \in [Mutexes -> {0, 1}]
    BY <1>1, PartsHold DEF LocksOK
  <1>4. LocksOK' /\ \A k \in Mutexes : Waiting(k)' = Waiting(k)
    BY <1>1, <1>3, SameLocksOK
  <1>5. ClientsOK'
    BY <1>1, <1>2, PartsHold DEF ClientsOK
  <1>6. SemsOK' /\ \A s \in Sems : SemWaiting(s)' = SemWaiting(s)
    BY <1>2, SameSemsOK
  <1>7. \A p \in Pids : WaitOK(p)'
    BY <1>1, <1>2, <1>4, <1>6, NobodyMoves, HandlesUsed
  <1>8. TableOK' /\ NamesOK'
    BY <1>1, SameTable, SameNames
  <1> QED BY <1>4, <1>5, <1>6, <1>7, <1>8, Assemble

\* closeMutex of a client, which the semaphores have no part in.
LEMMA SemCloseMutex ==
    ASSUME SemInv, NEW m \in Mutexes, closeMutex(m), UNCHANGED semVars
    PROVE  SemInv'
  <1>1. /\ UNCHANGED <<procState, current, name, pidCreator, mutex, queue, cardinalBlocked,
                       holds, frame>>
        /\ used' = used \/ used' = [used EXCEPT ![m] = FALSE]
        /\ handles' = [handles EXCEPT ![current] = @ \ {m}]
    BY DEF closeMutex
  <1>2. UNCHANGED <<sem, semHandles, call, given, taken>>
    BY DEF semVars
  <1>3. NamesOK'
    BY <1>1, PartsHold DEF NamesOK
  <1>4. LocksOK' /\ \A k \in Mutexes : Waiting(k)' = Waiting(k)
    BY <1>1, SameLocksOK, PartsHold DEF LocksOK
  <1>5. ClientsOK'
    BY <1>1, <1>2, PartsHold DEF ClientsOK
  <1>6. SemsOK' /\ \A s \in Sems : SemWaiting(s)' = SemWaiting(s)
    BY <1>2, SameSemsOK
  <1>7. \A p \in Pids : WaitOK(p)'
    BY <1>1, <1>2, <1>4, <1>6, NobodyMoves, HandlesUsed
  <1>8. TableOK'
    BY <1>1, SameTable
  <1> QED BY <1>3, <1>4, <1>5, <1>6, <1>7, <1>8, Assemble

\* The woken client leaves lockMutex: it is RUNNING, and in no queue.
LEMMA SemLockReturns ==
    ASSUME SemInv, call[current] = NoCall, lockMutexReturn, UNCHANGED semVars
    PROVE  SemInv'
  <1>1. /\ UNCHANGED <<procState, current, mutex, queue, cardinalBlocked, handles>>
        /\ UNCHANGED tableVars /\ Calling /\ frame[current] # NoMutex
        /\ frame' = [frame EXCEPT ![current] = NoMutex]
        /\ holds' = [holds EXCEPT ![current] = @ \cup {frame[current]}]
    BY DEF lockMutexReturn, tableVars, Acquired
  <1>2. UNCHANGED <<sem, semHandles, call, given, taken>>
    BY DEF semVars
  <1>3. LocksOK' /\ \A k \in Mutexes : Waiting(k)' = Waiting(k)
    BY <1>1, SameLocksOK, PartsHold DEF LocksOK
  <1>4. ClientsOK'
    BY <1>1, <1>2, PartsHold DEF ClientsOK
  <1>5. SemsOK' /\ \A s \in Sems : SemWaiting(s)' = SemWaiting(s)
    BY <1>2, SameSemsOK
  <1>6. WaitOK(current)'
    <2>1. /\ \A m \in Mutexes : current \notin Waiting(m)'
          /\ \A s \in Sems : current \notin SemWaiting(s)'
          /\ procState'[current] # "BLOCKED"
      BY <1>1, <1>3, <1>5, SemCallerFacts
    <2>2. call'[current].op = "none" /\ current' = current
      BY <1>1, <1>2 DEF NoCall
    <2>3. \A s \in semHandles'[current] : sem'[s].used
      BY <1>1, <1>2, HandlesUsed, SemCallerFacts
    <2> QED BY <2>1, <2>2, <2>3 DEF WaitOK
  <1>7. ASSUME NEW p \in Pids \ {current} PROVE WaitOK(p)'
    <2>1. frame'[p] = frame[p]
      BY <1>1, PartsHold DEF ClientsOK
    <2>2. p \in Pids /\ Alive(procState') = Alive(procState)
      BY <1>1, SameTable
    <2> QED BY <1>1, <1>2, <1>3, <1>5, <2>1, <2>2, HandlesUsed, Unmoved
  <1>8. \A p \in Pids : WaitOK(p)'
    BY <1>1, <1>6, <1>7
  <1>9. TableOK' /\ NamesOK'
    BY <1>1, SameTable, SameNames
  <1> QED BY <1>3, <1>4, <1>5, <1>8, <1>9, Assemble

-----------------------------------------------------------------------------
\* Whoever is suspended in lockMutex(m), by a client or inside wait or semCreate, is
\* BLOCKED and in the queue of m.
LEMMA SuspendedInLock ==
    ASSUME SemInv, Calling, NEW m \in Mutexes, suspendInLock(m),
           UNCHANGED tableVars, UNCHANGED <<mutex, handles, holds>>,
           UNCHANGED <<sem, semHandles, given, taken>>,
           call' \in [Pids -> Calls],
           \A p \in Pids \ {current} : call'[p] = call[p],
           call'[current].op # "waitSleep",
           call'[current].op = "waitLock" => call'[current].s \in semHandles[current]
    PROVE  SemInv'
  <1>1. /\ addToBlocked(m, current)
        /\ frame' = [frame EXCEPT ![current] = m]
        /\ schedule(changeProcessState(changeProcessState(procState, current, "BLOCKED"),
                                       NoPid, "READY"))
    BY SuspendOnly DEF suspendInLock
  <1>2. /\ current \in Pids /\ current \in Alive(procState) /\ current \notin Waiting(m)
        /\ \A s \in Sems : current \notin SemWaiting(s)
        /\ \A k \in Mutexes : current \notin Waiting(k)
    BY SemCallerFacts
  <1>3. /\ queue' \in [Mutexes -> [Slots -> Pids \cup {NoPid}]]
        /\ cardinalBlocked' \in [Mutexes -> 0 .. Cardinality(Pids)]
        /\ QueueCounted'
        /\ Waiting(m)' = Waiting(m) \cup {current}
        /\ \A k \in Mutexes \ {m} : Waiting(k)' = Waiting(k)
    BY <1>1, <1>2, MutexEnqueue
  <1>4. LocksOK'
    BY <1>3, PartsHold DEF LocksOK
  <1>5. /\ TableOK' /\ Alive(procState') = Alive(procState)
        /\ \A p \in Pids :
              /\ procState'[p] = "BLOCKED" <=> p = current \/ procState[p] = "BLOCKED"
              /\ procState'[p] = "UNBORN" <=> procState[p] = "UNBORN"
    <2>1. NoPid \notin Alive(procState) /\ NoPid \notin Pids
      BY PidAssumption DEF Alive
    <2> QED BY <1>1, <2>1, SuspendFacts
  <1>6. ClientsOK'
    BY <1>1, PartsHold DEF ClientsOK
  <1>7. SemsOK' /\ \A s \in Sems : SemWaiting(s)' = SemWaiting(s)
    BY SameSemsOK
  <1>8. frame'[current] = m /\ \A p \in Pids \ {current} : frame'[p] = frame[p]
    BY <1>1, <1>2, PartsHold DEF ClientsOK
  <1>9. ASSUME NEW p \in Pids, p = current PROVE WaitOK(p)'
    <2>1. /\ procState'[p] = "BLOCKED" /\ procState'[p] # "UNBORN"
          /\ \A k \in Mutexes : p \in Waiting(k)' <=> k = m
          /\ \A s \in Sems : p \notin SemWaiting(s)'
      BY <1>2, <1>3, <1>5, <1>7, <1>9
    <2>2. frame'[p] = m /\ m # NoMutex
      BY <1>8, <1>9 DEF Mutexes, NoMutex
    <2>3. /\ call'[p].op # "waitSleep"
          /\ call'[p].op = "waitLock" => call'[p].s \in semHandles'[p]
          /\ \A s \in semHandles'[p] : sem'[s].used
      BY <1>9, HandlesUsed
    <2> QED BY <2>1, <2>2, <2>3 DEF WaitOK
  <1>10. ASSUME NEW p \in Pids, p # current PROVE WaitOK(p)'
    <2>1. /\ \A k \in Mutexes : p \in Waiting(k)' <=> p \in Waiting(k)
          /\ \A s \in Sems : p \in SemWaiting(s)' <=> p \in SemWaiting(s)
      BY <1>3, <1>7, <1>10
    <2>2. /\ frame'[p] = frame[p] /\ call'[p] = call[p] /\ semHandles'[p] = semHandles[p]
          /\ \A s \in semHandles'[p] : sem'[s].used
      BY <1>8, <1>10, HandlesUsed
    <2>3. /\ p \in Alive(procState') <=> p \in Alive(procState)
          /\ procState'[p] = "BLOCKED" <=> procState[p] = "BLOCKED"
          /\ procState'[p] = "UNBORN" <=> procState[p] = "UNBORN"
      BY <1>5, <1>10
    <2> QED BY <2>1, <2>2, <2>3, Unmoved
  <1>11. \A p \in Pids : WaitOK(p)'
    BY <1>9, <1>10
  <1>12. NamesOK'
    BY SameNames
  <1> QED BY <1>4, <1>5, <1>6, <1>7, <1>11, <1>12, Assemble

\* The three calls that may be suspended in lockMutex.
LEMMA SemLockBlocks ==
    ASSUME SemInv, call[current] = NoCall, NEW m \in Mutexes, lockMutexBlock(m),
           UNCHANGED semVars
    PROVE  SemInv'
  <1>1. /\ Calling /\ suspendInLock(m)
        /\ UNCHANGED tableVars /\ UNCHANGED <<mutex, handles, holds>>
        /\ UNCHANGED <<sem, semHandles, given, taken>> /\ call' = call
    BY UserCalls DEF lockMutexBlock, Requests, suspendInLock, tableVars, semVars
  <1>2. call' \in [Pids -> Calls] /\ call'[current].op = "none"
    BY <1>1, PartsHold DEF ClientsOK, NoCall
  <1> QED BY <1>1, <1>2, SuspendedInLock

\* semCreate suspended in the mutex of the table of semaphores.
LEMMA SemCreateBlocks ==
    ASSUME SemInv, semCreateBlock
    PROVE  SemInv'
  <1>1. /\ Calling /\ suspendInLock(semaphoreMutex)
        /\ UNCHANGED tableVars /\ UNCHANGED <<mutex, handles, holds>>
        /\ UNCHANGED <<sem, semHandles, given, taken>>
        /\ call' = [call EXCEPT ![current] = [op |-> "semCreate", s |-> 0]]
    BY UserCalls DEF semCreateBlock, InUserCode
  <1>2. semaphoreMutex \in Mutexes /\ [op |-> "semCreate", s |-> 0] \in Calls
    BY SemaphoreAssumption, MutexAssumption DEF semaphoreMutex, Mutexes, Calls, Sems
  <1>3. call \in [Pids -> Calls] /\ current \in Pids
    BY PartsHold DEF ClientsOK, TableOK
  <1>4. /\ call' \in [Pids -> Calls] /\ call'[current].op = "semCreate"
        /\ \A p \in Pids \ {current} : call'[p] = call[p]
    BY <1>1, <1>2, <1>3
  <1> QED BY <1>1, <1>2, <1>4, SuspendedInLock

\* wait suspended in the mutex of its semaphore.
LEMMA SemWaitBlocks ==
    ASSUME SemInv, NEW s \in Sems, waitBlock(s)
    PROVE  SemInv'
  <1>1. /\ Calling /\ suspendInLock(sem[s].mutex) /\ s \in semHandles[current]
        /\ UNCHANGED tableVars /\ UNCHANGED <<mutex, handles, holds>>
        /\ UNCHANGED <<sem, semHandles, given, taken>>
        /\ call' = [call EXCEPT ![current] = [op |-> "waitLock", s |-> s]]
    BY UserCalls DEF waitBlock, InUserCode
  <1>2. sem[s].mutex \in Mutexes /\ [op |-> "waitLock", s |-> s] \in Calls
    BY SemFacts DEF SemRec, Calls
  <1>3. call \in [Pids -> Calls] /\ current \in Pids
    BY PartsHold DEF ClientsOK, TableOK
  <1>4. /\ call' \in [Pids -> Calls]
        /\ call'[current].op = "waitLock" /\ call'[current].s = s
        /\ \A p \in Pids \ {current} : call'[p] = call[p]
    BY <1>1, <1>2, <1>3
  <1> QED BY <1>1, <1>2, <1>4, SuspendedInLock

-----------------------------------------------------------------------------
\* What freeMutex does to the queues, seen from the process w it takes out of one:
\* w, if it is alive, was BLOCKED there and is in no queue any more.
Releases(w) ==
    /\ LocksOK'
    /\ w \in Pids \cup {NoPid}
    /\ w \in Alive(procState) =>
          /\ procState[w] = "BLOCKED"
          /\ \A m \in Mutexes : w \notin Waiting(m)'
          /\ \A s \in Sems : w \notin SemWaiting(s)
    /\ \A m \in Mutexes, p \in Pids :
          /\ p \in Waiting(m)' => p \in Waiting(m)
          /\ p # w => (p \in Waiting(m)' <=> p \in Waiting(m))

\* freeMutex lets go of the one in the first slot of the queue, if there is one.
LEMMA FreeReleases ==
    ASSUME SemInv, NEW m \in Mutexes, freeInTable(m)
    PROVE  Releases(Woken(m))
  <1> DEFINE w == Woken(m)
  <1>1. /\ mutex' \in [Mutexes -> {0, 1}]
        /\ queue' \in [Mutexes -> [Slots -> Pids \cup {NoPid}]]
        /\ cardinalBlocked' \in [Mutexes -> 0 .. Cardinality(Pids)]
        /\ QueueCounted'
        /\ w = NoPid \/ w \in Waiting(m)
        /\ Waiting(m)' = Waiting(m) \ {w}
        /\ \A k \in Mutexes \ {m} : Waiting(k)' = Waiting(k)
    BY MutexDequeue
  <1> HIDE DEF w
  <1>2. LocksOK'
    BY <1>1 DEF LocksOK
  <1>3. w \in Pids \cup {NoPid}
    BY <1>1 DEF Waiting
  <1>4. \A k \in Mutexes, p \in Pids :
          /\ p \in Waiting(k)' => p \in Waiting(k)
          /\ p # w => (p \in Waiting(k)' <=> p \in Waiting(k))
    BY <1>1
  <1>5. ASSUME w \in Alive(procState)
        PROVE  /\ procState[w] = "BLOCKED"
               /\ \A k \in Mutexes : w \notin Waiting(k)'
               /\ \A s \in Sems : w \notin SemWaiting(s)
    <2>1. w \in Waiting(m)
      BY <1>1, <1>5, PidAssumption DEF Alive
    <2>2. procState[w] = "BLOCKED"
      BY <1>5, <2>1 DEF SemInv, QueuedInLock
    <2>3. /\ \A k \in Mutexes \ {m} : w \notin Waiting(k)
          /\ \A s \in Sems : w \notin SemWaiting(s)
      BY <1>5, <2>1, OneQueueOnly
    <2> QED BY <1>1, <2>2, <2>3
  <1> QED BY <1>2, <1>3, <1>4, <1>5 DEF w, Releases

\* A call that goes through a free mutex takes nobody out of a queue.
LEMMA PassReleases ==
    ASSUME SemInv, UNCHANGED lockVars
    PROVE  Releases(NoPid)
  <1>1. UNCHANGED <<mutex, queue, cardinalBlocked>>
    BY DEF lockVars
  <1>2. LocksOK' /\ \A m \in Mutexes : Waiting(m)' = Waiting(m)
    BY <1>1, SameLocksOK, PartsHold DEF LocksOK
  <1>3. NoPid \notin Alive(procState)
    BY PidAssumption DEF Alive
  <1> QED BY <1>2, <1>3 DEF Releases

\* freeMutex by a client: the process it wakes is READY and out of the queues.
LEMMA SemFrees ==
    ASSUME SemInv, NEW m \in Mutexes, freeMutex(m), UNCHANGED semVars
    PROVE  SemInv'
  <1> DEFINE w == Woken(m)
  <1>1. /\ Calling /\ current' = current /\ UNCHANGED tableVars
        /\ UNCHANGED <<handles, frame>>
        /\ holds' = [holds EXCEPT ![current] = @ \ {m}]
    BY UserCalls DEF freeMutex, tableVars
  <1>2. UNCHANGED <<sem, semHandles, call, given, taken>>
    BY DEF semVars
  <1>3. freeInTable(m) /\ procState' = changeProcessState(procState, w, "READY")
    <2>1. CASE used[m] /\ cardinalBlocked[m] > 0
      <3>1. Occupied(m) # {}
        <4>1. Waiting(m) = Members(queue[m]) /\ queue[m] \in Queues
          BY WaitingMembers
        <4>2. cardinalBlocked[m] = Cardinality(Members(queue[m]))
          BY <4>1 DEF SemInv, QueueCounted
        <4>3. Members(queue[m]) # {}
          BY <2>1, <4>1, <4>2, MembersFinite
        <4> QED BY <4>3, PidAssumption DEF Members, Occupied
      <3>2. PICK i \in Slots : /\ First(i, Occupied(m))
                               /\ procState' = changeProcessState(procState, queue[m][i], "READY")
                               /\ queue' = [queue EXCEPT ![m][i] = NoPid]
        BY <2>1, <3>1 DEF freeMutex, unblockProcess
      <3>3. \A j \in Slots : First(j, Occupied(m)) <=> j = i
        BY <3>2, FirstSlot DEF Occupied
      <3>4. w = queue[m][i]
        BY <2>1, <3>1, <3>3 DEF Woken
      <3>5. queue' = [queue EXCEPT ![m] = [j \in Slots |->
                         IF First(j, Occupied(m)) THEN NoPid ELSE @[j]]]
        <4>1. queue \in [Mutexes -> [Slots -> Pids \cup {NoPid}]]
          BY PartsHold DEF LocksOK
        <4>2. [j \in Slots |-> IF First(j, Occupied(m)) THEN NoPid ELSE queue[m][j]] =
                  [queue[m] EXCEPT ![i] = NoPid]
          BY <3>3, <4>1
        <4> QED BY <3>2, <4>1, <4>2
      <3>6. cardinalBlocked' = [cardinalBlocked EXCEPT ![m] = @ - 1] /\ mutex' = mutex
        BY <2>1 DEF freeMutex
      <3> QED BY <2>1, <3>2, <3>4, <3>5, <3>6 DEF freeInTable
    <2>2. CASE ~(used[m] /\ cardinalBlocked[m] > 0)
      <3>1. /\ UNCHANGED <<procState, queue, cardinalBlocked>>
            /\ mutex' = IF used[m] THEN [mutex EXCEPT ![m] = 0] ELSE mutex
        BY <2>2 DEF freeMutex
      <3>2. w = NoPid
        BY <2>2 DEF Woken
      <3>3. procState = changeProcessState(procState, NoPid, "READY")
        BY PidAssumption, PartsHold DEF changeProcessState, TableOK
      <3> QED BY <2>2, <3>1, <3>2, <3>3 DEF freeInTable
    <2> QED BY <2>1, <2>2
  <1>4. Releases(w)
    BY <1>3, FreeReleases
  <1> HIDE DEF w
  <1>5. /\ TableOK' /\ Alive(procState') = Alive(procState)
        /\ \A p \in Pids :
              /\ procState'[p] = "BLOCKED" <=> procState[p] = "BLOCKED" /\ p # w
              /\ procState'[p] = "UNBORN" <=> procState[p] = "UNBORN"
    BY <1>1, <1>3, <1>4, WakeFacts DEF Releases
  <1>6. SemsOK' /\ \A s \in Sems : SemWaiting(s)' = SemWaiting(s)
    BY <1>2, SameSemsOK
  <1>7. ClientsOK'
    BY <1>1, <1>2, PartsHold DEF ClientsOK
  <1>8. ASSUME NEW p \in Pids PROVE WaitOK(p)'
    <2>1. /\ frame'[p] = frame[p] /\ call'[p] = call[p] /\ semHandles'[p] = semHandles[p]
          /\ \A s \in semHandles[p] : sem'[s].used
      BY <1>1, <1>2, HandlesUsed
    <2>2. CASE p # w
      BY <1>4, <1>5, <1>6, <2>1, <2>2, Unmoved DEF Releases
    <2>3. CASE p = w
      BY <1>4, <1>5, <1>6, <2>1, <2>3, Awakened DEF Releases
    <2> QED BY <2>2, <2>3
  <1>9. NamesOK' /\ LocksOK'
    BY <1>1, <1>4, SameNames DEF Releases
  <1> QED BY <1>5, <1>6, <1>7, <1>8, <1>9, Assemble

\* wait, once it is through lockMutex: it takes a token and goes on, or it is queued
\* on the semaphore; in both cases it has freed the mutex, and perhaps woken w.
LEMMA SemWaits ==
    ASSUME SemInv, Calling, NEW s \in Sems, s \in semHandles[current], sem[s].used,
           NEW w, Releases(w), waitBody(s, w),
           frame' = [frame EXCEPT ![current] = NoMutex],
           UNCHANGED tableVars, UNCHANGED <<handles, holds, semHandles, given>>
    PROVE  SemInv'
  <1>1. /\ current \in Pids /\ current \in Alive(procState) /\ procState[current] = "RUNNING"
        /\ \A k \in Mutexes : current \notin Waiting(k)
        /\ \A u \in Sems : current \notin SemWaiting(u)
    BY SemCallerFacts
  <1>2. w # current /\ w \in Pids \cup {NoPid} /\ LocksOK'
    BY <1>1 DEF Releases
  <1>3. frame'[current] = NoMutex /\ \A p \in Pids \ {current} : frame'[p] = frame[p]
    BY <1>1, PartsHold DEF ClientsOK
  <1>4. NamesOK'
    BY SameNames
  <1>5. CASE HasToken(s)
    <2>1. /\ SemsOK'
          /\ \A u \in Sems : (sem'[u].used <=> sem[u].used) /\ SemWaiting(u)' = SemWaiting(u)
      BY <1>5, SemTakes
    <2>2. /\ call' = [call EXCEPT ![current] = NoCall]
          /\ procState' = changeProcessState(procState, w, "READY") /\ current' = current
      BY <1>5 DEF waitBody
    <2>3. /\ TableOK' /\ Alive(procState') = Alive(procState)
          /\ \A p \in Pids :
                /\ procState'[p] = "BLOCKED" <=> procState[p] = "BLOCKED" /\ p # w
                /\ procState'[p] = "UNBORN" <=> procState[p] = "UNBORN"
      BY <2>2, <1>2, WakeFacts DEF Releases
    <2>4. ClientsOK' /\ call'[current].op = "none"
          /\ \A p \in Pids \ {current} : call'[p] = call[p]
      <3>1. NoCall \in Calls /\ NoCall.op = "none"
        BY SemaphoreAssumption DEF NoCall, Calls, Sems
      <3> QED BY <1>1, <2>2, <3>1, PartsHold DEF ClientsOK
    <2>5. ASSUME NEW p \in Pids PROVE WaitOK(p)'
      <3>1. semHandles'[p] = semHandles[p] /\ \A u \in semHandles[p] : sem'[u].used
        BY <2>1, HandlesUsed
      <3>2. CASE p = current
        <4>1. /\ \A k \in Mutexes : p \notin Waiting(k)'
              /\ \A u \in Sems : p \notin SemWaiting(u)'
              /\ procState'[p] # "BLOCKED"
          BY <1>1, <2>1, <2>3, <3>2 DEF Releases
        <4> QED BY <1>3, <2>4, <3>1, <3>2, <4>1 DEF WaitOK
      <3>3. CASE p # current /\ p # w
        BY <1>3, <2>1, <2>3, <2>4, <3>1, <3>3, Unmoved DEF Releases
      <3>4. CASE p # current /\ p = w
        BY <1>3, <2>1, <2>3, <2>4, <3>1, <3>4, Awakened DEF Releases
      <3> QED BY <3>2, <3>3, <3>4
    <2> QED BY <1>2, <1>4, <2>1, <2>3, <2>4, <2>5, Assemble
  <1>6. CASE ~HasToken(s)
    <2>1. /\ SemsOK'
          /\ SemWaiting(s)' = SemWaiting(s) \cup {current}
          /\ \A u \in Sems \ {s} : SemWaiting(u)' = SemWaiting(u)
          /\ \A u \in Sems : (sem'[u].used <=> sem[u].used)
      BY <1>6, SemEnqueues
    <2>2. /\ call' = [call EXCEPT ![current] = [op |-> "waitSleep", s |-> s]]
          /\ schedule(changeProcessState(changeProcessState(procState, current, "BLOCKED"),
                                         w, "READY"))
      BY <1>6 DEF waitBody
    <2>3. /\ TableOK' /\ Alive(procState') = Alive(procState)
          /\ \A p \in Pids :
                /\ procState'[p] = "BLOCKED" <=>
                      p = current \/ (procState[p] = "BLOCKED" /\ p # w)
                /\ procState'[p] = "UNBORN" <=> procState[p] = "UNBORN"
      BY <2>2, <1>2, SuspendFacts DEF Releases
    <2>4. /\ ClientsOK' /\ call'[current] = [op |-> "waitSleep", s |-> s]
          /\ \A p \in Pids \ {current} : call'[p] = call[p]
      <3>1. [op |-> "waitSleep", s |-> s] \in Calls
        BY DEF Calls
      <3> QED BY <1>1, <2>2, <3>1, PartsHold DEF ClientsOK
    <2>5. ASSUME NEW p \in Pids PROVE WaitOK(p)'
      <3>1. semHandles'[p] = semHandles[p] /\ \A u \in semHandles[p] : sem'[u].used
        BY <2>1, HandlesUsed
      <3>2. CASE p = current
        <4>1. /\ \A k \in Mutexes : p \notin Waiting(k)'
              /\ \A u \in Sems : p \in SemWaiting(u)' <=> u = s
              /\ procState'[p] = "BLOCKED" /\ procState'[p] # "UNBORN"
          BY <1>1, <2>1, <2>3, <3>2 DEF Releases
        <4>2. /\ call'[p] = [op |-> "waitSleep", s |-> s]
              /\ call'[p].op = "waitSleep" /\ call'[p].s = s
              /\ frame'[p] = NoMutex /\ s \in semHandles'[p]
          BY <1>3, <2>4, <3>1, <3>2
        <4> QED BY <3>1, <4>1, <4>2 DEF WaitOK
      <3>3. CASE p # current /\ p # w
        BY <1>3, <2>1, <2>3, <2>4, <3>1, <3>3, Unmoved DEF Releases
      <3>4. CASE p # current /\ p = w
        <4>1. \A u \in Sems : SemWaiting(u)' \subseteq SemWaiting(u) \cup {current}
          BY <2>1
        <4> QED BY <1>3, <2>3, <2>4, <3>1, <3>4, <4>1, Awakened DEF Releases
      <3> QED BY <3>2, <3>3, <3>4
    <2> QED BY <1>2, <1>4, <2>1, <2>3, <2>4, <2>5, Assemble
  <1> QED BY <1>5, <1>6

\* wait with its mutex free, and wait when lockMutex has returned to it.
LEMMA waitInv ==
    ASSUME SemInv, NEW s \in Sems, wait(s)
    PROVE  SemInv'
  <1>1. /\ Calling /\ frame[current] = NoMutex /\ s \in semHandles[current] /\ sem[s].used
        /\ waitBody(s, NoPid) /\ UNCHANGED tableVars /\ UNCHANGED lockVars
        /\ UNCHANGED <<handles, holds, frame, semHandles, given>>
    BY UserCalls DEF wait, InUserCode, clientVars
  <1>2. frame' = [frame EXCEPT ![current] = NoMutex]
    BY <1>1, PartsHold DEF ClientsOK
  <1>3. Releases(NoPid)
    BY <1>1, PassReleases
  <1> QED BY <1>1, <1>2, <1>3, SemWaits

\* wait goes on when it has been handed the mutex of its semaphore.
LEMMA waitResumeInv ==
    ASSUME SemInv, waitResume
    PROVE  SemInv'
  <1> DEFINE m == frame[current]
             s == call[current].s
  <1>1. /\ Calling /\ call[current].op = "waitLock"
        /\ waitBody(s, Woken(m)) /\ freeInTable(m)
        /\ frame' = [frame EXCEPT ![current] = NoMutex]
        /\ UNCHANGED tableVars /\ UNCHANGED <<handles, holds, semHandles, given>>
    BY DEF waitResume
  <1>2. current \in Pids
    BY PartsHold DEF TableOK
  <1>3. WaitOK(current)
    BY <1>2, WaitsAgree
  <1>4. s \in semHandles[current] /\ m \in Mutexes
    BY <1>1, <1>2, <1>3, PartsHold DEF WaitOK, ClientsOK
  <1>5. s \in Sems /\ sem[s].used
    BY <1>2, <1>4, HandlesUsed
  <1>6. Releases(Woken(m))
    BY <1>1, <1>4, FreeReleases
  <1> HIDE DEF m, s
  <1> QED BY <1>1, <1>4, <1>5, <1>6, SemWaits

\* The wait of a woken process returns: it is RUNNING and in no queue.
LEMMA waitReturnInv ==
    ASSUME SemInv, waitReturn
    PROVE  SemInv'
  <1>1. /\ Calling /\ call[current].op = "waitSleep"
        /\ call' = [call EXCEPT ![current] = NoCall]
        /\ UNCHANGED <<procState, current, mutex, queue, cardinalBlocked>>
        /\ UNCHANGED tableVars /\ UNCHANGED <<handles, holds, frame, semHandles>>
        /\ UNCHANGED <<sem, given, taken>>
    BY DEF waitReturn, lockVars, clientVars
  <1>2. LocksOK' /\ \A k \in Mutexes : Waiting(k)' = Waiting(k)
    BY <1>1, SameLocksOK, PartsHold DEF LocksOK
  <1>3. SemsOK' /\ \A u \in Sems : SemWaiting(u)' = SemWaiting(u)
    BY <1>1, SameSemsOK
  <1>4. NoCall \in Calls /\ NoCall.op = "none" /\ current \in Pids
    BY SemaphoreAssumption, PartsHold DEF NoCall, Calls, Sems, TableOK
  <1>5. ClientsOK' /\ call'[current].op = "none"
        /\ \A p \in Pids \ {current} : call'[p] = call[p]
    BY <1>1, <1>4, PartsHold DEF ClientsOK
  <1>6. TableOK' /\ Alive(procState') = Alive(procState) /\ NamesOK'
    BY <1>1, SameTable, SameNames
  <1>7. ASSUME NEW p \in Pids PROVE WaitOK(p)'
    <2>1. \A u \in semHandles[p] : sem'[u].used
      BY <1>1, HandlesUsed
    <2>2. CASE p = current
      <3>1. /\ \A k \in Mutexes : p \notin Waiting(k)'
            /\ \A u \in Sems : p \notin SemWaiting(u)'
            /\ procState'[p] # "BLOCKED"
        BY <1>1, <1>2, <1>3, <2>2, SemCallerFacts
      <3> QED BY <1>1, <1>5, <2>1, <2>2, <3>1 DEF WaitOK
    <2>3. CASE p # current
      BY <1>1, <1>2, <1>3, <1>5, <1>6, <2>1, <2>3, Unmoved
    <2> QED BY <2>2, <2>3
  <1> QED BY <1>2, <1>3, <1>5, <1>6, <1>7, Assemble

\* signal: the process it wakes is READY and out of the queue.
LEMMA signalInv ==
    ASSUME SemInv, NEW s \in Sems, signal(s)
    PROVE  SemInv'
  <1> DEFINE w == SemWoken(sem[s])
  <1>1. /\ Calling /\ current' = current
        /\ procState' = changeProcessState(procState, w, "READY")
        /\ UNCHANGED tableVars /\ UNCHANGED <<mutex, queue, cardinalBlocked>>
        /\ UNCHANGED <<handles, holds, frame, semHandles, call>>
    BY UserCalls DEF signal, InUserCode, lockVars, clientVars
  <1>2. /\ SemsOK'
        /\ w = NoPid \/ w \in SemWaiting(s)
        /\ SemWaiting(s)' = SemWaiting(s) \ {w}
        /\ \A u \in Sems \ {s} : SemWaiting(u)' = SemWaiting(u)
        /\ \A u \in Sems : (sem'[u].used <=> sem[u].used)
    BY SemSignals
  <1> HIDE DEF w
  <1>3. LocksOK' /\ \A k \in Mutexes : Waiting(k)' = Waiting(k)
    BY <1>1, SameLocksOK, PartsHold DEF LocksOK
  <1>4. ClientsOK' /\ NamesOK'
    BY <1>1, SameNames, PartsHold DEF ClientsOK
  <1>5. w \in Pids \cup {NoPid}
    BY <1>2 DEF SemWaiting
  <1>6. ASSUME w \in Alive(procState)
        PROVE  /\ procState[w] = "BLOCKED"
               /\ \A m \in Mutexes : w \notin Waiting(m)
               /\ \A u \in Sems : w \notin SemWaiting(u)'
    <2>1. w \in SemWaiting(s)
      BY <1>2, <1>6, PidAssumption DEF Alive
    <2>2. procState[w] = "BLOCKED"
      BY <1>6, <2>1 DEF SemInv, QueuedInWait
    <2>3. /\ \A u \in Sems \ {s} : w \notin SemWaiting(u)
          /\ \A m \in Mutexes : w \notin Waiting(m)
      BY <1>6, <2>1, OneQueueOnly
    <2> QED BY <1>2, <2>2, <2>3
  <1>7. /\ TableOK' /\ Alive(procState') = Alive(procState)
        /\ \A p \in Pids :
              /\ procState'[p] = "BLOCKED" <=> procState[p] = "BLOCKED" /\ p # w
              /\ procState'[p] = "UNBORN" <=> procState[p] = "UNBORN"
    BY <1>1, <1>5, <1>6, WakeFacts
  <1>8. ASSUME NEW p \in Pids PROVE WaitOK(p)'
    <2>1. \A u \in semHandles[p] : sem'[u].used
      BY <1>2, HandlesUsed
    <2>2. \A u \in Sems : /\ p \in SemWaiting(u)' => p \in SemWaiting(u)
                          /\ p # w => (p \in SemWaiting(u)' <=> p \in SemWaiting(u))
      BY <1>2
    <2>3. CASE p # w
      BY <1>1, <1>3, <1>7, <2>1, <2>2, <2>3, Unmoved
    <2>4. CASE p = w
      BY <1>1, <1>3, <1>6, <1>7, <2>1, <2>2, <2>4, Awakened
    <2> QED BY <2>3, <2>4
  <1> QED BY <1>2, <1>3, <1>4, <1>7, <1>8, Assemble

-----------------------------------------------------------------------------
\* A new process is in no queue; the pids are never reused.
LEMMA SemCreatesProcess ==
    ASSUME SemInv, NEW q \in Pids, createProcess(q), UNCHANGED semVars
    PROVE  SemInv'
  <1>1. /\ procState[q] = "UNBORN" /\ procState' = [procState EXCEPT ![q] = "READY"]
        /\ UNCHANGED <<current, mutex, queue, cardinalBlocked>>
        /\ UNCHANGED tableVars /\ UNCHANGED <<handles, holds, frame>>
        /\ UNCHANGED <<sem, semHandles, call, given, taken>>
    BY DEF createProcess, lockVars, clientVars, semVars
  <1>2. LocksOK' /\ \A k \in Mutexes : Waiting(k)' = Waiting(k)
    BY <1>1, SameLocksOK, PartsHold DEF LocksOK
  <1>3. SemsOK' /\ \A u \in Sems : SemWaiting(u)' = SemWaiting(u)
    BY <1>1, SameSemsOK
  <1>4. ClientsOK' /\ NamesOK'
    BY <1>1, SameNames, PartsHold DEF ClientsOK
  <1>5. procState'[q] = "READY" /\ \A p \in Pids \ {q} : procState'[p] = procState[p]
    BY <1>1, PartsHold DEF TableOK
  <1>6. TableOK'
    BY <1>1, PartsHold DEF TableOK, OneRunning, InitSchedulable, States
  <1>7. \A p \in Pids \ {q} : p \in Alive(procState') <=> p \in Alive(procState)
    BY <1>5 DEF Alive
  <1>8. ASSUME NEW p \in Pids PROVE WaitOK(p)'
    <2>1. \A u \in semHandles[p] : sem'[u].used
      BY <1>1, HandlesUsed
    <2>2. CASE p # q
      BY <1>1, <1>2, <1>3, <1>5, <1>7, <2>1, <2>2, Unmoved
    <2>3. CASE p = q
      <3>1. WaitOK(q)
        BY WaitsAgree
      <3>2. /\ \A k \in Mutexes : p \notin Waiting(k)'
            /\ \A u \in Sems : p \notin SemWaiting(u)'
            /\ procState'[p] # "BLOCKED"
        BY <1>1, <1>2, <1>3, <1>5, <2>3, <3>1 DEF WaitOK
      <3> QED BY <1>1, <2>1, <2>3, <3>1, <3>2 DEF WaitOK
    <2> QED BY <2>2, <2>3
  <1> QED BY <1>2, <1>3, <1>4, <1>6, <1>8, Assemble

\* A killed process stays in the queue it was in, and is looked for no more.
LEMMA killProcessInv ==
    ASSUME SemInv, NEW q \in Mortal, killProcess(q)
    PROVE  SemInv'
  <1>1. /\ q \in Pids /\ q # InitPid /\ q \in Alive(procState) /\ Calling
        /\ handles' = [handles EXCEPT ![q] = {}] /\ holds' = [holds EXCEPT ![q] = {}]
        /\ frame' = [frame EXCEPT ![q] = NoMutex]
        /\ call' = [call EXCEPT ![q] = NoCall]
        /\ semHandles' = [semHandles EXCEPT ![q] = {}]
        /\ UNCHANGED tableVars /\ UNCHANGED <<mutex, queue, cardinalBlocked, sem, given, taken>>
    BY MutexAssumption, UserCalls DEF killProcess, kill, lockVars
  <1>2. LocksOK' /\ \A k \in Mutexes : Waiting(k)' = Waiting(k)
    BY <1>1, SameLocksOK, PartsHold DEF LocksOK
  <1>3. SemsOK' /\ \A u \in Sems : SemWaiting(u)' = SemWaiting(u)
    BY <1>1, SameSemsOK
  <1>4. NamesOK'
    BY <1>1, SameNames
  <1>5. NoCall \in Calls /\ NoCall.op = "none"
    BY SemaphoreAssumption DEF NoCall, Calls, Sems
  <1>6. /\ ClientsOK'
        /\ frame'[q] = NoMutex /\ call'[q].op = "none" /\ semHandles'[q] = {}
        /\ \A p \in Pids \ {q} : /\ frame'[p] = frame[p] /\ call'[p] = call[p]
                                 /\ semHandles'[p] = semHandles[p]
    BY <1>1, <1>5, PartsHold DEF ClientsOK
  <1>7. /\ TableOK' /\ procState'[q] = "REMOVED"
        /\ \A p \in Pids \ {q} :
              /\ p \in Alive(procState') <=> p \in Alive(procState)
              /\ procState'[p] = "BLOCKED" <=> procState[p] = "BLOCKED"
              /\ procState'[p] = "UNBORN" <=> procState[p] = "UNBORN"
    <2> DEFINE st == Removed(procState, q)
    <2>1. /\ procState \in [Pids -> States] /\ current \in Pids
          /\ OneRunning /\ InitSchedulable
      BY PartsHold DEF TableOK
    <2>2. /\ st \in [Pids -> States] /\ st[q] = "REMOVED"
          /\ \A p \in Pids \ {q} : st[p] = procState[p]
      BY <1>1, <2>1 DEF Removed, changeProcessState, States
    <2>3. /\ \A p \in Pids : st[p] = "RUNNING" => p = current
          /\ st[InitPid] \in {"READY", "RUNNING"}
      BY <1>1, <2>1, <2>2, PidAssumption DEF OneRunning, InitSchedulable
    <2>4. CASE q = current
      <3>1. schedule(st)
        BY <2>4 DEF killProcess, kill
      <3> HIDE DEF st
      <3>2. /\ procState' \in [Pids -> States] /\ current' \in Pids
            /\ OneRunning' /\ InitSchedulable'
            /\ \A p \in Pids, s \in {"UNBORN", "BLOCKED", "SLEEPING", "REMOVED"} :
                   procState'[p] = s <=> st[p] = s
        BY <2>1, <2>2, <2>3, <3>1, ScheduleFacts
      <3> QED BY <1>1, <2>2, <3>2 DEF TableOK, Alive
    <2>5. CASE q # current
      <3>1. procState' = st /\ current' = current
        BY <2>5 DEF killProcess, kill
      <3> HIDE DEF st
      <3>2. OneRunning' /\ InitSchedulable'
        BY <1>1, <2>1, <2>2, <2>3, <2>5, <3>1 DEF OneRunning, InitSchedulable
      <3> QED BY <1>1, <2>1, <2>2, <3>1, <3>2 DEF TableOK, Alive
    <2> QED BY <2>4, <2>5
  <1>8. ASSUME NEW p \in Pids PROVE WaitOK(p)'
    <2>1. CASE p # q
      <3>1. \A u \in semHandles'[p] : sem'[u].used
        BY <1>1, <1>6, <2>1, HandlesUsed
      <3> QED BY <1>2, <1>3, <1>6, <1>7, <2>1, <3>1, Unmoved
    <2>2. CASE p = q
      BY <1>6, <1>7, <2>2 DEF WaitOK, Alive
    <2> QED BY <2>1, <2>2
  <1> QED BY <1>2, <1>3, <1>4, <1>6, <1>7, <1>8, Assemble

\* The timer changes who is RUNNING and nothing else.
LEMMA SemTicks ==
    ASSUME SemInv, tick
    PROVE  SemInv'
  <1>1. /\ schedule(procState)
        /\ UNCHANGED tableVars /\ UNCHANGED <<mutex, queue, cardinalBlocked>>
        /\ UNCHANGED <<handles, holds, frame>>
        /\ UNCHANGED <<sem, semHandles, call, given, taken>>
    BY DEF tick, timerTick, lockVars, clientVars, semVars
  <1>2. LocksOK' /\ \A k \in Mutexes : Waiting(k)' = Waiting(k)
    BY <1>1, SameLocksOK, PartsHold DEF LocksOK
  <1>3. SemsOK' /\ \A u \in Sems : SemWaiting(u)' = SemWaiting(u)
    BY <1>1, SameSemsOK
  <1>4. ClientsOK' /\ NamesOK'
    BY <1>1, SameNames, PartsHold DEF ClientsOK
  <1>5. /\ TableOK' /\ Alive(procState') = Alive(procState)
        /\ \A p \in Pids :
              /\ procState'[p] = "BLOCKED" <=> procState[p] = "BLOCKED"
              /\ procState'[p] = "UNBORN" <=> procState[p] = "UNBORN"
    <2>1. /\ procState \in [Pids -> States] /\ current \in Pids
          /\ OneRunning /\ InitSchedulable
      BY PartsHold DEF TableOK
    <2>2. /\ procState' \in [Pids -> States] /\ current' \in Pids
          /\ OneRunning' /\ InitSchedulable'
          /\ \A p \in Pids, s \in {"UNBORN", "BLOCKED", "SLEEPING", "REMOVED"} :
                 procState'[p] = s <=> procState[p] = s
      BY <1>1, <2>1, ScheduleFacts DEF OneRunning, InitSchedulable
    <2> QED BY <2>2 DEF TableOK, Alive
  <1>6. ASSUME NEW p \in Pids PROVE WaitOK(p)'
    <2>1. \A u \in semHandles[p] : sem'[u].used
      BY <1>1, HandlesUsed
    <2> QED BY <1>1, <1>2, <1>3, <1>5, <2>1, Unmoved
  <1> QED BY <1>2, <1>3, <1>4, <1>5, <1>6, Assemble

-----------------------------------------------------------------------------
\* semOpen gives its caller a semaphore in use.
LEMMA semOpenInv ==
    ASSUME SemInv, NEW n \in Names, semOpen(n)
    PROVE  SemInv'
  <1>1. PICK s \in Sems : First(s, SemNamed(n)) /\
                          semHandles' = [semHandles EXCEPT ![current] = @ \cup {s}]
    BY DEF semOpen
  <1>2. /\ UNCHANGED <<procState, current, mutex, queue, cardinalBlocked>>
        /\ UNCHANGED tableVars /\ UNCHANGED <<handles, holds, frame>>
        /\ UNCHANGED <<sem, call, given, taken>>
    BY DEF semOpen, lockVars, clientVars
  <1>3. sem[s].used
    BY <1>1 DEF First, SemNamed
  <1>4. LocksOK' /\ \A k \in Mutexes : Waiting(k)' = Waiting(k)
    BY <1>2, SameLocksOK, PartsHold DEF LocksOK
  <1>5. SemsOK' /\ \A u \in Sems : SemWaiting(u)' = SemWaiting(u)
    BY <1>2, SameSemsOK
  <1>6. /\ ClientsOK'
        /\ \A p \in Pids : semHandles[p] \subseteq semHandles'[p] /\
                           semHandles'[p] \subseteq semHandles[p] \cup {s}
    BY <1>1, <1>2, PartsHold DEF ClientsOK
  <1>7. \A p \in Pids : \A u \in semHandles'[p] : sem'[u].used
    BY <1>2, <1>3, <1>6, HandlesUsed
  <1>8. \A p \in Pids : WaitOK(p)'
    BY <1>2, <1>4, <1>5, <1>6, <1>7, NobodyMoves
  <1>9. TableOK' /\ NamesOK'
    BY <1>2, SameTable, SameNames
  <1> QED BY <1>4, <1>5, <1>6, <1>8, <1>9, Assemble

\* semCreate of a name in use leaves semaphoreMutex locked.
LEMMA semCreateExistingInv ==
    ASSUME SemInv, NEW n \in Names, semCreateExisting(n)
    PROVE  SemInv'
  <1>1. /\ UNCHANGED <<procState, current, queue, cardinalBlocked>>
        /\ mutex' = [mutex EXCEPT ![semaphoreMutex] = 1]
        /\ UNCHANGED tableVars /\ UNCHANGED <<handles, holds, frame>>
        /\ UNCHANGED <<sem, semHandles, call, given, taken>>
    BY DEF semCreateExisting, clientVars, semVars
  <1>2. mutex' \in [Mutexes -> {0, 1}]
    BY <1>1, PartsHold DEF LocksOK
  <1>3. LocksOK' /\ \A k \in Mutexes : Waiting(k)' = Waiting(k)
    BY <1>1, <1>2, SameLocksOK
  <1>4. SemsOK' /\ \A u \in Sems : SemWaiting(u)' = SemWaiting(u)
    BY <1>1, SameSemsOK
  <1>5. ClientsOK'
    BY <1>1, PartsHold DEF ClientsOK
  <1>6. \A p \in Pids : WaitOK(p)'
    BY <1>1, <1>3, <1>4, NobodyMoves, HandlesUsed
  <1>7. TableOK' /\ NamesOK'
    BY <1>1, SameTable, SameNames
  <1> QED BY <1>3, <1>4, <1>5, <1>6, <1>7, Assemble

\* semCreate of a new name.
LEMMA semCreateInv ==
    ASSUME SemInv, NEW n \in Names, NEW start \in Starts, semCreate(n, start)
    PROVE  SemInv'
  <1>1. /\ UNCHANGED <<procState, current, mutex, queue, cardinalBlocked>>
        /\ UNCHANGED <<handles, holds, frame, call>>
    BY DEF semCreate, lockVars, clientVars
  <1>2. /\ SemsOK'
        /\ \A u \in Sems : SemWaiting(u)' = SemWaiting(u)
        /\ \E s \in Sems :
              /\ sem'[s].used
              /\ \A u \in Sems \ {s} : sem'[u] = sem[u]
              /\ semHandles' = [semHandles EXCEPT ![current] = @ \cup {s}]
    BY SemCreates
  <1>3. PICK s \in Sems : /\ sem'[s].used
                          /\ \A u \in Sems \ {s} : sem'[u] = sem[u]
                          /\ semHandles' = [semHandles EXCEPT ![current] = @ \cup {s}]
    BY <1>2
  <1>4. NamesOK'
    <2>1. PICK t \in Sems : createSemaphore(t, n, start)
      BY DEF semCreate
    <2>2. PICK m \in Mutexes : UNCHANGED tableVars \/ createMutex(m, n)
      BY <2>1 DEF createSemaphore
    <2> QED BY <2>2, TableGrows
  <1>5. LocksOK' /\ \A k \in Mutexes : Waiting(k)' = Waiting(k)
    BY <1>1, SameLocksOK, PartsHold DEF LocksOK
  <1>6. /\ ClientsOK'
        /\ \A p \in Pids : semHandles[p] \subseteq semHandles'[p] /\
                           semHandles'[p] \subseteq semHandles[p] \cup {s}
    BY <1>1, <1>3, PartsHold DEF ClientsOK
  <1>7. \A p \in Pids : \A u \in semHandles'[p] : sem'[u].used
    BY <1>3, <1>6, HandlesUsed
  <1>8. \A p \in Pids : WaitOK(p)'
    BY <1>1, <1>2, <1>5, <1>6, <1>7, NobodyMoves
  <1>9. TableOK'
    BY <1>1, SameTable
  <1> QED BY <1>2, <1>4, <1>5, <1>6, <1>8, <1>9, Assemble

\* semClose by the last process that has the semaphore.
LEMMA semCloseInv ==
    ASSUME SemInv, CleanClose, NEW s \in Sems, semClose(s)
    PROVE  SemInv'
  <1>1. /\ UNCHANGED <<procState, current, mutex, queue, cardinalBlocked>>
        /\ UNCHANGED tableVars /\ UNCHANGED <<handles, holds, frame, call>>
        /\ semHandles' = [semHandles EXCEPT ![current] = @ \ {s}]
        /\ call[current] = NoCall
        /\ \A p \in Pids \ {current} : s \notin semHandles[p]
    BY DEF semClose, InUserCode, lockVars, clientVars
  <1>2. /\ SemsOK'
        /\ \A u \in Sems : SemWaiting(u)' = SemWaiting(u)
        /\ \A u \in Sems \ {s} : sem'[u] = sem[u]
    BY SemCloses
  <1>3. LocksOK' /\ \A k \in Mutexes : Waiting(k)' = Waiting(k)
    BY <1>1, SameLocksOK, PartsHold DEF LocksOK
  <1>4. /\ ClientsOK' /\ current \in Pids
        /\ \A p \in Pids \ {current} : semHandles'[p] = semHandles[p]
        /\ semHandles'[current] = semHandles[current] \ {s}
    BY <1>1, PartsHold DEF ClientsOK, TableOK
  <1>5. TableOK' /\ NamesOK' /\ Alive(procState') = Alive(procState)
    BY <1>1, SameTable, SameNames
  <1>6. ASSUME NEW p \in Pids PROVE WaitOK(p)'
    <2>1. \A u \in semHandles'[p] : sem'[u].used
      BY <1>1, <1>2, <1>4, HandlesUsed
    <2>2. CASE p # current
      BY <1>1, <1>2, <1>3, <1>4, <1>5, <2>1, <2>2, Unmoved
    <2>3. CASE p = current
      <3>1. WaitOK(p) /\ call[p].op = "none"
        BY <1>1, <2>3, WaitsAgree DEF NoCall
      <3>2. Calling
        BY UserCalls DEF semClose, InUserCode
      <3>3. /\ \A u \in Sems : p \notin SemWaiting(u)'
            /\ \A k \in Mutexes : p \notin Waiting(k)'
            /\ procState'[p] # "BLOCKED"
        BY <1>1, <1>2, <1>3, <2>3, <3>2, SemCallerFacts
      <3> QED BY <1>1, <2>1, <3>1, <3>3 DEF WaitOK
    <2> QED BY <2>2, <2>3
  <1> QED BY <1>2, <1>3, <1>4, <1>5, <1>6, Assemble

-----------------------------------------------------------------------------
\* At boot every queue is empty and nobody is inside a call.
LEMMA SemInitInv == SemInit => SemInv
  <1> SUFFICES ASSUME SemInit PROVE SemInv
    OBVIOUS
  <1>1. /\ 0 \in Sems /\ 0 \in Mutexes /\ {adminMutex, semaphoreMutex} \subseteq Mutexes
        /\ 0 \in 0 .. Cardinality(Pids) /\ 0 \in -Cardinality(Pids) .. MaxGiven
        /\ 0 \in 0 .. MaxGiven
    BY SemaphoreAssumption, MutexAssumption, CardPids
    DEF Sems, Mutexes, adminMutex, semaphoreMutex
  <1>2. /\ \A m \in Mutexes : Waiting(m) = {}
        /\ \A s \in Sems : SemWaiting(s) = {}
    BY PidAssumption DEF SemInit, Waiting, SemWaiting
  <1>3. TablesOK /\ InitSchedulable /\ OneRunning
    BY PidAssumption DEF SemInit, PTInit, TablesOK, InitSchedulable, OneRunning
  <1>4. SemTypeOK
    <2>1. NoCall \in Calls
      BY <1>1 DEF NoCall, Calls
    <2>2. /\ procState \in [Pids -> States]
          /\ name \in [Mutexes -> Names \cup {NoName, SemMutexName}]
          /\ cardinalBlocked \in [Mutexes -> 0 .. Cardinality(Pids)]
          /\ frame \in [Pids -> Mutexes \cup {NoMutex}]
      BY <1>1 DEF SemInit, PTInit, States
    <2>3. /\ semHandles \in [Pids -> SUBSET Sems] /\ call \in [Pids -> Calls]
          /\ given \in [Sems -> 0 .. MaxGiven] /\ taken \in [Sems -> Nat]
      BY <1>1, <2>1 DEF SemInit
    <2>4. sem \in [Sems -> SemRec]
      BY <1>1 DEF SemInit, SemRec, Queues
    <2> QED BY <2>2, <2>3, <2>4 DEF SemTypeOK, SemRec, Queues
  <1>5. QueueCounted
    BY <1>2, FS_EmptySet DEF SemInit, QueueCounted
  <1>6. QueuedInLock /\ QueuedInWait
    BY <1>2 DEF QueuedInLock, QueuedInWait
  <1>7. BlockedHasQueue /\ CallsMatch
    BY DEF SemInit, PTInit, BlockedHasQueue, CallsMatch, NoCall
  <1>8. SemQueueOnce /\ NegativeIsQueue /\ TokensConserved
    BY <1>2 DEF SemInit, SemQueueOnce, NegativeIsQueue, TokensConserved
  <1> QED BY <1>3, <1>4, <1>5, <1>6, <1>7, <1>8 DEF SemInv

\* No step of the clients, the timer or kill breaks the invariant.
LEMMA SemNextInv ==
    ASSUME SemInv, CleanClose, [SemNext]_allVars
    PROVE  SemInv'
  <1>1. CASE UNCHANGED allVars
    <2>1. /\ UNCHANGED <<procState, current, mutex, queue, cardinalBlocked>>
          /\ UNCHANGED tableVars /\ UNCHANGED <<handles, holds, frame>>
          /\ UNCHANGED <<sem, semHandles, call, given, taken>>
      BY <1>1 DEF allVars, tableVars
    <2>2. LocksOK' /\ \A k \in Mutexes : Waiting(k)' = Waiting(k)
      BY <2>1, SameLocksOK, PartsHold DEF LocksOK
    <2>3. SemsOK' /\ \A u \in Sems : SemWaiting(u)' = SemWaiting(u)
      BY <2>1, SameSemsOK
    <2>4. TableOK' /\ NamesOK' /\ ClientsOK'
      BY <2>1, SameTable, SameNames, PartsHold DEF ClientsOK
    <2>5. \A p \in Pids : WaitOK(p)'
      BY <2>1, <2>2, <2>3, NobodyMoves, HandlesUsed
    <2> QED BY <2>2, <2>3, <2>4, <2>5, Assemble
  <1>2. CASE mutexCall
    <2>1. call[current] = NoCall /\ UNCHANGED semVars
      BY <1>2 DEF mutexCall
    <2>2. ASSUME NEW n \in Names, getMutex(n) PROVE SemInv'
      BY <2>1, <2>2, SemGetMutex
    <2>3. ASSUME NEW m \in Mutexes, lockMutex(m) PROVE SemInv'
      BY <2>1, <2>3, SemLockMutex
    <2>4. ASSUME NEW m \in Mutexes, lockMutexBlock(m) PROVE SemInv'
      BY <2>1, <2>4, SemLockBlocks
    <2>5. ASSUME NEW m \in Mutexes, freeMutex(m) PROVE SemInv'
      BY <2>1, <2>5, SemFrees
    <2>6. ASSUME NEW m \in Mutexes, closeMutex(m) PROVE SemInv'
      BY <2>1, <2>6, SemCloseMutex
    <2>7. CASE lockMutexReturn
      BY <2>1, <2>7, SemLockReturns
    <2>8. ASSUME NEW p \in Pids, createProcess(p) PROVE SemInv'
      BY <2>1, <2>8, SemCreatesProcess
    <2> QED BY <1>2, <2>2, <2>3, <2>4, <2>5, <2>6, <2>7, <2>8 DEF mutexCall
  <1>3. CASE tick
    BY <1>3, SemTicks
  <1>4. ASSUME NEW p \in Mortal, killProcess(p) PROVE SemInv'
    BY <1>4, killProcessInv
  <1>5. ASSUME NEW n \in Names, semOpen(n) \/ semCreateExisting(n) PROVE SemInv'
    BY <1>5, semOpenInv, semCreateExistingInv
  <1>6. ASSUME NEW n \in Names, NEW start \in Starts, semCreate(n, start) PROVE SemInv'
    BY <1>6, semCreateInv
  <1>7. CASE semCreateBlock
    BY <1>7, SemCreateBlocks
  <1>8. ASSUME NEW s \in Sems, semClose(s) \/ wait(s) \/ waitBlock(s) \/ signal(s)
        PROVE  SemInv'
    BY <1>8, semCloseInv, waitInv, SemWaitBlocks, signalInv
  <1>9. CASE waitResume \/ waitReturn
    BY <1>9, waitResumeInv, waitReturnInv
  <1> QED BY <1>1, <1>2, <1>3, <1>4, <1>5, <1>6, <1>7, <1>8, <1>9 DEF SemNext

\* The types, the queues and the counters of the two tables, together with where every
\* process that is suspended will be looked for (semaphores.c:63-160, mutex.c:168-222).
THEOREM SemaphoreInvariant ==
    ASSUME CleanClose
    PROVE  SemSpec => []SemInv
  <1>1. SemInv /\ [SemNext]_allVars => SemInv'
    BY SemNextInv
  <1> QED BY SemInitInv, <1>1, PTL DEF SemSpec

\* Every value, queue and call of the semaphores has its type, whoever is killed.
THEOREM SemaphoreTypes ==
    ASSUME CleanClose
    PROVE  SemSpec => []SemTypeOK
  <1>1. SemInv => SemTypeOK
    BY DEF SemInv
  <1> QED BY SemaphoreInvariant, <1>1, PTL

\* A negative value counts the queue signal() looks at, whoever is killed in a queue and
\* whichever mutex wait() is suspended in.
THEOREM SemaphoreSafety ==
    ASSUME CleanClose
    PROVE  SemSpec => []NegativeIsQueue
  <1>1. SemInv => NegativeIsQueue
    BY DEF SemInv
  <1> QED BY SemaphoreInvariant, <1>1, PTL

\* No token of a semaphore is lost or made: what wait() and signal() did to its value is
\* what the value is, whoever is killed in between.
THEOREM SemaphoreTokens ==
    ASSUME CleanClose
    PROVE  SemSpec => []TokensConserved
  <1>1. SemInv => TokensConserved
    BY DEF SemInv
  <1> QED BY SemaphoreInvariant, <1>1, PTL

\* A process that sleeps is where its waker looks for it: in the queue signal() empties
\* (semaphores.c:139-160) or in the one freeMutex empties (mutex.c:208-222).
THEOREM SemaphoreSleepers ==
    ASSUME CleanClose
    PROVE  SemSpec => []SleeperIsQueued
  <1>1. ASSUME SemInv PROVE SleeperIsQueued
    <2>1. \A p \in Pids : WaitOK(p)
      BY <1>1, WaitsAgree
    <2>2. ASSUME NEW p \in Alive(procState), procState[p] = "BLOCKED"
          PROVE  call[p].op = "waitSleep" \/ \E m \in Mutexes : frame[p] = m /\ p \in Waiting(m)
      BY <2>1, <2>2 DEF WaitOK, Alive
    <2>3. ASSUME NEW p \in Alive(procState), call[p].op = "waitSleep"
          PROVE  procState[p] = "BLOCKED" <=> p \in SemWaiting(call[p].s)
      <3>1. p \in Pids /\ call[p].s \in Sems /\ frame[p] = NoMutex
        BY <1>1, <2>1, <2>3 DEF Alive, WaitOK, SemInv, SemTypeOK, Calls
      <3>2. NoMutex \notin Mutexes
        BY DEF NoMutex, Mutexes
      <3> QED BY <2>1, <3>1, <3>2 DEF WaitOK
    <2> QED BY <2>2, <2>3 DEF SleeperIsQueued
  <1> QED BY SemaphoreInvariant, <1>1, PTL

-----------------------------------------------------------------------------
\* The counting semaphores a table of semaphores stands for.
opened == [s \in Sems |-> sem[s].used]
tokens == [s \in Sems |-> given[s] - taken[s]]
sleepers == [s \in Sems |-> SemWaiting(s)]

\* What is left of the tokens: none with a queue, the value without one.
LEMMA TokensLeft ==
    ASSUME SemInv, NEW s \in Sems, sem[s].used
    PROVE  /\ tokens[s] \in Nat
           /\ HasToken(s) <=> tokens[s] > 0
           /\ SemWaiting(s) # {} => tokens[s] = 0
  <1>1. tokens[s] = given[s] - taken[s]
    BY DEF tokens
  <1>2. /\ sem[s].semaphore \in Int
        /\ sem[s].cardinalBlocked = Cardinality(SemWaiting(s))
        /\ sem[s].cardinalBlocked = (IF sem[s].semaphore < 0 THEN -sem[s].semaphore ELSE 0)
        /\ given[s] - taken[s] = sem[s].semaphore + Cardinality(SemWaiting(s))
    BY SemFacts, CardPids DEF SemRec
  <1>3. /\ Cardinality(SemWaiting(s)) \in Nat
        /\ Cardinality(SemWaiting(s)) = 0 <=> SemWaiting(s) = {}
    BY SemFacts, MembersFinite
  <1>4. HasToken(s) <=> sem[s].semaphore > 0
    BY DEF HasToken
  <1> QED BY <1>1, <1>2, <1>3, <1>4

\* At boot no semaphore exists and nobody waits.
LEMMA SemInitIsCSInit == SemInit => Tokens!CSInit
  <1> SUFFICES ASSUME SemInit PROVE Tokens!CSInit
    OBVIOUS
  <1>1. /\ opened \in [Sems -> BOOLEAN] /\ tokens \in [Sems -> Nat]
        /\ sleepers = [s \in Sems |-> {}]
    BY PidAssumption DEF SemInit, opened, tokens, sleepers, SemWaiting
  <1> QED BY <1>1 DEF Tokens!CSInit, opened, tokens, sleepers

\* A step of no semaphore.
LEMMA SameCounting ==
    ASSUME SemInv, UNCHANGED <<sem, given, taken>>
    PROVE  UNCHANGED <<opened, tokens, sleepers>>
  BY DEF opened, tokens, sleepers, SemWaiting

\* semCreate of a new name opens a semaphore with the tokens asked for.
LEMMA semCreateCreates ==
    ASSUME SemInv, NEW n \in Names, NEW start \in Starts, semCreate(n, start)
    PROVE  \E s \in Sems : Tokens!Create(s)
  <1>1. /\ \A u \in Sems : SemWaiting(u)' = SemWaiting(u)
        /\ \E s \in Sems :
              /\ ~sem[s].used /\ SemWaiting(s) = {}
              /\ sem'[s].used /\ given'[s] = start /\ taken'[s] = 0
              /\ \A u \in Sems \ {s} : sem'[u] = sem[u]
              /\ given' = [given EXCEPT ![s] = given'[s]]
              /\ taken' = [taken EXCEPT ![s] = taken'[s]]
    BY SemCreates, ZenonT(60)
  <1>2. PICK s \in Sems :
              /\ ~sem[s].used /\ SemWaiting(s) = {}
              /\ sem'[s].used /\ given'[s] = start /\ taken'[s] = 0
              /\ \A u \in Sems \ {s} : sem'[u] = sem[u]
              /\ given' = [given EXCEPT ![s] = given'[s]]
              /\ taken' = [taken EXCEPT ![s] = taken'[s]]
    BY <1>1
  <1>3. start \in Nat
    BY SemaphoreAssumption
  <1>4. sem' \in [Sems -> SemRec]
    BY SemCreates DEF SemsOK
  <1>5. ~opened[s] /\ sleepers[s] = {} /\ sleepers' = sleepers
    BY <1>1, <1>2 DEF opened, sleepers
  <1>6. opened' = [opened EXCEPT ![s] = TRUE]
    <2>1. sem'[s].used \in BOOLEAN
      BY <1>4 DEF SemRec
    <2> QED BY <1>2, <2>1 DEF opened
  <1>7. \A u \in Sems : tokens'[u] = IF u = s THEN start ELSE tokens[u]
    <2>1. given \in [Sems -> 0 .. MaxGiven] /\ taken \in [Sems -> Nat]
      BY SemsAgree DEF SemsOK
    <2>2. \A u \in Sems \ {s} : given'[u] = given[u] /\ taken'[u] = taken[u]
      BY <1>2, <2>1
    <2> QED BY <1>2, <1>3, <2>2 DEF tokens
  <1>8. tokens'[s] \in Nat /\ tokens' = [tokens EXCEPT ![s] = tokens'[s]]
    BY <1>3, <1>7 DEF tokens
  <1> QED BY <1>5, <1>6, <1>8 DEF Tokens!Create, opened, tokens, sleepers

\* semClose by the creator closes a semaphore nobody waits for.
LEMMA semCloseCloses ==
    ASSUME SemInv, CleanClose, NEW s \in Sems, semClose(s)
    PROVE  Tokens!Close(s) \/ UNCHANGED <<opened, tokens, sleepers>>
  <1>1. /\ \A u \in Sems : SemWaiting(u)' = SemWaiting(u)
        /\ \A u \in Sems \ {s} : sem'[u] = sem[u]
        /\ SemWaiting(s) = {}
        /\ ~sem'[s].used \/ sem' = sem
    BY SemCloses
  <1>2. UNCHANGED <<given, taken>>
    BY DEF semClose
  <1>3. sleepers' = sleepers /\ tokens' = tokens /\ sleepers[s] = {}
    BY <1>1, <1>2 DEF sleepers, tokens
  <1>4. CASE sem' = sem
    BY <1>2, <1>4, SameCounting
  <1>5. CASE sem' # sem
    <2>1. sem[s].used /\ ~sem'[s].used
      BY <1>1, <1>5 DEF semClose
    <2>2. sem'[s].used \in BOOLEAN
      BY SemCloses DEF SemsOK, SemRec
    <2>3. opened[s] /\ opened' = [opened EXCEPT ![s] = FALSE]
      BY <1>1, <2>1, <2>2 DEF opened
    <2> QED BY <1>3, <2>3 DEF Tokens!Close, opened, tokens, sleepers
  <1> QED BY <1>4, <1>5

\* wait takes effect once its caller is through lockMutex.
LEMMA waitBodyWaits ==
    ASSUME SemInv, Calling, NEW s \in Sems, sem[s].used, NEW w, waitBody(s, w),
           given' = given
    PROVE  \E p \in Pids : Tokens!Wait(s, p)
  <1>1. current \in Pids /\ current \notin SemWaiting(s)
    BY SemCallerFacts
  <1>2. opened[s] /\ current \notin sleepers[s]
    BY <1>1 DEF opened, sleepers
  <1>3. taken \in [Sems -> Nat] /\ given \in [Sems -> 0 .. MaxGiven]
    BY SemsAgree DEF SemsOK
  <1>4. sem \in [Sems -> SemRec] /\ sem' \in [Sems -> SemRec]
    BY SemsAgree, SemTakes, SemEnqueues DEF SemsOK
  <1>5. CASE HasToken(s)
    <2>1. \A u \in Sems : (sem'[u].used <=> sem[u].used) /\ SemWaiting(u)' = SemWaiting(u)
      BY <1>5, SemTakes
    <2>2. opened' = opened /\ sleepers' = sleepers
      BY <1>4, <2>1 DEF opened, sleepers, SemRec
    <2>3. taken' = [taken EXCEPT ![s] = @ + 1]
      BY <1>5 DEF waitBody
    <2>4. \A u \in Sems : tokens'[u] = IF u = s THEN tokens[u] - 1 ELSE tokens[u]
      BY <1>3, <2>3 DEF tokens
    <2>5. tokens[s] > 0 /\ tokens' = [tokens EXCEPT ![s] = @ - 1]
      BY <1>5, <2>4, TokensLeft DEF tokens
    <2> QED BY <1>1, <1>2, <2>2, <2>5 DEF Tokens!Wait, opened, tokens, sleepers
  <1>6. CASE ~HasToken(s)
    <2>1. /\ SemWaiting(s)' = SemWaiting(s) \cup {current}
          /\ \A u \in Sems \ {s} : SemWaiting(u)' = SemWaiting(u)
          /\ \A u \in Sems : (sem'[u].used <=> sem[u].used)
      BY <1>6, SemEnqueues
    <2>2. opened' = opened
      BY <1>4, <2>1 DEF opened, SemRec
    <2>3. sleepers' = [sleepers EXCEPT ![s] = @ \cup {current}]
      BY <2>1 DEF sleepers
    <2>4. ~(tokens[s] > 0) /\ tokens' = tokens
      BY <1>6, TokensLeft DEF tokens, waitBody
    <2> QED BY <1>1, <1>2, <2>2, <2>3, <2>4 DEF Tokens!Wait, opened, tokens, sleepers
  <1> QED BY <1>5, <1>6

\* signal wakes one process of the queue, or leaves a token.
LEMMA signalSignals ==
    ASSUME SemInv, NEW s \in Sems, signal(s)
    PROVE  Tokens!Signal(s)
  <1> DEFINE w == SemWoken(sem[s])
  <1>1. /\ SemWaiting(s) # {} => w \in SemWaiting(s)
        /\ w = NoPid \/ w \in SemWaiting(s)
        /\ SemWaiting(s) # {} <=> SemOccupied(sem[s].queue) # {}
        /\ SemWaiting(s)' = SemWaiting(s) \ {w}
        /\ \A u \in Sems \ {s} : SemWaiting(u)' = SemWaiting(u)
        /\ \A u \in Sems : (sem'[u].used <=> sem[u].used)
        /\ SemsOK'
    BY SemSignals
  <1> HIDE DEF w
  <1>2. sem \in [Sems -> SemRec] /\ sem' \in [Sems -> SemRec]
    BY <1>1, SemsAgree DEF SemsOK
  <1>3. sem[s].used /\ opened[s] /\ opened' = opened
    <2>1. sem[s].used
      BY DEF signal
    <2> QED BY <1>1, <1>2, <2>1 DEF opened, SemRec
  <1>4. /\ given' = [given EXCEPT ![s] = @ + 1]
        /\ taken' = IF SemWaiting(s) = {} THEN taken ELSE [taken EXCEPT ![s] = @ + 1]
    BY <1>1 DEF signal
  <1>5. taken \in [Sems -> Nat] /\ given \in [Sems -> 0 .. MaxGiven] /\ MaxGiven \in Nat
    BY SemsAgree, SemaphoreAssumption DEF SemsOK
  <1>6. CASE SemWaiting(s) = {}
    <2>1. \A u \in Sems : tokens'[u] = IF u = s THEN tokens[u] + 1 ELSE tokens[u]
      BY <1>4, <1>5, <1>6 DEF tokens
    <2>2. tokens' = [tokens EXCEPT ![s] = @ + 1]
      BY <2>1 DEF tokens
    <2>3. sleepers[s] = {} /\ sleepers' = sleepers
      BY <1>1, <1>6 DEF sleepers
    <2> QED BY <1>3, <2>2, <2>3 DEF Tokens!Signal, opened, tokens, sleepers
  <1>7. CASE SemWaiting(s) # {}
    <2>1. \A u \in Sems : tokens'[u] = tokens[u]
      BY <1>4, <1>5, <1>7 DEF tokens
    <2>2. tokens' = tokens
      BY <2>1 DEF tokens
    <2>3. w \in sleepers[s] /\ sleepers' = [sleepers EXCEPT ![s] = @ \ {w}]
      BY <1>1, <1>7 DEF sleepers
    <2> QED BY <1>3, <2>2, <2>3 DEF Tokens!Signal, opened, tokens, sleepers
  <1> QED BY <1>6, <1>7

\* Every step of the system is a step of the counting semaphores, or leaves them alone.
LEMMA SemStepIsCSNext ==
    ASSUME SemInv, CleanClose, [SemNext]_allVars
    PROVE  [Tokens!CSNext]_(Tokens!csVars)
  <1>1. ASSUME UNCHANGED <<opened, tokens, sleepers>> PROVE UNCHANGED Tokens!csVars
    BY <1>1 DEF Tokens!csVars, opened, tokens, sleepers
  <1>2. ASSUME UNCHANGED <<sem, given, taken>> PROVE UNCHANGED Tokens!csVars
    BY <1>1, <1>2, SameCounting
  <1>3. CASE UNCHANGED allVars \/ mutexCall \/ tick
    BY <1>2, <1>3 DEF allVars, mutexCall, tick, semVars
  <1>4. ASSUME NEW p \in Mortal, killProcess(p) PROVE UNCHANGED Tokens!csVars
    BY <1>2, <1>4 DEF killProcess
  <1>5. ASSUME NEW n \in Names, semOpen(n) \/ semCreateExisting(n)
        PROVE  UNCHANGED Tokens!csVars
    BY <1>2, <1>5 DEF semOpen, semCreateExisting, semVars
  <1>6. ASSUME NEW n \in Names, NEW start \in Starts, semCreate(n, start)
        PROVE  Tokens!CSNext
    BY <1>6, semCreateCreates DEF Tokens!CSNext
  <1>7. CASE semCreateBlock
    BY <1>2, <1>7 DEF semCreateBlock
  <1>8. ASSUME NEW s \in Sems, semClose(s) PROVE Tokens!CSNext \/ UNCHANGED Tokens!csVars
    BY <1>1, <1>8, semCloseCloses DEF Tokens!CSNext
  <1>9. ASSUME NEW s \in Sems, wait(s) PROVE Tokens!CSNext
    <2>1. Calling /\ sem[s].used /\ waitBody(s, NoPid) /\ given' = given
      BY <1>9, UserCalls DEF wait, InUserCode
    <2> QED BY <2>1, waitBodyWaits DEF Tokens!CSNext
  <1>10. ASSUME NEW s \in Sems, waitBlock(s) PROVE UNCHANGED Tokens!csVars
    BY <1>2, <1>10 DEF waitBlock
  <1>11. ASSUME NEW s \in Sems, signal(s) PROVE Tokens!CSNext
    BY <1>11, signalSignals DEF Tokens!CSNext
  <1>12. ASSUME waitResume PROVE Tokens!CSNext
    <2> DEFINE s == call[current].s
               w == Woken(frame[current])
    <2>1. /\ Calling /\ call[current].op = "waitLock"
          /\ waitBody(s, w) /\ given' = given
      BY <1>12 DEF waitResume
    <2>2. current \in Pids
      BY PartsHold DEF TableOK
    <2>3. s \in semHandles[current]
      BY <2>1, <2>2, WaitsAgree DEF WaitOK
    <2>4. s \in Sems /\ sem[s].used
      BY <2>2, <2>3, HandlesUsed
    <2> HIDE DEF s, w
    <2> QED BY <2>1, <2>4, waitBodyWaits DEF Tokens!CSNext
  <1>13. CASE waitReturn
    BY <1>2, <1>13 DEF waitReturn
  <1> QED BY <1>3, <1>4, <1>5, <1>6, <1>7, <1>8, <1>9, <1>10, <1>11, <1>12, <1>13 DEF SemNext

\* wait and signal of Kernel/semaphores.c are those of a counting semaphore: each takes
\* effect at once, and once, however the value is stored and whoever is killed.
THEOREM SemaphoreImplementsCounting ==
    ASSUME CleanClose
    PROVE  SemSpec => SemIsCounting
  <1>1. SemInv /\ [SemNext]_allVars => [Tokens!CSNext]_(Tokens!csVars)
    BY SemStepIsCSNext
  <1> QED
    BY SemaphoreInvariant, SemInitIsCSInit, <1>1, PTL DEF SemSpec, SemIsCounting, Tokens!CSSpec
=============================================================================
