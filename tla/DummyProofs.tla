----------------------------- MODULE DummyProofs ------------------------------
(***************************************************************************)
(* The programs of Userland/dummy, for any semaphores: the philosophers,   *)
(* whatever states they find on the stack.                                 *)
(***************************************************************************)
EXTENDS Dummy, FiniteSetTheorems, TLAPS

(* The philosophers.                                                        *)

\* Every philosopher has a left and a right neighbour, each other's neighbours.
LEMMA Neighbours ==
    ASSUME NEW v \in Table
    PROVE  /\ left(v) \in Table \ {v} /\ right(v) \in Table \ {v}
           /\ right(left(v)) = v /\ left(right(v)) = v /\ left(v) # right(v)
           /\ pid(v) \in Processes
           /\ \A u \in Table : pid(u) = pid(v) => u = v
           /\ \A u \in Table : right(u) = v => u = left(v)
           /\ \A u \in Table : HasSemaphore(u) <=> u \in {1, 3}
  <1>1. v \in 0 .. 4 /\ Table = 0 .. 4
    BY DEF Table, DEFAULTP
  <1>2. pid(v) \in Processes
    BY PhilosophersAssumption
  <1> QED BY <1>1, <1>2 DEF left, right, pid, HasSemaphore, DEFAULTP

\* What the invariant says of a philosopher that moves: it is in no queue.
LEMMA MovesFacts ==
    ASSUME PhilosophersInv, NEW v \in Table, NEW from, NEW to \in Places, Moves(v, from, to)
    PROVE  /\ at \in [Table -> Places] /\ at[v] = from
           /\ at' \in [Table -> Places] /\ at'[v] = to
           /\ \A u \in Table : u # v => at'[u] = at[u]
           /\ \A s \in Semaphores : pid(v) \notin waiting[s]
           /\ 0 \in Semaphores /\ mutexp \in Semaphores
           /\ state \in [Table -> {"THINKING", "HUNGRY", "EATING"}]
           /\ open \in [Semaphores -> BOOLEAN] /\ value \in [Semaphores -> Nat]
           /\ waiting \in [Semaphores -> SUBSET Processes]
  <1>1. /\ at \in [Table -> Places] /\ state \in [Table -> {"THINKING", "HUNGRY", "EATING"}]
        /\ open \in [Semaphores -> BOOLEAN] /\ value \in [Semaphores -> Nat]
        /\ waiting \in [Semaphores -> SUBSET Processes]
    BY DEF PhilosophersInv, NeighboursExclude, PhilosophersTypeOK, CSTypeOK
  <1>2. at[v] = from /\ at' = [at EXCEPT ![v] = to] /\ \A s \in Semaphores : pid(v) \notin waiting[s]
    BY DEF Moves
  <1> QED BY <1>1, <1>2, PhilosophersAssumption

\* As long as the states do not change, a philosopher that moves makes no pair of
\* eating neighbours: it can but leave the places where they are harmless.
LEMMA SameStates ==
    ASSUME PhilosophersInv, NEW v \in Table, NEW from, NEW to \in Places, Moves(v, from, to),
           to \in {"fresh", "sit"} \/ from \notin {"fresh", "sit"}, state' = state
    PROVE  NeighboursExclude'
  <1>1. PhilosophersTypeOK'
    BY MovesFacts DEF PhilosophersTypeOK
  <1>2. ASSUME NEW u \in Table, state[u] = "EATING", state[right(u)] = "EATING"
        PROVE  {at'[u], at'[right(u)]} \subseteq {"fresh", "sit"}
    <2>1. at[u] \in {"fresh", "sit"} /\ at[right(u)] \in {"fresh", "sit"} /\ right(u) \in Table
      BY <1>2, Neighbours DEF PhilosophersInv, NeighboursExclude
    <2> QED BY <2>1, MovesFacts
  <1> QED BY <1>1, <1>2 DEF NeighboursExclude

\* lockMutex(mutexp): the caller gets it and tests, or queues.
LEMMA LockInv ==
    ASSUME PhilosophersInv, NEW v \in Table, NEW from, NEW to, lockMutexp(v, from, to),
           <<from, to>> \in {<<"fresh", "sit">>, <<"take", "hungry">>, <<"put", "thinking">>}
    PROVE  PhilosophersInv'
  <1>1. /\ Moves(v, from, to) /\ Wait(mutexp, pid(v)) /\ state' = state
        /\ to \in {"sit", "hungry", "thinking"} /\ from \in {"fresh", "take", "put"}
        /\ to \in Places /\ (to \in {"fresh", "sit"} \/ from \notin {"fresh", "sit"})
        /\ (to = "thinking" => from = "put")
    BY DEF lockMutexp, Places
  <1>2. /\ at \in [Table -> Places] /\ at[v] = from
        /\ at' \in [Table -> Places] /\ at'[v] = to
        /\ \A u \in Table : u # v => at'[u] = at[u]
        /\ \A s \in Semaphores : pid(v) \notin waiting[s]
        /\ 0 \in Semaphores /\ mutexp \in Semaphores /\ mutexp # 0
        /\ open \in [Semaphores -> BOOLEAN] /\ value \in [Semaphores -> Nat]
        /\ waiting \in [Semaphores -> SUBSET Processes]
    BY <1>1, MovesFacts, PhilosophersAssumption
  <1>3. \A u \in Table : pid(u) \in Processes /\ (u # v => pid(u) # pid(v))
    BY Neighbours
  <1>4. /\ open' = open
        /\ \/ /\ value[mutexp] > 0 /\ value' = [value EXCEPT ![mutexp] = @ - 1]
              /\ waiting' = waiting
           \/ /\ value[mutexp] = 0 /\ value' = value
              /\ waiting' = [waiting EXCEPT ![mutexp] = @ \cup {pid(v)}]
    BY <1>1, <1>2 DEF Wait
  <1>5. /\ value' \in [Semaphores -> Nat] /\ waiting' \in [Semaphores -> SUBSET Processes]
        /\ \A s \in Semaphores \ {mutexp} : value'[s] = value[s] /\ waiting'[s] = waiting[s]
    BY <1>2, <1>3, <1>4
  <1>6. NeighboursExclude'
    BY <1>1, SameStates
  <1>7. /\ value[mutexp] \in {0, 1}
        /\ \A u, x \in Table : Tests(u) /\ Tests(x) => u = x
        /\ value[mutexp] = 0 <=> \E u \in Table : Tests(u)
        /\ waiting[mutexp] # {} => value[mutexp] = 0
    BY DEF PhilosophersInv, OneTests
  <1>8. ~Tests(v) /\ \A u \in Table : u # v => (Tests(u)' <=> Tests(u))
    <2>1. ~Tests(v)
      BY <1>1, <1>2 DEF Tests, Critical
    <2>2. ASSUME NEW u \in Table, u # v PROVE Tests(u)' <=> Tests(u)
      <3>1. pid(u) \in waiting'[mutexp] <=> pid(u) \in waiting[mutexp]
        BY <1>2, <1>3, <1>4, <2>2
      <3> QED BY <1>2, <2>2, <3>1 DEF Tests
    <2> QED BY <2>1, <2>2
  <1>9. OneTests'
    <2>1. CASE value[mutexp] > 0
      <3>1. value[mutexp] = 1 /\ value'[mutexp] = 0 /\ waiting' = waiting
        BY <1>2, <1>4, <1>7, <2>1
      <3>2. Tests(v)'
        BY <1>1, <1>2, <3>1 DEF Tests, Critical, Places
      <3>3. \A u \in Table : Tests(u)' => u = v
        BY <1>7, <1>8, <3>1
      <3> QED BY <3>1, <3>2, <3>3 DEF OneTests
    <2>2. CASE value[mutexp] = 0
      <3>1. value'[mutexp] = 0 /\ pid(v) \in waiting'[mutexp]
        BY <1>2, <1>4, <2>2
      <3>2. ~Tests(v)'
        BY <3>1 DEF Tests
      <3>3. \A u \in Table : Tests(u)' <=> Tests(u)
        BY <1>8, <3>2
      <3> QED BY <1>7, <2>2, <3>1, <3>3 DEF OneTests
    <2> QED BY <1>7, <2>1, <2>2
  <1>10. QueuedByPlace'
    <2>0. \A u \in Table : at'[u] = "wait" => HasSemaphore(u)
      BY <1>1, <1>2 DEF PhilosophersInv, QueuedByPlace
    <2> SUFFICES ASSUME NEW s \in Semaphores, NEW p \in waiting'[s]
                 PROVE  \E u \in Table :
                          /\ p = pid(u)
                          /\ \/ s = mutexp /\ at'[u] \in {"sit", "hungry", "thinking"}
                             \/ s = 0 /\ at'[u] = "put" /\ HasSemaphore(u)
      BY <2>0 DEF QueuedByPlace, HasSemaphore
    <2>1. CASE p \in waiting[s]
      <3>1. PICK u \in Table :
              /\ p = pid(u)
              /\ \/ s = mutexp /\ at[u] \in {"sit", "hungry", "thinking"}
                 \/ s = 0 /\ at[u] = "put" /\ HasSemaphore(u)
        BY <2>1 DEF PhilosophersInv, QueuedByPlace
      <3>2. u # v
        BY <1>2, <2>1, <3>1
      <3> QED BY <1>2, <3>1, <3>2
    <2>2. CASE p \notin waiting[s]
      <3>1. s = mutexp /\ p = pid(v)
        BY <1>2, <1>4, <1>5, <2>2
      <3> QED BY <1>1, <1>2, <3>1
    <2> QED BY <2>1, <2>2
  <1>11. GrantsSignalled'
    <2>1. waiting'[0] = waiting[0] /\ value'[0] = value[0]
      BY <1>2, <1>5
    <2>2. \A u \in Table : Granted(u)' => Granted(u)
      BY <1>1, <1>2, <2>1 DEF Granted
    <2>3. \A u \in Table : at[u] \in {"signalOwn", "signalLeft", "signalRight"} =>
                           at'[u] \in {"signalOwn", "signalLeft", "signalRight"}
      BY <1>1, <1>2
    <2>4. 1 \in Table /\ 3 \in Table
      BY DEF Table, DEFAULTP
    <2>5. \A u \in Table : at'[u] \in {"signalOwn", "release", "wait", "put", "thinking"} =>
                              state'[u] # "THINKING"
      BY <1>1, <1>2 DEF PhilosophersInv, GrantsSignalled
    <2> QED BY <2>1, <2>2, <2>3, <2>4, <2>5 DEF PhilosophersInv, GrantsSignalled
  <1>12. CSTypeOK' /\ \A s \in Semaphores : open'[s]
    BY <1>2, <1>4, <1>5 DEF PhilosophersInv, CSTypeOK
  <1> QED BY <1>6, <1>9, <1>10, <1>11, <1>12 DEF PhilosophersInv

\* The queues only lose processes: who is left in one has not moved.
LEMMA QueuesShrink ==
    ASSUME PhilosophersInv, NEW v \in Table, NEW from, NEW to \in Places, Moves(v, from, to),
           to = "wait" => HasSemaphore(v), \A s \in Semaphores : waiting'[s] \subseteq waiting[s]
    PROVE  QueuedByPlace'
  <1>0. \A u \in Table : at'[u] = "wait" => HasSemaphore(u)
    BY MovesFacts DEF PhilosophersInv, QueuedByPlace
  <1> SUFFICES ASSUME NEW s \in Semaphores, NEW p \in waiting'[s]
               PROVE  \E u \in Table :
                        /\ p = pid(u)
                        /\ \/ s = mutexp /\ at'[u] \in {"sit", "hungry", "thinking"}
                           \/ s = 0 /\ at'[u] = "put" /\ HasSemaphore(u)
    BY <1>0 DEF QueuedByPlace, HasSemaphore
  <1>1. p \in waiting[s]
    OBVIOUS
  <1>2. PICK u \in Table :
          /\ p = pid(u)
          /\ \/ s = mutexp /\ at[u] \in {"sit", "hungry", "thinking"}
             \/ s = 0 /\ at[u] = "put" /\ HasSemaphore(u)
    BY <1>1 DEF PhilosophersInv, QueuedByPlace
  <1>3. u # v
    BY <1>1, <1>2, MovesFacts
  <1> QED BY <1>2, <1>3, MovesFacts

\* A step inside the test: the holder of mutexp remains the holder.
LEMMA StillTests ==
    ASSUME PhilosophersInv, NEW v \in Table, NEW from \in Critical, NEW to \in Critical,
           Moves(v, from, to), waiting'[mutexp] = waiting[mutexp], value'[mutexp] = value[mutexp]
    PROVE  OneTests' /\ Tests(v)
  <1>1. to \in Places
    BY DEF Critical
  <1>2. /\ at[v] = from /\ at'[v] = to /\ \A u \in Table : u # v => at'[u] = at[u]
        /\ pid(v) \notin waiting[mutexp]
    BY <1>1, MovesFacts
  <1>3. Tests(v) /\ Tests(v)' /\ \A u \in Table : Tests(u)' <=> Tests(u)
    BY <1>2 DEF Tests
  <1> QED BY <1>3 DEF PhilosophersInv, OneTests

\* testP on the states st, of itself or of a neighbour, mutexp held.
LEMMA TestInv ==
    ASSUME PhilosophersInv, NEW v \in Table, NEW u \in Table, NEW st, NEW from, NEW signalled,
           NEW otherwise, testP(v, u, st, from, signalled, otherwise),
           \/ /\ u = v /\ st = [state EXCEPT ![v] = "HUNGRY"] /\ from \in {"sit", "hungry"}
              /\ signalled = "signalOwn" /\ otherwise = "release"
           \/ /\ u = left(v) /\ st = [state EXCEPT ![v] = "THINKING"] /\ from = "thinking"
              /\ signalled = "signalLeft" /\ otherwise = "testRight"
           \/ /\ u = right(v) /\ st = state /\ from = "testRight"
              /\ signalled = "signalRight" /\ otherwise = "leave"
    PROVE  PhilosophersInv'
  <1> DEFINE to == IF MayEat(u, st) /\ HasSemaphore(u) THEN signalled ELSE otherwise
  <1>1. /\ Moves(v, from, to) /\ open' = open /\ value' = value /\ waiting' = waiting
        /\ state' = IF MayEat(u, st) THEN [st EXCEPT ![u] = "EATING"] ELSE st
    BY DEF testP, csVars
  <1>2. from \in Critical /\ to \in Critical /\ to \in Places /\ to # "wait"
    BY DEF Critical, Places
  <1>3. to = signalled => MayEat(u, st) /\ HasSemaphore(u)
    OBVIOUS
  <1>4. MayEat(u, st) /\ HasSemaphore(u) => to = signalled
    OBVIOUS
  <1>5. to \in {signalled, otherwise}
    OBVIOUS
  <1> HIDE DEF to
  <1>6. /\ at \in [Table -> Places] /\ at[v] = from
        /\ at' \in [Table -> Places] /\ at'[v] = to
        /\ \A x \in Table : x # v => at'[x] = at[x]
        /\ \A s \in Semaphores : pid(v) \notin waiting[s]
        /\ 0 \in Semaphores /\ mutexp \in Semaphores
        /\ state \in [Table -> {"THINKING", "HUNGRY", "EATING"}]
    BY <1>1, <1>2, MovesFacts
  <1>7. /\ st \in [Table -> {"THINKING", "HUNGRY", "EATING"}]
        /\ \A x \in Table : x # v => st[x] = state[x]
        /\ st[v] \in {state[v], "HUNGRY", "THINKING"}
        /\ st[v] = "EATING" => st = state /\ from = "testRight"
        /\ to \in {"signalOwn", "release"} => u = v /\ st[v] = "HUNGRY"
    BY <1>5, <1>6
  <1>8. /\ state' \in [Table -> {"THINKING", "HUNGRY", "EATING"}]
        /\ \A x \in Table : x # u => state'[x] = st[x]
        /\ state'[u] = IF MayEat(u, st) THEN "EATING" ELSE st[u]
    BY <1>1, <1>7
  <1>9. MayEat(u, st) => /\ st[u] = "HUNGRY" /\ st[left(u)] # "EATING" /\ st[right(u)] # "EATING"
                         /\ state'[left(u)] # "EATING" /\ state'[right(u)] # "EATING"
    BY <1>8, Neighbours DEF MayEat
  <1>10. NeighboursExclude'
    <2>1. PhilosophersTypeOK'
      BY <1>6, <1>8 DEF PhilosophersTypeOK
    <2>2. ASSUME NEW x \in Table, state'[x] = "EATING", state'[right(x)] = "EATING"
          PROVE  {at'[x], at'[right(x)]} \subseteq {"fresh", "sit"}
      <3>1. right(x) \in Table /\ x = left(right(x))
        BY Neighbours
      <3>2. ~(MayEat(u, st) /\ u \in {x, right(x)})
        BY <1>9, <2>2, <3>1
      <3>3. st[x] = "EATING" /\ st[right(x)] = "EATING"
        BY <1>8, <2>2, <3>1, <3>2
      <3>4. state[x] = "EATING" /\ state[right(x)] = "EATING"
        BY <1>7, <3>1, <3>3
      <3>5. at[x] \in {"fresh", "sit"} /\ at[right(x)] \in {"fresh", "sit"}
        BY <3>1, <3>4 DEF PhilosophersInv, NeighboursExclude
      <3>6. x # v /\ right(x) # v
        BY <1>6, <1>7, <3>1, <3>3, <3>5
      <3> QED BY <1>6, <3>1, <3>5, <3>6
    <2> QED BY <2>1, <2>2 DEF NeighboursExclude
  <1>11. OneTests'
    BY <1>1, <1>2, StillTests
  <1>12. QueuedByPlace'
    BY <1>1, <1>2, QueuesShrink
  <1>13. GrantsSignalled'
    <2>1. 1 \in Table /\ 3 \in Table
      BY DEF Table, DEFAULTP
    <2>2. \A x \in Table : at[x] \in {"signalOwn", "release", "wait", "put", "thinking"} =>
                              state[x] # "THINKING"
      BY DEF PhilosophersInv, GrantsSignalled
    <2>3. ASSUME NEW x \in Table,
                 at'[x] \in {"signalOwn", "release", "wait", "put", "thinking"}
          PROVE  state'[x] # "THINKING"
      <3>1. CASE x = v
        <4>1. to \in {"signalOwn", "release"}
          BY <1>5, <1>6, <2>3, <3>1
        <4> QED BY <1>7, <1>8, <3>1, <4>1
      <3>2. CASE x # v
        BY <1>6, <1>7, <1>8, <2>2, <2>3, <3>2
      <3> QED BY <3>1, <3>2
    <2>4. CASE MayEat(u, st) /\ HasSemaphore(u)
      <3>1. at'[v] \in {"signalOwn", "signalLeft", "signalRight"}
        BY <1>4, <1>6, <2>4
      <3> QED BY <1>1, <2>3, <3>1 DEF PhilosophersInv, GrantsSignalled
    <2>5. CASE ~(MayEat(u, st) /\ HasSemaphore(u))
      <3>1. ASSUME NEW x \in {1, 3}, Granted(x)' PROVE Granted(x) /\ x # v
        <4>1. x \in Table /\ HasSemaphore(x)
          BY <2>1, Neighbours
        <4>2. state'[x] = st[x] /\ st[x] = "EATING"
          BY <1>8, <2>5, <3>1, <4>1 DEF Granted
        <4>3. x # v
          BY <1>5, <1>6, <1>7, <3>1, <4>1, <4>2 DEF Granted
        <4> QED BY <1>1, <1>6, <1>7, <3>1, <4>1, <4>2, <4>3 DEF Granted
      <3>2. ASSUME Granted(1)', Granted(3)' PROVE value'[0] > 0
        <4>1. Granted(1) /\ Granted(3) /\ 1 # v /\ 3 # v
          BY <3>1, <3>2
        <4>2. Tests(v)
          BY <1>1, <1>2, StillTests
        <4>3. ASSUME NEW x \in Table, at[x] \in {"signalOwn", "signalLeft", "signalRight"}
              PROVE  FALSE
          <5>1. x # v
            BY <1>6, <4>3
          <5>2. pid(x) \notin waiting[mutexp]
            <6> SUFFICES ASSUME pid(x) \in waiting[mutexp] PROVE FALSE
              OBVIOUS
            <6>1. PICK y \in Table : /\ pid(x) = pid(y)
                                     /\ \/ at[y] \in {"sit", "hungry", "thinking"}
                                        \/ at[y] = "put"
              BY <1>6 DEF PhilosophersInv, QueuedByPlace
            <6> QED BY <4>3, <6>1, Neighbours
          <5>3. Tests(x)
            BY <4>3, <5>2 DEF Tests, Critical, Places
          <5> QED BY <4>2, <5>1, <5>3 DEF PhilosophersInv, OneTests
        <4> QED BY <1>1, <4>1, <4>3 DEF PhilosophersInv, GrantsSignalled
      <3> QED BY <1>1, <2>3, <3>2 DEF PhilosophersInv, GrantsSignalled
    <2> QED BY <2>4, <2>5
  <1>14. CSTypeOK' /\ \A s \in Semaphores : open'[s]
    BY <1>1 DEF PhilosophersInv, CSTypeOK
  <1> QED BY <1>10, <1>11, <1>12, <1>13, <1>14 DEF PhilosophersInv

\* What Signal does to the queue and the tokens.
LEMMA SignalFacts ==
    ASSUME NEW s \in Semaphores, Signal(s), value \in [Semaphores -> Nat],
           waiting \in [Semaphores -> SUBSET Processes]
    PROVE  /\ open' = open
           /\ value' \in [Semaphores -> Nat] /\ waiting' \in [Semaphores -> SUBSET Processes]
           /\ \A x \in Semaphores : waiting'[x] \subseteq waiting[x]
           /\ \A x \in Semaphores \ {s} : waiting'[x] = waiting[x] /\ value'[x] = value[x]
           /\ \/ waiting[s] = {} /\ waiting'[s] = {} /\ value'[s] = value[s] + 1
              \/ /\ \E p \in waiting[s] : waiting'[s] = waiting[s] \ {p}
                 /\ value'[s] = value[s]
  BY DEF Signal

\* The signal to the philosopher that got its forks: it leaves a token or wakes one of
\* the two, which is then without grant.
LEMMA SignalInv ==
    ASSUME PhilosophersInv, NEW v \in Table, NEW from, NEW to, signalP(v, from, to),
           <<from, to>> \in {<<"signalOwn", "release">>, <<"signalLeft", "testRight">>,
                             <<"signalRight", "leave">>}
    PROVE  PhilosophersInv'
  <1>1. /\ Moves(v, from, to) /\ Signal(0) /\ state' = state
        /\ from \in Critical /\ to \in Critical /\ to \in Places
        /\ from \notin {"fresh", "sit"} /\ (to = "release" => from = "signalOwn")
        /\ to \notin {"signalOwn", "wait", "put", "thinking"} /\ to # "wait"
    BY DEF signalP, Critical, Places
  <1>2. /\ at \in [Table -> Places] /\ at[v] = from
        /\ at' \in [Table -> Places] /\ at'[v] = to
        /\ \A u \in Table : u # v => at'[u] = at[u]
        /\ \A s \in Semaphores : pid(v) \notin waiting[s]
        /\ 0 \in Semaphores /\ mutexp \in Semaphores /\ mutexp # 0
        /\ open \in [Semaphores -> BOOLEAN] /\ value \in [Semaphores -> Nat]
        /\ waiting \in [Semaphores -> SUBSET Processes]
    BY <1>1, MovesFacts, PhilosophersAssumption
  <1>3. /\ open' = open
        /\ value' \in [Semaphores -> Nat] /\ waiting' \in [Semaphores -> SUBSET Processes]
        /\ \A x \in Semaphores : waiting'[x] \subseteq waiting[x]
        /\ \A x \in Semaphores \ {0} : waiting'[x] = waiting[x] /\ value'[x] = value[x]
        /\ \/ waiting[0] = {} /\ waiting'[0] = {} /\ value'[0] = value[0] + 1
           \/ (\E p \in waiting[0] : waiting'[0] = waiting[0] \ {p}) /\ value'[0] = value[0]
    BY <1>1, <1>2, SignalFacts
  <1>4. NeighboursExclude'
    BY <1>1, SameStates
  <1>5. OneTests'
    BY <1>1, <1>2, <1>3, StillTests
  <1>6. QueuedByPlace'
    BY <1>1, <1>3, QueuesShrink
  <1>7. GrantsSignalled'
    <2>1. waiting'[0] # {} => value'[0] = 0
      BY <1>3 DEF PhilosophersInv, GrantsSignalled
    <2>2. 1 \in Table /\ 3 \in Table
      BY DEF Table, DEFAULTP
    <2>3. \A u \in Table : at'[u] \in {"signalOwn", "release", "wait", "put", "thinking"} =>
                              state'[u] # "THINKING"
      BY <1>1, <1>2 DEF PhilosophersInv, GrantsSignalled
    <2>4. ASSUME Granted(1)', Granted(3)' PROVE value'[0] > 0
      <3>1. CASE waiting[0] = {}
        BY <1>2, <1>3, <3>1
      <3>2. CASE waiting[0] # {}
        <4>1. PICK p \in waiting[0] : waiting'[0] = waiting[0] \ {p}
          BY <1>3, <3>2
        <4>2. PICK u \in Table : p = pid(u) /\ at[u] = "put" /\ HasSemaphore(u)
          BY <1>2, <4>1 DEF PhilosophersInv, QueuedByPlace
        <4>3. u # v /\ u \in {1, 3}
          BY <1>2, <4>1, <4>2, Neighbours
        <4>4. at'[u] = "put" /\ pid(u) \notin waiting'[0]
          BY <1>2, <4>1, <4>2, <4>3
        <4>5. ~Granted(u)'
          BY <4>4 DEF Granted, pid
        <4> QED BY <2>4, <4>3, <4>5
      <3> QED BY <3>1, <3>2
    <2> QED BY <2>1, <2>3, <2>4 DEF GrantsSignalled
  <1>8. CSTypeOK' /\ \A s \in Semaphores : open'[s]
    BY <1>2, <1>3 DEF PhilosophersInv, CSTypeOK
  <1> QED BY <1>4, <1>5, <1>6, <1>7, <1>8 DEF PhilosophersInv

\* freeMutex(mutexp): the next in the queue tests, or nobody.
LEMMA FreeInv ==
    ASSUME PhilosophersInv, NEW v \in Table, NEW from, NEW to, freeMutexp(v, from, to),
           \/ from = "release" /\ to = IF HasSemaphore(v) THEN "wait" ELSE "put"
           \/ from = "leave" /\ to = "take"
    PROVE  PhilosophersInv'
  <1>1. /\ Moves(v, from, to) /\ Signal(mutexp) /\ state' = state
        /\ from \in Critical /\ to \notin Critical /\ to \in Places
        /\ from \notin {"fresh", "sit", "signalOwn", "signalLeft", "signalRight"}
        /\ to \in {"wait", "put"} => from = "release"
        /\ to # "thinking" /\ to # "signalOwn" /\ to # "release"
        /\ to = "wait" => HasSemaphore(v)
    BY DEF freeMutexp, Critical, Places
  <1>2. /\ at \in [Table -> Places] /\ at[v] = from
        /\ at' \in [Table -> Places] /\ at'[v] = to
        /\ \A u \in Table : u # v => at'[u] = at[u]
        /\ \A s \in Semaphores : pid(v) \notin waiting[s]
        /\ 0 \in Semaphores /\ mutexp \in Semaphores /\ mutexp # 0
        /\ open \in [Semaphores -> BOOLEAN] /\ value \in [Semaphores -> Nat]
        /\ waiting \in [Semaphores -> SUBSET Processes]
    BY <1>1, MovesFacts, PhilosophersAssumption
  <1>3. /\ open' = open
        /\ value' \in [Semaphores -> Nat] /\ waiting' \in [Semaphores -> SUBSET Processes]
        /\ \A x \in Semaphores : waiting'[x] \subseteq waiting[x]
        /\ \A x \in Semaphores \ {mutexp} : waiting'[x] = waiting[x] /\ value'[x] = value[x]
        /\ \/ /\ waiting[mutexp] = {} /\ waiting'[mutexp] = {}
              /\ value'[mutexp] = value[mutexp] + 1
           \/ /\ \E p \in waiting[mutexp] : waiting'[mutexp] = waiting[mutexp] \ {p}
              /\ value'[mutexp] = value[mutexp]
    BY <1>1, <1>2, SignalFacts
  <1>4. NeighboursExclude'
    BY <1>1, SameStates
  <1>5. Tests(v) /\ ~Tests(v)'
    BY <1>1, <1>2 DEF Tests
  <1>6. value[mutexp] = 0 /\ \A x \in Table : Tests(x) => x = v
    BY <1>5 DEF PhilosophersInv, OneTests
  <1>7. OneTests'
    <2>1. CASE waiting[mutexp] = {}
      <3>1. \A x \in Table : ~Tests(x)'
        BY <1>2, <1>3, <1>5, <1>6, <2>1 DEF Tests
      <3>2. value'[mutexp] = 1 /\ waiting'[mutexp] = {}
        BY <1>3, <1>6, <2>1
      <3> QED BY <3>1, <3>2 DEF OneTests
    <2>2. CASE waiting[mutexp] # {}
      <3>1. PICK p \in waiting[mutexp] : waiting'[mutexp] = waiting[mutexp] \ {p}
        BY <1>3, <2>2
      <3>2. PICK u \in Table : p = pid(u) /\ at[u] \in {"sit", "hungry", "thinking"}
        BY <1>2, <3>1 DEF PhilosophersInv, QueuedByPlace
      <3>3. u # v
        BY <1>2, <3>1, <3>2
      <3>4. Tests(u)'
        BY <1>2, <3>1, <3>2, <3>3 DEF Tests, Critical, Places
      <3>5. ASSUME NEW x \in Table, x # u PROVE ~Tests(x)'
        <4>1. CASE x = v
          BY <1>5, <4>1
        <4>2. CASE x # v
          <5>1. pid(x) # p
            BY <3>2, <3>5, Neighbours
          <5>2. pid(x) \in waiting'[mutexp] <=> pid(x) \in waiting[mutexp]
            BY <3>1, <5>1
          <5> QED BY <1>2, <1>6, <4>2, <5>2 DEF Tests
        <4> QED BY <4>1, <4>2
      <3>6. value'[mutexp] = 0
        BY <1>3, <1>6, <2>2
      <3> QED BY <3>4, <3>5, <3>6 DEF OneTests
    <2> QED BY <2>1, <2>2
  <1>8. QueuedByPlace'
    BY <1>1, <1>3, QueuesShrink
  <1>9. GrantsSignalled'
    <2>1. waiting'[0] = waiting[0] /\ value'[0] = value[0]
      BY <1>2, <1>3
    <2>2. \A u \in Table : Granted(u)' => Granted(u)
      BY <1>1, <1>2, <2>1 DEF Granted
    <2>3. \A u \in Table : at[u] \in {"signalOwn", "signalLeft", "signalRight"} =>
                           at'[u] \in {"signalOwn", "signalLeft", "signalRight"}
      BY <1>1, <1>2
    <2>4. 1 \in Table /\ 3 \in Table
      BY DEF Table, DEFAULTP
    <2>5. \A u \in Table : at'[u] \in {"signalOwn", "release", "wait", "put", "thinking"} =>
                              state'[u] # "THINKING"
      BY <1>1, <1>2 DEF PhilosophersInv, GrantsSignalled
    <2> QED BY <2>1, <2>2, <2>3, <2>4, <2>5 DEF PhilosophersInv, GrantsSignalled
  <1>10. CSTypeOK' /\ \A s \in Semaphores : open'[s]
    BY <1>2, <1>3 DEF PhilosophersInv, CSTypeOK
  <1> QED BY <1>4, <1>7, <1>8, <1>9, <1>10 DEF PhilosophersInv

\* The wait for the forks: a token is taken, by whichever client of the semaphore, or
\* the caller queues.
LEMMA WaitInv ==
    ASSUME PhilosophersInv, NEW v \in Table, Moves(v, "wait", "put"), Wait(0, pid(v)),
           state' = state
    PROVE  PhilosophersInv'
  <1>1. "put" \in Places /\ "put" \notin Critical /\ "wait" \notin Critical
    BY DEF Critical, Places
  <1>2. /\ at \in [Table -> Places] /\ at[v] = "wait"
        /\ at' \in [Table -> Places] /\ at'[v] = "put"
        /\ \A u \in Table : u # v => at'[u] = at[u]
        /\ \A s \in Semaphores : pid(v) \notin waiting[s]
        /\ 0 \in Semaphores /\ mutexp \in Semaphores /\ mutexp # 0
        /\ open \in [Semaphores -> BOOLEAN] /\ value \in [Semaphores -> Nat]
        /\ waiting \in [Semaphores -> SUBSET Processes]
    BY <1>1, MovesFacts, PhilosophersAssumption
  <1>3. \A u \in Table : pid(u) \in Processes /\ (u # v => pid(u) # pid(v))
    BY Neighbours
  <1>4. /\ open' = open
        /\ \/ /\ value[0] > 0 /\ value' = [value EXCEPT ![0] = @ - 1]
              /\ waiting' = waiting
           \/ /\ value[0] = 0 /\ value' = value
              /\ waiting' = [waiting EXCEPT ![0] = @ \cup {pid(v)}]
    BY <1>2 DEF Wait
  <1>5. /\ value' \in [Semaphores -> Nat] /\ waiting' \in [Semaphores -> SUBSET Processes]
        /\ \A s \in Semaphores \ {0} : value'[s] = value[s] /\ waiting'[s] = waiting[s]
    BY <1>2, <1>3, <1>4
  <1>6. NeighboursExclude'
    BY <1>1, SameStates
  <1>7. OneTests'
    <2>1. \A u \in Table : Tests(u)' <=> Tests(u)
      BY <1>1, <1>2, <1>5 DEF Tests
    <2> QED BY <1>2, <1>5, <2>1 DEF PhilosophersInv, OneTests
  <1>8. QueuedByPlace'
    <2>0. /\ \A u \in Table : at'[u] = "wait" => HasSemaphore(u)
          /\ HasSemaphore(v)
      BY <1>2 DEF PhilosophersInv, QueuedByPlace
    <2> SUFFICES ASSUME NEW s \in Semaphores, NEW p \in waiting'[s]
                 PROVE  \E u \in Table :
                          /\ p = pid(u)
                          /\ \/ s = mutexp /\ at'[u] \in {"sit", "hungry", "thinking"}
                             \/ s = 0 /\ at'[u] = "put" /\ HasSemaphore(u)
      BY <2>0 DEF QueuedByPlace, HasSemaphore
    <2>1. CASE p \in waiting[s]
      <3>1. PICK u \in Table :
              /\ p = pid(u)
              /\ \/ s = mutexp /\ at[u] \in {"sit", "hungry", "thinking"}
                 \/ s = 0 /\ at[u] = "put" /\ HasSemaphore(u)
        BY <2>1 DEF PhilosophersInv, QueuedByPlace
      <3>2. u # v
        BY <1>2, <2>1, <3>1
      <3> QED BY <1>2, <3>1, <3>2
    <2>2. CASE p \notin waiting[s]
      <3>1. s = 0 /\ p = pid(v)
        BY <1>2, <1>4, <1>5, <2>2
      <3> QED BY <1>2, <2>0, <3>1
    <2> QED BY <2>1, <2>2
  <1>9. GrantsSignalled'
    <2>1. \A u \in Table : at'[u] \in {"signalOwn", "release", "wait", "put", "thinking"} =>
                              state'[u] # "THINKING"
      BY <1>2 DEF PhilosophersInv, GrantsSignalled
    <2>2. HasSemaphore(v) /\ v \in {1, 3}
      BY <1>2, Neighbours DEF PhilosophersInv, QueuedByPlace
    <2>3. CASE value[0] > 0
      <3>1. waiting[0] = {} /\ waiting' = waiting
        BY <1>4, <2>3 DEF PhilosophersInv, GrantsSignalled
      <3>2. ~Granted(v)'
        BY <1>2, <3>1 DEF Granted
      <3> QED BY <2>1, <2>2, <3>1, <3>2 DEF GrantsSignalled
    <2>4. CASE value[0] = 0
      <3>1. value'[0] = 0 /\ waiting'[0] = waiting[0] \cup {pid(v)}
        BY <1>2, <1>4, <2>4
      <3>2. \A u \in Table : Granted(u)' => Granted(u)
        <4> TAKE u \in Table
        <4>1. CASE u = v
          BY <1>2, <4>1 DEF Granted
        <4>2. CASE u # v
          <5>1. pid(u) \in waiting'[0] <=> pid(u) \in waiting[0]
            BY <1>3, <3>1, <4>2
          <5> QED BY <1>2, <4>2, <5>1 DEF Granted
        <4> QED BY <4>1, <4>2
      <3>3. 1 \in Table /\ 3 \in Table
        BY DEF Table, DEFAULTP
      <3>4. \A u \in Table : at[u] \in {"signalOwn", "signalLeft", "signalRight"} =>
                             at'[u] \in {"signalOwn", "signalLeft", "signalRight"}
        BY <1>2
      <3> QED BY <2>1, <2>4, <3>1, <3>2, <3>3, <3>4 DEF PhilosophersInv, GrantsSignalled
    <2> QED BY <1>2, <2>3, <2>4
  <1>10. CSTypeOK' /\ \A s \in Semaphores : open'[s]
    BY <1>2, <1>4, <1>5 DEF PhilosophersInv, CSTypeOK
  <1> QED BY <1>6, <1>7, <1>8, <1>9, <1>10 DEF PhilosophersInv

\* Every step of a philosopher keeps the invariant.
LEMMA PhilosopherInv ==
    ASSUME PhilosophersInv, NEW v \in Table, philospher(v)
    PROVE  PhilosophersInv'
  <1>1. CASE take_fork(v)
    <2>1. CASE lockMutexp(v, "fresh", "sit") \/ lockMutexp(v, "take", "hungry")
      BY <2>1, LockInv
    <2>2. CASE \E from \in {"sit", "hungry"} :
                 testP(v, v, [state EXCEPT ![v] = "HUNGRY"], from, "signalOwn", "release")
      <3>1. PICK from \in {"sit", "hungry"} :
              testP(v, v, [state EXCEPT ![v] = "HUNGRY"], from, "signalOwn", "release")
        BY <2>2
      <3> QED BY <3>1, TestInv
    <2>3. CASE signalP(v, "signalOwn", "release")
      BY <2>3, SignalInv
    <2>4. CASE freeMutexp(v, "release", IF HasSemaphore(v) THEN "wait" ELSE "put")
      BY <2>4, FreeInv
    <2>5. CASE Moves(v, "wait", "put") /\ Wait(0, pid(v)) /\ UNCHANGED state
      BY <2>5, WaitInv
    <2> QED BY <1>1, <2>1, <2>2, <2>3, <2>4, <2>5 DEF take_fork
  <1>2. CASE put_fork(v)
    <2>0. left(v) \in Table /\ right(v) \in Table
      BY Neighbours
    <2>1. CASE lockMutexp(v, "put", "thinking")
      BY <2>1, LockInv
    <2>2. CASE testP(v, left(v), [state EXCEPT ![v] = "THINKING"], "thinking", "signalLeft",
                     "testRight")
      BY <2>0, <2>2, TestInv
    <2>3. CASE signalP(v, "signalLeft", "testRight")
      BY <2>3, SignalInv
    <2>4. CASE testP(v, right(v), state, "testRight", "signalRight", "leave")
      BY <2>0, <2>4, TestInv
    <2>5. CASE signalP(v, "signalRight", "leave")
      BY <2>5, SignalInv
    <2>6. CASE freeMutexp(v, "leave", "take")
      BY <2>6, FreeInv
    <2> QED BY <1>2, <2>1, <2>2, <2>3, <2>4, <2>5, <2>6 DEF put_fork
  <1> QED BY <1>1, <1>2 DEF philospher

\* In the initial states nobody has been hungry yet, and mutexp is free.
LEMMA PhilosophersInitInv ==
    main /\ program = "PHILOSOPHERS" => PhilosophersInv
  <1> SUFFICES ASSUME main, program = "PHILOSOPHERS" PROVE PhilosophersInv
    OBVIOUS
  <1>1. /\ open = [s \in Semaphores |-> TRUE] /\ waiting = [s \in Semaphores |-> {}]
        /\ value = [s \in Semaphores |-> IF s = mutexp THEN 1 ELSE 0]
        /\ state \in [Table -> {"THINKING", "HUNGRY", "EATING"}]
        /\ at = [v \in Table |-> "fresh"]
    BY PhilosophersAssumption DEF main, dPhilosphers
  <1>2. CSTypeOK /\ \A s \in Semaphores : open[s]
    BY <1>1 DEF CSTypeOK
  <1>3. NeighboursExclude
    BY <1>1, Neighbours DEF NeighboursExclude, PhilosophersTypeOK, Places
  <1>4. OneTests /\ QueuedByPlace
    BY <1>1, PhilosophersAssumption DEF OneTests, QueuedByPlace, Tests, Critical
  <1>5. GrantsSignalled
    BY <1>1, PhilosophersAssumption DEF GrantsSignalled, Granted, Table, DEFAULTP
  <1> QED BY <1>2, <1>3, <1>4, <1>5 DEF PhilosophersInv

PhilosophersRun == program = "PHILOSOPHERS" => PhilosophersInv

\* A step of either program keeps the invariant of the philosophers.
LEMMA PhilosophersStep == PhilosophersRun /\ [DummyNext]_dummyVars => PhilosophersRun'
  <1> SUFFICES ASSUME PhilosophersRun, [DummyNext]_dummyVars, program' = "PHILOSOPHERS"
               PROVE  PhilosophersInv'
    BY DEF PhilosophersRun
  <1>1. CASE UNCHANGED dummyVars
    BY <1>1 DEF dummyVars, csVars, phVars, PhilosophersRun, PhilosophersInv, CSTypeOK,
                NeighboursExclude, PhilosophersTypeOK, OneTests, QueuedByPlace, GrantsSignalled,
                Granted, Tests
  <1>2. CASE program = "PROD_CONS" /\ control /\ UNCHANGED <<program, phVars>>
    BY <1>2
  <1>3. CASE \E p \in Workers : workerStep(p)
    BY <1>3 DEF workerStep
  <1>4. CASE \E v \in Table : philosopherStep(v)
    BY <1>4, PhilosopherInv DEF philosopherStep, PhilosophersRun
  <1> QED BY <1>1, <1>2, <1>3, <1>4 DEF DummyNext

\* The philosophers of dummy.c keep this whatever dPhilosphers finds in the array it does
\* not initialise: one of them tests at a time, and grants and signals balance.
THEOREM PhilosophersInvariant == DummySpec => [](program = "PHILOSOPHERS" => PhilosophersInv)
  <1>1. main => PhilosophersRun
    BY PhilosophersInitInv DEF PhilosophersRun
  <1>2. PhilosophersRun => (program = "PHILOSOPHERS" => PhilosophersInv)
    BY DEF PhilosophersRun
  <1> QED BY <1>1, <1>2, PhilosophersStep, PTL DEF DummySpec

\* Neighbours never eat at the same time, once they have been hungry: testP sees both
\* sides, and only it hands out forks.
THEOREM PhilosophersExclude == DummySpec => [](program = "PHILOSOPHERS" => NeighboursExclude)
  <1>1. PhilosophersInv => NeighboursExclude
    BY DEF PhilosophersInv
  <1> QED BY <1>1, PhilosophersInvariant, PTL

\* Not everybody sleeps, and the two clients of the shared semaphore do not both sleep
\* with their forks granted unless the signal of a test is on its way.
THEOREM PhilosophersTested == DummySpec => [](program = "PHILOSOPHERS" => SleepersAreTested)
  <1>1. ASSUME PhilosophersInv PROVE SleepersAreTested
    <2>1. \E v \in Table : \A s \in Semaphores : pid(v) \notin waiting[s]
      <3>1. 0 \in Table /\ HasSemaphore(0) = FALSE
        BY DEF Table, DEFAULTP, HasSemaphore
      <3>2. CASE \E v \in Table : Tests(v)
        <4>1. PICK v \in Table : Tests(v)
          BY <3>2
        <4>2. ASSUME NEW s \in Semaphores, pid(v) \in waiting[s] PROVE FALSE
          <5>1. PICK u \in Table : pid(v) = pid(u) /\ (s = mutexp \/ at[u] = "put")
            BY <1>1, <4>2 DEF PhilosophersInv, QueuedByPlace
          <5>2. u = v
            BY <5>1, Neighbours
          <5> QED BY <4>1, <4>2, <5>1, <5>2 DEF Tests, Critical
        <4> QED BY <4>2
      <3>3. CASE ~\E v \in Table : Tests(v)
        <4>1. waiting[mutexp] = {}
          BY <1>1, <3>3 DEF PhilosophersInv, OneTests
        <4>2. ASSUME NEW s \in Semaphores, pid(0) \in waiting[s] PROVE FALSE
          <5>1. PICK u \in Table : pid(0) = pid(u) /\ (s = mutexp \/ HasSemaphore(u))
            BY <1>1, <4>2 DEF PhilosophersInv, QueuedByPlace
          <5>2. u = 0
            BY <3>1, <5>1, Neighbours
          <5> QED BY <3>1, <4>1, <4>2, <5>1, <5>2
        <4> QED BY <3>1, <4>2
      <3> QED BY <3>2, <3>3
    <2>2. ASSUME {pid(1), pid(3)} \subseteq waiting[0], "HUNGRY" \notin {state[1], state[3]}
          PROVE  \E v \in Table : at[v] \in {"signalOwn", "signalLeft", "signalRight"}
      <3>1. 0 \in Semaphores /\ mutexp # 0
        BY PhilosophersAssumption
      <3>2. ASSUME NEW v \in {1, 3} PROVE Granted(v)
        <4>1. v \in Table /\ pid(v) \in waiting[0]
          BY <2>2, <3>2 DEF Table, DEFAULTP
        <4>2. PICK u \in Table : pid(v) = pid(u) /\ at[u] = "put"
          BY <1>1, <3>1, <4>1 DEF PhilosophersInv, QueuedByPlace
        <4>3. at[v] = "put"
          BY <4>1, <4>2, Neighbours
        <4>4. state[v] # "THINKING" /\ state[v] # "HUNGRY"
          BY <1>1, <2>2, <3>2, <4>1, <4>3 DEF PhilosophersInv, GrantsSignalled
        <4>5. state[v] \in {"THINKING", "HUNGRY", "EATING"}
          BY <1>1, <4>1 DEF PhilosophersInv, NeighboursExclude, PhilosophersTypeOK
        <4> QED BY <4>1, <4>3, <4>4, <4>5 DEF Granted
      <3>3. Granted(1) /\ Granted(3) /\ ~(value[0] > 0)
        BY <1>1, <2>2, <3>2 DEF PhilosophersInv, GrantsSignalled
      <3> QED BY <1>1, <3>3 DEF PhilosophersInv, GrantsSignalled
    <2> QED BY <2>1, <2>2 DEF SleepersAreTested
  <1> QED BY <1>1, PhilosophersInvariant, PTL

-----------------------------------------------------------------------------
(* Producers and consumers: the ring.                                       *)

\* An index that has passed the end of the ring once.
Turn(x) == x % bufferSize

\* The % bufferSize of insertItem and removeItem wraps such an index into the ring.
LEMMA Wrap ==
    ASSUME NEW x \in Nat, x < 2 * bufferSize
    PROVE  Turn(x) = (IF x < bufferSize THEN x ELSE x - bufferSize) /\ Turn(x) \in Ring
  <1>1. bufferSize \in Nat \ {0}
    BY ProdConsAssumption
  <1>2. CASE x < bufferSize
    <2>1. x % bufferSize = x
      BY <1>1, <1>2
    <2> QED BY <1>1, <1>2, <2>1 DEF Ring, Turn
  <1>3. CASE x >= bufferSize
    <2>1. x % bufferSize = x - bufferSize
      BY <1>1, <1>3
    <2> QED BY <1>1, <1>3, <2>1 DEF Ring, Turn
  <1> QED BY <1>1, <1>2, <1>3

\* RingAt with its indices written that way.
LEMMA RingTurns ==
    ASSUME NEW x, NEW y, NEW b, NEW c
    PROVE  RingAt(x, y, b, c) <=> /\ y = Turn(x + Len(c))
                                  /\ \A k \in 1 .. Len(c) : b[Turn(x + k - 1)] = c[k]
  BY DEF RingAt, Turn

\* insertItem: the item goes behind the last one, and overwrites none.
LEMMA RingInserts ==
    ASSUME NEW x \in Ring, NEW y \in Ring, NEW b \in [Ring -> Chars], NEW c \in Seq(Chars),
           RingAt(x, y, b, c), Len(c) < bufferSize, NEW d \in Chars
    PROVE  RingAt(x, Turn(y + 1), [b EXCEPT ![y] = d], Append(c, d))
  <1>1. bufferSize \in Nat \ {0} /\ x \in Nat /\ x < bufferSize /\ y \in Nat /\ y < bufferSize
    BY ProdConsAssumption DEF Ring
  <1>2. /\ Len(c) \in Nat /\ Len(Append(c, d)) = Len(c) + 1
        /\ \A k \in 1 .. Len(c) : Append(c, d)[k] = c[k]
        /\ Append(c, d)[Len(c) + 1] = d
    OBVIOUS
  <1>3. /\ y = Turn(x + Len(c))
        /\ \A k \in 1 .. Len(c) : b[Turn(x + k - 1)] = c[k]
    BY RingTurns
  <1>4. y = IF x + Len(c) < bufferSize THEN x + Len(c) ELSE x + Len(c) - bufferSize
    <2>1. x + Len(c) \in Nat /\ x + Len(c) < 2 * bufferSize
      BY <1>1, <1>2
    <2>2. Turn(x + Len(c)) =
             IF x + Len(c) < bufferSize THEN x + Len(c) ELSE x + Len(c) - bufferSize
      BY <1>1, <2>1, Wrap
    <2> QED BY <1>3, <2>2
  <1>5. Turn(y + 1) = Turn(x + (Len(c) + 1))
    <2>1. /\ y + 1 \in Nat /\ y + 1 < 2 * bufferSize
          /\ x + (Len(c) + 1) \in Nat /\ x + (Len(c) + 1) < 2 * bufferSize
      BY <1>1, <1>2
    <2>2. Turn(y + 1) = IF y + 1 < bufferSize THEN y + 1 ELSE y + 1 - bufferSize
      BY <1>1, <2>1, Wrap
    <2>3. Turn(x + (Len(c) + 1)) =
             IF x + (Len(c) + 1) < bufferSize THEN x + (Len(c) + 1)
             ELSE x + (Len(c) + 1) - bufferSize
      BY <1>1, <2>1, Wrap
    <2> QED BY <1>1, <1>2, <1>4, <2>2, <2>3
  <1>6. ASSUME NEW k \in 1 .. Len(c) + 1
        PROVE  [b EXCEPT ![y] = d][Turn(x + k - 1)] = Append(c, d)[k]
    <2>1. /\ Turn(x + k - 1) =
             IF x + k - 1 < bufferSize THEN x + k - 1 ELSE x + k - 1 - bufferSize
          /\ Turn(x + k - 1) \in Ring
      <3>1. x + k - 1 \in Nat /\ x + k - 1 < 2 * bufferSize
        BY <1>1, <1>2
      <3> QED BY <1>1, <3>1, Wrap
    <2>2. CASE k = Len(c) + 1
      <3>1. Turn(x + k - 1) = y
        BY <1>1, <1>2, <1>4, <2>1, <2>2
      <3> QED BY <1>2, <2>2, <3>1
    <2>3. CASE k # Len(c) + 1
      <3>1. k \in 1 .. Len(c)
        BY <1>2, <2>3
      <3>2. Turn(x + k - 1) # y
        BY <1>1, <1>2, <1>4, <2>1, <3>1
      <3> QED BY <1>2, <1>3, <2>1, <3>1, <3>2
    <2> QED BY <2>2, <2>3
  <1> QED BY <1>2, <1>5, <1>6, RingTurns

\* removeItem: the character at the read index is the oldest item.
LEMMA RingRemoves ==
    ASSUME NEW x \in Ring, NEW y \in Ring, NEW b \in [Ring -> Chars], NEW c \in Seq(Chars),
           RingAt(x, y, b, c), Len(c) =< bufferSize, c # <<>>
    PROVE  /\ b[x] = Head(c) /\ Tail(c) \in Seq(Chars) /\ Len(Tail(c)) = Len(c) - 1
           /\ RingAt(Turn(x + 1), y, b, Tail(c))
  <1>1. bufferSize \in Nat \ {0} /\ x \in Nat /\ x < bufferSize
    BY ProdConsAssumption DEF Ring
  <1>2. /\ Len(c) \in Nat \ {0} /\ Len(Tail(c)) = Len(c) - 1 /\ Tail(c) \in Seq(Chars)
        /\ \A k \in 1 .. Len(c) - 1 : Tail(c)[k] = c[k + 1]
        /\ Head(c) = c[1]
    OBVIOUS
  <1>3. /\ y = Turn(x + Len(c))
        /\ \A k \in 1 .. Len(c) : b[Turn(x + k - 1)] = c[k]
    BY RingTurns
  <1>4. b[x] = Head(c)
    <2>1. Turn(x + 1 - 1) = x /\ 1 \in 1 .. Len(c)
      BY <1>1, <1>2, Wrap
    <2> QED BY <1>2, <1>3, <2>1
  <1>5. /\ Turn(x + 1) = IF x + 1 < bufferSize THEN x + 1 ELSE x + 1 - bufferSize
        /\ Turn(x + 1) \in Nat /\ Turn(x + 1) < bufferSize
    <2>1. x + 1 \in Nat /\ x + 1 < 2 * bufferSize
      BY <1>1
    <2>2. Turn(x + 1) = IF x + 1 < bufferSize THEN x + 1 ELSE x + 1 - bufferSize
      BY <1>1, <2>1, Wrap
    <2> QED BY <1>1, <2>2
  <1> DEFINE z == Turn(x + 1)
  <1>6. z \in Nat /\ z < bufferSize /\ z = IF x + 1 < bufferSize THEN x + 1 ELSE x + 1 - bufferSize
    BY <1>5
  <1> HIDE DEF z
  <1>7. ASSUME NEW k \in 1 .. Len(c) PROVE Turn(z + k - 1) = Turn(x + k)
    <2>1. /\ z + k - 1 \in Nat /\ z + k - 1 < 2 * bufferSize
          /\ x + k \in Nat /\ x + k < 2 * bufferSize
      BY <1>1, <1>2, <1>6
    <2>2. Turn(z + k - 1) =
            IF z + k - 1 < bufferSize THEN z + k - 1 ELSE z + k - 1 - bufferSize
      BY <1>1, <1>6, <2>1, Wrap
    <2>3. Turn(x + k) = IF x + k < bufferSize THEN x + k ELSE x + k - bufferSize
      BY <1>1, <2>1, Wrap
    <2> QED BY <1>1, <1>2, <1>6, <2>2, <2>3
  <1>8. y = Turn(z + Len(Tail(c)))
    <2>1. Len(c) \in 1 .. Len(c) /\ z + Len(c) - 1 = z + Len(Tail(c))
      BY <1>2, <1>6
    <2> QED BY <1>3, <1>7, <2>1
  <1>9. ASSUME NEW k \in 1 .. Len(Tail(c)) PROVE b[Turn(z + k - 1)] = Tail(c)[k]
    <2>1. k \in 1 .. Len(c) /\ k + 1 \in 1 .. Len(c) /\ x + (k + 1) - 1 = x + k
      BY <1>1, <1>2
    <2>2. Turn(z + k - 1) = Turn(x + k)
      BY <1>7, <2>1
    <2>3. b[Turn(x + (k + 1) - 1)] = c[k + 1]
      BY <1>3, <2>1
    <2> QED BY <1>2, <2>1, <2>2, <2>3
  <1> QED BY <1>2, <1>4, <1>8, <1>9, RingTurns DEF z

\* One worker less or more.
LEMMA OneLess ==
    ASSUME NEW X, IsFiniteSet(X), NEW p \in X, NEW Y \in SUBSET (X \ {p})
    PROVE  Cardinality(Y) \in Nat /\ Cardinality(X) \in Nat /\ Cardinality(Y) + 1 =< Cardinality(X)
  <1>1. IsFiniteSet(X \ {p}) /\ Cardinality(X \ {p}) = Cardinality(X) - 1
    BY FS_RemoveElement
  <1>2. IsFiniteSet(Y) /\ Cardinality(Y) =< Cardinality(X \ {p})
    BY <1>1, FS_Subset
  <1>3. Cardinality(Y) \in Nat /\ Cardinality(X) \in Nat
    BY <1>2, FS_CardinalityType
  <1> QED BY <1>1, <1>2, <1>3

\* A set without all of the workers of another one and one more has one more at most.
LEMMA OneMore ==
    ASSUME NEW X, IsFiniteSet(X), NEW p, NEW Y \in SUBSET (X \cup {p})
    PROVE  Cardinality(Y) \in Nat /\ Cardinality(X) \in Nat /\ Cardinality(Y) =< Cardinality(X) + 1
  <1>1. /\ IsFiniteSet(X \cup {p})
        /\ Cardinality(X \cup {p}) = IF p \in X THEN Cardinality(X) ELSE Cardinality(X) + 1
    BY FS_AddElement
  <1>2. IsFiniteSet(Y) /\ Cardinality(Y) =< Cardinality(X \cup {p})
    BY <1>1, FS_Subset
  <1>3. Cardinality(Y) \in Nat /\ Cardinality(X) \in Nat
    BY <1>2, FS_CardinalityType
  <1> QED BY <1>1, <1>2, <1>3

\* A subset has no more members.
LEMMA NoMore ==
    ASSUME NEW X, IsFiniteSet(X), NEW Y \in SUBSET X
    PROVE  Cardinality(Y) \in Nat /\ Cardinality(X) \in Nat /\ Cardinality(Y) =< Cardinality(X)
  <1>1. IsFiniteSet(Y) /\ Cardinality(Y) =< Cardinality(X)
    BY FS_Subset
  <1> QED BY <1>1, FS_CardinalityType

-----------------------------------------------------------------------------
(* Producers and consumers: the steps of a worker.                          *)

\* What the types give for the current state.
LEMMA ProdConsTypes ==
    ASSUME ProdConsInv
    PROVE  /\ kind \in [Workers -> Kinds \cup {"none"}] /\ alive \in SUBSET Workers
           /\ step \in [Workers -> Steps] /\ item \in [Workers -> Chars]
           /\ i \in Chars /\ r \in Ring /\ w \in Ring /\ buffer \in [Ring -> Chars]
           /\ content \in Seq(Chars) /\ Len(content) \in Nat
           /\ open \in [Semaphores -> BOOLEAN] /\ value \in [Semaphores -> Nat]
           /\ waiting \in [Semaphores -> SUBSET Processes]
           /\ bufferSize \in Nat \ {0} /\ Codes \in Nat \ {0}
           /\ {itemMutex, fullCount, emptyCount} \subseteq Semaphores
           /\ itemMutex # fullCount /\ itemMutex # emptyCount /\ fullCount # emptyCount
           /\ \A p \in Workers : p \in Processes /\ Takes(p) \in {fullCount, emptyCount}
                                 /\ Gives(p) \in {fullCount, emptyCount}
           /\ \A p \in alive : kind[p] \in Kinds
           /\ \A k \in Kinds : /\ IsFiniteSet(Before(k)) /\ IsFiniteSet(After(k))
                               /\ Cardinality(Before(k)) \in Nat /\ Cardinality(After(k)) \in Nat
  <1>1. /\ kind \in [Workers -> Kinds \cup {"none"}] /\ alive \in SUBSET Workers
        /\ step \in [Workers -> Steps] /\ item \in [Workers -> Chars]
        /\ i \in Chars /\ r \in Ring /\ w \in Ring /\ buffer \in [Ring -> Chars]
        /\ content \in Seq(Chars) /\ Len(content) \in Nat
        /\ open \in [Semaphores -> BOOLEAN] /\ value \in [Semaphores -> Nat]
        /\ waiting \in [Semaphores -> SUBSET Processes]
    BY DEF ProdConsInv, ProdConsTypeOK, CSTypeOK
  <1>2. /\ bufferSize \in Nat \ {0} /\ Codes \in Nat \ {0}
        /\ {itemMutex, fullCount, emptyCount} \subseteq Semaphores
        /\ itemMutex # fullCount /\ itemMutex # emptyCount /\ fullCount # emptyCount
        /\ IsFiniteSet(Workers) /\ Workers \subseteq Processes
    BY ProdConsAssumption DEF itemMutex, fullCount, emptyCount
  <1>3. \A p \in Workers : p \in Processes /\ Takes(p) \in {fullCount, emptyCount}
                           /\ Gives(p) \in {fullCount, emptyCount}
    BY <1>2 DEF Takes, Gives
  <1>4. \A p \in alive : kind[p] \in Kinds
    BY <1>1 DEF ProdConsInv, QueuedByStep
  <1>5. ASSUME NEW k \in Kinds
        PROVE  /\ IsFiniteSet(Before(k)) /\ IsFiniteSet(After(k))
               /\ Cardinality(Before(k)) \in Nat /\ Cardinality(After(k)) \in Nat
    <2>1. Before(k) \subseteq Workers /\ After(k) \subseteq Workers
      BY DEF Before, After
    <2> QED BY <1>2, <2>1, FS_Subset, FS_CardinalityType
  <1> QED BY <1>1, <1>2, <1>3, <1>4, <1>5

\* What a step of worker p leaves alone.
LEMMA GoesFacts ==
    ASSUME ProdConsInv, NEW p \in Workers, NEW from, NEW to \in Steps, Goes(p, from, to)
    PROVE  /\ p \in alive /\ kind[p] \in Kinds /\ step[p] = from
           /\ \A s \in Semaphores : p \notin waiting[s]
           /\ step' \in [Workers -> Steps] /\ step'[p] = to
           /\ \A x \in Workers : x # p => step'[x] = step[x]
           /\ kind' = kind /\ alive' = alive
           /\ \A x \in Workers : Takes(x)' = Takes(x)
           /\ WorkersTracked'
  <1>1. /\ p \in alive /\ step[p] = from /\ \A s \in Semaphores : p \notin waiting[s]
        /\ step' = [step EXCEPT ![p] = to]
        /\ kind' = kind /\ alive' = alive /\ workers' = workers /\ pidOf' = pidOf
        /\ end' = end /\ removed' = removed
    BY DEF Goes, Runs
  <1>2. WorkersTracked'
    BY <1>1 DEF ProdConsInv, WorkersTracked, Passed
  <1> QED BY <1>1, <1>2, ProdConsTypes DEF Takes

\* The types of the variables a worker changes.
LEMMA TypesKept ==
    ASSUME ProdConsInv, NEW p \in Workers, NEW from, NEW to \in Steps, Goes(p, from, to),
           item' \in [Workers -> Chars], i' \in Chars, r' \in Ring, w' \in Ring,
           buffer' \in [Ring -> Chars], content' \in Seq(Chars)
    PROVE  ProdConsTypeOK'
  <1>1. /\ kind' = kind /\ alive' = alive /\ workers' = workers /\ pidOf' = pidOf
        /\ end' = end /\ removed' = removed
    BY DEF Goes
  <1>2. step' \in [Workers -> Steps]
    BY GoesFacts
  <1> QED BY <1>1, <1>2 DEF ProdConsInv, ProdConsTypeOK

\* A worker joins a queue only where its new step says.
LEMMA QueuesKept ==
    ASSUME ProdConsInv, NEW p \in Workers, NEW from, NEW to \in Steps, Goes(p, from, to),
           \A s \in Semaphores : \A x \in waiting'[s] :
              \/ x \in waiting[s]
              \/ /\ x = p
                 /\ \/ s = itemMutex /\ to = "access"
                    \/ s = Takes(p) /\ to = "waitItem"
    PROVE  QueuedByStep'
  <1>1. /\ p \in alive /\ kind[p] \in Kinds
        /\ \A s \in Semaphores : p \notin waiting[s]
        /\ step'[p] = to /\ \A x \in Workers : x # p => step'[x] = step[x]
        /\ kind' = kind /\ alive' = alive /\ \A x \in Workers : Takes(x)' = Takes(x)
    BY GoesFacts
  <1>2. \A x \in Workers : (kind'[x] = "none" => x \notin alive') /\ (x \notin alive' => step'[x] = "produce")
    BY <1>1 DEF ProdConsInv, QueuedByStep
  <1>3. ASSUME NEW s \in Semaphores, NEW x \in waiting'[s]
        PROVE  /\ x \in Workers /\ kind'[x] # "none"
               /\ x \in alive' => \/ s = itemMutex /\ step'[x] = "access"
                                  \/ s = Takes(x)' /\ step'[x] = "waitItem"
    <2>1. CASE x \in waiting[s]
      <3>1. x \in Workers /\ kind[x] # "none" /\ x # p
        BY <1>1, <2>1 DEF ProdConsInv, QueuedByStep
      <3>2. x \in alive => \/ s = itemMutex /\ step[x] = "access"
                           \/ s = Takes(x) /\ step[x] = "waitItem"
        BY <2>1 DEF ProdConsInv, QueuedByStep
      <3> QED BY <1>1, <3>1, <3>2
    <2>2. CASE x = p /\ ((s = itemMutex /\ to = "access") \/ (s = Takes(p) /\ to = "waitItem"))
      BY <1>1, <2>2 DEF Kinds
    <2> QED BY <2>1, <2>2
  <1> QED BY <1>2, <1>3 DEF QueuedByStep

\* A worker that does not move and whose place in the queues does not change is counted
\* as before.
LEMMA OthersStay ==
    ASSUME ProdConsInv, NEW p \in Workers, NEW from, NEW to \in Steps, Goes(p, from, to),
           NEW x \in Workers, x # p, \A s \in Semaphores : x \in waiting'[s] <=> x \in waiting[s]
    PROVE  /\ x \in Inside' <=> x \in Inside
           /\ \A k \in Kinds : (x \in Before(k)' <=> x \in Before(k))
                               /\ (x \in After(k)' <=> x \in After(k))
  <1>1. step'[x] = step[x] /\ kind' = kind /\ alive' = alive /\ Takes(x)' = Takes(x)
    BY GoesFacts
  <1>2. Takes(x) \in Semaphores
    BY ProdConsTypes
  <1>3. x \in Inside' <=> x \in Inside
    BY <1>1 DEF Inside, Runs
  <1>4. ASSUME NEW k \in Kinds
        PROVE  (x \in Before(k)' <=> x \in Before(k)) /\ (x \in After(k)' <=> x \in After(k))
    <2>1. x \in waiting'[Takes(x)'] <=> x \in waiting[Takes(x)]
      BY <1>1, <1>2
    <2> QED BY <1>1, <2>1 DEF Before, After
  <1> QED BY <1>3, <1>4

\* Nobody enters, leaves or moves inside, and the ring is as it was.
LEMMA SameInside ==
    ASSUME ProdConsInv, NEW p \in Workers, NEW from, NEW to \in Steps, Goes(p, from, to),
           p \notin Inside, Inside' = Inside, value'[itemMutex] = value[itemMutex],
           waiting'[itemMutex] = waiting[itemMutex],
           UNCHANGED <<r, w, buffer, content>>
    PROVE  OneInside' /\ RingOrdered'
  <1>1. kind' = kind /\ \A x \in Inside : step'[x] = step[x]
    BY GoesFacts DEF Inside
  <1>2. \A k \in Kinds : Advancing(k)' <=> Advancing(k)
    BY <1>1 DEF Advancing
  <1>3. "producer" \in Kinds /\ "consumer" \in Kinds
    BY DEF Kinds
  <1> QED BY <1>2, <1>3 DEF ProdConsInv, OneInside, RingOrdered, RingAt

\* Equal sets, member by member.
LEMMA SetsStay ==
    ASSUME ProdConsInv, NEW p \in Workers, NEW from, NEW to \in Steps, Goes(p, from, to),
           \A s \in Semaphores : \A x \in Workers \ {p} : x \in waiting'[s] <=> x \in waiting[s]
    PROVE  /\ Inside \ {p} = Inside' \ {p}
           /\ \A k \in Kinds : Before(k)' \ {p} = Before(k) \ {p} /\ After(k)' \ {p} = After(k) \ {p}
  <1>1. /\ Inside \subseteq Workers /\ Inside' \subseteq Workers
        /\ \A k \in Kinds : /\ Before(k) \subseteq Workers /\ Before(k)' \subseteq Workers
                            /\ After(k) \subseteq Workers /\ After(k)' \subseteq Workers
    BY DEF Inside, Before, After
  <1>2. \A x \in Workers \ {p} :
           /\ x \in Inside' <=> x \in Inside
           /\ \A k \in Kinds : (x \in Before(k)' <=> x \in Before(k))
                               /\ (x \in After(k)' <=> x \in After(k))
    BY OthersStay
  <1>3. Inside \ {p} = Inside' \ {p}
    BY <1>1, <1>2
  <1>4. ASSUME NEW k \in Kinds
        PROVE  Before(k)' \ {p} = Before(k) \ {p} /\ After(k)' \ {p} = After(k) \ {p}
    BY <1>1, <1>2
  <1> QED BY <1>3, <1>4

\* produce and number: outside the ring and the semaphores.
LEMMA OutsideInv ==
    ASSUME ProdConsInv, NEW p \in Workers, NEW from \in {"produce", "number"},
           NEW to \in {"number", "waitSlot"}, Goes(p, from, to),
           UNCHANGED <<csVars, r, w, buffer, content>>,
           item' \in [Workers -> Chars], i' \in Chars
    PROVE  ProdConsInv'
  <1>1. to \in Steps
    BY DEF Steps
  <1>2. /\ open' = open /\ value' = value /\ waiting' = waiting
        /\ r' = r /\ w' = w /\ buffer' = buffer /\ content' = content
    BY DEF csVars
  <1>3. /\ step[p] = from /\ step'[p] = to /\ WorkersTracked'
    BY <1>1, GoesFacts
  <1>4. ProdConsTypeOK' /\ CSTypeOK' /\ \A s \in Semaphores : open'[s]
    BY <1>1, <1>2, ProdConsTypes, TypesKept DEF ProdConsInv, CSTypeOK
  <1>5. QueuedByStep'
    BY <1>1, <1>2, QueuesKept
  <1>6. /\ Inside \ {p} = Inside' \ {p}
        /\ \A k \in Kinds : Before(k)' \ {p} = Before(k) \ {p} /\ After(k)' \ {p} = After(k) \ {p}
    BY <1>1, <1>2, SetsStay
  <1>7. /\ p \notin Inside /\ p \notin Inside'
        /\ \A k \in Kinds : /\ p \notin Before(k) /\ p \notin Before(k)'
                            /\ p \notin After(k) /\ p \notin After(k)'
    BY <1>3 DEF Inside, Before, After
  <1>8. Inside' = Inside
    BY <1>6, <1>7
  <1>9. \A k \in Kinds : Before(k)' = Before(k) /\ After(k)' = After(k)
    BY <1>6, <1>7
  <1>10. OneInside' /\ RingOrdered'
    BY <1>1, <1>2, <1>7, <1>8, SameInside
  <1>11. TokensBounded'
    BY <1>2, <1>9 DEF ProdConsInv, TokensBounded, Kinds
  <1> QED BY <1>3, <1>4, <1>5, <1>10, <1>11 DEF ProdConsInv

\* What Wait does to the tokens and the queues.
LEMMA WaitFacts ==
    ASSUME NEW s \in Semaphores, NEW p \in Processes, Wait(s, p),
           value \in [Semaphores -> Nat], waiting \in [Semaphores -> SUBSET Processes]
    PROVE  /\ open' = open
           /\ value' \in [Semaphores -> Nat] /\ waiting' \in [Semaphores -> SUBSET Processes]
           /\ \A x \in Semaphores \ {s} : waiting'[x] = waiting[x] /\ value'[x] = value[x]
           /\ \/ value[s] > 0 /\ value'[s] = value[s] - 1 /\ waiting'[s] = waiting[s]
              \/ value[s] = 0 /\ value'[s] = 0 /\ waiting'[s] = waiting[s] \cup {p}
           /\ \A x \in Semaphores : \A q \in waiting'[x] : q \in waiting[x] \/ (x = s /\ q = p)
           /\ \A x \in Semaphores : waiting[x] \subseteq waiting'[x]
  BY DEF Wait

\* wait(emptyCount) of a producer and wait(fullCount) of a consumer: one token of the
\* semaphore becomes the promise of a slot or of an item.
LEMMA TakesInv ==
    ASSUME ProdConsInv, NEW p \in Workers, Goes(p, "waitSlot", "waitItem"), Wait(Takes(p), p),
           UNCHANGED <<item, i, r, w, buffer, content>>
    PROVE  ProdConsInv'
  <1> DEFINE s == Takes(p)
             to == "waitItem"
  <1>1. to \in Steps /\ "consumer" \in Kinds /\ "producer" \in Kinds
    BY DEF Steps, Kinds
  <1>2. /\ s \in Semaphores /\ s # itemMutex /\ s \in {fullCount, emptyCount} /\ p \in Processes
        /\ fullCount \in Semaphores /\ emptyCount \in Semaphores /\ itemMutex \in Semaphores
        /\ fullCount # emptyCount
    BY ProdConsTypes
  <1>3. /\ p \in alive /\ kind[p] \in Kinds /\ step[p] = "waitSlot" /\ step'[p] = to
        /\ kind' = kind /\ alive' = alive /\ Takes(p)' = s /\ WorkersTracked'
        /\ \A x \in Semaphores : p \notin waiting[x]
    BY <1>1, GoesFacts
  <1>4. value \in [Semaphores -> Nat] /\ waiting \in [Semaphores -> SUBSET Processes]
    BY ProdConsTypes
  <1> HIDE DEF s, to
  <1>5. /\ open' = open
        /\ value' \in [Semaphores -> Nat] /\ waiting' \in [Semaphores -> SUBSET Processes]
        /\ \A x \in Semaphores \ {s} : waiting'[x] = waiting[x] /\ value'[x] = value[x]
        /\ \/ value[s] > 0 /\ value'[s] = value[s] - 1 /\ waiting'[s] = waiting[s]
           \/ value[s] = 0 /\ value'[s] = 0 /\ waiting'[s] = waiting[s] \cup {p}
        /\ \A x \in Semaphores : \A q \in waiting'[x] : q \in waiting[x] \/ (x = s /\ q = p)
        /\ \A x \in Semaphores : waiting[x] \subseteq waiting'[x]
    <2>1. Wait(s, p)
      BY DEF s
    <2> QED BY <1>2, <1>4, <2>1, WaitFacts
  <1>6. Goes(p, "waitSlot", to)
    BY DEF to
  <1>7. ProdConsTypeOK' /\ CSTypeOK' /\ \A x \in Semaphores : open'[x]
    BY <1>1, <1>5, <1>6, ProdConsTypes, TypesKept DEF ProdConsInv, CSTypeOK
  <1>8. QueuedByStep'
    BY <1>1, <1>5, <1>6, QueuesKept DEF s, to
  <1>9. /\ Inside \ {p} = Inside' \ {p}
        /\ \A k \in Kinds : Before(k)' \ {p} = Before(k) \ {p} /\ After(k)' \ {p} = After(k) \ {p}
    BY <1>1, <1>5, <1>6, SetsStay
  <1>10. /\ p \notin Inside /\ p \notin Inside'
         /\ \A k \in Kinds : p \notin Before(k) /\ p \notin After(k) /\ p \notin After(k)'
    BY <1>3 DEF Inside, Before, After, to
  <1>11. Inside' = Inside
    BY <1>9, <1>10
  <1>12. OneInside' /\ RingOrdered'
    BY <1>1, <1>2, <1>5, <1>6, <1>10, <1>11, SameInside
  <1>16. PICK m \in Kinds : m = kind[p]
    BY <1>3
  <1>13. /\ \A k \in Kinds : After(k)' = After(k)
         /\ \A k \in Kinds : k # m => Before(k)' = Before(k)
         /\ Before(m)' \in SUBSET (Before(m) \cup {p})
         /\ value[s] = 0 => Before(m)' = Before(m)
    <2>1. \A k \in Kinds : After(k)' = After(k)
      BY <1>9, <1>10
    <2>2. \A k \in Kinds : k # m => p \notin Before(k)'
      BY <1>3, <1>16 DEF Before
    <2>3. value[s] = 0 => \A k \in Kinds : p \notin Before(k)'
      <3>1. value[s] = 0 => p \in waiting'[s]
        BY <1>5
      <3>2. Takes(p)' = s /\ step'[p] = "waitItem"
        BY <1>3 DEF to
      <3> QED BY <3>1, <3>2 DEF Before
    <2>4. \A k \in Kinds : k # m => Before(k)' = Before(k)
      BY <1>9, <1>10, <1>16, <2>2
    <2>5. Before(m)' \in SUBSET (Before(m) \cup {p})
      BY <1>9
    <2>6. value[s] = 0 => Before(m)' = Before(m)
      <3> SUFFICES ASSUME value[s] = 0 PROVE Before(m)' = Before(m)
        OBVIOUS
      <3>1. p \notin Before(m)' /\ p \notin Before(m)
        BY <1>10, <2>3
      <3>2. Before(m)' \ {p} = Before(m) \ {p}
        BY <1>9
      <3> QED BY <3>1, <3>2
    <2> QED BY <2>1, <2>4, <2>5, <2>6
  <1>14. TokensBounded'
    <2>1. \A k \in Kinds : /\ IsFiniteSet(Before(k)) /\ Cardinality(Before(k)) \in Nat
                           /\ Cardinality(After(k)) \in Nat
      BY ProdConsTypes
    <2>2. /\ value[emptyCount] \in Nat /\ value[fullCount] \in Nat /\ Len(content) \in Nat
          /\ bufferSize \in Nat /\ content' = content
      BY <1>2, <1>4, ProdConsTypes
    <2>3. /\ value[emptyCount] + Cardinality(Before("producer")) + Cardinality(After("consumer"))
               + Len(content) =< bufferSize
          /\ value[fullCount] + Cardinality(Before("consumer")) + Cardinality(After("producer"))
               =< Len(content)
      BY DEF ProdConsInv, TokensBounded
    <2>4. /\ Cardinality(Before(m)') \in Nat
          /\ value'[s] + Cardinality(Before(m)') =< value[s] + Cardinality(Before(m))
      <3>1. /\ Cardinality(Before(m)') \in Nat
            /\ Cardinality(Before(m)') =< Cardinality(Before(m)) + 1
        BY <1>3, <1>13, <2>1, OneMore
      <3>2. value[s] \in Nat /\ value'[s] \in Nat /\ Cardinality(Before(m)) \in Nat
        BY <1>2, <1>3, <1>4, <1>5, <2>1
      <3>3. CASE value[s] = 0
        BY <1>5, <1>13, <3>1, <3>2, <3>3
      <3>4. CASE value[s] > 0
        BY <1>5, <3>1, <3>2, <3>4
      <3> QED BY <3>2, <3>3, <3>4
    <2>5. CASE m = "producer"
      <3>1. s = emptyCount /\ value'[fullCount] = value[fullCount]
        BY <1>2, <1>5, <1>16, <2>5 DEF s, Takes
      <3>2. Before("consumer")' = Before("consumer")
        BY <1>1, <1>13, <2>5
      <3>3. After("producer")' = After("producer") /\ After("consumer")' = After("consumer")
        BY <1>1, <1>13
      <3>4. value'[emptyCount] \in Nat
        BY <1>2, <1>5
      <3>5. /\ Cardinality(Before("producer")') \in Nat
            /\ value'[emptyCount] + Cardinality(Before("producer")')
                 =< value[emptyCount] + Cardinality(Before("producer"))
        BY <2>4, <2>5, <3>1
      <3>6. Cardinality(Before("producer")) \in Nat /\ Cardinality(After("consumer")) \in Nat
        BY <1>1, <2>1
      <3>7. value'[emptyCount] + Cardinality(Before("producer")') + Cardinality(After("consumer"))
               + Len(content) =< bufferSize
        BY <2>2, <2>3, <3>4, <3>5, <3>6, SMTT(30)
      <3> QED BY <2>2, <2>3, <3>1, <3>2, <3>3, <3>7 DEF TokensBounded
    <2>6. CASE m = "consumer"
      <3>1. s = fullCount /\ value'[emptyCount] = value[emptyCount]
        BY <1>2, <1>5, <1>16, <2>6 DEF s, Takes
      <3>2. Before("producer")' = Before("producer")
        BY <1>1, <1>13, <2>6
      <3>3. After("producer")' = After("producer") /\ After("consumer")' = After("consumer")
        BY <1>1, <1>13
      <3>4. value'[fullCount] \in Nat
        BY <1>2, <1>5
      <3>5. /\ Cardinality(Before("consumer")') \in Nat
            /\ value'[fullCount] + Cardinality(Before("consumer")')
                 =< value[fullCount] + Cardinality(Before("consumer"))
        BY <2>4, <2>6, <3>1
      <3>6. Cardinality(Before("consumer")) \in Nat /\ Cardinality(After("producer")) \in Nat
        BY <1>1, <2>1
      <3>7. value'[fullCount] + Cardinality(Before("consumer")') + Cardinality(After("producer"))
               =< Len(content)
        BY <2>2, <2>3, <3>4, <3>5, <3>6
      <3> QED BY <2>2, <2>3, <3>1, <3>2, <3>3, <3>7 DEF TokensBounded
    <2> QED BY <2>5, <2>6 DEF Kinds
  <1> QED BY <1>3, <1>7, <1>8, <1>12, <1>14 DEF ProdConsInv

\* wait(itemMutex): the promise is kept, and the caller is inside, or it queues.
LEMMA EntersInv ==
    ASSUME ProdConsInv, NEW p \in Workers, Goes(p, "waitItem", "access"), Wait(itemMutex, p),
           UNCHANGED <<item, i, r, w, buffer, content>>
    PROVE  ProdConsInv'
  <1>1. "access" \in Steps /\ "consumer" \in Kinds /\ "producer" \in Kinds
    BY DEF Steps, Kinds
  <1>2. /\ itemMutex \in Semaphores /\ itemMutex # fullCount /\ itemMutex # emptyCount
        /\ fullCount \in Semaphores /\ emptyCount \in Semaphores /\ p \in Processes
        /\ value \in [Semaphores -> Nat] /\ waiting \in [Semaphores -> SUBSET Processes]
    BY ProdConsTypes
  <1>3. /\ p \in alive /\ kind[p] \in Kinds /\ step[p] = "waitItem" /\ step'[p] = "access"
        /\ \A x \in Workers : x # p => step'[x] = step[x]
        /\ kind' = kind /\ alive' = alive /\ Takes(p) \in Semaphores /\ WorkersTracked'
        /\ \A x \in Semaphores : p \notin waiting[x]
    BY <1>1, GoesFacts, ProdConsTypes
  <1>5. /\ open' = open
        /\ value' \in [Semaphores -> Nat] /\ waiting' \in [Semaphores -> SUBSET Processes]
        /\ \A x \in Semaphores \ {itemMutex} : waiting'[x] = waiting[x] /\ value'[x] = value[x]
        /\ \/ /\ value[itemMutex] > 0 /\ value'[itemMutex] = value[itemMutex] - 1
              /\ waiting'[itemMutex] = waiting[itemMutex]
           \/ /\ value[itemMutex] = 0 /\ value'[itemMutex] = 0
              /\ waiting'[itemMutex] = waiting[itemMutex] \cup {p}
        /\ \A x \in Semaphores : \A q \in waiting'[x] : q \in waiting[x] \/ (x = itemMutex /\ q = p)
        /\ \A x \in Semaphores : waiting[x] \subseteq waiting'[x]
    BY <1>2, WaitFacts
  <1>7. ProdConsTypeOK' /\ CSTypeOK' /\ \A x \in Semaphores : open'[x]
    BY <1>1, <1>5, ProdConsTypes, TypesKept DEF ProdConsInv, CSTypeOK
  <1>8. QueuedByStep'
    BY <1>1, <1>5, QueuesKept
  <1>9. /\ Inside \ {p} = Inside' \ {p}
        /\ \A k \in Kinds : Before(k)' \ {p} = Before(k) \ {p} /\ After(k)' \ {p} = After(k) \ {p}
    BY <1>1, <1>5, SetsStay
  <1>10. p \notin Inside /\ \A k \in Kinds : p \notin After(k) /\ p \notin After(k)'
    BY <1>3 DEF Inside, After
  <1>11. \A k \in Kinds : Before(k)' = Before(k) /\ After(k)' = After(k)
    <2> TAKE k \in Kinds
    <2>1. p \in Before(k) <=> kind[p] = k
      BY <1>3 DEF Before
    <2>2. p \in Before(k)' <=> kind[p] = k
      BY <1>3 DEF Before
    <2>3. Before(k)' = Before(k)
      BY <1>9, <2>1, <2>2
    <2>4. After(k)' = After(k)
      BY <1>9, <1>10
    <2> QED BY <2>3, <2>4
  <1>12. TokensBounded'
    BY <1>1, <1>2, <1>5, <1>11 DEF ProdConsInv, TokensBounded
  <1>13. /\ value[itemMutex] \in {0, 1}
         /\ \A x, y \in Inside : x = y
         /\ value[itemMutex] = 1 => Inside = {}
         /\ waiting[itemMutex] # {} => value[itemMutex] = 0
    BY DEF ProdConsInv, OneInside
  <1>14. CASE value[itemMutex] = 0
    <2>1. value'[itemMutex] = 0 /\ p \in waiting'[itemMutex]
      BY <1>2, <1>5, <1>14
    <2>2. p \notin Inside'
      BY <1>2, <2>1 DEF Inside, Runs
    <2>3. Inside' = Inside
      BY <1>9, <1>10, <2>2
    <2>4. OneInside'
      BY <1>13, <2>1, <2>3 DEF OneInside
    <2>5. \A k \in Kinds : Advancing(k)' <=> Advancing(k)
      <3>1. \A x \in Inside : step'[x] = step[x]
        BY <1>3, <1>10 DEF Inside
      <3> QED BY <1>3, <2>3, <3>1 DEF Advancing
    <2>6. RingOrdered'
      BY <1>1, <1>14, <2>1, <2>3, <2>5 DEF ProdConsInv, RingOrdered, RingAt
    <2> QED BY <1>3, <1>7, <1>8, <1>12, <2>4, <2>6 DEF ProdConsInv
  <1>15. CASE value[itemMutex] = 1
    <2>1. value'[itemMutex] = 0 /\ waiting'[itemMutex] = waiting[itemMutex] /\ Inside = {}
      BY <1>2, <1>5, <1>13, <1>15
    <2>2. Inside' \subseteq {p}
      BY <1>9, <2>1
    <2>3. OneInside'
      BY <2>1, <2>2 DEF OneInside
    <2>4. \A k \in Kinds : ~Advancing(k) /\ ~Advancing(k)'
      BY <1>3, <2>1, <2>2 DEF Advancing
    <2>5. RingOrdered'
      BY <1>1, <1>15, <2>4 DEF ProdConsInv, RingOrdered, RingAt
    <2> QED BY <1>3, <1>7, <1>8, <1>12, <2>3, <2>5 DEF ProdConsInv
  <1> QED BY <1>13, <1>14, <1>15

\* The worker inside is alone and holds itemMutex.
LEMMA HolderFacts ==
    ASSUME ProdConsInv, NEW p \in Workers, NEW from \in {"access", "advance", "signalItem"},
           NEW to \in Steps, Goes(p, from, to)
    PROVE  /\ Inside = {p} /\ value[itemMutex] = 0
           /\ RingAt(IF kind[p] = "consumer" /\ from = "advance" THEN (r + 1) % bufferSize ELSE r,
                     IF kind[p] = "producer" /\ from = "advance" THEN (w + 1) % bufferSize ELSE w,
                     buffer, content)
  <1>1. step[p] = from /\ p \in alive /\ \A s \in Semaphores : p \notin waiting[s]
    BY GoesFacts
  <1>2. p \in Inside
    BY <1>1 DEF Inside, Runs
  <1>3. Inside = {p} /\ value[itemMutex] = 0
    BY <1>2 DEF ProdConsInv, OneInside
  <1>4. \A k \in Kinds : Advancing(k) <=> kind[p] = k /\ from = "advance"
    BY <1>1, <1>3 DEF Advancing
  <1>5. "producer" \in Kinds /\ "consumer" \in Kinds
    BY DEF Kinds
  <1> QED BY <1>3, <1>4, <1>5 DEF ProdConsInv, RingOrdered

\* A step inside itemMutex: who is inside stays inside, alone.
LEMMA StaysInside ==
    ASSUME ProdConsInv, NEW p \in Workers, NEW from \in {"access", "advance", "signalItem"},
           NEW to \in {"advance", "signalItem"}, Goes(p, from, to), UNCHANGED csVars,
           RingAt(IF kind[p] = "consumer" /\ to = "advance" THEN (r' + 1) % bufferSize ELSE r',
                  IF kind[p] = "producer" /\ to = "advance" THEN (w' + 1) % bufferSize ELSE w',
                  buffer', content')
    PROVE  OneInside' /\ RingOrdered' /\ QueuedByStep' /\ WorkersTracked'
  <1>1. to \in Steps /\ "producer" \in Kinds /\ "consumer" \in Kinds
    BY DEF Steps, Kinds
  <1>2. Inside = {p} /\ value[itemMutex] = 0
    BY <1>1, HolderFacts
  <1>3. /\ step'[p] = to /\ p \in alive' /\ kind' = kind /\ WorkersTracked'
        /\ \A s \in Semaphores : p \notin waiting[s]
    BY <1>1, GoesFacts
  <1>4. value' = value /\ waiting' = waiting
    BY DEF csVars
  <1>5. QueuedByStep'
    BY <1>1, <1>4, QueuesKept
  <1>6. Inside \ {p} = Inside' \ {p}
    BY <1>1, <1>4, SetsStay
  <1>7. p \in Inside'
    BY <1>3, <1>4 DEF Inside, Runs
  <1>8. Inside' = {p}
    BY <1>2, <1>6, <1>7
  <1>9. OneInside'
    BY <1>2, <1>4, <1>8 DEF OneInside
  <1>10. \A k \in Kinds : Advancing(k)' <=> kind[p] = k /\ to = "advance"
    BY <1>3, <1>8 DEF Advancing
  <1>11. RingOrdered'
    BY <1>1, <1>10 DEF RingOrdered, RingAt
  <1> QED BY <1>3, <1>5, <1>9, <1>11

\* An access to the ring: the promise of the worker is used up, and it owes a signal.
LEMMA AccessMoves ==
    ASSUME ProdConsInv, NEW p \in Workers, Goes(p, "access", "advance"), UNCHANGED csVars,
           NEW m \in Kinds, m = kind[p]
    PROVE  /\ Cardinality(Before(m)') \in Nat
           /\ Cardinality(Before(m)') + 1 =< Cardinality(Before(m))
           /\ Cardinality(After(m)') \in Nat
           /\ Cardinality(After(m)') =< Cardinality(After(m)) + 1
           /\ \A k \in Kinds : k # m => Before(k)' = Before(k) /\ After(k)' = After(k)
  <1>1. "advance" \in Steps
    BY DEF Steps
  <1>2. waiting' = waiting
    BY DEF csVars
  <1>3. step[p] = "access" /\ step'[p] = "advance" /\ kind' = kind
    BY <1>1, GoesFacts
  <1>4. \A k \in Kinds : Before(k)' \ {p} = Before(k) \ {p} /\ After(k)' \ {p} = After(k) \ {p}
    BY <1>1, <1>2, SetsStay
  <1>5. p \in Before(m) /\ p \notin Before(m)' /\ p \notin After(m)
    BY <1>3 DEF Before, After
  <1>6. ASSUME NEW k \in Kinds, k # m
        PROVE  /\ p \notin Before(k) /\ p \notin Before(k)'
               /\ p \notin After(k) /\ p \notin After(k)'
    <2>1. kind[p] # k /\ kind'[p] # k
      BY <1>3, <1>6
    <2>2. p \notin Before(k) /\ p \notin Before(k)'
      BY <2>1 DEF Before
    <2>3. p \notin After(k) /\ p \notin After(k)'
      BY <2>1 DEF After
    <2> QED BY <2>2, <2>3
  <1>7. ASSUME NEW k \in Kinds, k # m PROVE Before(k)' = Before(k) /\ After(k)' = After(k)
    <2>1. Before(k)' \ {p} = Before(k) \ {p} /\ After(k)' \ {p} = After(k) \ {p}
      BY <1>4
    <2>2. /\ p \notin Before(k) /\ p \notin Before(k)'
          /\ p \notin After(k) /\ p \notin After(k)'
      BY <1>6, <1>7
    <2> QED BY <2>1, <2>2
  <1>8. Before(m)' \in SUBSET (Before(m) \ {p})
    BY <1>4, <1>5
  <1>9. After(m)' \in SUBSET (After(m) \cup {p})
    BY <1>4
  <1>10. IsFiniteSet(Before(m)) /\ IsFiniteSet(After(m))
    BY ProdConsTypes
  <1> QED BY <1>5, <1>7, <1>8, <1>9, <1>10, OneLess, OneMore

\* The numbers in TokensBounded are natural numbers.
LEMMA Bounds ==
    ASSUME ProdConsInv
    PROVE  /\ Cardinality(Before("producer")) \in Nat /\ Cardinality(After("producer")) \in Nat
           /\ Cardinality(Before("consumer")) \in Nat /\ Cardinality(After("consumer")) \in Nat
           /\ value[emptyCount] \in Nat /\ value[fullCount] \in Nat
           /\ Len(content) \in Nat /\ bufferSize \in Nat
           /\ value[emptyCount] + Cardinality(Before("producer")) + Cardinality(After("consumer"))
                + Len(content) =< bufferSize
           /\ value[fullCount] + Cardinality(Before("consumer")) + Cardinality(After("producer"))
                =< Len(content)
  <1>1. "producer" \in Kinds /\ "consumer" \in Kinds
    BY DEF Kinds
  <1>2. /\ Cardinality(Before("producer")) \in Nat /\ Cardinality(After("producer")) \in Nat
        /\ Cardinality(Before("consumer")) \in Nat /\ Cardinality(After("consumer")) \in Nat
    BY <1>1, ProdConsTypes
  <1>3. /\ value[emptyCount] \in Nat /\ value[fullCount] \in Nat
        /\ Len(content) \in Nat /\ bufferSize \in Nat
    BY ProdConsTypes
  <1> QED BY <1>2, <1>3 DEF ProdConsInv, TokensBounded

\* Cardinalities as numbers, for the arithmetic of TokensBounded: with an insertion there
\* is a slot less and an item more, with a removal the other way round.
LEMMA OneInserted ==
    ASSUME NEW e \in Nat, NEW f \in Nat, NEW n \in Nat, NEW N \in Nat,
           NEW bp \in Nat, NEW ap \in Nat, NEW bc \in Nat, NEW ac \in Nat,
           e + bp + ac + n =< N, f + bc + ap =< n
    PROVE  \A b, a \in Nat : b + 1 =< bp /\ a =< ap + 1 =>
              n < N /\ e + b + ac + (n + 1) =< N /\ f + bc + a =< n + 1
  OBVIOUS

\* When removeItem takes an item: an item and a promise less, a slot more.
LEMMA OneRemoved ==
    ASSUME NEW e \in Nat, NEW f \in Nat, NEW n \in Nat, NEW N \in Nat,
           NEW bp \in Nat, NEW ap \in Nat, NEW bc \in Nat, NEW ac \in Nat,
           e + bp + ac + n =< N, f + bc + ap =< n
    PROVE  \A b, a \in Nat : b + 1 =< bc /\ a =< ac + 1 =>
              n > 0 /\ n =< N /\ e + bp + a + (n - 1) =< N /\ f + b + ap =< n - 1
  OBVIOUS

\* And for a signal: a token or a promise more, and a worker less that owes one.
LEMMA OneSignalled ==
    ASSUME NEW v \in Nat, NEW b \in Nat, NEW a \in Nat, NEW n \in Nat, NEW N \in Nat,
           v + b + a + n =< N
    PROVE  \A v1, b1, a1 \in Nat : v1 + b1 =< v + b + 1 /\ a1 + 1 =< a => v1 + b1 + a1 + n =< N
  OBVIOUS

\* The same of the counts themselves, whatever they are in the next state.
LEMMA BoundsMove ==
    ASSUME ProdConsInv
    PROVE  /\ \A b, a \in Nat :
                 b + 1 =< Cardinality(Before("producer")) /\ a =< Cardinality(After("producer")) + 1 =>
                 /\ Len(content) < bufferSize
                 /\ value[emptyCount] + b + Cardinality(After("consumer")) + (Len(content) + 1)
                      =< bufferSize
                 /\ value[fullCount] + Cardinality(Before("consumer")) + a =< Len(content) + 1
           /\ \A b, a \in Nat :
                 b + 1 =< Cardinality(Before("consumer")) /\ a =< Cardinality(After("consumer")) + 1 =>
                 /\ Len(content) > 0 /\ Len(content) =< bufferSize
                 /\ value[emptyCount] + Cardinality(Before("producer")) + a + (Len(content) - 1)
                      =< bufferSize
                 /\ value[fullCount] + b + Cardinality(After("producer")) =< Len(content) - 1
           /\ \A v, b, a \in Nat :
                 /\ v + b =< value[fullCount] + Cardinality(Before("consumer")) + 1
                 /\ a + 1 =< Cardinality(After("producer"))
                 => v + b + a =< Len(content)
           /\ \A v, b, a \in Nat :
                 /\ v + b =< value[emptyCount] + Cardinality(Before("producer")) + 1
                 /\ a + 1 =< Cardinality(After("consumer"))
                 => v + b + a + Len(content) =< bufferSize
           /\ \A b, a \in Nat :
                 b =< Cardinality(Before("producer")) /\ a =< Cardinality(After("consumer")) =>
                    value[emptyCount] + b + a + Len(content) =< bufferSize
           /\ \A b, a \in Nat :
                 b =< Cardinality(Before("consumer")) /\ a =< Cardinality(After("producer")) =>
                    value[fullCount] + b + a =< Len(content)
  <1> DEFINE e == value[emptyCount]
             f == value[fullCount]
             n == Len(content)
             bp == Cardinality(Before("producer"))
             ap == Cardinality(After("producer"))
             bc == Cardinality(Before("consumer"))
             ac == Cardinality(After("consumer"))
  <1>1. /\ e \in Nat /\ f \in Nat /\ n \in Nat /\ bufferSize \in Nat
        /\ bp \in Nat /\ ap \in Nat /\ bc \in Nat /\ ac \in Nat
        /\ e + bp + ac + n =< bufferSize /\ f + bc + ap =< n
    BY Bounds
  <1> HIDE DEF e, f, n, bp, ap, bc, ac
  <1>2. \A b, a \in Nat : b + 1 =< bp /\ a =< ap + 1 =>
           n < bufferSize /\ e + b + ac + (n + 1) =< bufferSize /\ f + bc + a =< n + 1
    BY <1>1, OneInserted
  <1>3. \A b, a \in Nat : b + 1 =< bc /\ a =< ac + 1 =>
           n > 0 /\ n =< bufferSize /\ e + bp + a + (n - 1) =< bufferSize /\ f + b + ap =< n - 1
    BY <1>1, OneRemoved
  <1>4. \A v, b, a \in Nat : v + b =< f + bc + 1 /\ a + 1 =< ap => v + b + a =< n
    BY <1>1
  <1>5. \A v, b, a \in Nat : v + b =< e + bp + 1 /\ a + 1 =< ac => v + b + a + n =< bufferSize
    BY <1>1, OneSignalled
  <1>6. \A b, a \in Nat : b =< bp /\ a =< ac => e + b + a + n =< bufferSize
    BY <1>1
  <1>7. \A b, a \in Nat : b =< bc /\ a =< ap => f + b + a =< n
    BY <1>1
  <1> QED BY <1>2, <1>3, <1>4, <1>5, <1>6, <1>7 DEF e, f, n, bp, ap, bc, ac

\* Sets that agree on one member and on all others are equal.
LEMMA SameSets ==
    ASSUME NEW A, NEW B, NEW x, A \ {x} = B \ {x}, x \in A <=> x \in B
    PROVE  A = B
  OBVIOUS

\* At its access and behind its index the worker inside sees the ring as it is.
LEMMA HolderRing ==
    ASSUME ProdConsInv, NEW p \in Workers, NEW from \in {"access", "signalItem"},
           NEW to \in Steps, Goes(p, from, to)
    PROVE  RingAt(r, w, buffer, content)
  <1>1. RingAt(IF kind[p] = "consumer" /\ from = "advance" THEN (r + 1) % bufferSize ELSE r,
               IF kind[p] = "producer" /\ from = "advance" THEN (w + 1) % bufferSize ELSE w,
               buffer, content)
    BY HolderFacts
  <1>2. from # "advance"
    OBVIOUS
  <1> QED BY <1>1, <1>2

\* insertItem, the access: there is room, and the item becomes the newest.
LEMMA InsertsInv ==
    ASSUME ProdConsInv, NEW p \in Workers, kind[p] = "producer", Goes(p, "access", "advance"),
           buffer' = [buffer EXCEPT ![w] = item[p]], content' = Append(content, item[p]),
           UNCHANGED <<csVars, item, i, r, w>>
    PROVE  ProdConsInv'
  <1>1. "advance" \in Steps /\ "producer" \in Kinds /\ "consumer" \in Kinds
    BY DEF Steps, Kinds
  <1>2. /\ item[p] \in Chars /\ r \in Ring /\ w \in Ring /\ buffer \in [Ring -> Chars]
        /\ content \in Seq(Chars) /\ Len(content) \in Nat /\ bufferSize \in Nat
        /\ value[emptyCount] \in Nat /\ value[fullCount] \in Nat
    BY ProdConsTypes
  <1>3. open' = open /\ value' = value /\ waiting' = waiting /\ r' = r /\ w' = w
        /\ item' = item /\ i' = i
    BY DEF csVars
  <1>4. /\ Cardinality(Before("producer")') \in Nat
        /\ Cardinality(Before("producer")') + 1 =< Cardinality(Before("producer"))
        /\ Cardinality(After("producer")') \in Nat
        /\ Cardinality(After("producer")') =< Cardinality(After("producer")) + 1
        /\ Before("consumer")' = Before("consumer") /\ After("consumer")' = After("consumer")
    BY <1>1, AccessMoves
  <1>5. /\ Cardinality(Before("producer")) \in Nat /\ Cardinality(After("producer")) \in Nat
        /\ Cardinality(Before("consumer")) \in Nat /\ Cardinality(After("consumer")) \in Nat
        /\ value[emptyCount] + Cardinality(Before("producer")) + Cardinality(After("consumer"))
             + Len(content) =< bufferSize
        /\ value[fullCount] + Cardinality(Before("consumer")) + Cardinality(After("producer"))
             =< Len(content)
    BY Bounds
  <1>6. /\ Len(content) < bufferSize /\ Len(content') = Len(content) + 1
        /\ content' \in Seq(Chars)
    <2>1. Len(content) < bufferSize
      BY <1>4, BoundsMove
    <2>2. content' = Append(content, item[p])
      OBVIOUS
    <2> QED BY <1>2, <2>1, <2>2
  <1>7. TokensBounded'
    <2>1. /\ value[emptyCount] + Cardinality(Before("producer")') + Cardinality(After("consumer"))
               + Len(content') =< bufferSize
          /\ value[fullCount] + Cardinality(Before("consumer")) + Cardinality(After("producer")')
               =< Len(content')
      <3>1. Len(content') = Len(content) + 1
        BY <1>6
      <3>2. /\ value[emptyCount] + Cardinality(Before("producer")') + Cardinality(After("consumer"))
                 + (Len(content) + 1) =< bufferSize
            /\ value[fullCount] + Cardinality(Before("consumer")) + Cardinality(After("producer")')
                 =< Len(content) + 1
        BY <1>4, BoundsMove
      <3> QED BY <3>1, <3>2
    <2> QED BY <1>3, <1>4, <2>1 DEF TokensBounded
  <1>8. RingAt(r, w, buffer, content)
    BY <1>1, HolderRing
  <1>9. RingAt(r, (w + 1) % bufferSize, buffer', content')
    BY <1>2, <1>6, <1>8, RingInserts DEF Turn
  <1>10. OneInside' /\ RingOrdered' /\ QueuedByStep' /\ WorkersTracked'
    BY <1>3, <1>9, StaysInside
  <1>11. buffer' \in [Ring -> Chars]
    BY <1>2
  <1>12. ProdConsTypeOK' /\ CSTypeOK' /\ \A x \in Semaphores : open'[x]
    BY <1>1, <1>3, <1>6, <1>11, ProdConsTypes, TypesKept DEF ProdConsInv, CSTypeOK
  <1> QED BY <1>7, <1>10, <1>12 DEF ProdConsInv

\* removeItem, the access: there is an item, and the consumer gets the oldest.
LEMMA RemovesFacts ==
    ASSUME ProdConsInv, NEW p \in Workers, kind[p] = "consumer", Goes(p, "access", "advance")
    PROVE  /\ content # <<>> /\ buffer[r] = Head(content) /\ Len(content) > 0
           /\ Len(content) =< bufferSize
           /\ Tail(content) \in Seq(Chars) /\ Len(Tail(content)) = Len(content) - 1
           /\ RingAt((r + 1) % bufferSize, w, buffer, Tail(content))
  <1>1. "advance" \in Steps /\ "producer" \in Kinds /\ "consumer" \in Kinds
    BY DEF Steps, Kinds
  <1>2. /\ r \in Ring /\ w \in Ring /\ buffer \in [Ring -> Chars]
        /\ content \in Seq(Chars) /\ Len(content) \in Nat /\ bufferSize \in Nat
        /\ value[emptyCount] \in Nat /\ value[fullCount] \in Nat
        /\ \A k \in Kinds : IsFiniteSet(Before(k))
    BY ProdConsTypes
  <1>3. /\ Cardinality(Before("producer")) \in Nat /\ Cardinality(After("producer")) \in Nat
        /\ Cardinality(Before("consumer")) \in Nat /\ Cardinality(After("consumer")) \in Nat
        /\ value[emptyCount] + Cardinality(Before("producer")) + Cardinality(After("consumer"))
             + Len(content) =< bufferSize
        /\ value[fullCount] + Cardinality(Before("consumer")) + Cardinality(After("producer"))
             =< Len(content)
    BY Bounds
  <1>4. p \in Before("consumer")
    BY <1>1, GoesFacts DEF Before
  <1>5. {} \in SUBSET (Before("consumer") \ {p})
    OBVIOUS
  <1>6. Cardinality({}) \in Nat /\ Cardinality({}) + 1 =< Cardinality(Before("consumer"))
    <2>1. IsFiniteSet(Before("consumer"))
      BY <1>1, <1>2
    <2> QED BY <1>4, <1>5, <2>1, OneLess
  <1>7. Len(content) > 0 /\ Len(content) =< bufferSize
    <2>1. 0 \in Nat /\ 0 =< Cardinality(After("consumer")) + 1
      BY <1>3
    <2> QED BY <1>6, <2>1, BoundsMove
  <1>8. content # <<>>
    BY <1>2, <1>7
  <1>9. RingAt(r, w, buffer, content)
    BY <1>1, HolderRing
  <1> QED BY <1>2, <1>7, <1>8, <1>9, RingRemoves DEF Turn

\* removeItem, the access: the oldest item leaves the queue.
LEMMA RemovesInv ==
    ASSUME ProdConsInv, NEW p \in Workers, kind[p] = "consumer", Goes(p, "access", "advance"),
           item' = [item EXCEPT ![p] = buffer[r]],
           content' = IF content = <<>> THEN <<>> ELSE Tail(content),
           UNCHANGED <<csVars, i, r, w, buffer>>
    PROVE  ProdConsInv'
  <1>1. "advance" \in Steps /\ "producer" \in Kinds /\ "consumer" \in Kinds
    BY DEF Steps, Kinds
  <1>2. /\ item \in [Workers -> Chars] /\ r \in Ring /\ w \in Ring /\ buffer \in [Ring -> Chars]
        /\ Len(content) \in Nat /\ bufferSize \in Nat
        /\ value[emptyCount] \in Nat /\ value[fullCount] \in Nat
    BY ProdConsTypes
  <1>3. open' = open /\ value' = value /\ waiting' = waiting /\ r' = r /\ w' = w
        /\ buffer' = buffer /\ i' = i
    BY DEF csVars
  <1>4. /\ Cardinality(Before("consumer")') \in Nat
        /\ Cardinality(Before("consumer")') + 1 =< Cardinality(Before("consumer"))
        /\ Cardinality(After("consumer")') \in Nat
        /\ Cardinality(After("consumer")') =< Cardinality(After("consumer")) + 1
        /\ Before("producer")' = Before("producer") /\ After("producer")' = After("producer")
    BY <1>1, AccessMoves
  <1>5. /\ Cardinality(Before("producer")) \in Nat /\ Cardinality(After("producer")) \in Nat
        /\ Cardinality(Before("consumer")) \in Nat /\ Cardinality(After("consumer")) \in Nat
        /\ value[emptyCount] + Cardinality(Before("producer")) + Cardinality(After("consumer"))
             + Len(content) =< bufferSize
        /\ value[fullCount] + Cardinality(Before("consumer")) + Cardinality(After("producer"))
             =< Len(content)
    BY Bounds
  <1>6. /\ content' = Tail(content) /\ content' \in Seq(Chars)
        /\ Len(content') = Len(content) - 1 /\ Len(content) > 0
        /\ RingAt((r + 1) % bufferSize, w, buffer, content')
    BY RemovesFacts
  <1>7. TokensBounded'
    <2>1. /\ value[emptyCount] + Cardinality(Before("producer")) + Cardinality(After("consumer")')
               + Len(content') =< bufferSize
          /\ value[fullCount] + Cardinality(Before("consumer")') + Cardinality(After("producer"))
               =< Len(content')
      <3>1. Len(content') = Len(content) - 1
        BY <1>6
      <3>2. /\ value[emptyCount] + Cardinality(Before("producer")) + Cardinality(After("consumer")')
                 + (Len(content) - 1) =< bufferSize
            /\ value[fullCount] + Cardinality(Before("consumer")') + Cardinality(After("producer"))
                 =< Len(content) - 1
        BY <1>4, BoundsMove
      <3> QED BY <3>1, <3>2
    <2> QED BY <1>3, <1>4, <2>1 DEF TokensBounded
  <1>8. OneInside' /\ RingOrdered' /\ QueuedByStep' /\ WorkersTracked'
    BY <1>3, <1>6, StaysInside
  <1>9. item' \in [Workers -> Chars]
    BY <1>2
  <1>10. ProdConsTypeOK' /\ CSTypeOK' /\ \A x \in Semaphores : open'[x]
    BY <1>1, <1>3, <1>6, <1>9, ProdConsTypes, TypesKept DEF ProdConsInv, CSTypeOK
  <1> QED BY <1>7, <1>8, <1>10 DEF ProdConsInv

\* The index of the ring moves behind the access.
LEMMA AdvancesInv ==
    ASSUME ProdConsInv, NEW p \in Workers, Goes(p, "advance", "signalItem"),
           \/ kind[p] = "producer" /\ w' = (w + 1) % bufferSize /\ r' = r
           \/ kind[p] = "consumer" /\ r' = (r + 1) % bufferSize /\ w' = w,
           UNCHANGED <<csVars, item, i, buffer, content>>
    PROVE  ProdConsInv'
  <1>1. "signalItem" \in Steps /\ "producer" \in Kinds /\ "consumer" \in Kinds
    BY DEF Steps, Kinds
  <1>2. /\ open' = open /\ value' = value /\ waiting' = waiting
        /\ item' = item /\ i' = i /\ buffer' = buffer /\ content' = content
    BY DEF csVars
  <1>3. r' \in Ring /\ w' \in Ring
    <2>1. ASSUME NEW x \in Ring PROVE (x + 1) % bufferSize \in Ring
      <3>1. bufferSize \in Nat \ {0} /\ x + 1 \in Nat /\ x + 1 < 2 * bufferSize
        BY ProdConsAssumption DEF Ring
      <3>2. Turn(x + 1) \in Ring
        BY <3>1, Wrap
      <3> QED BY <3>2 DEF Turn
    <2> QED BY <2>1, ProdConsTypes
  <1>4. RingAt(r', w', buffer', content')
    <2>1. RingAt(IF kind[p] = "consumer" THEN (r + 1) % bufferSize ELSE r,
                 IF kind[p] = "producer" THEN (w + 1) % bufferSize ELSE w, buffer, content)
      BY <1>1, HolderFacts
    <2>2. CASE kind[p] = "producer"
      BY <1>2, <2>1, <2>2
    <2>3. CASE kind[p] = "consumer"
      BY <1>2, <2>1, <2>3
    <2> QED BY <2>2, <2>3
  <1>5. OneInside' /\ RingOrdered' /\ QueuedByStep' /\ WorkersTracked'
    BY <1>2, <1>4, StaysInside
  <1>6. ProdConsTypeOK' /\ CSTypeOK' /\ \A x \in Semaphores : open'[x]
    BY <1>1, <1>2, <1>3, ProdConsTypes, TypesKept DEF ProdConsInv, CSTypeOK
  <1>7. \A k \in Kinds : Before(k)' \ {p} = Before(k) \ {p} /\ After(k)' \ {p} = After(k) \ {p}
    BY <1>1, <1>2, SetsStay
  <1>8. step[p] = "advance" /\ step'[p] = "signalItem" /\ kind' = kind
    BY <1>1, GoesFacts
  <1>9. ASSUME NEW k \in Kinds
        PROVE  /\ p \notin Before(k) /\ p \notin Before(k)'
               /\ (p \in After(k)' <=> p \in After(k))
    <2>1. p \notin Before(k) /\ p \notin Before(k)'
      BY <1>8 DEF Before
    <2>2. (p \in After(k) <=> kind[p] = k) /\ (p \in After(k)' <=> kind[p] = k)
      BY <1>8 DEF After
    <2> QED BY <2>1, <2>2
  <1>10. ASSUME NEW k \in Kinds PROVE Before(k)' = Before(k) /\ After(k)' = After(k)
    <2>1. Before(k)' \ {p} = Before(k) \ {p} /\ After(k)' \ {p} = After(k) \ {p}
      BY <1>7
    <2>2. p \notin Before(k) /\ p \notin Before(k)' /\ (p \in After(k)' <=> p \in After(k))
      BY <1>9
    <2>3. Before(k)' = Before(k)
      BY <2>1, <2>2, SameSets
    <2>4. After(k)' = After(k)
      BY <2>1, <2>2, SameSets
    <2> QED BY <2>3, <2>4
  <1>11. TokensBounded'
    BY <1>1, <1>2, <1>10 DEF ProdConsInv, TokensBounded
  <1> QED BY <1>5, <1>6, <1>11 DEF ProdConsInv

\* signal(itemMutex): the ring is as its indexes say, and itemMutex is free or belongs to
\* the one woken, if that is not dead.
LEMMA LeavesInv ==
    ASSUME ProdConsInv, NEW p \in Workers, Goes(p, "signalItem", "signalSlot"),
           Signal(itemMutex), UNCHANGED <<item, i, r, w, buffer, content>>
    PROVE  ProdConsInv'
  <1>1. "signalSlot" \in Steps /\ "producer" \in Kinds /\ "consumer" \in Kinds
    BY DEF Steps, Kinds
  <1>2. /\ itemMutex \in Semaphores /\ itemMutex # fullCount /\ itemMutex # emptyCount
        /\ fullCount \in Semaphores /\ emptyCount \in Semaphores
        /\ value \in [Semaphores -> Nat] /\ waiting \in [Semaphores -> SUBSET Processes]
        /\ \A x \in Workers : Takes(x) \in Semaphores \ {itemMutex}
    BY ProdConsTypes
  <1>3. /\ p \in alive /\ step[p] = "signalItem" /\ step'[p] = "signalSlot"
        /\ \A x \in Workers : x # p => step'[x] = step[x]
        /\ kind' = kind /\ alive' = alive /\ WorkersTracked'
        /\ \A x \in Workers : Takes(x)' = Takes(x)
        /\ \A x \in Semaphores : p \notin waiting[x]
    BY <1>1, GoesFacts
  <1>4. /\ open' = open
        /\ value' \in [Semaphores -> Nat] /\ waiting' \in [Semaphores -> SUBSET Processes]
        /\ \A x \in Semaphores : waiting'[x] \subseteq waiting[x]
        /\ \A x \in Semaphores \ {itemMutex} : waiting'[x] = waiting[x] /\ value'[x] = value[x]
        /\ \/ /\ waiting[itemMutex] = {} /\ waiting'[itemMutex] = {}
              /\ value'[itemMutex] = value[itemMutex] + 1
           \/ /\ \E q \in waiting[itemMutex] : waiting'[itemMutex] = waiting[itemMutex] \ {q}
              /\ value'[itemMutex] = value[itemMutex]
    BY <1>2, SignalFacts
  <1>5. Inside = {p} /\ value[itemMutex] = 0 /\ RingAt(r, w, buffer, content)
    BY <1>1, HolderFacts, HolderRing
  <1>6. ProdConsTypeOK' /\ CSTypeOK' /\ \A x \in Semaphores : open'[x]
    BY <1>1, <1>4, ProdConsTypes, TypesKept DEF ProdConsInv, CSTypeOK
  <1>7. QueuedByStep'
    BY <1>1, <1>4, QueuesKept
  <1>8. ASSUME NEW k \in Kinds PROVE Before(k)' = Before(k) /\ After(k)' = After(k)
    <2>1. ASSUME NEW x \in Workers
          PROVE  (x \in Before(k)' <=> x \in Before(k)) /\ (x \in After(k)' <=> x \in After(k))
      <3>1. waiting'[Takes(x)'] = waiting[Takes(x)]
        BY <1>2, <1>3, <1>4
      <3>2. CASE x # p
        BY <1>3, <3>1, <3>2 DEF Before, After
      <3>3. CASE x = p
        BY <1>3, <3>3 DEF Before, After
      <3> QED BY <3>2, <3>3
    <2>2. Before(k) \subseteq Workers /\ Before(k)' \subseteq Workers
      BY DEF Before
    <2>3. After(k) \subseteq Workers /\ After(k)' \subseteq Workers
      BY DEF After
    <2>4. Before(k)' = Before(k)
      BY <2>1, <2>2
    <2>5. After(k)' = After(k)
      BY <2>1, <2>3
    <2> QED BY <2>4, <2>5
  <1>9. TokensBounded'
    <2>1. value'[emptyCount] = value[emptyCount] /\ value'[fullCount] = value[fullCount]
      BY <1>2, <1>4
    <2> QED BY <1>1, <1>8, <2>1 DEF ProdConsInv, TokensBounded
  <1>10. ASSUME NEW x \in Inside'
         PROVE  /\ x \in waiting[itemMutex] /\ x \notin waiting'[itemMutex]
                /\ step'[x] = "access"
    <2>1. /\ x \in Workers /\ x # p /\ x \in alive
          /\ step'[x] \in {"access", "advance", "signalItem"}
          /\ \A y \in Semaphores : x \notin waiting'[y]
      BY <1>3 DEF Inside, Runs
    <2>2. step[x] \in {"access", "advance", "signalItem"} /\ step'[x] = step[x]
      BY <1>3, <2>1
    <2>3. x \notin Inside
      BY <1>5, <2>1
    <2>4. \E y \in Semaphores : x \in waiting[y]
      BY <2>1, <2>2, <2>3 DEF Inside, Runs
    <2>5. x \in waiting[itemMutex]
      BY <1>4, <2>1, <2>4
    <2>6. step[x] = "access"
      BY <1>2, <2>1, <2>5 DEF ProdConsInv, QueuedByStep
    <2> QED BY <1>2, <2>1, <2>2, <2>5, <2>6
  <1>11. OneInside'
    <2>1. CASE waiting[itemMutex] = {}
      <3>1. Inside' = {}
        BY <1>10, <2>1
      <3>2. value'[itemMutex] = 1 /\ waiting'[itemMutex] = {}
        BY <1>4, <1>5, <2>1
      <3> QED BY <3>1, <3>2 DEF OneInside
    <2>2. CASE waiting[itemMutex] # {}
      <3>1. /\ value'[itemMutex] = 0
            /\ \E q \in waiting[itemMutex] : waiting'[itemMutex] = waiting[itemMutex] \ {q}
        BY <1>4, <1>5, <2>2
      <3>2. PICK q : waiting'[itemMutex] = waiting[itemMutex] \ {q}
        BY <3>1
      <3>3. \A x \in Inside' : x = q
        BY <1>10, <3>2
      <3> QED BY <3>1, <3>3 DEF OneInside
    <2> QED BY <2>1, <2>2
  <1>12. RingOrdered'
    <2>1. ~Advancing("producer")' /\ ~Advancing("consumer")'
      BY <1>10 DEF Advancing
    <2>2. RingAt(r', w', buffer', content')
      BY <1>5
    <2> QED BY <2>1, <2>2 DEF RingOrdered, RingAt
  <1> QED BY <1>3, <1>6, <1>7, <1>9, <1>11, <1>12 DEF ProdConsInv

\* signal(fullCount) of a producer and signal(emptyCount) of a consumer: what the worker
\* owed becomes a token, or the promise of the one woken.
LEMMA GivesInv ==
    ASSUME ProdConsInv, NEW p \in Workers, Goes(p, "signalSlot", First(kind[p])),
           Signal(Gives(p)), UNCHANGED <<item, i, r, w, buffer, content>>
    PROVE  ProdConsInv'
  <1> DEFINE s == Gives(p)
             to == First(kind[p])
  <1>1. /\ to \in Steps /\ to \in {"produce", "waitSlot"}
        /\ "producer" \in Kinds /\ "consumer" \in Kinds
    BY DEF Steps, Kinds, First
  <1>2. /\ s \in Semaphores /\ s # itemMutex /\ itemMutex \in Semaphores
        /\ fullCount \in Semaphores /\ emptyCount \in Semaphores /\ fullCount # emptyCount
        /\ value \in [Semaphores -> Nat] /\ waiting \in [Semaphores -> SUBSET Processes]
        /\ \A x \in Workers : Takes(x) \in Semaphores \ {itemMutex}
    BY ProdConsTypes
  <1> HIDE DEF s, to
  <1>3. Goes(p, "signalSlot", to)
    BY DEF to
  <1>4. /\ p \in alive /\ kind[p] \in Kinds /\ step[p] = "signalSlot" /\ step'[p] = to
        /\ \A x \in Workers : x # p => step'[x] = step[x]
        /\ kind' = kind /\ alive' = alive /\ WorkersTracked'
        /\ \A x \in Workers : Takes(x)' = Takes(x)
        /\ \A x \in Semaphores : p \notin waiting[x]
    BY <1>1, <1>3, GoesFacts
  <1>5. /\ open' = open
        /\ value' \in [Semaphores -> Nat] /\ waiting' \in [Semaphores -> SUBSET Processes]
        /\ \A x \in Semaphores : waiting'[x] \subseteq waiting[x]
        /\ \A x \in Semaphores \ {s} : waiting'[x] = waiting[x] /\ value'[x] = value[x]
        /\ \/ waiting[s] = {} /\ waiting'[s] = {} /\ value'[s] = value[s] + 1
           \/ (\E q \in waiting[s] : waiting'[s] = waiting[s] \ {q}) /\ value'[s] = value[s]
    <2>1. Signal(s)
      BY DEF s
    <2> QED BY <1>2, <2>1, SignalFacts
  <1>6. ProdConsTypeOK' /\ CSTypeOK' /\ \A x \in Semaphores : open'[x]
    BY <1>1, <1>3, <1>5, ProdConsTypes, TypesKept DEF ProdConsInv, CSTypeOK
  <1>7. QueuedByStep'
    BY <1>1, <1>3, <1>5, QueuesKept
  <1>8. p \notin Inside /\ p \notin Inside'
    BY <1>1, <1>4 DEF Inside
  <1>9. Inside' = Inside
    <2>1. ASSUME NEW x \in Workers PROVE x \in Inside' <=> x \in Inside
      <3>1. CASE x = p
        BY <1>8, <3>1
      <3>2. CASE x # p /\ x \in waiting[s]
        <4>1. x \in alive => step[x] = "waitItem"
          BY <1>2, <3>2 DEF ProdConsInv, QueuedByStep
        <4> QED BY <1>4, <3>2, <4>1 DEF Inside, Runs
      <3>3. CASE x # p /\ x \notin waiting[s]
        <4>1. \A y \in Semaphores : x \in waiting'[y] <=> x \in waiting[y]
          BY <1>5, <3>3
        <4> QED BY <1>4, <3>3, <4>1 DEF Inside, Runs
      <3> QED BY <3>1, <3>2, <3>3
    <2>2. Inside \subseteq Workers /\ Inside' \subseteq Workers
      BY DEF Inside
    <2> QED BY <2>1, <2>2
  <1>10. OneInside' /\ RingOrdered'
    BY <1>1, <1>2, <1>3, <1>5, <1>8, <1>9, SameInside
  <1>11. PICK m \in Kinds : m = kind[p]
    BY <1>4
  <1>12. ASSUME NEW k \in Kinds
         PROVE  /\ p \notin Before(k) /\ p \notin Before(k)' /\ p \notin After(k)'
                /\ p \in After(k) <=> k = m
    <2>1. p \notin Before(k) /\ p \notin Before(k)'
      BY <1>1, <1>4 DEF Before
    <2>2. p \notin After(k)'
      BY <1>1, <1>4 DEF After
    <2>3. p \in After(k) <=> k = m
      BY <1>4, <1>11 DEF After
    <2> QED BY <2>1, <2>2, <2>3
  <1>13. ASSUME NEW k \in Kinds, NEW x \in Workers, x # p
         PROVE  /\ x \in After(k)' <=> x \in After(k)
                /\ waiting'[Takes(x)] = waiting[Takes(x)] =>
                      (x \in Before(k)' <=> x \in Before(k))
                /\ x \in Before(k)' =>
                      x \in Before(k) \/ (x \in waiting[Takes(x)] /\ x \notin waiting'[Takes(x)])
    <2>1. /\ step'[x] = step[x] /\ kind'[x] = kind[x] /\ Takes(x)' = Takes(x)
      BY <1>4, <1>13
    <2>2. x \in After(k)' <=> x \in After(k)
      BY <2>1 DEF After
    <2>3. waiting'[Takes(x)] = waiting[Takes(x)] => (x \in Before(k)' <=> x \in Before(k))
      BY <2>1 DEF Before
    <2>4. x \in Before(k)' =>
             x \in Before(k) \/ (x \in waiting[Takes(x)] /\ x \notin waiting'[Takes(x)])
      BY <2>1 DEF Before
    <2> QED BY <2>2, <2>3, <2>4
  <1>14. \A k \in Kinds : /\ Before(k) \subseteq Workers /\ Before(k)' \subseteq Workers
                          /\ After(k) \subseteq Workers /\ After(k)' \subseteq Workers
    BY DEF Before, After
  <1>15. /\ \A k \in Kinds : k # m => After(k)' = After(k)
         /\ After(m)' \in SUBSET (After(m) \ {p}) /\ p \in After(m)
    BY <1>12, <1>13, <1>14
  <1>16. Before(m)' = Before(m)
    <2>1. ASSUME NEW x \in Workers, kind[x] = m PROVE Takes(x) # s
      BY <1>2, <1>11, <2>1 DEF Takes, Gives, s, Kinds
    <2>2. ASSUME NEW x \in Workers PROVE x \in Before(m)' <=> x \in Before(m)
      <3>1. CASE x = p
        BY <1>12, <3>1
      <3>2. CASE x # p /\ kind[x] = m
        BY <1>2, <1>5, <1>13, <2>1, <3>2
      <3>3. CASE x # p /\ kind[x] # m
        BY <1>4, <3>3 DEF Before
      <3> QED BY <3>1, <3>2, <3>3
    <2> QED BY <1>14, <2>2
  <1>17. ASSUME NEW o \in Kinds, o # m
         PROVE  \/ value'[s] = value[s] + 1 /\ Before(o)' = Before(o)
                \/ value'[s] = value[s] /\ \E q : Before(o)' \in SUBSET (Before(o) \cup {q})
    <2>1. CASE waiting[s] = {}
      <3>1. waiting' = waiting
        BY <1>2, <1>5, <2>1
      <3>2. Before(o)' = Before(o)
        <4>1. \A x \in Workers : x \in Before(o)' <=> x \in Before(o)
          BY <1>12, <1>13, <3>1
        <4> QED BY <1>14, <4>1
      <3> QED BY <1>5, <2>1, <3>2
    <2>2. CASE waiting[s] # {}
      <3>1. PICK q \in waiting[s] : waiting'[s] = waiting[s] \ {q}
        BY <1>5, <2>2
      <3>2. \A y \in Semaphores : \A x \in waiting[y] : x \in waiting'[y] \/ x = q
        BY <1>5, <3>1
      <3>3. ASSUME NEW x \in Before(o)' PROVE x \in Before(o) \/ x = q
        <4>1. x \in Workers /\ x # p
          BY <1>12, <1>14
        <4> QED BY <1>2, <1>13, <3>2, <4>1
      <3>4. Before(o)' \in SUBSET (Before(o) \cup {q})
        BY <3>3
      <3> QED BY <1>5, <2>2, <3>4
    <2> QED BY <2>1, <2>2
  <1>18. TokensBounded'
    <2>1. /\ \A k \in Kinds : IsFiniteSet(Before(k)) /\ IsFiniteSet(After(k))
          /\ \A k \in Kinds : Cardinality(Before(k)) \in Nat /\ Cardinality(After(k)) \in Nat
      BY ProdConsTypes
    <2>2. /\ Cardinality(After(m)') \in Nat /\ Cardinality(After(m)) \in Nat
          /\ Cardinality(After(m)') + 1 =< Cardinality(After(m))
      BY <1>15, <2>1, OneLess
    <2>3. /\ Cardinality(Before("producer")) \in Nat /\ Cardinality(After("producer")) \in Nat
          /\ Cardinality(Before("consumer")) \in Nat /\ Cardinality(After("consumer")) \in Nat
          /\ value[emptyCount] \in Nat /\ value[fullCount] \in Nat
          /\ Len(content) \in Nat /\ bufferSize \in Nat
          /\ value[emptyCount] + Cardinality(Before("producer")) + Cardinality(After("consumer"))
               + Len(content) =< bufferSize
          /\ value[fullCount] + Cardinality(Before("consumer")) + Cardinality(After("producer"))
               =< Len(content)
      BY Bounds
    <2>4. ASSUME NEW o \in Kinds, o # m
          PROVE  /\ value'[s] \in Nat /\ value[s] \in Nat
                 /\ Cardinality(Before(o)') \in Nat /\ Cardinality(Before(o)) \in Nat
                 /\ value'[s] + Cardinality(Before(o)') =< value[s] + Cardinality(Before(o)) + 1
      <3>1. value'[s] \in Nat /\ value[s] \in Nat /\ Cardinality(Before(o)) \in Nat
        BY <1>2, <1>5, <2>1
      <3>2. CASE value'[s] = value[s] + 1 /\ Before(o)' = Before(o)
        BY <3>1, <3>2
      <3>3. CASE value'[s] = value[s] /\ \E q : Before(o)' \in SUBSET (Before(o) \cup {q})
        <4>1. PICK q : Before(o)' \in SUBSET (Before(o) \cup {q})
          BY <3>3
        <4>2. /\ Cardinality(Before(o)') \in Nat
              /\ Cardinality(Before(o)') =< Cardinality(Before(o)) + 1
          BY <2>1, <4>1, OneMore
        <4> QED BY <3>1, <3>3, <4>2
      <3> QED BY <1>17, <2>4, <3>2, <3>3
    <2>5. CASE m = "producer"
      <3>1. s = fullCount /\ value'[emptyCount] = value[emptyCount]
        BY <1>2, <1>5, <1>11, <2>5 DEF s, Gives
      <3>2. Before("producer")' = Before("producer") /\ After("consumer")' = After("consumer")
        BY <1>1, <1>15, <1>16, <2>5
      <3>3. /\ value'[fullCount] \in Nat /\ Cardinality(Before("consumer")') \in Nat
            /\ value'[fullCount] + Cardinality(Before("consumer")')
                 =< value[fullCount] + Cardinality(Before("consumer")) + 1
        BY <1>1, <2>4, <2>5, <3>1
      <3>4. /\ Cardinality(After("producer")') \in Nat
            /\ Cardinality(After("producer")') + 1 =< Cardinality(After("producer"))
        BY <2>2, <2>5
      <3>5. value'[fullCount] + Cardinality(Before("consumer")') + Cardinality(After("producer")')
              =< Len(content)
        BY <3>3, <3>4, BoundsMove
      <3> QED BY <2>3, <3>1, <3>2, <3>5 DEF TokensBounded
    <2>6. CASE m = "consumer"
      <3>1. s = emptyCount /\ value'[fullCount] = value[fullCount]
        BY <1>2, <1>5, <1>11, <2>6 DEF s, Gives
      <3>2. Before("consumer")' = Before("consumer") /\ After("producer")' = After("producer")
        BY <1>1, <1>15, <1>16, <2>6
      <3>3. /\ value'[emptyCount] \in Nat /\ Cardinality(Before("producer")') \in Nat
            /\ value'[emptyCount] + Cardinality(Before("producer")')
                 =< value[emptyCount] + Cardinality(Before("producer")) + 1
        BY <1>1, <2>4, <2>6, <3>1
      <3>4. /\ Cardinality(After("consumer")') \in Nat
            /\ Cardinality(After("consumer")') + 1 =< Cardinality(After("consumer"))
        BY <2>2, <2>6
      <3>5. value'[emptyCount] + Cardinality(Before("producer")') + Cardinality(After("consumer")')
              + Len(content) =< bufferSize
        BY <3>3, <3>4, BoundsMove
      <3> QED BY <2>3, <3>1, <3>2, <3>5 DEF TokensBounded
    <2> QED BY <2>5, <2>6 DEF Kinds
  <1> QED BY <1>4, <1>6, <1>7, <1>10, <1>18 DEF ProdConsInv

\* A step of a worker, whatever it is at, keeps the invariant.
LEMMA WorkInv ==
    ASSUME ProdConsInv, NEW p \in Workers, Work(p)
    PROVE  ProdConsInv'
  <1>1. /\ item \in [Workers -> Chars] /\ i \in Chars /\ Codes \in Nat \ {0}
    BY ProdConsTypes
  <1>2. CASE produce(p)
    <2>1. item' \in [Workers -> Chars] /\ i' \in Chars
      BY <1>1, <1>2 DEF produce
    <2> QED BY <1>2, <2>1, OutsideInv DEF produce
  <1>3. CASE number(p)
    <2>1. (item[p] + 1) % Codes \in Chars
      BY <1>1 DEF Chars
    <2>2. item' \in [Workers -> Chars] /\ i' \in Chars
      BY <1>1, <1>3, <2>1 DEF number
    <2> QED BY <1>3, <2>2, OutsideInv DEF number
  <1>4. CASE semaphoreStep(p)
    BY <1>4, TakesInv, EntersInv, LeavesInv, GivesInv DEF semaphoreStep
  <1>5. CASE insertItem(p)
    <2>1. CASE kind[p] = "producer" /\ Goes(p, "access", "advance")
               /\ buffer' = [buffer EXCEPT ![w] = item[p]]
               /\ content' = Append(content, item[p])
               /\ UNCHANGED <<csVars, item, i, r, w>>
      BY <2>1, InsertsInv
    <2>2. CASE kind[p] = "producer" /\ Goes(p, "advance", "signalItem")
               /\ w' = (w + 1) % bufferSize
               /\ UNCHANGED <<csVars, item, i, r, buffer, content>>
      BY <2>2, AdvancesInv
    <2> QED BY <1>5, <2>1, <2>2 DEF insertItem
  <1>6. CASE removeItem(p)
    <2>1. CASE kind[p] = "consumer" /\ Goes(p, "access", "advance")
               /\ item' = [item EXCEPT ![p] = buffer[r]]
               /\ content' = (IF content = <<>> THEN <<>> ELSE Tail(content))
               /\ UNCHANGED <<csVars, i, r, w, buffer>>
      BY <2>1, RemovesInv
    <2>2. CASE kind[p] = "consumer" /\ Goes(p, "advance", "signalItem")
               /\ r' = (r + 1) % bufferSize
               /\ UNCHANGED <<csVars, item, i, w, buffer, content>>
      BY <2>2, AdvancesInv
    <2> QED BY <1>6, <2>1, <2>2 DEF removeItem
  <1> QED BY <1>2, <1>3, <1>4, <1>5, <1>6 DEF Work

-----------------------------------------------------------------------------
(* Producers and consumers: control.                                        *)

\* removeProcess wherever the worker is: its promise is lost, none is made, and itemMutex
\* is not given back by the dead.
LEMMA DeadInv ==
    ASSUME ProdConsInv, NEW p, removeProcess(p), UNCHANGED <<csVars, kind, i, r, w, buffer, content>>
    PROVE  /\ step' \in [Workers -> Steps] /\ item' \in [Workers -> Chars]
           /\ alive' \in SUBSET Workers
           /\ QueuedByStep' /\ OneInside' /\ TokensBounded' /\ RingOrdered'
           /\ CSTypeOK' /\ \A s \in Semaphores : open'[s]
  <1>1. /\ step \in [Workers -> Steps] /\ item \in [Workers -> Chars]
        /\ alive \in SUBSET Workers /\ Codes \in Nat \ {0}
        /\ \A x \in Workers : Takes(x) \in Semaphores
        /\ itemMutex \in Semaphores
    BY ProdConsTypes
  <1>2. /\ alive' = alive \ {p}
        /\ step' = [x \in Workers |-> IF x = p THEN "produce" ELSE step[x]]
        /\ item' = [x \in Workers |-> IF x = p THEN 0 ELSE item[x]]
    BY DEF removeProcess
  <1>3. /\ open' = open /\ value' = value /\ waiting' = waiting /\ kind' = kind
        /\ r' = r /\ w' = w /\ buffer' = buffer /\ content' = content
    BY DEF csVars
  <1>4. "produce" \in Steps /\ 0 \in Chars /\ "producer" \in Kinds /\ "consumer" \in Kinds
    BY <1>1 DEF Steps, Chars, Kinds
  <1>5. step' \in [Workers -> Steps] /\ item' \in [Workers -> Chars] /\ alive' \in SUBSET Workers
    BY <1>1, <1>2, <1>4
  <1>6. /\ \A x \in Workers : step'[x] = step[x] \/ (step'[x] = "produce" /\ x \notin alive')
        /\ \A x \in Workers : x \in alive' => step'[x] = step[x] /\ x \in alive
        /\ \A x \in Workers : x \in alive /\ x \notin alive' => step'[x] = "produce"
        /\ \A x \in Workers : Takes(x)' = Takes(x)
    BY <1>1, <1>2, <1>3 DEF Takes
  <1>7. QueuedByStep'
    <2>1. /\ \A x \in Workers : kind[x] = "none" => x \notin alive
          /\ \A x \in Workers : x \notin alive => step[x] = "produce"
          /\ \A s \in Semaphores : \A x \in waiting[s] :
                /\ x \in Workers /\ kind[x] # "none"
                /\ x \in alive => \/ s = itemMutex /\ step[x] = "access"
                                  \/ s = Takes(x) /\ step[x] = "waitItem"
      BY DEF ProdConsInv, QueuedByStep
    <2>2. \A x \in Workers : kind'[x] = "none" => x \notin alive'
      BY <1>3, <1>6, <2>1
    <2>3. \A x \in Workers : x \notin alive' => step'[x] = "produce"
      BY <1>6, <2>1
    <2>4. ASSUME NEW s \in Semaphores, NEW x \in waiting'[s]
          PROVE  /\ x \in Workers /\ kind'[x] # "none"
                 /\ x \in alive' => \/ s = itemMutex /\ step'[x] = "access"
                                    \/ s = Takes(x)' /\ step'[x] = "waitItem"
      BY <1>3, <1>6, <2>1
    <2> QED BY <2>2, <2>3, <2>4 DEF QueuedByStep
  <1>8. \A x \in Inside' : x \in Inside /\ step'[x] = step[x]
    BY <1>3, <1>6 DEF Inside, Runs
  <1>9. OneInside'
    BY <1>3, <1>8 DEF ProdConsInv, OneInside
  <1>10. ASSUME NEW k \in Kinds
         PROVE  /\ Before(k)' \in SUBSET Before(k) /\ After(k)' \in SUBSET After(k)
                /\ Cardinality(Before(k)') \in Nat
                /\ Cardinality(Before(k)') =< Cardinality(Before(k))
                /\ Cardinality(After(k)') \in Nat
                /\ Cardinality(After(k)') =< Cardinality(After(k))
    <2>1. Before(k)' \in SUBSET Before(k)
      BY <1>3, <1>6 DEF Before
    <2>2. After(k)' \in SUBSET After(k)
      BY <1>3, <1>6 DEF After
    <2>3. IsFiniteSet(Before(k)) /\ IsFiniteSet(After(k))
      BY ProdConsTypes
    <2> QED BY <2>1, <2>2, <2>3, NoMore
  <1>11. TokensBounded'
    <2>1. /\ Cardinality(Before("producer")') \in Nat
          /\ Cardinality(Before("producer")') =< Cardinality(Before("producer"))
          /\ Cardinality(After("producer")') \in Nat
          /\ Cardinality(After("producer")') =< Cardinality(After("producer"))
          /\ Cardinality(Before("consumer")') \in Nat
          /\ Cardinality(Before("consumer")') =< Cardinality(Before("consumer"))
          /\ Cardinality(After("consumer")') \in Nat
          /\ Cardinality(After("consumer")') =< Cardinality(After("consumer"))
      BY <1>4, <1>10
    <2>2. /\ value[emptyCount] + Cardinality(Before("producer")') + Cardinality(After("consumer")')
               + Len(content) =< bufferSize
          /\ value[fullCount] + Cardinality(Before("consumer")') + Cardinality(After("producer")')
               =< Len(content)
      BY <2>1, BoundsMove
    <2> QED BY <1>3, <2>2 DEF TokensBounded
  <1>12. RingOrdered'
    <2>1. CASE Inside' = {}
      <3>1. \A k \in Kinds : ~Advancing(k)'
        BY <2>1 DEF Advancing
      <3>2. value[itemMutex] = 1 => RingAt(r, w, buffer, content)
        <4>1. value[itemMutex] = 1 => \A k \in Kinds : ~Advancing(k)
          BY DEF ProdConsInv, OneInside, Advancing
        <4> QED BY <1>4, <4>1 DEF ProdConsInv, RingOrdered
      <3> QED BY <1>3, <1>4, <2>1, <3>1, <3>2 DEF RingOrdered, RingAt
    <2>2. CASE Inside' # {}
      <3>1. Inside' = Inside
        BY <1>8, <2>2 DEF ProdConsInv, OneInside
      <3>2. \A k \in Kinds : Advancing(k)' <=> Advancing(k)
        BY <1>3, <1>8, <3>1 DEF Advancing
      <3> QED BY <1>3, <1>4, <2>2, <3>1, <3>2 DEF ProdConsInv, RingOrdered, RingAt
    <2> QED BY <2>1, <2>2
  <1>13. CSTypeOK' /\ \A s \in Semaphores : open'[s]
    BY <1>3 DEF ProdConsInv, CSTypeOK
  <1> QED BY <1>5, <1>7, <1>9, <1>11, <1>12, <1>13

\* Keys 'z' and 'x': the one killed is the one the counter stops covering.
LEMMA RemoveWorkerInv ==
    ASSUME ProdConsInv, NEW k \in Kinds, removeWorker(k)
    PROVE  ProdConsInv'
  <1>1. /\ ~end /\ workers[k] - 1 >= 0
        /\ removeProcess(pidOf[k][workers[k] - 1])
        /\ workers' = [workers EXCEPT ![k] = @ - 1]
        /\ UNCHANGED <<csVars, kind, i, r, w, buffer, pidOf, end, removed, content>>
    BY DEF removeWorker
  <1>2. /\ step' \in [Workers -> Steps] /\ item' \in [Workers -> Chars]
        /\ alive' \in SUBSET Workers
        /\ QueuedByStep' /\ OneInside' /\ TokensBounded' /\ RingOrdered'
        /\ CSTypeOK' /\ \A s \in Semaphores : open'[s]
    BY <1>1, DeadInv
  <1>3. /\ workers \in [Kinds -> 0 .. MAX_WORKERS] /\ MAX_WORKERS \in Nat
        /\ \A p \in alive : kind[p] \in Kinds
    BY ProdConsAssumption, ProdConsTypes DEF ProdConsInv, ProdConsTypeOK
  <1>4. workers' \in [Kinds -> 0 .. MAX_WORKERS]
    BY <1>1, <1>3
  <1>5. ProdConsTypeOK'
    BY <1>1, <1>2, <1>4 DEF ProdConsInv, ProdConsTypeOK
  <1>6. WorkersTracked'
    <2>1. SUFFICES ASSUME NEW p \in alive'
                   PROVE  \/ p = pidOf[kind[p]][-1]
                          \/ \E x \in 0 .. workers'[kind[p]] - 1 : p = pidOf[kind[p]][x]
      BY <1>1 DEF WorkersTracked, Passed
    <2>2. p \in alive /\ p # pidOf[k][workers[k] - 1]
      BY <1>1 DEF removeProcess
    <2>3. CASE p = pidOf[kind[p]][-1]
      BY <2>3
    <2>4. CASE \E x \in 0 .. workers[kind[p]] - 1 : p = pidOf[kind[p]][x]
      <3>1. PICK x \in 0 .. workers[kind[p]] - 1 : p = pidOf[kind[p]][x]
        BY <2>4
      <3>2. kind[p] = k => x # workers[k] - 1
        BY <2>2, <3>1
      <3>3. x \in 0 .. workers'[kind[p]] - 1
        BY <1>1, <1>3, <2>2, <3>1, <3>2
      <3> QED BY <1>1, <3>1, <3>3
    <2> QED BY <2>2, <2>3, <2>4 DEF ProdConsInv, WorkersTracked
  <1> QED BY <1>2, <1>5, <1>6 DEF ProdConsInv

\* Key 'q': the loops of killAllProcesses have passed nobody yet.
LEMMA QuitInv ==
    ASSUME ProdConsInv, quit
    PROVE  ProdConsInv'
  <1>1. /\ ~end /\ end' = TRUE /\ removed' = 0
        /\ kind' = kind /\ alive' = alive /\ step' = step /\ item' = item /\ i' = i
        /\ r' = r /\ w' = w /\ buffer' = buffer /\ workers' = workers /\ pidOf' = pidOf
        /\ content' = content /\ open' = open /\ value' = value /\ waiting' = waiting
    BY DEF quit, csVars
  <1>2. /\ Inside' = Inside /\ Before("producer")' = Before("producer")
        /\ Before("consumer")' = Before("consumer") /\ After("producer")' = After("producer")
        /\ After("consumer")' = After("consumer")
    BY <1>1 DEF Inside, Runs, Before, After, Takes
  <1>3. CSTypeOK' /\ ProdConsTypeOK' /\ \A s \in Semaphores : open'[s]
    BY <1>1 DEF ProdConsInv, CSTypeOK, ProdConsTypeOK
  <1>4. QueuedByStep'
    BY <1>1 DEF ProdConsInv, QueuedByStep, Takes
  <1>5. OneInside' /\ TokensBounded'
    BY <1>1, <1>2 DEF ProdConsInv, OneInside, TokensBounded
  <1>6. RingOrdered'
    BY <1>1, <1>2 DEF ProdConsInv, RingOrdered, Advancing, RingAt
  <1>7. WorkersTracked'
    <2>1. /\ workers \in [Kinds -> 0 .. MAX_WORKERS] /\ MAX_WORKERS \in Nat
          /\ \A p \in alive : kind[p] \in Kinds
      BY ProdConsAssumption, ProdConsTypes DEF ProdConsInv, ProdConsTypeOK
    <2>2. ASSUME NEW k \in Kinds, NEW x \in 0 .. workers[k] - 1 PROVE ~Passed(k, x)'
      <3>1. workers["producer"] \in Nat /\ x \in Nat
        BY <2>1 DEF Kinds
      <3> QED BY <1>1, <3>1 DEF Passed
    <2>3. SUFFICES ASSUME NEW p \in alive'
                   PROVE  \/ p = pidOf'[kind'[p]][-1]
                          \/ \E x \in 0 .. workers'[kind'[p]] - 1 :
                                p = pidOf'[kind'[p]][x] /\ ~Passed(kind[p], x)'
      BY <1>1 DEF WorkersTracked, Passed
    <2>4. \/ p = pidOf[kind[p]][-1]
          \/ \E x \in 0 .. workers[kind[p]] - 1 : p = pidOf[kind[p]][x]
      BY <1>1, <2>3 DEF ProdConsInv, WorkersTracked
    <2> QED BY <1>1, <2>1, <2>2, <2>3, <2>4
  <1> QED BY <1>3, <1>4, <1>5, <1>6, <1>7 DEF ProdConsInv

\* A step of killAllProcesses kills the worker it passes: whoever lives is still ahead of
\* it, but for one whose pid was put in front of its array.
LEMMA KillAllInv ==
    ASSUME ProdConsInv, killAllProcesses
    PROVE  ProdConsInv'
  <1>1. /\ end /\ removed < workers["producer"] + workers["consumer"]
        /\ removeProcess(NthPid(removed)) /\ removed' = removed + 1
        /\ UNCHANGED <<csVars, kind, i, r, w, buffer, workers, pidOf, end, content>>
    BY DEF killAllProcesses
  <1>2. /\ step' \in [Workers -> Steps] /\ item' \in [Workers -> Chars]
        /\ alive' \in SUBSET Workers
        /\ QueuedByStep' /\ OneInside' /\ TokensBounded' /\ RingOrdered'
        /\ CSTypeOK' /\ \A s \in Semaphores : open'[s]
    BY <1>1, DeadInv
  <1>3. removed \in Nat /\ removed' \in Nat
    BY <1>1 DEF ProdConsInv, ProdConsTypeOK
  <1>4. ProdConsTypeOK'
    BY <1>1, <1>2, <1>3 DEF ProdConsInv, ProdConsTypeOK
  <1>5. WorkersTracked'
    <2>1. SUFFICES ASSUME NEW p \in alive'
                   PROVE  \/ p = pidOf[kind[p]][-1]
                          \/ \E x \in 0 .. workers[kind[p]] - 1 :
                                p = pidOf[kind[p]][x] /\ ~Passed(kind[p], x)'
      BY <1>1 DEF WorkersTracked, Passed
    <2>2. p \in alive /\ p # NthPid(removed)
      BY <1>1 DEF removeProcess
    <2>3. /\ kind[p] = "producer" \/ kind[p] = "consumer"
          /\ workers["producer"] \in Nat /\ workers["consumer"] \in Nat
      BY <2>2, ProdConsTypes, ProdConsAssumption DEF Kinds, ProdConsInv, ProdConsTypeOK
    <2>4. CASE p = pidOf[kind[p]][-1]
      BY <2>4
    <2>5. CASE \E x \in 0 .. workers[kind[p]] - 1 : p = pidOf[kind[p]][x] /\ ~Passed(kind[p], x)
      <3>1. PICK x \in 0 .. workers[kind[p]] - 1 : p = pidOf[kind[p]][x] /\ ~Passed(kind[p], x)
        BY <2>5
      <3>2. CASE kind[p] = "producer"
        <4>1. x >= removed /\ x \in 0 .. workers["producer"] - 1
          BY <1>1, <1>3, <2>3, <3>1, <3>2 DEF Passed
        <4>2. x # removed
          BY <2>2, <2>3, <3>1, <3>2, <4>1 DEF NthPid
        <4>3. kind' = kind
          BY <1>1
        <4>4. ~Passed(kind[p], x)'
          BY <1>1, <1>3, <3>2, <4>1, <4>2, <4>3 DEF Passed
        <4> QED BY <3>1, <4>4
      <3>3. CASE kind[p] = "consumer"
        <4>1. workers["producer"] + x >= removed /\ x \in 0 .. workers["consumer"] - 1
          BY <1>1, <1>3, <2>3, <3>1, <3>3 DEF Passed
        <4>2. workers["producer"] + x # removed
          <5>1. ASSUME workers["producer"] + x = removed PROVE NthPid(removed) = pidOf["consumer"][x]
            <6>1. ~(removed < workers["producer"]) /\ removed - workers["producer"] = x
              BY <1>3, <2>3, <4>1, <5>1
            <6> QED BY <6>1 DEF NthPid
          <5> QED BY <2>2, <3>1, <3>3, <5>1
        <4>3. workers' = workers /\ kind' = kind
          BY <1>1
        <4>4. ~Passed(kind[p], x)'
          BY <1>1, <1>3, <2>3, <3>3, <4>1, <4>2, <4>3 DEF Passed
        <4> QED BY <3>1, <4>4
      <3> QED BY <2>3, <3>2, <3>3
    <2> QED BY <2>2, <2>4, <2>5 DEF ProdConsInv, WorkersTracked
  <1> QED BY <1>2, <1>4, <1>5 DEF ProdConsInv

\* Keys 'p' and 'c': the new worker is the one the counter covers from now on.
LEMMA AddWorkerInv ==
    ASSUME ProdConsInv, NEW k \in Kinds, addWorker(k)
    PROVE  ProdConsInv'
  <1>1. /\ ~end /\ workers[k] + 1 =< MAX_WORKERS
        /\ workers' = [workers EXCEPT ![k] = @ + 1]
        /\ UNCHANGED <<csVars, item, i, r, w, buffer, end, removed, content>>
    BY DEF addWorker
  <1>2. PICK p \in Workers :
          /\ kind[p] = "none"
          /\ kind' = [kind EXCEPT ![p] = k]
          /\ alive' = alive \cup {p}
          /\ step' = [step EXCEPT ![p] = First(k)]
          /\ pidOf' = [pidOf EXCEPT ![k][workers[k]] = p]
    BY DEF addWorker
  <1>3. /\ kind \in [Workers -> Kinds \cup {"none"}] /\ alive \in SUBSET Workers
        /\ step \in [Workers -> Steps]
        /\ workers \in [Kinds -> 0 .. MAX_WORKERS] /\ MAX_WORKERS \in Nat
        /\ pidOf \in [Kinds -> [-1 .. MAX_WORKERS - 1 -> Workers \cup {0}]]
        /\ \A x \in Workers : Takes(x) \in Semaphores
    BY ProdConsAssumption, ProdConsTypes DEF ProdConsInv, ProdConsTypeOK
  <1>4. /\ open' = open /\ value' = value /\ waiting' = waiting
        /\ r' = r /\ w' = w /\ buffer' = buffer /\ content' = content
    BY <1>1 DEF csVars
  <1>5. /\ First(k) \in Steps /\ First(k) \in {"produce", "waitSlot"}
        /\ "producer" \in Kinds /\ "consumer" \in Kinds /\ k # "none"
    BY DEF First, Steps, Kinds
  <1>6. /\ kind' \in [Workers -> Kinds \cup {"none"}] /\ alive' \in SUBSET Workers
        /\ step' \in [Workers -> Steps] /\ workers' \in [Kinds -> 0 .. MAX_WORKERS]
    BY <1>1, <1>2, <1>3, <1>5
  <1>7. pidOf' \in [Kinds -> [-1 .. MAX_WORKERS - 1 -> Workers \cup {0}]]
    BY <1>2, <1>3
  <1>8. ProdConsTypeOK'
    BY <1>1, <1>4, <1>6, <1>7 DEF ProdConsInv, ProdConsTypeOK
  <1>9. /\ p \notin alive /\ kind'[p] = k /\ step'[p] = First(k)
        /\ \A s \in Semaphores : p \notin waiting[s]
        /\ \A x \in Workers : x # p => /\ kind'[x] = kind[x] /\ step'[x] = step[x]
                                       /\ x \in alive' <=> x \in alive
                                       /\ Takes(x)' = Takes(x)
    BY <1>2, <1>3 DEF ProdConsInv, QueuedByStep, Takes
  <1>10. QueuedByStep'
    <2>1. \A x \in Workers : /\ kind'[x] = "none" => x \notin alive'
                             /\ x \notin alive' => step'[x] = "produce"
      BY <1>2, <1>5, <1>9 DEF ProdConsInv, QueuedByStep
    <2>2. ASSUME NEW s \in Semaphores, NEW x \in waiting'[s]
          PROVE  /\ x \in Workers /\ kind'[x] # "none"
                 /\ x \in alive' => \/ s = itemMutex /\ step'[x] = "access"
                                    \/ s = Takes(x)' /\ step'[x] = "waitItem"
      <3>1. x \in waiting[s] /\ x # p
        BY <1>4, <1>9
      <3>2. /\ x \in Workers /\ kind[x] # "none"
            /\ x \in alive => \/ s = itemMutex /\ step[x] = "access"
                              \/ s = Takes(x) /\ step[x] = "waitItem"
        BY <3>1 DEF ProdConsInv, QueuedByStep
      <3> QED BY <1>9, <3>1, <3>2
    <2> QED BY <2>1, <2>2 DEF QueuedByStep
  <1>11. ASSUME NEW x \in Workers
         PROVE  /\ x \in Inside' <=> x \in Inside
                /\ \A j \in Kinds : (x \in Before(j)' <=> x \in Before(j))
                                    /\ (x \in After(j)' <=> x \in After(j))
    <2>1. CASE x = p
      <3>1. p \notin Inside /\ p \notin Inside'
        BY <1>5, <1>9 DEF Inside, Runs
      <3>2. \A j \in Kinds : p \notin Before(j) /\ p \notin After(j)
        BY <1>2 DEF Before, After, Kinds
      <3>3. \A j \in Kinds : p \notin Before(j)' /\ p \notin After(j)'
        BY <1>5, <1>9 DEF Before, After
      <3> QED BY <2>1, <3>1, <3>2, <3>3
    <2>2. CASE x # p
      <3>1. x \in Inside' <=> x \in Inside
        BY <1>4, <1>9, <2>2 DEF Inside, Runs
      <3>2. ASSUME NEW j \in Kinds PROVE x \in Before(j)' <=> x \in Before(j)
        BY <1>4, <1>9, <2>2 DEF Before
      <3>3. ASSUME NEW j \in Kinds PROVE x \in After(j)' <=> x \in After(j)
        BY <1>9, <2>2 DEF After
      <3> QED BY <3>1, <3>2, <3>3
    <2> QED BY <2>1, <2>2
  <1>12. Inside' = Inside
    <2>1. Inside \subseteq Workers /\ Inside' \subseteq Workers
      BY DEF Inside
    <2> QED BY <1>11, <2>1
  <1>13. ASSUME NEW j \in Kinds PROVE Before(j)' = Before(j) /\ After(j)' = After(j)
    <2>1. Before(j) \subseteq Workers /\ Before(j)' \subseteq Workers
      BY DEF Before
    <2>2. After(j) \subseteq Workers /\ After(j)' \subseteq Workers
      BY DEF After
    <2>3. Before(j)' = Before(j)
      BY <1>11, <2>1
    <2>4. After(j)' = After(j)
      BY <1>11, <2>2
    <2> QED BY <2>3, <2>4
  <1>14. OneInside'
    BY <1>4, <1>12 DEF ProdConsInv, OneInside
  <1>15. TokensBounded'
    BY <1>4, <1>5, <1>13 DEF ProdConsInv, TokensBounded
  <1>16. RingOrdered'
    <2>1. \A x \in Inside : kind'[x] = kind[x] /\ step'[x] = step[x]
      BY <1>9 DEF Inside, Runs
    <2>2. \A j \in Kinds : Advancing(j)' <=> Advancing(j)
      BY <1>12, <2>1 DEF Advancing
    <2> QED BY <1>4, <1>5, <1>12, <2>2 DEF ProdConsInv, RingOrdered, RingAt
  <1>17. WorkersTracked'
    <2>0. /\ workers[k] \in 0 .. MAX_WORKERS - 1 /\ pidOf'[k][workers[k]] = p
          /\ workers'[k] = workers[k] + 1
          /\ \A j \in Kinds : \A x \in -1 .. MAX_WORKERS - 1 :
                j # k \/ x # workers[k] => pidOf'[j][x] = pidOf[j][x]
          /\ \A j \in Kinds : j # k => workers'[j] = workers[j]
      BY <1>1, <1>2, <1>3
    <2>1. SUFFICES ASSUME NEW q \in alive'
                   PROVE  \/ q = pidOf'[kind'[q]][-1]
                          \/ \E x \in 0 .. workers'[kind'[q]] - 1 : q = pidOf'[kind'[q]][x]
      BY <1>1 DEF WorkersTracked, Passed
    <2>2. CASE q = p
      <3>1. workers[k] \in 0 .. workers'[k] - 1
        BY <2>0
      <3> QED BY <1>1, <1>9, <2>0, <2>2, <3>1
    <2>3. CASE q # p
      <3>1. q \in alive /\ q \in Workers
        BY <1>2, <1>3, <2>3
      <3>2. PICK j \in Kinds : j = kind[q]
        BY <3>1, ProdConsTypes
      <3>3. kind'[q] = j
        BY <1>9, <2>3, <3>1, <3>2
      <3>4. CASE q = pidOf[j][-1]
        <4>1. -1 \in -1 .. MAX_WORKERS - 1 /\ -1 # workers[k]
          BY <1>3, <2>0
        <4> QED BY <2>0, <3>3, <3>4, <4>1
      <3>5. CASE \E x \in 0 .. workers[j] - 1 : q = pidOf[j][x]
        <4>1. PICK x \in 0 .. workers[j] - 1 : q = pidOf[j][x]
          BY <3>5
        <4>2. /\ x \in -1 .. MAX_WORKERS - 1 /\ (j # k \/ x # workers[k])
              /\ x \in 0 .. workers'[j] - 1
          BY <1>3, <2>0, <4>1
        <4>3. q = pidOf'[j][x]
          BY <2>0, <4>1, <4>2
        <4> QED BY <1>1, <3>3, <4>2, <4>3
      <3> QED BY <3>1, <3>2, <3>4, <3>5 DEF ProdConsInv, WorkersTracked
    <2> QED BY <2>2, <2>3
  <1>18. CSTypeOK' /\ \A s \in Semaphores : open'[s]
    BY <1>4 DEF ProdConsInv, CSTypeOK
  <1> QED BY <1>8, <1>10, <1>14, <1>15, <1>16, <1>17, <1>18 DEF ProdConsInv

-----------------------------------------------------------------------------
(* Producers and consumers: the program.                                    *)

\* prodCons starts with an empty ring, as many tokens as slots, and whatever an earlier
\* run left in the counters.
LEMMA ProdConsInitInv ==
    ASSUME main, program = "PROD_CONS"
    PROVE  ProdConsInv
  <1>1. /\ open = [s \in Semaphores |-> TRUE] /\ waiting = [s \in Semaphores |-> {}]
        /\ prodCons
    BY DEF main
  <1>2. /\ bufferSize \in Nat \ {0} /\ MAX_WORKERS \in Nat \ {0} /\ Codes \in Nat \ {0}
        /\ Leftover \subseteq 0 .. MAX_WORKERS
        /\ {itemMutex, fullCount, emptyCount} \subseteq Semaphores
        /\ itemMutex # fullCount /\ itemMutex # emptyCount /\ fullCount # emptyCount
        /\ 1 \in Workers /\ 2 \in Workers
    BY ProdConsAssumption DEF itemMutex, fullCount, emptyCount
  <1>3. /\ value = [s \in Semaphores |-> CASE s = itemMutex -> 1
                                           [] s = emptyCount -> bufferSize
                                           [] OTHER -> 0]
        /\ kind = [q \in Workers |-> CASE q = 1 -> "producer"
                                         [] q = 2 -> "consumer" [] OTHER -> "none"]
        /\ alive = {1, 2}
        /\ step = [q \in Workers |-> IF q = 2 THEN "waitSlot" ELSE "produce"]
        /\ item = [q \in Workers |-> 0]
        /\ i = 0 /\ r = 0 /\ w = 0 /\ buffer = [x \in Ring |-> 0]
        /\ workers \in [Kinds -> Leftover]
        /\ pidOf = [k \in Kinds |-> [x \in -1 .. MAX_WORKERS - 1 |->
                      IF x # workers[k] - 1 THEN 0 ELSE IF k = "producer" THEN 1 ELSE 2]]
        /\ end = FALSE /\ removed = 0 /\ content = <<>>
    BY <1>1 DEF prodCons, First
  <1>4. /\ value[itemMutex] = 1 /\ value[emptyCount] = bufferSize /\ value[fullCount] = 0
        /\ value \in [Semaphores -> Nat]
    BY <1>2, <1>3
  <1>5. /\ kind \in [Workers -> Kinds \cup {"none"}] /\ kind[1] = "producer" /\ kind[2] = "consumer"
        /\ \A x \in Workers : x \in alive <=> kind[x] # "none"
        /\ step[2] = "waitSlot" /\ \A x \in Workers : x # 2 => step[x] = "produce"
    BY <1>2, <1>3 DEF Kinds
  <1>6. CSTypeOK /\ \A s \in Semaphores : open[s]
    BY <1>1, <1>4 DEF CSTypeOK
  <1>7. ProdConsTypeOK
    <2>1. step \in [Workers -> Steps]
      BY <1>3 DEF Steps
    <2>2. 0 \in Chars /\ 0 \in Ring
      BY <1>2 DEF Chars, Ring
    <2>3. item \in [Workers -> Chars] /\ i \in Chars /\ r \in Ring /\ w \in Ring
          /\ buffer \in [Ring -> Chars]
      BY <1>3, <2>2
    <2>4. workers \in [Kinds -> 0 .. MAX_WORKERS]
      BY <1>2, <1>3
    <2>5. pidOf \in [Kinds -> [-1 .. MAX_WORKERS - 1 -> Workers \cup {0}]]
      <3>1. ASSUME NEW k \in Kinds
            PROVE  [x \in -1 .. MAX_WORKERS - 1 |->
                      IF x # workers[k] - 1 THEN 0 ELSE IF k = "producer" THEN 1 ELSE 2]
                   \in [-1 .. MAX_WORKERS - 1 -> Workers \cup {0}]
        BY <1>2
      <3> QED BY <1>3, <3>1
    <2>6. alive \in SUBSET Workers /\ end \in BOOLEAN /\ removed \in Nat /\ content \in Seq(Chars)
      <3>1. alive = {1, 2} /\ end = FALSE /\ removed = 0 /\ content = <<>>
        BY <1>3
      <3>2. <<>> \in Seq(Chars)
        OBVIOUS
      <3> QED BY <1>2, <3>1, <3>2
    <2> QED BY <1>5, <2>1, <2>3, <2>4, <2>5, <2>6 DEF ProdConsTypeOK
  <1>8. QueuedByStep
    <2>1. \A x \in Workers : x \notin alive => step[x] = "produce"
      BY <1>3, <1>5
    <2> QED BY <1>1, <1>5, <2>1 DEF QueuedByStep
  <1>9. Inside = {}
    BY <1>3 DEF Inside
  <1>10. OneInside
    BY <1>1, <1>2, <1>4, <1>9 DEF OneInside
  <1>11. \A k \in Kinds : Before(k) = {} /\ After(k) = {}
    BY <1>3 DEF Before, After
  <1>12. TokensBounded
    <2>1. /\ Before("producer") = {} /\ After("producer") = {}
          /\ Before("consumer") = {} /\ After("consumer") = {}
      BY <1>11 DEF Kinds
    <2>2. Cardinality({}) = 0 /\ Len(content) = 0
      BY <1>3, FS_EmptySet
    <2>3. bufferSize + 0 + 0 + 0 =< bufferSize /\ 0 + 0 + 0 =< 0
      BY <1>2
    <2> QED BY <1>4, <2>1, <2>2, <2>3 DEF TokensBounded
  <1>13. RingOrdered
    <2>1. ~Advancing("producer") /\ ~Advancing("consumer")
      BY <1>9 DEF Advancing
    <2>2. RingAt(r, w, buffer, content)
      BY <1>2, <1>3 DEF RingAt
    <2> QED BY <2>1, <2>2 DEF RingOrdered
  <1>14. WorkersTracked
    <2>1. ASSUME NEW k \in Kinds, NEW q, q = IF k = "producer" THEN 1 ELSE 2
          PROVE  q = pidOf[k][-1] \/ (\E x \in 0 .. workers[k] - 1 : q = pidOf[k][x] /\ ~Passed(k, x))
      <3>1. workers[k] \in 0 .. MAX_WORKERS /\ workers[k] - 1 \in -1 .. MAX_WORKERS - 1
        BY <1>2, <1>3
      <3>2. pidOf[k][workers[k] - 1] = q
        BY <1>3, <2>1, <3>1
      <3>3. CASE workers[k] = 0
        BY <3>2, <3>3
      <3>4. CASE workers[k] # 0
        <4>1. workers[k] - 1 \in 0 .. workers[k] - 1
          BY <3>1, <3>4
        <4> QED BY <1>3, <3>2, <4>1 DEF Passed
      <3> QED BY <3>3, <3>4
    <2>2. ASSUME NEW q \in alive
          PROVE  kind[q] \in Kinds /\ q = IF kind[q] = "producer" THEN 1 ELSE 2
      BY <1>3, <1>5, <2>2 DEF Kinds
    <2> QED BY <2>1, <2>2 DEF WorkersTracked
  <1> QED BY <1>6, <1>7, <1>8, <1>10, <1>12, <1>13, <1>14 DEF ProdConsInv

\* The variables of producers and consumers while the philosophers run.
ProdConsIdle ==
    ProdConsTypeOK /\ alive = {} /\ content = <<>> /\ r = 0 /\ w = 0

DummyInv ==
    \/ program = "PROD_CONS" /\ ProdConsInv
    \/ program = "PHILOSOPHERS" /\ ProdConsIdle /\ PhilosophersInv

\* The invariant of the program main was called with holds at first.
LEMMA DummyInitInv == ASSUME main PROVE DummyInv
  <1>1. CASE program = "PROD_CONS"
    BY <1>1, ProdConsInitInv DEF DummyInv
  <1>2. CASE program = "PHILOSOPHERS"
    <2>1. bufferSize \in Nat \ {0} /\ MAX_WORKERS \in Nat \ {0} /\ Codes \in Nat \ {0}
      BY ProdConsAssumption
    <2>2. /\ kind = [p \in Workers |-> "none"] /\ alive = {}
          /\ step = [p \in Workers |-> "produce"] /\ item = [p \in Workers |-> 0]
          /\ i = 0 /\ r = 0 /\ w = 0 /\ buffer = [x \in Ring |-> 0]
          /\ workers = [k \in Kinds |-> 0]
          /\ pidOf = [k \in Kinds |-> [x \in -1 .. MAX_WORKERS - 1 |-> 0]]
          /\ end = FALSE /\ removed = 0 /\ content = <<>>
      BY <1>2 DEF main
    <2>3. 0 \in Chars /\ 0 \in Ring /\ "produce" \in Steps /\ 0 \in 0 .. MAX_WORKERS
      BY <2>1 DEF Chars, Ring, Steps
    <2>4. pidOf \in [Kinds -> [-1 .. MAX_WORKERS - 1 -> Workers \cup {0}]]
      <3>1. [x \in -1 .. MAX_WORKERS - 1 |-> 0] \in [-1 .. MAX_WORKERS - 1 -> Workers \cup {0}]
        OBVIOUS
      <3> QED BY <2>2, <3>1
    <2>5. /\ kind \in [Workers -> Kinds \cup {"none"}] /\ alive \in SUBSET Workers
          /\ end \in BOOLEAN /\ removed \in Nat /\ content \in Seq(Chars)
      <3>1. alive = {} /\ end = FALSE /\ removed = 0 /\ content = <<>> /\ kind = [p \in Workers |-> "none"]
        BY <2>2
      <3>2. <<>> \in Seq(Chars)
        OBVIOUS
      <3>3. kind \in [Workers -> Kinds \cup {"none"}]
        BY <3>1
      <3> QED BY <3>1, <3>2, <3>3
    <2>6. /\ step \in [Workers -> Steps] /\ item \in [Workers -> Chars]
          /\ i \in Chars /\ r \in Ring /\ w \in Ring /\ buffer \in [Ring -> Chars]
          /\ workers \in [Kinds -> 0 .. MAX_WORKERS]
      BY <2>2, <2>3
    <2>7. ProdConsIdle
      BY <2>2, <2>4, <2>5, <2>6 DEF ProdConsIdle, ProdConsTypeOK
    <2> QED BY <1>2, <2>7, PhilosophersInitInv DEF DummyInv
  <1> QED BY <1>1, <1>2 DEF main

\* And every step keeps it: the program main was called with is the one that runs.
LEMMA DummyStepInv == DummyInv /\ [DummyNext]_dummyVars => DummyInv'
  <1> SUFFICES ASSUME DummyInv, [DummyNext]_dummyVars PROVE DummyInv'
    OBVIOUS
  <1>1. CASE UNCHANGED dummyVars
    <2>1. /\ program' = program /\ kind' = kind /\ alive' = alive /\ step' = step /\ item' = item
          /\ i' = i /\ r' = r /\ w' = w /\ buffer' = buffer /\ workers' = workers
          /\ pidOf' = pidOf /\ end' = end /\ removed' = removed /\ content' = content
          /\ open' = open /\ value' = value /\ waiting' = waiting
      BY <1>1 DEF dummyVars, csVars, pcVars
    <2>2. CASE program = "PROD_CONS"
      <3>1. ProdConsInv
        BY <2>2 DEF DummyInv
      <3>2. /\ Inside' = Inside /\ Before("producer")' = Before("producer")
            /\ Before("consumer")' = Before("consumer") /\ After("producer")' = After("producer")
            /\ After("consumer")' = After("consumer")
        BY <2>1 DEF Inside, Runs, Before, After, Takes
      <3>3. CSTypeOK' /\ ProdConsTypeOK' /\ (\A s \in Semaphores : open'[s])
        BY <2>1, <3>1 DEF ProdConsInv, CSTypeOK, ProdConsTypeOK
      <3>4. QueuedByStep'
        BY <2>1, <3>1 DEF ProdConsInv, QueuedByStep, Takes
      <3>5. OneInside' /\ TokensBounded'
        BY <2>1, <3>1, <3>2 DEF ProdConsInv, OneInside, TokensBounded
      <3>6. RingOrdered'
        BY <2>1, <3>1, <3>2 DEF ProdConsInv, RingOrdered, Advancing, RingAt
      <3>7. WorkersTracked'
        BY <2>1, <3>1 DEF ProdConsInv, WorkersTracked, Passed
      <3> QED BY <2>1, <2>2, <3>1, <3>3, <3>4, <3>5, <3>6, <3>7 DEF DummyInv, ProdConsInv
    <2>3. CASE program = "PHILOSOPHERS"
      <3>1. ProdConsIdle'
        BY <2>1, <2>3 DEF DummyInv, ProdConsIdle, ProdConsTypeOK
      <3>2. PhilosophersInv'
        BY <2>1, <2>3, PhilosophersStep DEF DummyInv, PhilosophersRun
      <3> QED BY <2>1, <2>3, <3>1, <3>2 DEF DummyInv
    <2> QED BY <2>2, <2>3 DEF DummyInv
  <1>2. CASE program = "PROD_CONS" /\ control /\ UNCHANGED <<program, phVars>>
    BY <1>2, AddWorkerInv, RemoveWorkerInv, QuitInv, KillAllInv DEF DummyInv, control
  <1>3. CASE \E p \in Workers : workerStep(p)
    BY <1>3, WorkInv DEF DummyInv, workerStep
  <1>4. CASE \E v \in Table : philosopherStep(v)
    <2>1. PICK v \in Table : program = "PHILOSOPHERS" /\ philospher(v) /\ UNCHANGED <<program, pcVars>>
      BY <1>4 DEF philosopherStep
    <2>2. ProdConsIdle'
      BY <2>1 DEF DummyInv, ProdConsIdle, ProdConsTypeOK, pcVars
    <2> QED BY <2>1, <2>2, PhilosopherInv DEF DummyInv
  <1> QED BY <1>1, <1>2, <1>3, <1>4 DEF DummyNext

\* Producers and consumers keep their invariant whatever keys are pressed, wherever workers
\* are killed and whatever an earlier run left in the counters.
THEOREM ProdConsInvariant == DummySpec => []DummyInv
  BY DummyInitInv, DummyStepInv, PTL DEF DummySpec

\* The ring is a queue: what was inserted and not removed is what lies between r and w, in
\* order and never more than fits, however the workers are scheduled and killed.
THEOREM ProdConsRing == DummySpec => []RingIsQueue
  <1>1. ASSUME DummyInv PROVE RingIsQueue
    <2>1. CASE program = "PROD_CONS" /\ ProdConsInv
      <3>1. Cardinality(Inside) =< 1
        <4>1. CASE Inside = {}
          BY <4>1, FS_EmptySet
        <4>2. CASE Inside # {}
          <5>0. PICK p \in Inside : TRUE
            BY <4>2
          <5>1. Inside = {p}
            BY <2>1 DEF ProdConsInv, OneInside
          <5>2. Cardinality({p}) = 1
            BY FS_Singleton
          <5> QED BY <5>1, <5>2
        <4> QED BY <4>1, <4>2
      <3>2. Len(content) =< bufferSize
        <4>1. ProdConsInv
          BY <2>1
        <4>2. /\ Cardinality(Before("producer")) \in Nat /\ Cardinality(After("consumer")) \in Nat
              /\ 0 =< Cardinality(Before("producer")) /\ 0 =< Cardinality(After("consumer"))
              /\ value[emptyCount] \in Nat /\ Len(content) \in Nat /\ bufferSize \in Nat
          BY <4>1, Bounds
        <4>3. value[emptyCount] + 0 + 0 + Len(content) =< bufferSize
          BY <4>1, <4>2, BoundsMove
        <4> QED BY <4>2, <4>3
      <3>3. value[itemMutex] = 1 => RingAt(r, w, buffer, content)
        <4>1. ASSUME value[itemMutex] = 1 PROVE ~Advancing("producer") /\ ~Advancing("consumer")
          BY <2>1, <4>1 DEF ProdConsInv, OneInside, Advancing
        <4> QED BY <2>1, <4>1 DEF ProdConsInv, RingOrdered
      <3> QED BY <2>1, <3>1, <3>2, <3>3 DEF RingIsQueue, ProdConsInv, RingAt
    <2>2. CASE ProdConsIdle /\ PhilosophersInv
      <3>1. Inside = {} /\ Cardinality({}) = 0
        BY <2>2, FS_EmptySet DEF ProdConsIdle, Inside, Runs
      <3>2. bufferSize \in Nat \ {0} /\ Len(content) = 0 /\ r = 0 /\ w = 0
        BY <2>2, ProdConsAssumption DEF ProdConsIdle
      <3>3. CSTypeOK /\ ProdConsTypeOK
        BY <2>2 DEF ProdConsIdle, PhilosophersInv
      <3>4. w = (r + Len(content)) % bufferSize /\ Len(content) =< bufferSize
        BY <3>2
      <3>5. Cardinality(Inside) =< 1
        BY <3>1
      <3> QED BY <3>2, <3>3, <3>4, <3>5 DEF RingIsQueue
    <2> QED BY <1>1, <2>1, <2>2 DEF DummyInv
  <1> QED BY <1>1, ProdConsInvariant, PTL

\* control never loses a worker, but for one it started in front of its array.
THEOREM ProdConsTracked == DummySpec => []WorkersTracked
  <1>1. DummyInv => WorkersTracked
    BY DEF DummyInv, ProdConsInv, ProdConsIdle, WorkersTracked
  <1> QED BY <1>1, ProdConsInvariant, PTL

\* A consumer gets the oldest item, and there is one when it reads.
THEOREM ProdConsOldest == DummySpec => RemovesOldest
  <1>1. ASSUME DummyInv, NEW p \in Workers, removeItem(p), step'[p] = "advance"
        PROVE  content # <<>> /\ item'[p] = Head(content)
    <2>1. p \in alive
      BY <1>1 DEF removeItem, Goes, Runs
    <2>2. ProdConsInv
      BY <1>1, <2>1 DEF DummyInv, ProdConsIdle
    <2>3. CASE kind[p] = "consumer" /\ Goes(p, "access", "advance")
               /\ item' = [item EXCEPT ![p] = buffer[r]]
      <3>1. content # <<>> /\ buffer[r] = Head(content)
        BY <2>2, <2>3, RemovesFacts
      <3>2. item \in [Workers -> Chars]
        BY <2>2, ProdConsTypes
      <3> QED BY <2>3, <3>1, <3>2
    <2>4. CASE Goes(p, "advance", "signalItem")
      <3>1. step'[p] = "signalItem"
        BY <2>2, <2>4, GoesFacts DEF Steps
      <3> QED BY <1>1, <3>1
    <2> QED BY <1>1, <2>3, <2>4 DEF removeItem
  <1>2. DummyInv => (\A p \in Workers :
          removeItem(p) /\ step'[p] = "advance" => content # <<>> /\ item'[p] = Head(content))
    BY <1>1
  <1> QED BY <1>2, ProdConsInvariant, PTL DEF RemovesOldest
=============================================================================
