-------------------------- MODULE SchedulerProofs ---------------------------
(***************************************************************************)
(* The list of the scheduler, for any number of processes: whoever returns *)
(* from main at whatever moment, next leads to init until init itself is   *)
(* cut out of the list; and as long as nobody returns, the list is one     *)
(* circle of the live processes, and implements the process table.         *)
(***************************************************************************)
EXTENDS Scheduler, FiniteSetTheorems, WellFoundedInduction, TLAPS

-----------------------------------------------------------------------------
(* Walks along the links.                                                  *)

\* Every non-empty set of numbers has a least element.  (The segments 1 .. n are
\* well-founded under inclusion.)
LEMMA LeastExists ==
    ASSUME NEW T \in SUBSET Nat, T # {}
    PROVE  \E x \in T : \A y \in T : x =< y
  <1> DEFINE segments == {1 .. n : n \in T}
  <1>1. segments \subseteq FiniteSubsetsOf(Nat) /\ segments # {}
    <2>1. ASSUME NEW n \in T PROVE 1 .. n \in FiniteSubsetsOf(Nat)
      BY FS_Interval DEF FiniteSubsetsOf
    <2>2. PICK n \in T : TRUE
      OBVIOUS
    <2>3. 1 .. n \in segments
      OBVIOUS
    <2> QED BY <2>1, <2>3
  <1>2. IsWellFoundedOn(StrictSubsetOrdering(Nat), FiniteSubsetsOf(Nat))
    BY FS_StrictSubsetOrderingWellFounded
  <1>3. PICK s \in segments : \A r \in segments : <<r, s>> \notin StrictSubsetOrdering(Nat)
    <2> HIDE DEF segments
    <2> QED BY <1>1, <1>2, WFMin
  <1>4. PICK x \in T : s = 1 .. x
    BY <1>3
  <1>5. ASSUME NEW y \in T, y < x PROVE FALSE
    <2>1. x \in s /\ x \notin 1 .. y
      BY <1>4, <1>5
    <2>2. <<1 .. y, s>> \in StrictSubsetOrdering(Nat)
      BY <1>4, <1>5, <2>1 DEF StrictSubsetOrdering
    <2> QED BY <1>3, <2>2
  <1> QED BY <1>5

\* What holds at 0 and goes from each number to the next holds up to N.
LEMMA CountingUp ==
    ASSUME NEW N \in Nat, NEW T, 0 \in T, \A i \in 0 .. N - 1 : i \in T => i + 1 \in T
    PROVE  \A i \in 0 .. N : i \in T
  <1> DEFINE Bad == {i \in 0 .. N : i \notin T}
  <1>1. SUFFICES ASSUME Bad # {} PROVE FALSE
    OBVIOUS
  <1>2. PICK n \in Bad : \A y \in Bad : n =< y
    <2>1. Bad \in SUBSET Nat
      OBVIOUS
    <2> HIDE DEF Bad
    <2> QED BY <1>1, <2>1, LeastExists
  <1>3. n # 0 /\ n \in Nat /\ n =< N
    OBVIOUS
  <1>4. n - 1 \in 0 .. N - 1 /\ (n - 1) + 1 = n /\ ~(n =< n - 1)
    BY <1>3
  <1>5. n - 1 \in T
    BY <1>2, <1>4
  <1> QED BY <1>4, <1>5

\* f goes from s0 by the functions step[1], step[2], ...
IsChain(f, N, s0, step) == f = [i \in 0 .. N |-> IF i = 0 THEN s0 ELSE step[i][f[i - 1]]]

\* There is such a function.
LEMMA ChainExists ==
    ASSUME NEW N \in Nat, NEW S, NEW s0 \in S, NEW step \in [1 .. N -> [S -> S]]
    PROVE  \E f \in [0 .. N -> S] : IsChain(f, N, s0, step)
  <1> DEFINE T == {n \in 0 .. N : \E f \in [0 .. n -> S] : IsChain(f, n, s0, step)}
  <1>1. 0 \in T
    <2> DEFINE f == [i \in 0 .. 0 |-> s0]
    <2>1. f \in [0 .. 0 -> S] /\ f = [i \in 0 .. 0 |-> IF i = 0 THEN s0 ELSE step[i][f[i - 1]]]
      OBVIOUS
    <2>2. IsChain(f, 0, s0, step)
      BY <2>1 DEF IsChain
    <2>3. 0 \in 0 .. N
      OBVIOUS
    <2> HIDE DEF f
    <2> QED BY <2>1, <2>2, <2>3
  <1>2. ASSUME NEW n \in 0 .. N - 1, n \in T PROVE n + 1 \in T
    <2>1. PICK f \in [0 .. n -> S] : IsChain(f, n, s0, step)
      BY <1>2
    <2> DEFINE g == [i \in 0 .. n + 1 |-> IF i = n + 1 THEN step[i][f[n]] ELSE f[i]]
    <2>2. n \in Nat /\ n \in 0 .. n /\ n + 1 \in 1 .. N /\ n + 1 \in 0 .. N
      OBVIOUS
    <2>3. \A i \in 0 .. n : i \in 0 .. n + 1 /\ i # n + 1 /\ g[i] = f[i] /\ f[i] \in S
      BY <2>2
    <2>4. g[n + 1] = step[n + 1][f[n]] /\ g[n + 1] \in S
      <3>1. step[n + 1] \in [S -> S] /\ f[n] \in S
        BY <2>2
      <3>2. n + 1 \in 0 .. n + 1
        BY <2>2
      <3> QED BY <3>1, <3>2
    <2>5. \A i \in 0 .. n : f[i] = IF i = 0 THEN s0 ELSE step[i][f[i - 1]]
      BY <2>1 DEF IsChain
    <2>6. ASSUME NEW i \in 0 .. n + 1
          PROVE  g[i] \in S /\ g[i] = IF i = 0 THEN s0 ELSE step[i][g[i - 1]]
      <3>1. CASE i = n + 1
        <4>1. i # 0 /\ i - 1 = n
          BY <2>2, <3>1
        <4> HIDE DEF g
        <4> QED BY <2>2, <2>3, <2>4, <3>1, <4>1
      <3>2. CASE i # n + 1
        <4>1. i \in 0 .. n /\ (i # 0 => i - 1 \in 0 .. n)
          BY <2>2, <3>2
        <4> HIDE DEF g
        <4> QED BY <2>3, <2>5, <4>1
      <3> QED BY <3>1, <3>2
    <2>7. g = [i \in 0 .. n + 1 |-> g[i]]
      OBVIOUS
    <2> HIDE DEF g
    <2>8. g \in [0 .. n + 1 -> S]
      BY <2>6, <2>7
    <2>9. g = [i \in 0 .. n + 1 |-> IF i = 0 THEN s0 ELSE step[i][g[i - 1]]]
      BY <2>6, <2>7
    <2>10. IsChain(g, n + 1, s0, step)
      BY <2>9 DEF IsChain
    <2> QED BY <2>2, <2>8, <2>10
  <1> HIDE DEF T
  <1>3. \A i \in 0 .. N : i \in T
    BY <1>1, <1>2, CountingUp
  <1>4. N \in T
    BY <1>3
  <1> QED BY <1>4 DEF T

\* The number of slots.
N == Cardinality(Pids)

\* A search of schedule() takes at most as many steps as there are slots, and one more.
LEMMA HopsAre == N \in Nat /\ Hops = 0 .. N + 1
  <1>1. Cardinality(Pids) \in Nat
    BY SchedulerAssumption, FS_CardinalityType
  <1> QED BY <1>1 DEF Hops, N

\* The links of the slots of B lead to slots of B.
Leads(nx, B) == B \subseteq Pids /\ \A p \in B : nx[p] \in B

\* A walk goes from slot to slot along the links, and does not leave B.
LEMMA WalkIs ==
    ASSUME NEW nx, NEW B, Leads(nx, B), NEW s \in B
    PROVE  /\ walk(nx, s)[0] = s
           /\ \A i \in 0 .. N : walk(nx, s)[i + 1] = nx[walk(nx, s)[i]]
           /\ \A i \in Hops : walk(nx, s)[i] \in B
  <1> DEFINE w == walk(nx, s)
             step == [i \in 1 .. N + 1 |-> [p \in B |-> nx[p]]]
  <1>0. N + 1 \in Nat
    BY HopsAre
  <1>1. step \in [1 .. N + 1 -> [B -> B]]
    BY DEF Leads
  <1>2. PICK f \in [0 .. N + 1 -> B] : IsChain(f, N + 1, s, step)
    <2> HIDE DEF step
    <2> QED BY <1>0, <1>1, ChainExists
  <1>3. f = [i \in Hops |-> IF i = 0 THEN s ELSE nx[f[i - 1]]]
    <2>1. ASSUME NEW i \in 0 .. N + 1, i # 0 PROVE step[i][f[i - 1]] = nx[f[i - 1]]
      <3>1. i \in 1 .. N + 1 /\ i - 1 \in 0 .. N + 1
        BY <1>0, <2>1
      <3>2. f[i - 1] \in B
        BY <3>1
      <3> QED BY <3>1, <3>2
    <2> HIDE DEF step
    <2>2. f = [i \in 0 .. N + 1 |-> IF i = 0 THEN s ELSE step[i][f[i - 1]]]
      BY <1>2 DEF IsChain
    <2>3. [i \in 0 .. N + 1 |-> IF i = 0 THEN s ELSE step[i][f[i - 1]]]
            = [i \in 0 .. N + 1 |-> IF i = 0 THEN s ELSE nx[f[i - 1]]]
      BY <2>1
    <2> QED BY <2>2, <2>3, HopsAre
  <1>4. w = [i \in Hops |-> IF i = 0 THEN s ELSE nx[w[i - 1]]]
    BY <1>3 DEF walk
  <1> HIDE DEF w, step
  <1>5. w[0] = s
    <2>1. 0 \in Hops
      BY HopsAre
    <2> QED BY <1>4, <2>1
  <1>6. \A i \in 0 .. N : w[i + 1] = nx[w[i]]
    <2>1. ASSUME NEW i \in 0 .. N PROVE w[i + 1] = nx[w[i]]
      <3>1. i + 1 \in Hops /\ i + 1 # 0 /\ (i + 1) - 1 = i
        BY HopsAre
      <3>2. w[i + 1] = nx[w[(i + 1) - 1]]
        BY <1>4, <3>1
      <3> QED BY <3>1, <3>2
    <2> QED BY <2>1
  <1>7. \A i \in Hops : w[i] \in B
    <2> DEFINE T == {i \in Hops : w[i] \in B}
    <2>1. 0 \in T
      BY <1>5, HopsAre
    <2>2. ASSUME NEW i \in 0 .. (N + 1) - 1, i \in T PROVE i + 1 \in T
      <3>1. i \in 0 .. N /\ i + 1 \in Hops
        BY HopsAre
      <3> QED BY <1>6, <2>2, <3>1 DEF Leads
    <2> HIDE DEF T
    <2>3. \A i \in 0 .. N + 1 : i \in T
      BY <1>0, <2>1, <2>2, CountingUp
    <2> QED BY <2>3, HopsAre DEF T
  <1> QED BY <1>5, <1>6, <1>7 DEF w

\* On a walk a slot of which another rank leads down each time is met only once: a walk
\* that does not meet init goes on for less than N steps.
LEMMA WalkReachesInit ==
    ASSUME NEW nx, NEW B, Leads(nx, B), NEW s \in B, NEW rank \in [Pids -> Nat],
           \A p \in B \ {InitPid} : rank[nx[p]] < rank[p]
    PROVE  \E i \in Hops : walk(nx, s)[i] = InitPid
  <1> SUFFICES ASSUME \A i \in Hops : walk(nx, s)[i] # InitPid PROVE FALSE
    OBVIOUS
  <1> DEFINE w == walk(nx, s)
  <1>1. /\ N \in Nat /\ Hops = 0 .. N + 1 /\ B \subseteq Pids
        /\ \A i \in 0 .. N : w[i + 1] = nx[w[i]]
        /\ \A i \in Hops : w[i] \in B /\ w[i] # InitPid
    BY HopsAre, WalkIs DEF Leads
  <1> HIDE DEF w
  <1>2. \A i \in 0 .. N : rank[w[i + 1]] < rank[w[i]]
    BY <1>1
  <1>3. ASSUME NEW i \in 0 .. N, NEW j \in 0 .. N, i < j PROVE rank[w[j]] < rank[w[i]]
    <2> DEFINE T == {k \in 0 .. N - i : rank[w[i + 1 + k]] < rank[w[i]]}
    <2>1. 0 \in T
      <3>1. 0 \in 0 .. N - i /\ i + 1 + 0 = i + 1
        BY <1>1
      <3> QED BY <1>2, <3>1
    <2>2. ASSUME NEW k \in 0 .. (N - i) - 1, k \in T PROVE k + 1 \in T
      <3>1. /\ k + 1 \in 0 .. N - i /\ i + 1 + k \in 0 .. N
            /\ i + 1 + (k + 1) = (i + 1 + k) + 1 /\ i + 1 + (k + 1) \in 0 .. N + 1
        BY <1>1
      <3>2. rank[w[(i + 1 + k) + 1]] < rank[w[i + 1 + k]]
        BY <1>2, <3>1
      <3>3. rank[w[i]] \in Nat /\ rank[w[i + 1 + k]] \in Nat /\ rank[w[(i + 1 + k) + 1]] \in Nat
        BY <1>1, <3>1
      <3> QED BY <2>2, <3>1, <3>2, <3>3
    <2>3. N - i \in Nat /\ j - (i + 1) \in 0 .. N - i /\ i + 1 + (j - (i + 1)) = j
      BY <1>1, <1>3
    <2> HIDE DEF T
    <2>4. j - (i + 1) \in T
      BY <2>1, <2>2, <2>3, CountingUp
    <2> QED BY <2>3, <2>4 DEF T
  <1> DEFINE f == [i \in 0 .. N |-> w[i]]
  <1>4. f \in [0 .. N -> Pids]
    BY <1>1
  <1>5. IsFiniteSet(0 .. N) /\ Cardinality(0 .. N) = N + 1
    <2>1. 0 \in Int /\ N \in Int /\ ~(0 > N) /\ N - 0 + 1 = N + 1
      BY <1>1
    <2>2. IsFiniteSet(0 .. N) /\ Cardinality(0 .. N) = IF 0 > N THEN 0 ELSE N - 0 + 1
      BY <2>1, FS_Interval, Zenon
    <2> QED BY <2>1, <2>2
  <1>6. PICK i, j \in 0 .. N : i # j /\ f[i] = f[j]
    <2>1. Cardinality(Pids) < Cardinality(0 .. N) /\ IsFiniteSet(Pids)
      BY <1>1, <1>5, SchedulerAssumption DEF N
    <2> HIDE DEF f
    <2> QED BY <1>4, <1>5, <2>1, FS_PigeonHole
  <1>7. w[i] = w[j] /\ rank[w[i]] \in Nat
    BY <1>1, <1>6
  <1>8. ~(rank[w[i]] < rank[w[i]])
    BY <1>7
  <1>9. i < j \/ j < i
    BY <1>1, <1>6
  <1>10. rank[w[j]] < rank[w[i]] \/ rank[w[i]] < rank[w[j]]
    BY <1>3, <1>9
  <1> QED BY <1>7, <1>8, <1>10

-----------------------------------------------------------------------------
(* Cutting a slot out of the list and adding one.                          *)

\* nx are links between the slots of B, and the others have none.
Links(nx, B) ==
    /\ nx \in [Pids -> Pids \cup {NoPid}]
    /\ B = {p \in Pids : nx[p] # NoPid}
    /\ Leads(nx, B)

\* The slot p, which q led to, is passed by.
Cut(nx, q, p) == [nx EXCEPT ![q] = nx[p]]

\* Cutting keeps the slots, and an order of the links.
LEMMA CutLinks ==
    ASSUME NEW nx, NEW B, Links(nx, B), NEW q \in B, NEW p \in B
    PROVE  Links(Cut(nx, q, p), B)
  <1>1. nx[p] \in B /\ nx[p] # NoPid /\ nx[p] \in Pids /\ q \in Pids
    BY DEF Links, Leads
  <1>2. Cut(nx, q, p) \in [Pids -> Pids \cup {NoPid}]
    BY <1>1 DEF Links, Cut
  <1>3. \A x \in Pids : Cut(nx, q, p)[x] = IF x = q THEN nx[p] ELSE nx[x]
    BY <1>1 DEF Links, Cut
  <1> QED BY <1>1, <1>2, <1>3 DEF Links, Leads

\* An order in which the links lead down to init keeps them leading down when a slot
\* other than that of init is cut out.
LEMMA CutDescends ==
    ASSUME NEW nx, NEW B, Links(nx, B), NEW q \in B, NEW p \in B, nx[q] = p, p # InitPid,
           NEW rank \in [Pids -> Nat], Descends(rank, nx)
    PROVE  Descends(rank, Cut(nx, q, p))
  <1>1. nx[p] \in B /\ nx[p] # NoPid /\ nx[p] \in Pids /\ q \in Pids /\ p \in Pids /\ nx[q] # NoPid
    BY DEF Links, Leads
  <1>2. \A x \in Pids : Cut(nx, q, p)[x] = IF x = q THEN nx[p] ELSE nx[x]
    BY <1>1 DEF Links, Cut
  <1>3. rank[nx[p]] < rank[p]
    BY <1>1 DEF Descends
  <1>4. q # InitPid => rank[nx[p]] < rank[q]
    <2>1. q # InitPid => rank[p] < rank[q]
      BY <1>1 DEF Descends
    <2> QED BY <1>1, <1>3, <2>1
  <1> QED BY <1>2, <1>4 DEF Descends

\* What removeProcess finds: the first slot after current that is pid.
Found(nx, card, pid, i) ==
    /\ i \in 0 .. card - 1
    /\ walk(nx, current)[i + 1] = pid
    /\ \A j \in 0 .. i - 1 : walk(nx, current)[j + 1] # pid

\* The lists with the slots of B; cut are those that were cut out.
Rings(B) == {r \in [nx : [Pids -> Pids \cup {NoPid}], card : Int, cut : SUBSET B] :
                Links(r.nx, B) /\ r.card =< N}

\* The list ring without the slot p, which q led to.
CutOut(ring, q, p) ==
    [nx |-> Cut(ring.nx, q, p), card |-> ring.card - 1, cut |-> ring.cut \cup {p}]

\* removeProcess leaves the list alone, when pid is none of the slots it visits, or
\* cuts out the first slot that is pid; with a negative counter it cuts out the slot
\* behind current, whoever that is.
LEMMA RemoveIs ==
    ASSUME NEW ring, NEW B, ring \in Rings(B), NEW pid
    PROVE  LET w == walk(ring.nx, current)
           IN \/ /\ removeProcess(ring, pid) = ring
                 /\ \A i \in 0 .. ring.card - 1 : w[i + 1] # pid
              \/ \E i \in 0 .. ring.card - 1 :
                   /\ Found(ring.nx, ring.card, pid, i)
                   /\ removeProcess(ring, pid) = CutOut(ring, w[i], pid)
              \/ /\ ring.card < 0
                 /\ removeProcess(ring, pid) = CutOut(ring, w[0], w[1])
  <1> DEFINE nx == ring.nx
             card == ring.card
             w == walk(nx, current)
             found == {i \in 0 .. card - 1 : w[i + 1] = pid}
             i == SearchLength(nx, card, pid)
             after == CutOut(ring, w[i], w[i + 1])
  <1>0. card \in Int
    BY DEF Rings
  <1>1. removeProcess(ring, pid) = IF i = card THEN ring ELSE after
    BY DEF removeProcess, CutOut, Cut
  <1>2. i = CASE found # {} -> CHOOSE k \in found : \A j \in found : k =< j
              [] found = {} /\ card < 0  -> 0
              [] found = {} /\ card >= 0 -> card
    BY DEF SearchLength
  <1> HIDE DEF i, after, card
  <1>3. CASE found = {}
    <2>1. \A k \in 0 .. card - 1 : w[k + 1] # pid
      BY <1>3
    <2>2. CASE card >= 0
      <3>1. ~(card < 0) /\ i = card
        BY <1>0, <1>2, <1>3, <2>2
      <3>2. removeProcess(ring, pid) = ring
        BY <1>1, <3>1
      <3> QED BY <2>1, <3>2 DEF card
    <2>3. CASE card < 0
      <3>1. ~(card >= 0) /\ card # 0
        BY <1>0, <2>3
      <3>2. i = 0
        BY <1>2, <1>3, <2>3, <3>1
      <3>3. removeProcess(ring, pid) = CutOut(ring, w[0], w[1])
        BY <1>1, <3>1, <3>2 DEF after
      <3> QED BY <2>3, <3>3 DEF card
    <2> QED BY <1>0, <2>2, <2>3
  <1>4. CASE found # {}
    <2>1. found \in SUBSET Nat
      OBVIOUS
    <2>2. \E k \in found : \A j \in found : k =< j
      <3> HIDE DEF found
      <3> QED BY <1>4, <2>1, LeastExists
    <2>3. i \in found /\ \A j \in found : i =< j
      <3> HIDE DEF found
      <3>1. i = CHOOSE k \in found : \A j \in found : k =< j
        BY <1>2, <1>4
      <3> QED BY <2>2, <3>1
    <2>4. i \in 0 .. card - 1 /\ w[i + 1] = pid /\ i # card
      BY <1>0, <2>3
    <2>5. \A j \in 0 .. i - 1 : w[j + 1] # pid
      <3>1. ASSUME NEW j \in 0 .. i - 1 PROVE j \in 0 .. card - 1 /\ ~(i =< j)
        BY <1>0, <2>4
      <3> QED BY <2>3, <3>1
    <2>6. removeProcess(ring, pid) = CutOut(ring, w[i], pid)
      BY <1>1, <2>4 DEF after
    <2>7. Found(nx, card, pid, i)
      BY <2>4, <2>5 DEF Found
    <2> QED BY <2>4, <2>6, <2>7 DEF card
  <1> QED BY <1>3, <1>4

\* The list after has the slots of ring, and an order of its links unless init was cut
\* out; the counter does not grow.
Kept(after, ring, B) ==
    /\ after \in Rings(B)
    /\ after.card =< ring.card
    /\ InitPid \notin after.cut =>
         /\ InitPid \notin ring.cut
         /\ \A rank \in [Pids -> Nat] : Descends(rank, ring.nx) => Descends(rank, after.nx)

\* A list without one of its slots.
LEMMA CutOutKeeps ==
    ASSUME NEW B, NEW ring \in Rings(B), NEW q \in B, NEW p \in B, ring.nx[q] = p
    PROVE  Kept(CutOut(ring, q, p), ring, B)
  <1> DEFINE nx2 == Cut(ring.nx, q, p)
             after == [nx |-> nx2, card |-> ring.card - 1, cut |-> ring.cut \cup {p}]
  <1>1. /\ Links(ring.nx, B) /\ ring.card \in Int /\ ring.card =< N
        /\ ring.cut \in SUBSET B
    BY DEF Rings
  <1>2. Links(nx2, B)
    BY <1>1, CutLinks
  <1>3. \A rank \in [Pids -> Nat] :
          p # InitPid /\ Descends(rank, ring.nx) => Descends(rank, nx2)
    BY <1>1, CutDescends
  <1>4. nx2 \in [Pids -> Pids \cup {NoPid}]
    BY <1>2 DEF Links
  <1>5. ring.card - 1 \in Int /\ ring.card - 1 =< ring.card /\ ring.card - 1 =< N
    BY <1>1, HopsAre
  <1>6. ring.cut \cup {p} \in SUBSET B
    BY <1>1
  <1> HIDE DEF nx2
  <1>7. after \in Rings(B)
    BY <1>2, <1>4, <1>5, <1>6 DEF Rings
  <1>8. /\ after.nx = nx2 /\ after.card = ring.card - 1
        /\ InitPid \notin after.cut => p # InitPid /\ InitPid \notin ring.cut
    OBVIOUS
  <1> HIDE DEF after
  <1>9. Kept(after, ring, B)
    BY <1>3, <1>5, <1>7, <1>8 DEF Kept
  <1> QED BY <1>9 DEF CutOut, after, nx2

\* So removeProcess keeps the slots, and an order of the links unless it cuts init out.
LEMMA RemoveKeeps ==
    ASSUME NEW B, current \in B, NEW ring \in Rings(B), NEW pid \in B
    PROVE  Kept(removeProcess(ring, pid), ring, B)
  <1> DEFINE w == walk(ring.nx, current)
             after == removeProcess(ring, pid)
  <1>1. Leads(ring.nx, B) /\ ring.card \in Int /\ ring.card =< N
    BY DEF Rings, Links
  <1>2. \A i \in 0 .. N : w[i] \in B /\ w[i + 1] = ring.nx[w[i]]
    <2>1. \A i \in 0 .. N : i \in Hops
      BY HopsAre
    <2> QED BY <1>1, <2>1, WalkIs
  <1>3. \/ after = ring
        \/ \E i \in 0 .. ring.card - 1 :
             w[i + 1] = pid /\ after = CutOut(ring, w[i], pid)
        \/ after = CutOut(ring, w[0], w[1])
    BY RemoveIs DEF Found
  <1> HIDE DEF w, after
  <1>4. CASE after = ring
    <2>1. Kept(ring, ring, B)
      BY <1>1 DEF Kept
    <2> QED BY <1>4, <2>1 DEF after
  <1>5. CASE \E i \in 0 .. ring.card - 1 :
               w[i + 1] = pid /\ after = CutOut(ring, w[i], pid)
    <2>1. PICK i \in 0 .. ring.card - 1 : w[i + 1] = pid /\ after = CutOut(ring, w[i], pid)
      BY <1>5
    <2>2. i \in 0 .. N
      BY <1>1, HopsAre
    <2>3. w[i] \in B /\ ring.nx[w[i]] = pid
      BY <1>2, <2>1, <2>2
    <2>4. Kept(CutOut(ring, w[i], pid), ring, B)
      BY <2>3, CutOutKeeps
    <2> QED BY <2>1, <2>4 DEF after
  <1>6. CASE after = CutOut(ring, w[0], w[1])
    <2>1. 0 \in 0 .. N /\ 0 + 1 = 1
      BY HopsAre
    <2>2. w[0] \in B /\ w[1] = ring.nx[w[0]]
      BY <1>2, <2>1
    <2>3. w[1] \in B
      BY <1>1, <2>2 DEF Leads
    <2>4. Kept(CutOut(ring, w[0], w[1]), ring, B)
      BY <2>2, <2>3, CutOutKeeps
    <2> QED BY <1>6, <2>4 DEF after
  <1> QED BY <1>3, <1>4, <1>5, <1>6

\* A new slot goes between current and the one behind it.
LEMMA AddIs ==
    ASSUME NEW nx, NEW B, Links(nx, B), current \in B, NEW p \in Pids \ B
    PROVE  \A x \in Pids : addProcess(nx, p)[x] = IF x = current THEN p
                                                  ELSE IF x = p THEN nx[current] ELSE nx[x]
  <1>1. current \in Pids /\ current # p /\ nx \in [Pids -> Pids \cup {NoPid}]
    BY DEF Links, Leads
  <1> QED BY <1>1 DEF addProcess

\* A new slot and the links to and from it lead to slots again.
LEMMA AddLinks ==
    ASSUME NEW nx, NEW B, Links(nx, B), current \in B, NEW p \in Pids \ B
    PROVE  Links(addProcess(nx, p), B \cup {p})
  <1>1. /\ current \in Pids /\ current # p /\ nx[current] \in B /\ B \subseteq Pids /\ p # NoPid
        /\ nx \in [Pids -> Pids \cup {NoPid}]
        /\ \A x \in B : nx[x] \in B /\ nx[x] # NoPid
        /\ \A x \in Pids \ B : nx[x] = NoPid
    BY SchedulerAssumption DEF Links, Leads
  <1>2. addProcess(nx, p) \in [Pids -> Pids \cup {NoPid}]
    BY <1>1 DEF addProcess
  <1>3. nx[current] # NoPid
    BY <1>1, SchedulerAssumption
  <1>4. Leads(addProcess(nx, p), B \cup {p})
    BY <1>1, AddIs DEF Leads
  <1>5. \A x \in Pids : addProcess(nx, p)[x] # NoPid <=> x \in B \cup {p}
    BY <1>1, <1>3, AddIs
  <1> QED BY <1>1, <1>2, <1>4, <1>5 DEF Links

\* The order rank2 of the slots of B agrees with rank.
Agrees(rank2, rank, B) == \A x, y \in B : rank[x] < rank[y] => rank2[x] < rank2[y]

\* There is room for the new slot in an order of the links.
LEMMA AddDescends ==
    ASSUME NEW nx, NEW B, Links(nx, B), current \in B, NEW p \in Pids \ B,
           NEW rank \in [Pids -> Nat], Descends(rank, nx), InitPid \in B
    PROVE  \E rank2 \in [Pids -> Nat] : Descends(rank2, addProcess(nx, p)) /\ Agrees(rank2, rank, B)
  <1> DEFINE mid == IF current = InitPid THEN 2 * rank[nx[current]] + 1 ELSE 2 * rank[current] - 1
             rank2 == [x \in Pids |-> IF x = p THEN mid ELSE 2 * rank[x]]
  <1>1. /\ current \in Pids /\ current # p /\ nx[current] \in B /\ B \subseteq Pids
        /\ \A x \in B : nx[x] \in B /\ nx[x] # NoPid
        /\ \A x \in Pids \ B : nx[x] = NoPid
    BY SchedulerAssumption DEF Links, Leads
  <1>2. rank[nx[current]] \in Nat /\ rank[current] \in Nat
    BY <1>1
  <1>3. current # InitPid => rank[nx[current]] < rank[current]
    BY <1>1 DEF Descends
  <1>4. /\ mid \in Nat /\ 2 * rank[nx[current]] < mid
        /\ current # InitPid => mid < 2 * rank[current]
    BY <1>2, <1>3
  <1> HIDE DEF mid
  <1>5. rank2 \in [Pids -> Nat]
    BY <1>4
  <1>6. rank2[p] = mid /\ \A x \in B : rank2[x] = 2 * rank[x]
    BY <1>1
  <1> HIDE DEF rank2
  <1>7. Agrees(rank2, rank, B)
    <2>1. ASSUME NEW x \in B, NEW y \in B, rank[x] < rank[y] PROVE rank2[x] < rank2[y]
      <3>1. rank[x] \in Nat /\ rank[y] \in Nat
        BY <1>1
      <3> QED BY <1>6, <2>1, <3>1
    <2> QED BY <2>1 DEF Agrees
  <1> DEFINE a == addProcess(nx, p)
  <1>8. ASSUME NEW x \in Pids \ {InitPid}, a[x] # NoPid PROVE rank2[a[x]] < rank2[x]
    <2>1. a[x] = IF x = current THEN p ELSE IF x = p THEN nx[current] ELSE nx[x]
      BY AddIs
    <2> HIDE DEF a
    <2>2. CASE x = current
      BY <1>1, <1>4, <1>6, <1>8, <2>1, <2>2
    <2>3. CASE x = p
      BY <1>1, <1>4, <1>6, <2>1, <2>3
    <2>4. CASE x # current /\ x # p
      <3>1. a[x] = nx[x] /\ x \in B /\ nx[x] \in B
        BY <1>1, <1>8, <2>1, <2>4
      <3>2. rank[nx[x]] < rank[x] /\ rank[nx[x]] \in Nat /\ rank[x] \in Nat
        BY <1>1, <1>8, <3>1 DEF Descends
      <3> QED BY <1>6, <3>1, <3>2
    <2> QED BY <2>2, <2>3, <2>4
  <1>9. Descends(rank2, a)
    BY <1>8 DEF Descends
  <1> QED BY <1>5, <1>7, <1>9

-----------------------------------------------------------------------------
(* The loop of killAllExceptCurrent.                                       *)

\* The loop of killAllExceptCurrent: where it is over or meets init nothing is removed.
Spared(ring, i) ==
    LET w == walk(ring.nx, current)
    IN w[i] = InitPid \/ \E k \in 1 .. i : w[k] = current

KillRun(ring, r) ==
    /\ r[0] = ring
    /\ \A i \in 1 .. N + 1 :
         r[i] = IF Spared(ring, i) THEN r[i - 1] ELSE removeProcess(r[i - 1], walk(ring.nx, current)[i])

\* killAllExceptCurrent is its loop: the last list of a run of it.
LEMMA KillIs ==
    ASSUME NEW B, current \in B, NEW ring \in Rings(B)
    PROVE  \E r \in [Hops -> Rings(B)] : KillRun(ring, r) /\ killAllExceptCurrent(ring) = r[N + 1]
  <1> DEFINE w == walk(ring.nx, current)
             S == Rings(B)
             step == [i \in 1 .. N + 1 |-> [x \in S |-> IF Spared(ring, i) THEN x
                                                        ELSE removeProcess(x, w[i])]]
             Eq(r) == r = [i \in Hops |->
                         IF i = 0 \/ \E k \in 1 .. i : w[k] = current
                         THEN IF i = 0 THEN ring ELSE r[i - 1]
                         ELSE IF w[i] = InitPid THEN r[i - 1] ELSE removeProcess(r[i - 1], w[i])]
  <1>0. N \in Nat /\ N + 1 \in Nat /\ Hops = 0 .. N + 1
    BY HopsAre
  <1>1. Leads(ring.nx, B)
    BY DEF Rings, Links
  <1>2. \A i \in Hops : w[i] \in B
    BY <1>1, WalkIs
  <1>3. step \in [1 .. N + 1 -> [S -> S]]
    <2>1. ASSUME NEW i \in 1 .. N + 1, NEW x \in S
          PROVE  (IF Spared(ring, i) THEN x ELSE removeProcess(x, w[i])) \in S
      <3>1. w[i] \in B
        BY <1>0, <1>2
      <3>2. removeProcess(x, w[i]) \in S
        BY <3>1, RemoveKeeps DEF Kept
      <3> QED BY <3>2
    <2> QED BY <2>1
  <1>4. \A i \in 1 .. N + 1, x \in S :
           step[i][x] = IF Spared(ring, i) THEN x ELSE removeProcess(x, w[i])
    OBVIOUS
  <1> HIDE DEF step, S
  <1>5. PICK f \in [0 .. N + 1 -> S] : IsChain(f, N + 1, ring, step)
    BY <1>0, <1>3, ChainExists DEF S
  <1>6. \A i \in 1 .. N + 1 :
           f[i] = IF Spared(ring, i) THEN f[i - 1] ELSE removeProcess(f[i - 1], w[i])
    <2>1. ASSUME NEW i \in 1 .. N + 1
          PROVE  f[i] = IF Spared(ring, i) THEN f[i - 1] ELSE removeProcess(f[i - 1], w[i])
      <3>1. i \in 0 .. N + 1 /\ i # 0 /\ i - 1 \in 0 .. N + 1
        BY <1>0
      <3>2. f[i] = step[i][f[i - 1]] /\ f[i - 1] \in S
        BY <1>5, <3>1 DEF IsChain
      <3> QED BY <1>4, <3>2
    <2> QED BY <2>1
  <1>7. f[0] = ring
    <2>1. 0 \in 0 .. N + 1
      BY <1>0
    <2> QED BY <1>5, <2>1 DEF IsChain
  <1>8. Eq(f)
    <2>1. ASSUME NEW i \in Hops
          PROVE  f[i] = IF i = 0 \/ \E k \in 1 .. i : w[k] = current
                        THEN IF i = 0 THEN ring ELSE f[i - 1]
                        ELSE IF w[i] = InitPid THEN f[i - 1] ELSE removeProcess(f[i - 1], w[i])
      <3>1. CASE i = 0
        BY <1>7, <3>1
      <3>2. CASE i # 0
        <4>1. i \in 1 .. N + 1
          BY <1>0, <3>2
        <4> QED BY <1>6, <3>2, <4>1 DEF Spared
      <3> QED BY <3>1, <3>2
    <2>2. f = [i \in Hops |-> f[i]]
      BY <1>0
    <2> HIDE DEF w
    <2> QED BY <2>1, <2>2
  <1>9. killAllExceptCurrent(ring) = (CHOOSE r : Eq(r))[N + 1]
    BY DEF killAllExceptCurrent, N
  <1> DEFINE r == CHOOSE x : Eq(x)
  <1>10. Eq(r)
    <2> HIDE DEF Eq
    <2> QED BY <1>8
  <1> HIDE DEF r
  <1>11. r[0] = ring
    <2>1. 0 \in Hops
      BY <1>0
    <2> QED BY <1>10, <2>1
  <1>12. \A i \in 1 .. N + 1 :
           r[i] = IF Spared(ring, i) THEN r[i - 1] ELSE removeProcess(r[i - 1], w[i])
    <2>1. ASSUME NEW i \in 1 .. N + 1
          PROVE  r[i] = IF Spared(ring, i) THEN r[i - 1] ELSE removeProcess(r[i - 1], w[i])
      <3>1. i \in Hops /\ i # 0
        BY <1>0
      <3> QED BY <1>10, <3>1 DEF Spared
    <2> QED BY <2>1
  <1>13. \A i \in Hops : r[i] \in Rings(B)
    <2> DEFINE T == {i \in Hops : r[i] \in Rings(B)}
    <2>1. 0 \in T
      BY <1>0, <1>11
    <2>2. ASSUME NEW i \in 0 .. (N + 1) - 1, i \in T PROVE i + 1 \in T
      <3>1. i + 1 \in 1 .. N + 1 /\ (i + 1) - 1 = i /\ i + 1 \in Hops
        BY <1>0
      <3>2. r[i + 1] = IF Spared(ring, i + 1) THEN r[i] ELSE removeProcess(r[i], w[i + 1])
        BY <1>12, <3>1
      <3>3. r[i] \in Rings(B) /\ w[i + 1] \in B
        BY <1>2, <2>2, <3>1
      <3>4. removeProcess(r[i], w[i + 1]) \in Rings(B)
        BY <3>3, RemoveKeeps DEF Kept
      <3> QED BY <3>1, <3>2, <3>3, <3>4
    <2> HIDE DEF T
    <2>3. \A i \in 0 .. N + 1 : i \in T
      BY <1>0, <2>1, <2>2, CountingUp
    <2> QED BY <1>0, <2>3 DEF T
  <1>14. r = [i \in Hops |-> r[i]]
    BY <1>10
  <1>15. r \in [Hops -> Rings(B)]
    BY <1>13, <1>14
  <1>16. KillRun(ring, r)
    BY <1>11, <1>12 DEF KillRun
  <1>17. killAllExceptCurrent(ring) = r[N + 1]
    BY <1>9 DEF r
  <1> QED BY <1>15, <1>16, <1>17

\* killAllExceptCurrent too keeps the slots and an order of the links.
LEMMA KillKeeps ==
    ASSUME NEW B, current \in B, NEW ring \in Rings(B)
    PROVE  Kept(killAllExceptCurrent(ring), ring, B)
  <1> DEFINE w == walk(ring.nx, current)
  <1>1. PICK r \in [Hops -> Rings(B)] : KillRun(ring, r) /\ killAllExceptCurrent(ring) = r[N + 1]
    BY KillIs
  <1>2. N \in Nat /\ Hops = 0 .. N + 1
    BY HopsAre
  <1>3. \A i \in Hops : w[i] \in B
    BY WalkIs DEF Rings, Links
  <1> HIDE DEF w
  <1> DEFINE T == {i \in Hops : Kept(r[i], ring, B)}
  <1>4. \A i \in Hops : r[i] \in Rings(B) /\ r[i].card \in Int
    BY DEF Rings
  <1>5. 0 \in T
    <2>1. r[0] = ring /\ 0 \in Hops
      BY <1>1, <1>2 DEF KillRun
    <2>2. Kept(ring, ring, B)
      BY DEF Kept, Rings
    <2> QED BY <2>1, <2>2
  <1>6. ASSUME NEW i \in 0 .. (N + 1) - 1, i \in T PROVE i + 1 \in T
    <2>1. i \in Hops /\ i + 1 \in Hops /\ i + 1 \in 1 .. N + 1 /\ (i + 1) - 1 = i
      BY <1>2
    <2>2. r[i + 1] = IF Spared(ring, i + 1) THEN r[i] ELSE removeProcess(r[i], w[i + 1])
      BY <1>1, <2>1 DEF KillRun, w
    <2>3. Kept(r[i], ring, B)
      BY <1>6
    <2>4. CASE Spared(ring, i + 1)
      BY <2>1, <2>2, <2>3, <2>4
    <2>5. CASE ~Spared(ring, i + 1)
      <3>1. Kept(removeProcess(r[i], w[i + 1]), r[i], B)
        BY <1>3, <1>4, <2>1, RemoveKeeps
      <3>2. Kept(r[i + 1], r[i], B)
        BY <2>2, <2>5, <3>1
      <3>3. r[i + 1].card =< ring.card
        <4>1. ring.card \in Int /\ r[i].card \in Int /\ r[i + 1].card \in Int
          BY <1>4, <2>1 DEF Rings
        <4>2. r[i].card =< ring.card /\ r[i + 1].card =< r[i].card
          BY <2>3, <3>2 DEF Kept
        <4> QED BY <4>1, <4>2
      <3>4. Kept(r[i + 1], ring, B)
        BY <2>3, <3>2, <3>3 DEF Kept
      <3> QED BY <2>1, <3>4
    <2> QED BY <2>4, <2>5
  <1> HIDE DEF T
  <1>7. N + 1 \in Nat
    BY <1>2
  <1>8. \A i \in 0 .. N + 1 : i \in T
    BY <1>5, <1>6, <1>7, CountingUp
  <1>9. N + 1 \in T /\ N + 1 \in Hops
    BY <1>2, <1>8
  <1> QED BY <1>1, <1>9 DEF T

-----------------------------------------------------------------------------
(* The parts of LinksInv.                                                  *)

\* What changing states does not touch: init can run.
StatesOK(st) == st \in [Pids -> ProcessStates] /\ st[InitPid] \in {"READY", "RUNNING"}

\* schedule stops at a slot of the list, and leaves init able to run.
LEMMA ScheduleKeeps ==
    ASSUME NEW nx, NEW B, Links(nx, B), current \in B, NEW st, StatesOK(st), schedule(nx, st)
    PROVE  current' \in B /\ StatesOK(state')
  <1> DEFINE d == IF st[current] = "RUNNING" THEN [st EXCEPT ![current] = "READY"] ELSE st
             w == walk(nx, current)
  <1>0. current \in Pids
    BY DEF Links
  <1>1. d \in [Pids -> ProcessStates] /\ d[InitPid] \in {"READY", "RUNNING"}
    BY <1>0, SchedulerAssumption DEF StatesOK, ProcessStates
  <1>2. PICK j \in Hops \ {0} : current' = w[j] /\ state' = [d EXCEPT ![w[j]] = "RUNNING"]
    BY DEF schedule
  <1>3. w[j] \in B
    BY WalkIs DEF Links
  <1>4. w[j] \in Pids
    BY <1>3 DEF Links
  <1> HIDE DEF d, w
  <1>5. state' \in [Pids -> ProcessStates] /\ state'[InitPid] \in {"READY", "RUNNING"}
    BY <1>1, <1>2, <1>4, SchedulerAssumption DEF ProcessStates
  <1> QED BY <1>2, <1>3, <1>5 DEF StatesOK

\* A returning process by itself: its locals lead to slots, and lead down.
LocalsType == [pc : Points, prevSlot : Pids \cup {NoPid}, slotToRemove : Pids \cup {NoPid},
               link : Pids \cup {NoPid}, i : Nat, reg : Int]

LocalsKnown(e, B) ==
    /\ e \in LocalsType
    /\ e.pc \in {"search", "advance", "check", "follow", "unlink"} =>
         e.prevSlot \in B /\ e.slotToRemove \in B
    /\ e.pc = "unlink" => e.link \in B
    /\ e.reg =< Cardinality(B)

LocalsDescend(e, rank) ==
    /\ e.pc \in {"search", "advance", "check", "follow"} =>
         (e.prevSlot # InitPid => rank[e.slotToRemove] < rank[e.prevSlot])
    /\ e.pc = "unlink" =>
         (e.prevSlot # InitPid /\ e.slotToRemove # InitPid => rank[e.link] < rank[e.prevSlot])

\* The list, its counter and current.
ListOK(nx, B, card, cur) == Links(nx, B) /\ InitPid \in B /\ card \in Int /\ card =< Cardinality(B)
                            /\ cur \in B

\* LinksInv read process by process.
ByParts ==
    /\ ListOK(next, Born, cardinal_processes, current)
    /\ StatesOK(state)
    /\ exit \in [Pids -> LocalsType]
    /\ \A p \in Pids : LocalsKnown(exit[p], Born)
    /\ InitPid \notin ended =>
         \E rank \in [Pids -> Nat] :
           Descends(rank, next) /\ \A p \in Pids : LocalsDescend(exit[p], rank)

\* The invariant says of each returning process separately that its locals lead to
\* slots and go down.
LEMMA InvIs == LinksInv <=> ByParts
  <1>1. Born = {p \in Pids : next[p] # NoPid} /\ Born \subseteq Pids
    BY DEF Born
  <1>2. \A rank : ExitsDescend(rank) <=> \A p \in Pids : LocalsDescend(exit[p], rank)
    BY DEF ExitsDescend, LocalsDescend
  <1>3. (LinksKnown /\ exit \in [Pids -> LocalsType] /\ \A p \in Pids : exit[p].reg =< Cardinality(Born))
          <=> (/\ exit \in [Pids -> LocalsType]
               /\ \A p \in Pids : LocalsKnown(exit[p], Born)
               /\ \A p \in Born : next[p] \in Born)
    BY DEF LinksKnown, LocalsKnown
  <1>4. SlotsTyped <=>
          /\ state \in [Pids -> ProcessStates]
          /\ next \in [Pids -> Pids \cup {NoPid}]
          /\ current \in Born /\ InitPid \in Born
          /\ cardinal_processes \in Int
          /\ exit \in [Pids -> LocalsType]
    BY DEF SlotsTyped, LocalsType
  <1>5. Links(next, Born) <=> next \in [Pids -> Pids \cup {NoPid}] /\ \A p \in Born : next[p] \in Born
    BY <1>1 DEF Links, Leads
  <1>6. CountBounded <=> /\ cardinal_processes =< Cardinality(Born)
                         /\ \A p \in Pids : exit[p].reg =< Cardinality(Born)
    BY DEF CountBounded
  <1> DEFINE Down == \E rank \in [Pids -> Nat] : Descends(rank, next) /\ ExitsDescend(rank)
             Down2 == \E rank \in [Pids -> Nat] :
                        Descends(rank, next) /\ \A p \in Pids : LocalsDescend(exit[p], rank)
  <1>7. Down <=> Down2
    BY <1>2
  <1> HIDE DEF Down2
  <1>8. LinksInv <=> /\ SlotsTyped /\ LinksKnown /\ CountBounded
                     /\ state[InitPid] \in {"READY", "RUNNING"}
                     /\ InitPid \notin ended => Down
    BY DEF LinksInv
  <1> HIDE DEF Down
  <1>9. LinksInv <=> /\ ListOK(next, Born, cardinal_processes, current)
                     /\ StatesOK(state)
                     /\ exit \in [Pids -> LocalsType]
                     /\ \A p \in Pids : LocalsKnown(exit[p], Born)
                     /\ InitPid \notin ended => Down2
    BY <1>3, <1>4, <1>5, <1>6, <1>7, <1>8 DEF ListOK, StatesOK
  <1> QED BY <1>9 DEF Down2, ByParts

\* Every order of the links nx has one of the links nx2 that agrees with it on B.
RanksKept(nx2, nx, B) ==
    \A rank \in [Pids -> Nat] : Descends(rank, nx) =>
        \E rank2 \in [Pids -> Nat] : Descends(rank2, nx2) /\ Agrees(rank2, rank, B)

\* The links stay, or change and keep their orders.
LEMMA RanksKeptSame ==
    ASSUME NEW nx, NEW B, NEW nx2,
           \A rank \in [Pids -> Nat] : Descends(rank, nx) => Descends(rank, nx2)
    PROVE  RanksKept(nx2, nx, B)
  BY DEF RanksKept, Agrees

\* Slots are a finite set, and adding one makes one more.
LEMMA BornCount ==
    ASSUME NEW B, B \subseteq Pids
    PROVE  /\ IsFiniteSet(B) /\ Cardinality(B) \in Nat /\ Cardinality(B) =< N
           /\ \A p \in Pids \ B : Cardinality(B \cup {p}) = Cardinality(B) + 1
  <1>1. IsFiniteSet(B) /\ Cardinality(B) =< N
    BY SchedulerAssumption, FS_Subset DEF N
  <1>2. Cardinality(B) \in Nat
    BY <1>1, FS_CardinalityType
  <1>3. ASSUME NEW p \in Pids \ B PROVE Cardinality(B \cup {p}) = Cardinality(B) + 1
    BY <1>1, FS_AddElement
  <1> QED BY <1>1, <1>2, <1>3

\* A step that leaves the returning processes where they are keeps the invariant, when
\* it keeps the list and its orders.
LEMMA SameExits ==
    ASSUME LinksInv, NEW B2, Born \subseteq B2, exit' = exit,
           ListOK(next', B2, cardinal_processes', current'), StatesOK(state'),
           InitPid \notin ended' => InitPid \notin ended /\ RanksKept(next', next, Born)
    PROVE  LinksInv'
  <1>1. /\ exit \in [Pids -> LocalsType]
        /\ \A p \in Pids : LocalsKnown(exit[p], Born)
        /\ InitPid \notin ended =>
             \E rank \in [Pids -> Nat] :
               Descends(rank, next) /\ \A p \in Pids : LocalsDescend(exit[p], rank)
    BY InvIs DEF ByParts
  <1>2. Born' = B2 /\ B2 \subseteq Pids
    BY DEF ListOK, Links, Born
  <1>3. Cardinality(Born) \in Nat /\ Cardinality(B2) \in Nat /\ Cardinality(Born) =< Cardinality(B2)
    <2>1. Born \subseteq Pids /\ IsFiniteSet(B2)
      BY <1>2, BornCount
    <2>2. Cardinality(Born) =< Cardinality(B2)
      BY <2>1, FS_Subset
    <2> QED BY <1>2, <2>1, <2>2, BornCount
  <1>4. ASSUME NEW p \in Pids PROVE LocalsKnown(exit[p], B2)
    <2>1. LocalsKnown(exit[p], Born)
      BY <1>1
    <2>2. exit[p].reg \in Int
      BY <2>1 DEF LocalsKnown, LocalsType
    <2> QED BY <1>3, <2>1, <2>2 DEF LocalsKnown
  <1>5. ASSUME InitPid \notin ended'
        PROVE  \E rank \in [Pids -> Nat] :
                 Descends(rank, next') /\ \A p \in Pids : LocalsDescend(exit[p], rank)
    <2>1. PICK rank \in [Pids -> Nat] :
               Descends(rank, next) /\ \A p \in Pids : LocalsDescend(exit[p], rank)
      BY <1>1, <1>5
    <2>2. PICK rank2 \in [Pids -> Nat] : Descends(rank2, next') /\ Agrees(rank2, rank, Born)
      BY <1>5, <2>1 DEF RanksKept
    <2>3. ASSUME NEW p \in Pids PROVE LocalsDescend(exit[p], rank2)
      <3>1. LocalsDescend(exit[p], rank) /\ LocalsKnown(exit[p], Born)
        BY <1>1, <2>1
      <3> QED BY <2>2, <3>1 DEF LocalsDescend, LocalsKnown, Agrees
    <2> QED BY <2>2, <2>3
  <1>6. /\ ListOK(next', Born', cardinal_processes', current')
        /\ StatesOK(state')
        /\ exit' \in [Pids -> LocalsType]
        /\ \A p \in Pids : LocalsKnown(exit'[p], Born')
        /\ InitPid \notin ended' =>
             \E rank \in [Pids -> Nat] :
               Descends(rank, next') /\ \A p \in Pids : LocalsDescend(exit'[p], rank)
    <2>1. exit' \in [Pids -> LocalsType] /\ \A p \in Pids : LocalsKnown(exit'[p], Born')
      BY <1>1, <1>2, <1>4
    <2>2. InitPid \notin ended' =>
             \E rank \in [Pids -> Nat] :
               Descends(rank, next') /\ \A p \in Pids : LocalsDescend(exit'[p], rank)
      BY <1>5
    <2> QED BY <1>2, <2>1, <2>2
  <1>7. LinksInv' <=> ByParts'
    BY InvIs, PTL
  <1> QED BY <1>6, <1>7 DEF ByParts

\* current becomes p, whose locals become e: the function exit afterwards.
Moved(p, e) == [exit EXCEPT ![p] = e]

\* A step of the returning process that is current keeps the invariant, when its locals
\* still lead to slots and downwards, and so do the links.
LEMMA OneExit ==
    ASSUME LinksInv, NEW e, exit' = Moved(current, e), LocalsKnown(e, Born),
           ListOK(next', Born, cardinal_processes', current'), StatesOK(state'),
           InitPid \in ended => InitPid \in ended',
           InitPid \notin ended' =>
             \A rank \in [Pids -> Nat] :
               Descends(rank, next) /\ LocalsDescend(exit[current], rank)
                 => Descends(rank, next') /\ LocalsDescend(e, rank)
    PROVE  LinksInv'
  <1>1. /\ exit \in [Pids -> LocalsType]
        /\ \A p \in Pids : LocalsKnown(exit[p], Born)
        /\ InitPid \notin ended =>
             \E rank \in [Pids -> Nat] :
               Descends(rank, next) /\ \A p \in Pids : LocalsDescend(exit[p], rank)
        /\ current \in Pids
    BY InvIs DEF ByParts, ListOK, Links
  <1>2. Born' = Born
    BY DEF ListOK, Links, Born
  <1>3. exit' \in [Pids -> LocalsType] /\ \A p \in Pids : exit'[p] = IF p = current THEN e ELSE exit[p]
    BY <1>1 DEF Moved, LocalsKnown
  <1>4. \A p \in Pids : LocalsKnown(exit'[p], Born')
    BY <1>1, <1>2, <1>3
  <1>5. InitPid \notin ended' =>
             \E rank \in [Pids -> Nat] :
               Descends(rank, next') /\ \A p \in Pids : LocalsDescend(exit'[p], rank)
    <2> SUFFICES ASSUME InitPid \notin ended'
                 PROVE  \E rank \in [Pids -> Nat] :
                          Descends(rank, next') /\ \A p \in Pids : LocalsDescend(exit'[p], rank)
      OBVIOUS
    <2>1. PICK rank \in [Pids -> Nat] :
               Descends(rank, next) /\ \A p \in Pids : LocalsDescend(exit[p], rank)
      BY <1>1
    <2>2. LocalsDescend(exit[current], rank)
      BY <1>1, <2>1
    <2>3. Descends(rank, next') /\ LocalsDescend(e, rank)
      BY <2>1, <2>2
    <2>4. \A p \in Pids : LocalsDescend(exit'[p], rank)
      BY <1>3, <2>1, <2>3
    <2> QED BY <2>3, <2>4
  <1>6. LinksInv' <=> ByParts'
    BY InvIs, PTL
  <1> QED BY <1>2, <1>3, <1>4, <1>5, <1>6 DEF ByParts

\* What the invariant says of the list.
LEMMA InvFacts ==
    ASSUME LinksInv
    PROVE  /\ ListOK(next, Born, cardinal_processes, current)
           /\ StatesOK(state)
           /\ exit \in [Pids -> LocalsType]
           /\ \A p \in Pids : LocalsKnown(exit[p], Born)
           /\ Born \subseteq Pids /\ current \in Pids
           /\ Ring \in Rings(Born) /\ Ring.nx = next /\ Ring.card = cardinal_processes
           /\ Ring.cut = {}
  <1>1. /\ ListOK(next, Born, cardinal_processes, current)
        /\ StatesOK(state)
        /\ exit \in [Pids -> LocalsType]
        /\ \A p \in Pids : LocalsKnown(exit[p], Born)
    BY InvIs DEF ByParts
  <1>2. Born \subseteq Pids /\ current \in Pids
    BY <1>1 DEF ListOK, Links
  <1>3. Cardinality(Born) \in Nat /\ Cardinality(Born) =< N /\ N \in Nat
    BY <1>2, BornCount, HopsAre
  <1>4. cardinal_processes \in Int /\ cardinal_processes =< N
    BY <1>1, <1>3 DEF ListOK
  <1>5. Ring \in Rings(Born) /\ Ring.nx = next /\ Ring.card = cardinal_processes /\ Ring.cut = {}
    BY <1>1, <1>4 DEF ListOK, Links, Rings, Ring
  <1> QED BY <1>1, <1>2, <1>5

-----------------------------------------------------------------------------
(* System calls, the timer and the keyboard keep the links in order.       *)

\* A change of states, and schedule, keep the invariant.
LEMMA OnlyStates ==
    ASSUME LinksInv, UNCHANGED <<next, cardinal_processes, exit, ended>>,
           StatesOK(state'), current' \in Born
    PROVE  LinksInv'
  <1>1. ListOK(next, Born, cardinal_processes, current)
    BY InvFacts
  <1>2. ListOK(next', Born, cardinal_processes', current')
    BY <1>1 DEF ListOK
  <1>3. RanksKept(next', next, Born)
    BY DEF RanksKept, Agrees
  <1>4. exit' = exit /\ (InitPid \in ended => InitPid \in ended') /\ Born \subseteq Born
    OBVIOUS
  <1> QED BY <1>2, <1>3, <1>4, SameExits

\* schedule on the links of the list.
LEMMA OnlySchedule ==
    ASSUME LinksInv, NEW st, StatesOK(st), schedule(next, st)
    PROVE  StatesOK(state') /\ current' \in Born
  <1>1. Links(next, Born) /\ current \in Born
    BY InvFacts DEF ListOK
  <1> QED BY <1>1, ScheduleKeeps

\* The timer keeps the invariant.
LEMMA TimerLinks ==
    ASSUME LinksInv, timerTickHandler
    PROVE  LinksInv'
  <1>1. PICK W \in SUBSET {p \in Visited : state[p] = "SLEEPING"} :
             schedule(next, [p \in Pids |-> IF p \in W THEN "READY" ELSE state[p]])
    BY DEF timerTickHandler
  <1> DEFINE st == [p \in Pids |-> IF p \in W THEN "READY" ELSE state[p]]
  <1>2. StatesOK(state)
    BY InvFacts
  <1>3. StatesOK(st)
    BY <1>2, SchedulerAssumption DEF StatesOK, ProcessStates
  <1> HIDE DEF st
  <1>4. schedule(next, st)
    BY <1>1 DEF st
  <1>5. StatesOK(state') /\ current' \in Born
    BY <1>3, <1>4, OnlySchedule
  <1>6. UNCHANGED <<next, cardinal_processes, exit, ended>>
    BY DEF timerTickHandler
  <1> QED BY <1>5, <1>6, OnlyStates

\* changeProcessState of somebody else than init.
LEMMA ChangeKeeps ==
    ASSUME StatesOK(state), NEW p \in Pids, NEW s \in ProcessStates,
           p # InitPid \/ s = "READY"
    PROVE  StatesOK(changeProcessState(state, p, s))
  BY SchedulerAssumption DEF StatesOK, changeProcessState

\* Suspending the caller keeps the invariant: init does not call.
LEMMA SuspendLinks ==
    ASSUME LinksInv, NEW s \in {"BLOCKED", "SLEEPING"}, Suspend(s)
    PROVE  LinksInv'
  <1>1. StatesOK(state) /\ current \in Pids /\ current # InitPid /\ s \in ProcessStates
    BY InvFacts DEF Suspend, Calling, ProcessStates
  <1>2. StatesOK(changeProcessState(state, current, s))
    BY <1>1, ChangeKeeps
  <1>3. schedule(next, changeProcessState(state, current, s))
    BY DEF Suspend
  <1>4. StatesOK(state') /\ current' \in Born
    BY <1>2, <1>3, OnlySchedule
  <1>5. UNCHANGED <<next, cardinal_processes, exit, ended>>
    BY DEF Suspend
  <1> QED BY <1>4, <1>5, OnlyStates

\* Waking a process keeps the invariant.
LEMMA WakeLinks ==
    ASSUME LinksInv, NEW p \in Pids, Wake(p)
    PROVE  LinksInv'
  <1>1. StatesOK(state) /\ current \in Born
    BY InvFacts DEF ListOK
  <1>2. StatesOK(changeProcessState(state, p, "READY"))
    BY <1>1, ChangeKeeps DEF ProcessStates
  <1>3. StatesOK(state') /\ current' \in Born /\ UNCHANGED <<next, cardinal_processes, exit, ended>>
    BY <1>1, <1>2 DEF Wake
  <1> QED BY <1>3, OnlyStates

\* The list ring with one slot more, behind current.
Grown(ring, p) ==
    [nx |-> addProcess(ring.nx, p), card |-> ring.card + 1, cut |-> ring.cut]

\* The new slot of a process.
LEMMA AddKeeps ==
    ASSUME NEW B, InitPid \in B, current \in B, NEW ring \in Rings(B),
           ring.card =< Cardinality(B), NEW p \in Pids \ B
    PROVE  /\ Grown(ring, p) \in Rings(B \cup {p})
           /\ Grown(ring, p).nx = addProcess(ring.nx, p)
           /\ Grown(ring, p).card = ring.card + 1
           /\ Grown(ring, p).cut = ring.cut
           /\ ring.card + 1 =< Cardinality(B \cup {p})
           /\ RanksKept(addProcess(ring.nx, p), ring.nx, B)
  <1>1. Links(ring.nx, B) /\ ring.card \in Int /\ B \subseteq Pids /\ ring.cut \in SUBSET B
    BY DEF Rings, Links
  <1>2. Links(addProcess(ring.nx, p), B \cup {p})
    BY <1>1, AddLinks
  <1>3. /\ Cardinality(B \cup {p}) = Cardinality(B) + 1 /\ Cardinality(B) \in Nat
        /\ Cardinality(B \cup {p}) =< N /\ N \in Nat
    BY <1>1, BornCount, HopsAre
  <1>4. ring.card + 1 \in Int /\ ring.card + 1 =< Cardinality(B \cup {p}) /\ ring.card + 1 =< N
    BY <1>1, <1>3
  <1>5. RanksKept(addProcess(ring.nx, p), ring.nx, B)
    <2>1. ASSUME NEW rank \in [Pids -> Nat], Descends(rank, ring.nx)
          PROVE  \E rank2 \in [Pids -> Nat] :
                   Descends(rank2, addProcess(ring.nx, p)) /\ Agrees(rank2, rank, B)
      BY <1>1, <2>1, AddDescends
    <2> QED BY <2>1 DEF RanksKept
  <1>6. addProcess(ring.nx, p) \in [Pids -> Pids \cup {NoPid}]
    BY <1>2 DEF Links
  <1>7. ring.cut \in SUBSET (B \cup {p})
    BY <1>1
  <1>8. [nx |-> addProcess(ring.nx, p), card |-> ring.card + 1, cut |-> ring.cut]
          \in Rings(B \cup {p})
    BY <1>2, <1>4, <1>6, <1>7 DEF Rings
  <1> QED BY <1>4, <1>5, <1>8 DEF Grown

\* Creating a process keeps the invariant.
LEMMA CreateLinks ==
    ASSUME LinksInv, NEW p \in Pids, createProcess(p)
    PROVE  LinksInv'
  <1>1. /\ ListOK(next, Born, cardinal_processes, current) /\ StatesOK(state)
        /\ Ring \in Rings(Born) /\ Ring.nx = next /\ Ring.card = cardinal_processes
    BY InvFacts
  <1>2. /\ p \in Pids \ Born /\ next' = addProcess(next, p)
        /\ cardinal_processes' = cardinal_processes + 1
        /\ UNCHANGED <<state, current, exit, ended>>
    BY DEF createProcess
  <1>3. InitPid \in Born /\ current \in Born /\ Ring.card =< Cardinality(Born)
    BY <1>1 DEF ListOK
  <1>4. /\ Grown(Ring, p) \in Rings(Born \cup {p})
        /\ Grown(Ring, p).nx = addProcess(Ring.nx, p)
        /\ Ring.card + 1 =< Cardinality(Born \cup {p})
        /\ RanksKept(addProcess(Ring.nx, p), Ring.nx, Born)
    BY <1>1, <1>2, <1>3, AddKeeps
  <1> DEFINE B2 == Born \cup {p}
  <1>5. Links(next', B2)
    BY <1>1, <1>2, <1>4 DEF Rings
  <1> HIDE DEF B2
  <1>6. ListOK(next', B2, cardinal_processes', current')
    BY <1>1, <1>2, <1>3, <1>4, <1>5 DEF ListOK, B2
  <1>7. RanksKept(next', next, Born)
    BY <1>1, <1>2, <1>4
  <1>8. Born \subseteq B2 /\ exit' = exit /\ StatesOK(state') /\ ended' = ended
    BY <1>1, <1>2 DEF B2
  <1> QED BY <1>6, <1>7, <1>8, SameExits

\* A removal of somebody else than init keeps the list.
LEMMA KillLinks ==
    ASSUME LinksInv, NEW p \in Pids, kill(p)
    PROVE  LinksInv'
  <1>1. /\ ListOK(next, Born, cardinal_processes, current) /\ StatesOK(state)
        /\ Ring \in Rings(Born) /\ Ring.nx = next /\ Ring.card = cardinal_processes
    BY InvFacts
  <1>2. p \in Born /\ exit' = exit /\ current \in Born /\ InitPid \in Born
    BY <1>1 DEF kill, ListOK
  <1>3. CASE p = InitPid
    <2>1. schedule(next, state) /\ UNCHANGED <<next, cardinal_processes, exit, ended>>
      BY <1>3 DEF kill
    <2>2. StatesOK(state') /\ current' \in Born
      BY <1>1, <2>1, OnlySchedule
    <2> QED BY <2>1, <2>2, OnlyStates
  <1>4. CASE p # InitPid
    <2> DEFINE ring == removeProcess(Ring, p)
    <2>1. /\ next' = ring.nx /\ cardinal_processes' = ring.card
          /\ ended' = ended \cup {p} \cup ring.cut
          /\ IF current \in ring.cut THEN schedule(ring.nx, state) ELSE UNCHANGED <<state, current>>
      BY <1>4 DEF kill
    <2>2. Kept(ring, Ring, Born)
      BY <1>1, <1>2, RemoveKeeps
    <2> HIDE DEF ring
    <2>3. Links(ring.nx, Born) /\ ring.card \in Int /\ ring.card =< cardinal_processes
      BY <1>1, <2>2 DEF Kept, Rings
    <2>4. ASSUME InitPid \notin ended' PROVE RanksKept(ring.nx, next, Born) /\ InitPid \notin ended
      <3>1. InitPid \notin ring.cut /\ InitPid \notin ended
        BY <2>1, <2>4
      <3>2. \A rank \in [Pids -> Nat] : Descends(rank, next) => Descends(rank, ring.nx)
        BY <1>1, <2>2, <3>1 DEF Kept
      <3> QED BY <3>1, <3>2, RanksKeptSame
    <2>5. StatesOK(state') /\ current' \in Born
      <3>1. CASE schedule(ring.nx, state)
        BY <1>1, <1>2, <2>3, <3>1, ScheduleKeeps
      <3>2. CASE UNCHANGED <<state, current>>
        BY <1>1, <1>2, <3>2
      <3> QED BY <2>1, <3>1, <3>2
    <2>6. Cardinality(Born) \in Nat /\ cardinal_processes \in Int /\ cardinal_processes =< Cardinality(Born)
      BY <1>1, InvFacts, BornCount DEF ListOK
    <2>7. ring.card =< Cardinality(Born)
      BY <2>3, <2>6
    <2>8. ListOK(next', Born, cardinal_processes', current')
      BY <1>2, <2>1, <2>3, <2>5, <2>7 DEF ListOK
    <2>9. InitPid \notin ended' => InitPid \notin ended /\ RanksKept(next', next, Born)
      BY <2>1, <2>4
    <2> QED BY <1>2, <2>5, <2>8, <2>9, SameExits
  <1> QED BY <1>3, <1>4

\* runC and restartSHELL: the list ring, whose orders are those of next, gets a slot,
\* and current leaves it, when it is found.
LEMMA ReplaceKeeps ==
    ASSUME LinksInv, NEW ring \in Rings(Born), ring.card =< Cardinality(Born),
           InitPid \notin ring.cut =>
             \A rank \in [Pids -> Nat] : Descends(rank, next) => Descends(rank, ring.nx),
           NEW p \in Pids \ Born, NEW asked, ReplaceCurrent(ring, p, asked)
    PROVE  LinksInv'
  <1> DEFINE B2 == Born \cup {p}
             grown == Grown(ring, p)
             after == IF current = InitPid THEN grown ELSE removeProcess(grown, current)
  <1>1. StatesOK(state) /\ InitPid \in Born /\ current \in Born
    BY InvFacts DEF ListOK
  <1>2. /\ grown \in Rings(B2) /\ ring.card + 1 =< Cardinality(B2)
        /\ grown.nx = addProcess(ring.nx, p) /\ grown.card = ring.card + 1
        /\ grown.cut = ring.cut
        /\ RanksKept(addProcess(ring.nx, p), ring.nx, Born)
    BY <1>1, AddKeeps
  <1>3. /\ next' = after.nx /\ cardinal_processes' = after.card
        /\ ended' = ended \cup (asked \ {InitPid}) \cup after.cut
        /\ IF current = InitPid \/ current \in after.cut
           THEN schedule(after.nx, state) ELSE UNCHANGED <<state, current>>
        /\ exit' = exit
    BY DEF ReplaceCurrent, Grown
  <1>5. InitPid \in B2 /\ current \in B2 /\ Born \subseteq B2
    BY <1>1
  <1>6. ring.card \in Int /\ Cardinality(B2) \in Nat
    <2>1. B2 \subseteq Pids
      BY InvFacts
    <2> QED BY <2>1, BornCount DEF Rings
  <1> HIDE DEF B2, grown
  <1>7. Kept(after, grown, B2)
    <2>1. Kept(removeProcess(grown, current), grown, B2)
      BY <1>2, <1>5, RemoveKeeps
    <2>2. Kept(grown, grown, B2)
      BY <1>2, <1>6 DEF Kept
    <2> QED BY <2>1, <2>2
  <1> HIDE DEF after
  <1>8. after \in Rings(B2) /\ after.card \in Int /\ after.card =< Cardinality(B2)
    <2>1. after \in Rings(B2) /\ after.card =< grown.card
      BY <1>7 DEF Kept
    <2>2. after.card \in Int
      BY <2>1 DEF Rings
    <2> QED BY <1>2, <1>6, <2>1, <2>2
  <1>9. Links(next', B2) /\ cardinal_processes' \in Int
    BY <1>3, <1>8 DEF Rings
  <1>10. current' \in B2 /\ StatesOK(state')
    <2>1. CASE schedule(after.nx, state)
      BY <1>1, <1>3, <1>5, <1>9, <2>1, ScheduleKeeps
    <2>2. CASE UNCHANGED <<state, current>>
      BY <1>1, <1>5, <2>2
    <2> QED BY <1>3, <2>1, <2>2
  <1>11. ListOK(next', B2, cardinal_processes', current')
    BY <1>3, <1>5, <1>8, <1>9, <1>10 DEF ListOK
  <1>12. ASSUME InitPid \notin ended' PROVE InitPid \notin ended /\ RanksKept(next', next, Born)
    <2>1. InitPid \notin ended /\ InitPid \notin after.cut
      BY <1>3, <1>12
    <2>2. /\ InitPid \notin ring.cut
          /\ \A rank \in [Pids -> Nat] : Descends(rank, grown.nx) => Descends(rank, after.nx)
      BY <1>2, <1>7, <2>1 DEF Kept
    <2>3. ASSUME NEW rank \in [Pids -> Nat], Descends(rank, next)
          PROVE  \E rank2 \in [Pids -> Nat] : Descends(rank2, next') /\ Agrees(rank2, rank, Born)
      <3>1. Descends(rank, ring.nx)
        BY <2>2, <2>3
      <3>2. PICK rank2 \in [Pids -> Nat] :
                 Descends(rank2, grown.nx) /\ Agrees(rank2, rank, Born)
        BY <1>2, <3>1 DEF RanksKept
      <3>3. Descends(rank2, next')
        BY <1>3, <2>2, <3>2
      <3> QED BY <3>2, <3>3
    <2> QED BY <2>1, <2>3 DEF RanksKept
  <1>13. exit' = exit
    BY <1>3
  <1> QED BY <1>5, <1>10, <1>11, <1>12, <1>13, SameExits

\* A program replaces its caller.
LEMMA RunLinks ==
    ASSUME LinksInv, NEW p \in Pids, sys_call_runC(p)
    PROVE  LinksInv'
  <1>1. p \in Pids \ Born /\ ReplaceCurrent(Ring, p, {current})
    BY DEF sys_call_runC
  <1>2. Ring \in Rings(Born) /\ Ring.card =< Cardinality(Born) /\ Ring.nx = next
    BY InvFacts DEF ListOK
  <1>3. \A rank \in [Pids -> Nat] : Descends(rank, next) => Descends(rank, Ring.nx)
    BY <1>2
  <1> QED BY <1>1, <1>2, <1>3, ReplaceKeeps

\* A new shell replaces everybody but init.
LEMMA RestartLinks ==
    ASSUME LinksInv, NEW p \in Pids, restartSHELL(p)
    PROVE  LinksInv'
  <1> DEFINE ring == killAllExceptCurrent(Ring)
  <1>1. p \in Pids \ Born /\ ReplaceCurrent(ring, p, Born)
    BY DEF restartSHELL
  <1>2. /\ Ring \in Rings(Born) /\ Ring.card =< Cardinality(Born) /\ Ring.nx = next
        /\ current \in Born /\ Ring.card \in Int /\ Born \subseteq Pids
    BY InvFacts DEF ListOK, Rings
  <1>3. Kept(ring, Ring, Born)
    BY <1>2, KillKeeps
  <1> HIDE DEF ring
  <1>4. ring \in Rings(Born) /\ ring.card =< Ring.card
    BY <1>3 DEF Kept
  <1>5. ring.card =< Cardinality(Born)
    <2>1. ring.card \in Int /\ Cardinality(Born) \in Nat
      BY <1>2, <1>4, BornCount DEF Rings
    <2> QED BY <1>2, <1>4, <2>1
  <1>6. InitPid \notin ring.cut =>
          \A rank \in [Pids -> Nat] : Descends(rank, next) => Descends(rank, ring.nx)
    BY <1>2, <1>3 DEF Kept
  <1> QED BY <1>1, <1>4, <1>5, <1>6, ReplaceKeeps

-----------------------------------------------------------------------------
(* So does a return from main, preempted between any two of its steps.     *)

\* The parts of the invariant about the returning process that is current.
LEMMA ExitFacts ==
    ASSUME LinksInv
    PROVE  /\ exit[current] \in LocalsType /\ LocalsKnown(exit[current], Born)
           /\ ListOK(next, Born, cardinal_processes, current)
           /\ StatesOK(state)
           /\ current \in Pids /\ current # NoPid
           /\ Leads(next, Born)
           /\ Cardinality(Born) \in Nat /\ cardinal_processes \in Int
           /\ 0 =< Cardinality(Born)
  <1>1. /\ ListOK(next, Born, cardinal_processes, current) /\ StatesOK(state)
        /\ exit \in [Pids -> LocalsType] /\ \A p \in Pids : LocalsKnown(exit[p], Born)
        /\ current \in Pids /\ Born \subseteq Pids
    BY InvFacts
  <1>2. Leads(next, Born) /\ cardinal_processes \in Int
    BY <1>1 DEF ListOK, Links
  <1>3. Cardinality(Born) \in Nat
    BY <1>1, BornCount
  <1> QED BY <1>1, <1>2, <1>3, SchedulerAssumption

\* The step of a returning process that changes its locals only.
LEMMA LocalsOnly ==
    ASSUME LinksInv, NEW e, exit' = Moved(current, e), LocalsKnown(e, Born),
           UNCHANGED <<state, next, current, cardinal_processes>>,
           InitPid \in ended => InitPid \in ended',
           \A rank \in [Pids -> Nat] :
             Descends(rank, next) /\ LocalsDescend(exit[current], rank) => LocalsDescend(e, rank)
    PROVE  LinksInv'
  <1>1. ListOK(next, Born, cardinal_processes, current) /\ StatesOK(state)
    BY InvFacts
  <1>2. ListOK(next', Born, cardinal_processes', current') /\ StatesOK(state')
    BY <1>1
  <1>3. InitPid \notin ended' =>
             \A rank \in [Pids -> Nat] :
               Descends(rank, next) /\ LocalsDescend(exit[current], rank)
                 => Descends(rank, next') /\ LocalsDescend(e, rank)
    OBVIOUS
  <1> QED BY <1>2, <1>3, OneExit

\* The return from main.
LEMMA StartLinks ==
    ASSUME LinksInv, exitStart
    PROVE  LinksInv'
  <1> DEFINE e == [UserCode EXCEPT !.pc = "search", !.prevSlot = current,
                                   !.slotToRemove = next[current]]
  <1>1. exit' = Moved(current, e) /\ UNCHANGED <<state, next, current, cardinal_processes>>
        /\ ended' = ended \cup {current} /\ current # InitPid
    <2>1. exit' = [exit EXCEPT ![current] = e]
      BY DEF exitStart
    <2> HIDE DEF e
    <2> QED BY <2>1 DEF exitStart, Calling, Moved
  <1>2. next[current] \in Born /\ current \in Born /\ Born \subseteq Pids /\ next[current] # NoPid
        /\ 0 =< Cardinality(Born)
    BY ExitFacts DEF ListOK, Leads, Born
  <1>3. UserCode \in LocalsType /\ UserCode.reg = 0
    BY DEF UserCode, LocalsType, Points
  <1>4. /\ e \in LocalsType /\ e.reg = 0
        /\ e.pc = "search" /\ e.prevSlot = current /\ e.slotToRemove = next[current]
    <2> HIDE DEF UserCode
    <2> QED BY <1>2, <1>3 DEF LocalsType, Points
  <1> HIDE DEF e
  <1>5. LocalsKnown(e, Born)
    BY <1>2, <1>4 DEF LocalsKnown
  <1>6. \A rank \in [Pids -> Nat] :
             Descends(rank, next) /\ LocalsDescend(exit[current], rank) => LocalsDescend(e, rank)
    BY <1>1, <1>2, <1>4 DEF Descends, LocalsDescend
  <1>7. InitPid \in ended => InitPid \in ended'
    BY <1>1
  <1> QED BY <1>1, <1>5, <1>6, <1>7, LocalsOnly

\* The condition of the search.
LEMMA SearchLinks ==
    ASSUME LinksInv, exitSearch
    PROVE  LinksInv'
  <1> DEFINE x == IF ~(exit[current].slotToRemove = current) /\ exit[current].i < cardinal_processes
                  THEN "advance" ELSE "check"
             e == [exit[current] EXCEPT !.pc = x]
  <1>1. exit' = Moved(current, e) /\ UNCHANGED <<state, next, current, cardinal_processes, ended>>
        /\ exit[current].pc = "search"
    <2>1. exit' = [exit EXCEPT ![current].pc = x]
      BY DEF exitSearch
    <2> HIDE DEF x
    <2> QED BY <2>1 DEF exitSearch, Moved, at
  <1>2. x \in {"advance", "check"}
    OBVIOUS
  <1> HIDE DEF x
  <1>3. LocalsKnown(exit[current], Born) /\ exit[current] \in LocalsType
    BY ExitFacts
  <1>4. LocalsKnown(e, Born)
    BY <1>1, <1>2, <1>3 DEF LocalsKnown, LocalsType, Points
  <1>5. \A rank \in [Pids -> Nat] :
             Descends(rank, next) /\ LocalsDescend(exit[current], rank) => LocalsDescend(e, rank)
    BY <1>1, <1>2, <1>3 DEF LocalsDescend, LocalsType
  <1> HIDE DEF e
  <1> QED BY <1>1, <1>4, <1>5, LocalsOnly

\* The body of the search.
LEMMA AdvanceLinks ==
    ASSUME LinksInv, exitAdvance
    PROVE  LinksInv'
  <1> DEFINE o == exit[current]
             e == [o EXCEPT !.pc = "search", !.prevSlot = o.slotToRemove,
                            !.slotToRemove = next[o.slotToRemove], !.i = o.i + 1]
  <1>1. exit' = Moved(current, e) /\ UNCHANGED <<state, next, current, cardinal_processes, ended>>
        /\ o.pc = "advance"
    <2>1. exit' = [exit EXCEPT ![current] = e]
      BY DEF exitAdvance
    <2> HIDE DEF e
    <2> QED BY <2>1 DEF exitAdvance, Moved, at
  <1>2. LocalsKnown(o, Born) /\ o \in LocalsType /\ Leads(next, Born)
    BY ExitFacts
  <1> HIDE DEF o
  <1>3. o.slotToRemove \in Born /\ next[o.slotToRemove] \in Born /\ Born \subseteq Pids
        /\ next[o.slotToRemove] # NoPid
    BY <1>1, <1>2 DEF LocalsKnown, Leads, Born
  <1> DEFINE there == o.slotToRemove
             behind == next[there]
             more == o.i + 1
  <1>4. there \in Pids /\ behind \in Pids /\ more \in Nat
    BY <1>2, <1>3 DEF LocalsType
  <1> HIDE DEF there, behind, more
  <1> DEFINE e2 == [o EXCEPT !.pc = "search", !.prevSlot = there, !.slotToRemove = behind, !.i = more]
  <1>5. /\ e2.pc = "search" /\ e2.prevSlot = there /\ e2.slotToRemove = behind /\ e2.reg = o.reg
        /\ e2 \in LocalsType
    <2>1. o \in LocalsType
      BY <1>2
    <2> QED BY <1>4, <2>1 DEF LocalsType, Points
  <1>6. e2 = e
    BY DEF there, behind, more
  <1> HIDE DEF e, e2
  <1>7. /\ e.pc = "search" /\ e.prevSlot = o.slotToRemove /\ e.slotToRemove = next[o.slotToRemove]
        /\ e.reg = o.reg /\ e \in LocalsType
    BY <1>5, <1>6 DEF there, behind
  <1>8. LocalsKnown(e, Born)
    BY <1>2, <1>3, <1>7 DEF LocalsKnown
  <1>9. \A rank \in [Pids -> Nat] :
             Descends(rank, next) /\ LocalsDescend(exit[current], rank) => LocalsDescend(e, rank)
    BY <1>3, <1>7 DEF LocalsDescend, Descends
  <1> QED BY <1>1, <1>8, <1>9, LocalsOnly

\* The test after the search.
LEMMA CheckLinks ==
    ASSUME LinksInv, exitCheck
    PROVE  LinksInv'
  <1> DEFINE x == IF exit[current].i = cardinal_processes THEN "callProcess" ELSE "follow"
             e == [exit[current] EXCEPT !.pc = x]
  <1>1. exit' = Moved(current, e) /\ UNCHANGED <<state, next, current, cardinal_processes, ended>>
        /\ exit[current].pc = "check"
    <2>1. exit' = [exit EXCEPT ![current].pc = x]
      BY DEF exitCheck
    <2> HIDE DEF x
    <2> QED BY <2>1 DEF exitCheck, Moved, at
  <1>2. x \in {"callProcess", "follow"}
    OBVIOUS
  <1> HIDE DEF x
  <1>3. LocalsKnown(exit[current], Born) /\ exit[current] \in LocalsType
    BY ExitFacts
  <1>4. LocalsKnown(e, Born)
    BY <1>1, <1>2, <1>3 DEF LocalsKnown, LocalsType, Points
  <1>5. \A rank \in [Pids -> Nat] :
             Descends(rank, next) /\ LocalsDescend(exit[current], rank) => LocalsDescend(e, rank)
    BY <1>1, <1>2, <1>3 DEF LocalsDescend, LocalsType
  <1> HIDE DEF e
  <1> QED BY <1>1, <1>4, <1>5, LocalsOnly

\* The load of slotToRemove->next: the link leads further down.
LEMMA FollowLinks ==
    ASSUME LinksInv, exitFollow
    PROVE  LinksInv'
  <1> DEFINE o == exit[current]
             e == [o EXCEPT !.pc = "unlink", !.link = next[o.slotToRemove]]
  <1>1. exit' = Moved(current, e) /\ UNCHANGED <<state, next, current, cardinal_processes, ended>>
        /\ o.pc = "follow"
    BY ExitFacts, InvFacts DEF exitFollow, Moved, at
  <1>2. LocalsKnown(o, Born) /\ o \in LocalsType /\ Leads(next, Born)
    BY ExitFacts
  <1> HIDE DEF o
  <1>3. o.slotToRemove \in Born /\ next[o.slotToRemove] \in Born /\ Born \subseteq Pids
        /\ next[o.slotToRemove] # NoPid /\ o.prevSlot \in Born
    BY <1>1, <1>2 DEF LocalsKnown, Leads, Born
  <1>4. LocalsKnown(e, Born)
    BY <1>1, <1>2, <1>3 DEF LocalsKnown, LocalsType, Points
  <1>5. ASSUME NEW rank \in [Pids -> Nat], Descends(rank, next), LocalsDescend(o, rank)
        PROVE  LocalsDescend(e, rank)
    <2>1. /\ e.pc = "unlink" /\ e.prevSlot = o.prevSlot /\ e.slotToRemove = o.slotToRemove
          /\ e.link = next[o.slotToRemove]
      BY <1>2 DEF LocalsType
    <2>2. o.prevSlot # InitPid => rank[o.slotToRemove] < rank[o.prevSlot]
      BY <1>1, <1>5 DEF LocalsDescend
    <2>3. o.slotToRemove # InitPid => rank[next[o.slotToRemove]] < rank[o.slotToRemove]
      BY <1>3, <1>5 DEF Descends
    <2>4. rank[next[o.slotToRemove]] \in Nat /\ rank[o.slotToRemove] \in Nat /\ rank[o.prevSlot] \in Nat
      BY <1>3
    <2> HIDE DEF e
    <2>5. e.prevSlot # InitPid /\ e.slotToRemove # InitPid => rank[e.link] < rank[e.prevSlot]
      BY <2>1, <2>2, <2>3, <2>4
    <2> QED BY <2>1, <2>5 DEF LocalsDescend
  <1> HIDE DEF e
  <1>6. \A rank \in [Pids -> Nat] :
             Descends(rank, next) /\ LocalsDescend(exit[current], rank) => LocalsDescend(e, rank)
    BY <1>5 DEF o
  <1> QED BY <1>1, <1>4, <1>6, LocalsOnly

\* The store to prevSlot->next: unless it is init that is cut out, every link still
\* leads down.
LEMMA UnlinkLinks ==
    ASSUME LinksInv, exitUnlink
    PROVE  LinksInv'
  <1> DEFINE o == exit[current]
             e == [o EXCEPT !.pc = "load"]
  <1>1. /\ exit' = Moved(current, e) /\ UNCHANGED <<state, current, cardinal_processes>>
        /\ o.pc = "unlink" /\ ended' = ended \cup {o.slotToRemove}
        /\ next' = [next EXCEPT ![o.prevSlot] = o.link]
    BY DEF exitUnlink, Moved, at
  <1>2. /\ LocalsKnown(o, Born) /\ o \in LocalsType
        /\ ListOK(next, Born, cardinal_processes, current) /\ StatesOK(state)
    BY ExitFacts
  <1> HIDE DEF o
  <1>3. o.slotToRemove \in Born /\ o.prevSlot \in Born /\ o.link \in Born
    BY <1>1, <1>2 DEF LocalsKnown
  <1>4. LocalsKnown(e, Born)
    BY <1>1, <1>2 DEF LocalsKnown, LocalsType, Points
  <1>5. e.pc = "load"
    BY <1>2 DEF LocalsType
  <1>6. /\ next \in [Pids -> Pids \cup {NoPid}] /\ Born \subseteq Pids /\ NoPid \notin Pids
        /\ \A p \in Born : next[p] \in Born
        /\ \A p \in Pids : next[p] # NoPid <=> p \in Born
    BY <1>2, SchedulerAssumption DEF ListOK, Links, Leads
  <1>7. \A p \in Pids : next'[p] = IF p = o.prevSlot THEN o.link ELSE next[p]
    BY <1>1, <1>6
  <1>8. Links(next', Born)
    <2>1. next' \in [Pids -> Pids \cup {NoPid}]
      BY <1>1, <1>3, <1>6
    <2>2. \A p \in Born : next'[p] \in Born
      BY <1>3, <1>6, <1>7
    <2>3. \A p \in Pids : next'[p] # NoPid <=> p \in Born
      BY <1>3, <1>6, <1>7
    <2> QED BY <1>6, <2>1, <2>2, <2>3 DEF Links, Leads
  <1>9. ListOK(next', Born, cardinal_processes', current') /\ StatesOK(state')
    BY <1>1, <1>2, <1>8 DEF ListOK
  <1>10. ASSUME InitPid \notin ended', NEW rank \in [Pids -> Nat], Descends(rank, next),
                LocalsDescend(o, rank)
         PROVE  Descends(rank, next') /\ LocalsDescend(e, rank)
    <2>1. o.slotToRemove # InitPid
      BY <1>1, <1>10
    <2>2. o.prevSlot # InitPid => rank[o.link] < rank[o.prevSlot]
      BY <1>1, <1>10, <2>1 DEF LocalsDescend
    <2>3. Descends(rank, next')
      BY <1>7, <1>10, <2>2 DEF Descends
    <2> QED BY <1>5, <2>3 DEF LocalsDescend
  <1> HIDE DEF e
  <1>11. InitPid \notin ended' =>
             \A rank \in [Pids -> Nat] :
               Descends(rank, next) /\ LocalsDescend(exit[current], rank)
                 => Descends(rank, next') /\ LocalsDescend(e, rank)
    BY <1>10 DEF o
  <1>12. InitPid \in ended => InitPid \in ended'
    BY <1>1
  <1> QED BY <1>1, <1>4, <1>9, <1>11, <1>12, OneExit

\* The load of the counter.
LEMMA LoadLinks ==
    ASSUME LinksInv, exitLoad
    PROVE  LinksInv'
  <1> DEFINE o == exit[current]
             e == [o EXCEPT !.pc = "store", !.reg = cardinal_processes]
  <1>1. exit' = Moved(current, e) /\ UNCHANGED <<state, next, current, cardinal_processes, ended>>
        /\ o.pc = "load"
    BY ExitFacts, InvFacts DEF exitLoad, Moved, at
  <1>2. LocalsKnown(o, Born) /\ o \in LocalsType /\ cardinal_processes \in Int
        /\ cardinal_processes =< Cardinality(Born)
    BY ExitFacts DEF ListOK
  <1> HIDE DEF o
  <1>3. LocalsKnown(e, Born)
    BY <1>1, <1>2 DEF LocalsKnown, LocalsType, Points
  <1>4. e.pc = "store"
    BY <1>2 DEF LocalsType
  <1> HIDE DEF e
  <1>5. \A rank \in [Pids -> Nat] :
             Descends(rank, next) /\ LocalsDescend(exit[current], rank) => LocalsDescend(e, rank)
    BY <1>4 DEF LocalsDescend
  <1> QED BY <1>1, <1>3, <1>5, LocalsOnly

\* The store of the counter: what it held when it was loaded, less one.
LEMMA StoreLinks ==
    ASSUME LinksInv, exitStore
    PROVE  LinksInv'
  <1> DEFINE o == exit[current]
             x == IF o.slotToRemove = current THEN "yield" ELSE "callProcess"
             e == [o EXCEPT !.pc = x]
  <1>1. /\ exit' = Moved(current, e) /\ UNCHANGED <<state, next, current, ended>>
        /\ cardinal_processes' = o.reg - 1
    <2>1. exit' = [exit EXCEPT ![current].pc = x]
      BY DEF exitStore
    <2> HIDE DEF x
    <2> QED BY <2>1 DEF exitStore, Moved
  <1>2. /\ LocalsKnown(o, Born) /\ o \in LocalsType /\ Cardinality(Born) \in Nat
        /\ ListOK(next, Born, cardinal_processes, current) /\ StatesOK(state)
    BY ExitFacts
  <1>3. x \in {"yield", "callProcess"}
    OBVIOUS
  <1> HIDE DEF o, x
  <1>4. LocalsKnown(e, Born)
    BY <1>2, <1>3 DEF LocalsKnown, LocalsType, Points
  <1>5. e.pc \in {"yield", "callProcess"}
    BY <1>2, <1>3 DEF LocalsType
  <1> HIDE DEF e
  <1>6. o.reg \in Int /\ o.reg =< Cardinality(Born)
    BY <1>2 DEF LocalsKnown, LocalsType
  <1>7. o.reg - 1 \in Int /\ o.reg - 1 =< Cardinality(Born)
    BY <1>2, <1>6
  <1>8. ListOK(next', Born, cardinal_processes', current') /\ StatesOK(state')
    BY <1>1, <1>2, <1>7 DEF ListOK
  <1>9. InitPid \notin ended' =>
             \A rank \in [Pids -> Nat] :
               Descends(rank, next) /\ LocalsDescend(exit[current], rank)
                 => Descends(rank, next') /\ LocalsDescend(e, rank)
    BY <1>1, <1>5 DEF LocalsDescend
  <1> QED BY <1>1, <1>4, <1>8, <1>9, OneExit

\* The _yield after a removal.
LEMMA YieldLinks ==
    ASSUME LinksInv, exitYield
    PROVE  LinksInv'
  <1> DEFINE o == exit[current]
             x == IF at("yield") THEN "callProcess" ELSE "past"
             e == [o EXCEPT !.pc = x]
  <1>1. /\ exit' = Moved(current, e) /\ UNCHANGED <<next, cardinal_processes, ended>>
        /\ schedule(next, state)
    <2>1. exit' = [exit EXCEPT ![current].pc = x]
      BY DEF exitYield
    <2> HIDE DEF x
    <2> QED BY <2>1 DEF exitYield, Moved
  <1>2. /\ LocalsKnown(o, Born) /\ o \in LocalsType
        /\ ListOK(next, Born, cardinal_processes, current) /\ StatesOK(state)
    BY ExitFacts
  <1>3. x \in {"past", "callProcess"}
    OBVIOUS
  <1> HIDE DEF o, x
  <1>4. LocalsKnown(e, Born)
    BY <1>2, <1>3 DEF LocalsKnown, LocalsType, Points
  <1>5. e.pc \in {"past", "callProcess"}
    BY <1>2, <1>3 DEF LocalsType
  <1> HIDE DEF e
  <1>6. StatesOK(state') /\ current' \in Born
    BY <1>1, <1>2, OnlySchedule
  <1>7. ListOK(next', Born, cardinal_processes', current')
    BY <1>1, <1>2, <1>6 DEF ListOK
  <1>8. InitPid \notin ended' =>
             \A rank \in [Pids -> Nat] :
               Descends(rank, next) /\ LocalsDescend(exit[current], rank)
                 => Descends(rank, next') /\ LocalsDescend(e, rank)
    BY <1>1, <1>5 DEF LocalsDescend
  <1>9. InitPid \in ended => InitPid \in ended'
    BY <1>1
  <1> QED BY <1>1, <1>4, <1>6, <1>7, <1>8, <1>9, OneExit

-----------------------------------------------------------------------------
(* The links are always in order, and schedule() ends.                     *)

\* Initially the list is init and the shell.
LEMMA InitLinks ==
    ASSUME Init
    PROVE  LinksInv
  <1> DEFINE rank == [p \in Pids |-> IF p = ShellPid THEN 1 ELSE 0]
  <1>1. /\ InitPid \in Pids /\ ShellPid \in Pids /\ InitPid # ShellPid /\ NoPid \notin Pids
        /\ \A p \in Pids : next[p] = IF p = InitPid THEN ShellPid
                                     ELSE IF p = ShellPid THEN InitPid ELSE NoPid
        /\ next \in [Pids -> Pids \cup {NoPid}]
    BY SchedulerAssumption DEF Init
  <1>2. Born = {InitPid, ShellPid}
    BY <1>1 DEF Born
  <1>3. Cardinality({InitPid, ShellPid}) = 2
    <2>1. IsFiniteSet({InitPid}) /\ Cardinality({InitPid}) = 1
      BY FS_Singleton
    <2>2. ShellPid \notin {InitPid} /\ {InitPid, ShellPid} = {InitPid} \cup {ShellPid}
      BY <1>1
    <2>3. Cardinality({InitPid} \cup {ShellPid}) = Cardinality({InitPid}) + 1
      BY <2>1, <2>2, FS_AddElement
    <2> QED BY <2>1, <2>2, <2>3
  <1>4. Links(next, Born)
    BY <1>1, <1>2 DEF Links, Leads
  <1>5. ListOK(next, Born, cardinal_processes, current)
    BY <1>2, <1>3, <1>4 DEF ListOK, Init
  <1>6. StatesOK(state)
    BY <1>1 DEF StatesOK, ProcessStates, Init
  <1>7. UserCode \in LocalsType /\ UserCode.pc = "user" /\ UserCode.reg = 0
    BY DEF UserCode, LocalsType, Points
  <1>8. LocalsKnown(UserCode, Born) /\ \A r : LocalsDescend(UserCode, r)
    BY <1>2, <1>3, <1>7 DEF LocalsKnown, LocalsDescend
  <1>9. exit \in [Pids -> LocalsType] /\ \A p \in Pids : exit[p] = UserCode
    BY <1>7 DEF Init
  <1>10. rank \in [Pids -> Nat] /\ Descends(rank, next)
    BY <1>1 DEF Descends
  <1>11. \A p \in Pids : LocalsKnown(exit[p], Born) /\ LocalsDescend(exit[p], rank)
    BY <1>8, <1>9
  <1> HIDE DEF rank
  <1>12. \E r \in [Pids -> Nat] : Descends(r, next) /\ \A p \in Pids : LocalsDescend(exit[p], r)
    BY <1>10, <1>11
  <1>13. ByParts
    BY <1>5, <1>6, <1>9, <1>11, <1>12 DEF ByParts
  <1> QED BY <1>13, InvIs

\* From every slot a walk reaches init, and init can run.
LEMMA LinksTerminate ==
    ASSUME LinksInv
    PROVE  ScheduleTerminates
  <1>1. ByParts
    BY InvIs
  <1>2. Leads(next, Born) /\ InitPid \in Born /\ state[InitPid] \in {"READY", "RUNNING"}
        /\ Born = {p \in Pids : next[p] # NoPid}
    BY <1>1 DEF ByParts, ListOK, Links, StatesOK
  <1>3. ASSUME InitPid \notin ended, NEW p \in Born
        PROVE  \E i \in Hops : walk(next, p)[i] = InitPid
    <2>1. PICK rank \in [Pids -> Nat] : Descends(rank, next)
      BY <1>1, <1>3 DEF ByParts
    <2>2. \A q \in Born \ {InitPid} : rank[next[q]] < rank[q]
      BY <1>2, <2>1 DEF Descends
    <2> QED BY <1>2, <2>1, <2>2, WalkReachesInit
  <1> QED BY <1>2, <1>3 DEF ScheduleTerminates, InitReachable

\* Every step keeps the links in order.
LEMMA LinksStep ==
    ASSUME LinksInv, [Next]_vars
    PROVE  LinksInv'
  <1>1. ASSUME NEW p \in Pids, createProcess(p) PROVE LinksInv'
    BY <1>1, CreateLinks
  <1>2. ASSUME NEW p \in Pids, kill(p) PROVE LinksInv'
    BY <1>2, KillLinks
  <1>3. ASSUME NEW p \in Pids, Wake(p) PROVE LinksInv'
    BY <1>3, WakeLinks
  <1>4. ASSUME NEW p \in Pids, sys_call_runC(p) PROVE LinksInv'
    BY <1>4, RunLinks
  <1>5. ASSUME NEW p \in Pids, restartSHELL(p) PROVE LinksInv'
    BY <1>5, RestartLinks
  <1>6. ASSUME NEW s \in {"BLOCKED", "SLEEPING"}, Suspend(s) PROVE LinksInv'
    BY <1>6, SuspendLinks
  <1>7. CASE timerTickHandler
    BY <1>7, TimerLinks
  <1>8. CASE exitStart
    BY <1>8, StartLinks
  <1>9. CASE exitSearch
    BY <1>9, SearchLinks
  <1>10. CASE exitAdvance
    BY <1>10, AdvanceLinks
  <1>11. CASE exitCheck
    BY <1>11, CheckLinks
  <1>12. CASE exitFollow
    BY <1>12, FollowLinks
  <1>13. CASE exitUnlink
    BY <1>13, UnlinkLinks
  <1>14. CASE exitLoad
    BY <1>14, LoadLinks
  <1>15. CASE exitStore
    BY <1>15, StoreLinks
  <1>16. CASE exitYield
    BY <1>16, YieldLinks
  <1>17. CASE UNCHANGED vars
    <2>1. UNCHANGED <<state, next, current, cardinal_processes, exit, ended>>
      BY <1>17 DEF vars
    <2>2. StatesOK(state') /\ current' \in Born
      BY <2>1, InvFacts DEF ListOK
    <2> QED BY <2>1, <2>2, OnlyStates
  <1> QED BY <1>1, <1>2, <1>3, <1>4, <1>5, <1>6, <1>7, <1>8, <1>9, <1>10, <1>11, <1>12,
             <1>13, <1>14, <1>15, <1>16, <1>17 DEF Next

\* The links of the list in every reachable state, whoever returns from main: they
\* follow an order that leads down to init, until init is cut out, and so do the
\* pointers that a removeProcess holds while it is interrupted.
THEOREM SchedulerLinksInvariant == Spec => []LinksInv
  <1>1. Init => LinksInv
    BY InitLinks
  <1>2. LinksInv /\ [Next]_vars => LinksInv'
    BY LinksStep
  <1> QED BY <1>1, <1>2, PTL DEF Spec

\* The loop of schedule() ends, in every reachable state, for any number of processes
\* and whoever returns from main, until a removeProcess has cut init out.
THEOREM SchedulerTerminates == Spec => []ScheduleTerminates
  <1>1. LinksInv => ScheduleTerminates
    BY LinksTerminate
  <1> QED BY <1>1, SchedulerLinksInvariant, PTL

-----------------------------------------------------------------------------
(* The list as a circle, while nobody returns from main.                   *)

\* The place behind i on a circle of n.
After(i, n) == IF i = n - 1 THEN 0 ELSE i + 1

\* The circle can be read from any of its slots.
LEMMA RingStart ==
    ASSUME NEW n, NEW nx, NEW S, IsRing(n, nx, S), NEW x \in S
    PROVE  \E r \in [0 .. n - 1 -> S] : RingFrom(r, n, nx, S) /\ r[0] = x
  <1>1. n \in Nat /\ n # 0
    BY DEF IsRing
  <1>2. PICK r \in [0 .. n - 1 -> S] : RingFrom(r, n, nx, S)
    BY DEF IsRing
  <1>3. PICK a \in 0 .. n - 1 : r[a] = x
    BY <1>2 DEF RingFrom
  <1> DEFINE at2(i) == IF a + i < n THEN a + i ELSE a + i - n
             r2 == [i \in 0 .. n - 1 |-> r[at2(i)]]
  <1>4. \A i \in 0 .. n - 1 : at2(i) \in 0 .. n - 1
    BY <1>1
  <1>5. \A i, j \in 0 .. n - 1 : at2(i) = at2(j) => i = j
    BY <1>1
  <1>6. \A k \in 0 .. n - 1 : \E i \in 0 .. n - 1 : at2(i) = k
    <2>1. ASSUME NEW k \in 0 .. n - 1 PROVE \E i \in 0 .. n - 1 : at2(i) = k
      <3>1. CASE k >= a
        <4>1. k - a \in 0 .. n - 1 /\ at2(k - a) = k
          BY <1>1, <3>1
        <4> QED BY <4>1
      <3>2. CASE k < a
        <4>1. k - a + n \in 0 .. n - 1 /\ at2(k - a + n) = k
          BY <1>1, <3>2
        <4> QED BY <4>1
      <3> QED BY <3>1, <3>2
    <2> QED BY <2>1
  <1>7. \A i \in 0 .. n - 1 : After(i, n) \in 0 .. n - 1 /\ at2(After(i, n)) = After(at2(i), n)
    BY <1>1 DEF After
  <1>8. at2(0) = a /\ 0 \in 0 .. n - 1
    BY <1>1
  <1> HIDE DEF at2
  <1>9. r2 \in [0 .. n - 1 -> S] /\ \A i \in 0 .. n - 1 : r2[i] = r[at2(i)]
    BY <1>4
  <1> HIDE DEF r2
  <1>10. \A i \in 0 .. n - 1 : nx[r[i]] = r[After(i, n)]
    BY <1>2 DEF RingFrom, After
  <1>11. \A i \in 0 .. n - 1 : nx[r2[i]] = r2[After(i, n)]
    <2>1. ASSUME NEW i \in 0 .. n - 1 PROVE nx[r2[i]] = r2[After(i, n)]
      <3>1. at2(i) \in 0 .. n - 1 /\ After(i, n) \in 0 .. n - 1
            /\ at2(After(i, n)) = After(at2(i), n)
        BY <1>4, <1>7
      <3>2. r2[i] = r[at2(i)] /\ r2[After(i, n)] = r[After(at2(i), n)]
        BY <1>9, <3>1
      <3> QED BY <1>10, <3>1, <3>2
    <2> QED BY <2>1
  <1>12. \A p \in S : \E i \in 0 .. n - 1 : r2[i] = p
    <2>1. ASSUME NEW p \in S PROVE \E i \in 0 .. n - 1 : r2[i] = p
      <3>1. PICK k \in 0 .. n - 1 : r[k] = p
        BY <1>2 DEF RingFrom
      <3>2. PICK i \in 0 .. n - 1 : at2(i) = k
        BY <1>6
      <3> QED BY <1>9, <3>1, <3>2
    <2> QED BY <2>1
  <1>13. \A i, j \in 0 .. n - 1 : r2[i] = r2[j] => i = j
    <2>1. ASSUME NEW i \in 0 .. n - 1, NEW j \in 0 .. n - 1, r2[i] = r2[j] PROVE i = j
      <3>1. at2(i) \in 0 .. n - 1 /\ at2(j) \in 0 .. n - 1 /\ r[at2(i)] = r[at2(j)]
        BY <1>4, <1>9, <2>1
      <3>2. at2(i) = at2(j)
        BY <1>2, <3>1 DEF RingFrom
      <3> QED BY <1>5, <3>2
    <2> QED BY <2>1
  <1>14. RingFrom(r2, n, nx, S) /\ r2[0] = x
    BY <1>3, <1>8, <1>9, <1>11, <1>12, <1>13 DEF RingFrom, After
  <1> QED BY <1>9, <1>14

\* A circle of n slots has n slots, and leads nowhere else.
LEMMA RingSize ==
    ASSUME NEW n, NEW nx, NEW S, S \subseteq Pids, IsRing(n, nx, S)
    PROVE  n \in Nat /\ n # 0 /\ n = Cardinality(S) /\ n =< N /\ Leads(nx, S)
  <1>1. n \in Nat /\ n # 0
    BY DEF IsRing
  <1>2. PICK r \in [0 .. n - 1 -> S] : RingFrom(r, n, nx, S)
    BY DEF IsRing
  <1>3. IsFiniteSet(0 .. n - 1) /\ Cardinality(0 .. n - 1) = n
    <2>1. 0 \in Int /\ n - 1 \in Int /\ ~(0 > n - 1) /\ (n - 1) - 0 + 1 = n
      BY <1>1
    <2>2. IsFiniteSet(0 .. n - 1)
          /\ Cardinality(0 .. n - 1) = IF 0 > n - 1 THEN 0 ELSE (n - 1) - 0 + 1
      BY <2>1, FS_Interval, Zenon
    <2> QED BY <2>1, <2>2
  <1>4. r \in Bijection(0 .. n - 1, S)
    BY <1>2 DEF RingFrom, Bijection, Injection, Surjection, IsInjective
  <1>5. ExistsBijection(0 .. n - 1, S)
    BY <1>4 DEF ExistsBijection
  <1>6. Cardinality(S) = n
    BY <1>3, <1>5, FS_Bijection
  <1>7. n =< N
    BY <1>6, BornCount
  <1>8. ASSUME NEW p \in S PROVE nx[p] \in S
    <2>1. PICK i \in 0 .. n - 1 : r[i] = p
      BY <1>2 DEF RingFrom
    <2>2. (IF i = n - 1 THEN 0 ELSE i + 1) \in 0 .. n - 1
      BY <1>1
    <2>3. nx[r[i]] = r[IF i = n - 1 THEN 0 ELSE i + 1]
      BY <1>2 DEF RingFrom
    <2> QED BY <2>1, <2>2, <2>3
  <1> QED BY <1>1, <1>6, <1>7, <1>8 DEF Leads

Follows(nx, s, r, n) ==
    /\ \A i \in 0 .. n - 1 : walk(nx, s)[i] = r[i]
    /\ walk(nx, s)[n] = r[0]

\* A walk follows the circle.
LEMMA RingWalk ==
    ASSUME NEW n, NEW nx, NEW S, S \subseteq Pids, IsRing(n, nx, S),
           NEW r \in [0 .. n - 1 -> S], RingFrom(r, n, nx, S)
    PROVE  Follows(nx, r[0], r, n)
  <1>1. n \in Nat /\ n # 0 /\ n =< N /\ Leads(nx, S) /\ N \in Nat
    BY RingSize, HopsAre
  <1> DEFINE w == walk(nx, r[0])
             T == {i \in 0 .. n - 1 : w[i] = r[i]}
  <1>2. r[0] \in S
    BY <1>1
  <1>3. w[0] = r[0] /\ \A i \in 0 .. N : w[i + 1] = nx[w[i]]
    BY <1>1, <1>2, WalkIs
  <1> HIDE DEF w
  <1>4. 0 \in T
    BY <1>1, <1>3
  <1>5. ASSUME NEW i \in 0 .. (n - 1) - 1, i \in T PROVE i + 1 \in T
    <2>1. i \in 0 .. n - 1 /\ i # n - 1 /\ i \in 0 .. N /\ i + 1 \in 0 .. n - 1
      BY <1>1
    <2>2. nx[r[i]] = r[i + 1]
      BY <2>1 DEF RingFrom
    <2>3. w[i + 1] = nx[w[i]] /\ w[i] = r[i]
      BY <1>3, <1>5, <2>1
    <2> QED BY <2>1, <2>2, <2>3
  <1> HIDE DEF T
  <1>6. n - 1 \in Nat
    BY <1>1
  <1>7. \A i \in 0 .. n - 1 : i \in T
    BY <1>4, <1>5, <1>6, CountingUp
  <1>8. \A i \in 0 .. n - 1 : w[i] = r[i]
    BY <1>7 DEF T
  <1>9. w[n] = r[0]
    <2>1. n - 1 \in 0 .. n - 1 /\ n - 1 \in 0 .. N /\ (n - 1) + 1 = n
      BY <1>1
    <2>2. nx[r[n - 1]] = r[0]
      BY <2>1 DEF RingFrom
    <2>3. w[(n - 1) + 1] = nx[w[n - 1]] /\ w[n - 1] = r[n - 1]
      BY <1>3, <1>8, <2>1
    <2> QED BY <2>1, <2>2, <2>3
  <1> QED BY <1>8, <1>9 DEF w, Follows

\* A walk of n steps from a slot of the circle meets all of it, and comes back.
LEMMA RingMeets ==
    ASSUME NEW n, NEW nx, NEW S, S \subseteq Pids, IsRing(n, nx, S), NEW s \in S
    PROVE  /\ {walk(nx, s)[i] : i \in 0 .. n - 1} = S
           /\ walk(nx, s)[n] = s
           /\ \A i \in 1 .. n - 1 : walk(nx, s)[i] # s
           /\ \A i \in 0 .. N : walk(nx, s)[i + 1] = nx[walk(nx, s)[i]] /\ walk(nx, s)[i] \in S
  <1>1. PICK r \in [0 .. n - 1 -> S] : RingFrom(r, n, nx, S) /\ r[0] = s
    BY RingStart
  <1>2. n \in Nat /\ n # 0 /\ n =< N /\ Leads(nx, S) /\ N \in Nat /\ Hops = 0 .. N + 1
    BY RingSize, HopsAre
  <1> DEFINE w == walk(nx, s)
  <1>3. (\A i \in 0 .. n - 1 : w[i] = r[i]) /\ w[n] = s
    <2>1. Follows(nx, r[0], r, n)
      BY <1>1, RingWalk
    <2>2. Follows(nx, s, r, n)
      BY <1>1, <2>1
    <2> QED BY <1>1, <2>2 DEF Follows
  <1>4. \A i \in 0 .. N : w[i + 1] = nx[w[i]] /\ w[i] \in S
    <2>1. \A i \in 0 .. N : i \in Hops
      BY <1>2
    <2>2. (\A i \in 0 .. N : w[i + 1] = nx[w[i]]) /\ \A i \in Hops : w[i] \in S
      BY <1>2, WalkIs
    <2> HIDE DEF w
    <2> QED BY <2>1, <2>2
  <1> HIDE DEF w
  <1>5. {w[i] : i \in 0 .. n - 1} = S
    BY <1>1, <1>3 DEF RingFrom
  <1>6. ASSUME NEW i \in 1 .. n - 1 PROVE w[i] # s
    <2>1. i \in 0 .. n - 1 /\ 0 \in 0 .. n - 1 /\ i # 0
      BY <1>2
    <2> QED BY <1>1, <1>3, <2>1 DEF RingFrom
  <1> QED BY <1>3, <1>4, <1>5, <1>6 DEF w

\* In a circle the new slot is the one behind current.
LEMMA RingInsert ==
    ASSUME NEW n, NEW nx, NEW B, Links(nx, B), NEW S, S \subseteq B, IsRing(n, nx, S),
           current \in S, NEW p \in Pids \ B
    PROVE  IsRing(n + 1, addProcess(nx, p), S \cup {p})
  <1>1. B \subseteq Pids /\ current \in B /\ S \subseteq Pids /\ p \notin S
    BY DEF Links
  <1>2. n \in Nat /\ n # 0 /\ nx[current] \in S
    BY <1>1, RingSize DEF Leads
  <1> DEFINE x0 == nx[current]
  <1> HIDE DEF x0
  <1>0. x0 \in S
    BY <1>2 DEF x0
  <1>3. PICK r \in [0 .. n - 1 -> S] : RingFrom(r, n, nx, S) /\ r[0] = nx[current]
    <2>1. \E r \in [0 .. n - 1 -> S] : RingFrom(r, n, nx, S) /\ r[0] = x0
      BY <1>0, RingStart
    <2> QED BY <2>1 DEF x0
  <1>4. /\ \A q \in S : \E i \in 0 .. n - 1 : r[i] = q
        /\ \A i, j \in 0 .. n - 1 : r[i] = r[j] => i = j
        /\ \A i \in 0 .. n - 1 : nx[r[i]] = r[After(i, n)]
    BY <1>3 DEF RingFrom, After
  <1>5. r[n - 1] = current /\ \A i \in 0 .. n - 1 : i # n - 1 => r[i] # current
    <2>1. PICK k \in 0 .. n - 1 : r[k] = current
      BY <1>4
    <2>2. 0 \in 0 .. n - 1 /\ After(k, n) \in 0 .. n - 1 /\ r[After(k, n)] = r[0]
      BY <1>2, <1>3, <1>4, <2>1 DEF After
    <2>3. After(k, n) = 0
      BY <1>4, <2>2
    <2>4. k = n - 1
      BY <1>2, <2>3 DEF After
    <2> QED BY <1>4, <2>1, <2>4
  <1> DEFINE a == addProcess(nx, p)
             r2 == [i \in 0 .. n |-> IF i = n THEN p ELSE r[i]]
  <1>6. \A x \in Pids : a[x] = IF x = current THEN p ELSE IF x = p THEN nx[current] ELSE nx[x]
    BY <1>1, AddIs
  <1> HIDE DEF a
  <1>7. r2[n] = p /\ \A i \in 0 .. n - 1 : r2[i] = r[i] /\ r[i] \in S /\ i # n /\ i \in 0 .. n
    BY <1>2
  <1>8. r2 \in [0 .. n -> S \cup {p}]
    BY <1>2
  <1>9. \A i \in 0 .. n : i = n \/ i \in 0 .. n - 1
    BY <1>2
  <1> HIDE DEF r2
  <1>10. \A i \in 0 .. n : a[r2[i]] = r2[IF i = n THEN 0 ELSE i + 1]
    <2>1. ASSUME NEW i \in 0 .. n PROVE a[r2[i]] = r2[IF i = n THEN 0 ELSE i + 1]
      <3>1. CASE i = n
        <4>1. a[r2[i]] = nx[current]
          BY <1>1, <1>6, <1>7, <3>1
        <4>2. r2[0] = r[0]
          BY <1>2, <1>7
        <4> QED BY <1>3, <3>1, <4>1, <4>2
      <3>2. CASE i = n - 1
        <4>1. r2[i] = current /\ i # n /\ i + 1 = n
          BY <1>2, <1>5, <1>7, <3>2
        <4>2. a[r2[i]] = p
          BY <1>1, <1>6, <4>1
        <4> QED BY <1>7, <4>1, <4>2
      <3>3. CASE i # n /\ i # n - 1
        <4>1. i \in 0 .. n - 1 /\ i + 1 \in 0 .. n - 1 /\ After(i, n) = i + 1
          BY <1>2, <3>3 DEF After
        <4>2. r2[i] = r[i] /\ r2[i + 1] = r[i + 1] /\ r[i] # current /\ r[i] \in S
          BY <1>5, <1>7, <3>3, <4>1
        <4>3. a[r[i]] = nx[r[i]]
          BY <1>1, <1>6, <4>2
        <4> QED BY <1>4, <3>3, <4>1, <4>2, <4>3
      <3> QED BY <3>1, <3>2, <3>3
    <2> QED BY <2>1
  <1>11. \A q \in S \cup {p} : \E i \in 0 .. n : r2[i] = q
    <2>1. n \in 0 .. n
      BY <1>2
    <2> QED BY <1>4, <1>7, <2>1
  <1>12. \A i, j \in 0 .. n : r2[i] = r2[j] => i = j
    BY <1>1, <1>4, <1>7, <1>9
  <1>13. (n + 1) - 1 = n /\ n + 1 \in Nat \ {0}
    BY <1>2
  <1>14. RingFrom(r2, n + 1, a, S \cup {p})
    BY <1>8, <1>10, <1>11, <1>12, <1>13 DEF RingFrom
  <1>15. IsRing(n + 1, a, S \cup {p})
    BY <1>8, <1>13, <1>14 DEF IsRing
  <1> QED BY <1>15 DEF a

\* Passing a slot by leaves a circle of the others.
LEMMA RingCut ==
    ASSUME NEW n, NEW nx, NEW B, Links(nx, B), NEW S, S \subseteq B, IsRing(n, nx, S),
           NEW q \in S, NEW p \in S, nx[q] = p, p # q
    PROVE  IsRing(n - 1, Cut(nx, q, p), S \ {p}) /\ nx[p] \in S \ {p} /\ Cut(nx, q, p)[p] = nx[p]
  <1>1. B \subseteq Pids /\ S \subseteq Pids /\ nx \in [Pids -> Pids \cup {NoPid}]
    BY DEF Links
  <1>2. n \in Nat /\ n # 0 /\ nx[p] \in S
    BY <1>1, RingSize DEF Leads
  <1> DEFINE x0 == nx[p]
  <1> HIDE DEF x0
  <1>0. x0 \in S
    BY <1>2 DEF x0
  <1>3. PICK r \in [0 .. n - 1 -> S] : RingFrom(r, n, nx, S) /\ r[0] = nx[p]
    <2>1. \E r \in [0 .. n - 1 -> S] : RingFrom(r, n, nx, S) /\ r[0] = x0
      BY <1>0, RingStart
    <2> QED BY <2>1 DEF x0
  <1>4. /\ \A x \in S : \E i \in 0 .. n - 1 : r[i] = x
        /\ \A i, j \in 0 .. n - 1 : r[i] = r[j] => i = j
        /\ \A i \in 0 .. n - 1 : nx[r[i]] = r[After(i, n)]
    BY <1>3 DEF RingFrom, After
  <1>5. r[n - 1] = p /\ \A i \in 0 .. n - 1 : i # n - 1 => r[i] # p
    <2>1. PICK k \in 0 .. n - 1 : r[k] = p
      BY <1>4
    <2>2. 0 \in 0 .. n - 1 /\ After(k, n) \in 0 .. n - 1 /\ r[After(k, n)] = r[0]
      BY <1>2, <1>3, <1>4, <2>1 DEF After
    <2>3. After(k, n) = 0
      BY <1>4, <2>2
    <2>4. k = n - 1
      BY <1>2, <2>3 DEF After
    <2> QED BY <1>4, <2>1, <2>4
  <1>6. n >= 2 /\ r[n - 2] = q /\ \A i \in 0 .. n - 1 : i # n - 2 => r[i] # q
    <2>1. PICK k \in 0 .. n - 1 : r[k] = q
      BY <1>4
    <2>2. r[After(k, n)] = p /\ After(k, n) \in 0 .. n - 1 /\ n - 1 \in 0 .. n - 1
      BY <1>2, <1>4, <2>1 DEF After
    <2>3. After(k, n) = n - 1 /\ k # n - 1
      BY <1>4, <1>5, <2>1, <2>2
    <2>4. k = n - 2 /\ n >= 2
      BY <1>2, <2>3 DEF After
    <2> QED BY <1>4, <2>1, <2>4
  <1> DEFINE a == Cut(nx, q, p)
             r2 == [i \in 0 .. n - 2 |-> r[i]]
  <1>7. \A x \in Pids : a[x] = IF x = q THEN nx[p] ELSE nx[x]
    BY <1>1 DEF Cut
  <1> HIDE DEF a
  <1>8. \A i \in 0 .. n - 2 : i \in 0 .. n - 1 /\ i # n - 1 /\ r2[i] = r[i] /\ r[i] \in S \ {p}
    BY <1>2, <1>5
  <1>9. r2 \in [0 .. n - 2 -> S \ {p}]
    BY <1>8
  <1> HIDE DEF r2
  <1>10. \A i \in 0 .. n - 2 : a[r2[i]] = r2[IF i = n - 2 THEN 0 ELSE i + 1]
    <2>1. ASSUME NEW i \in 0 .. n - 2 PROVE a[r2[i]] = r2[IF i = n - 2 THEN 0 ELSE i + 1]
      <3>1. CASE i = n - 2
        <4>1. a[r2[i]] = nx[p]
          BY <1>1, <1>6, <1>7, <1>8, <3>1
        <4>2. 0 \in 0 .. n - 2 /\ r2[0] = r[0]
          BY <1>2, <1>6, <1>8
        <4> QED BY <1>3, <3>1, <4>1, <4>2
      <3>2. CASE i # n - 2
        <4>1. i \in 0 .. n - 1 /\ i + 1 \in 0 .. n - 2 /\ After(i, n) = i + 1
          BY <1>2, <3>2 DEF After
        <4>2. r2[i] = r[i] /\ r2[i + 1] = r[i + 1] /\ r[i] # q /\ r[i] \in S
          BY <1>6, <1>8, <3>2, <4>1
        <4>3. a[r[i]] = nx[r[i]]
          BY <1>1, <1>7, <4>2
        <4> QED BY <1>4, <3>2, <4>1, <4>2, <4>3
      <3> QED BY <3>1, <3>2
    <2> QED BY <2>1
  <1>11. \A x \in S \ {p} : \E i \in 0 .. n - 2 : r2[i] = x
    <2>1. ASSUME NEW x \in S \ {p} PROVE \E i \in 0 .. n - 2 : r2[i] = x
      <3>1. PICK i \in 0 .. n - 1 : r[i] = x
        BY <1>4
      <3>2. i \in 0 .. n - 2
        BY <1>2, <1>5, <3>1
      <3> QED BY <1>8, <3>1, <3>2
    <2> QED BY <2>1
  <1>12. \A i, j \in 0 .. n - 2 : r2[i] = r2[j] => i = j
    BY <1>4, <1>8
  <1>13. (n - 1) - 1 = n - 2 /\ n - 1 \in Nat \ {0}
    BY <1>2, <1>6
  <1>14. RingFrom(r2, n - 1, a, S \ {p})
    BY <1>9, <1>10, <1>11, <1>12, <1>13 DEF RingFrom
  <1>15. IsRing(n - 1, a, S \ {p})
    BY <1>9, <1>13, <1>14 DEF IsRing
  <1>16. nx[p] # p
    <2>1. 0 \in 0 .. n - 1 /\ 0 # n - 1
      BY <1>2, <1>6
    <2> QED BY <1>3, <1>5, <2>1
  <1>17. a[p] = nx[p]
    BY <1>1, <1>7
  <1> QED BY <1>2, <1>15, <1>16, <1>17 DEF a

\* A circle with another slot than p does not lead from p to p.
LEMMA NoSelfLoop ==
    ASSUME NEW n, NEW nx, NEW S, S \subseteq Pids, IsRing(n, nx, S), NEW p \in S,
           \E x \in S : x # p
    PROVE  nx[p] # p
  <1>1. n \in Nat /\ n # 0 /\ n =< N /\ N \in Nat
    BY RingSize, HopsAre
  <1> DEFINE w == walk(nx, p)
  <1>2. /\ {w[i] : i \in 0 .. n - 1} = S
        /\ w[n] = p
        /\ \A i \in 1 .. n - 1 : w[i] # p
        /\ \A i \in 0 .. N : w[i + 1] = nx[w[i]] /\ w[i] \in S
    BY RingMeets
  <1>3. w[0] = p
    <2>1. Leads(nx, S)
      BY RingSize
    <2> QED BY <2>1, WalkIs
  <1> HIDE DEF w
  <1>4. PICK x \in S : x # p
    OBVIOUS
  <1>5. PICK i \in 0 .. n - 1 : w[i] = x
    BY <1>2
  <1>6. 1 \in 1 .. n - 1 /\ 0 \in 0 .. N /\ 0 + 1 = 1
    BY <1>1, <1>3, <1>4, <1>5
  <1>7. w[1] = nx[p] /\ w[1] # p
    BY <1>2, <1>3, <1>6
  <1> QED BY <1>7

\* The list ring is a circle of S.
RingOn(ring, S) == IsRing(ring.card, ring.nx, S)

\* The list after is ring without pid.
IsWithout(after, ring, S, pid) ==
    /\ RingOn(after, S \ {pid})
    /\ pid \in S => after.nx[pid] \in S \ {pid} /\ after.cut = ring.cut \cup {pid}
    /\ pid \notin S => after = ring

\* removeProcess leaves a circle of the others, and the removed slot leads into it.
LEMMA RingRemove ==
    ASSUME NEW B, NEW ring \in Rings(B), NEW S, S \subseteq B, current \in S, RingOn(ring, S),
           NEW pid, \E x \in S : x # pid
    PROVE  IsWithout(removeProcess(ring, pid), ring, S, pid)
  <1> DEFINE nx == ring.nx
             n == ring.card
             w == walk(nx, current)
             after == removeProcess(ring, pid)
  <1> SUFFICES IsWithout(after, ring, S, pid)
    OBVIOUS
  <1>1. /\ Links(nx, B) /\ n \in Int /\ B \subseteq Pids
        /\ IsRing(n, nx, S) /\ S \subseteq Pids
    BY DEF Rings, Links, RingOn
  <1>2. n \in Nat
    BY <1>1 DEF IsRing
  <1>3. \/ after = ring /\ \A i \in 0 .. n - 1 : w[i + 1] # pid
        \/ \E i \in 0 .. n - 1 : Found(nx, n, pid, i) /\ after = CutOut(ring, w[i], pid)
    <2>1. ~(n < 0)
      BY <1>2
    <2> QED BY <2>1, RemoveIs
  <1>4. /\ {w[i] : i \in 0 .. n - 1} = S
        /\ w[n] = current
        /\ \A i \in 0 .. N : w[i + 1] = nx[w[i]] /\ w[i] \in S
    <2> HIDE DEF n, nx
    <2> QED BY <1>1, RingMeets
  <1>5. n \in Nat /\ n # 0 /\ n =< N /\ N \in Nat /\ Leads(nx, S)
    <2> HIDE DEF n, nx
    <2> QED BY <1>1, RingSize, HopsAre
  <1>6. w[0] = current
    <2> HIDE DEF n, nx
    <2> QED BY <1>5, WalkIs
  <1> HIDE DEF w, n, nx, after
  <1>7. CASE after = ring /\ \A i \in 0 .. n - 1 : w[i + 1] # pid
    <2>1. ASSUME pid \in S PROVE FALSE
      <3>1. PICK i \in 0 .. n - 1 : w[i] = pid
        BY <1>4, <2>1
      <3>2. CASE i = 0
        <4>1. n - 1 \in 0 .. n - 1 /\ (n - 1) + 1 = n
          BY <1>5
        <4> QED BY <1>4, <1>6, <1>7, <3>1, <3>2, <4>1
      <3>3. CASE i # 0
        <4>1. i - 1 \in 0 .. n - 1 /\ (i - 1) + 1 = i
          BY <1>5, <3>3
        <4> QED BY <1>7, <3>1, <4>1
      <3> QED BY <3>2, <3>3
    <2>2. S \ {pid} = S /\ after = ring
      BY <1>1, <1>7, <2>1
    <2>3. RingOn(after, S \ {pid}) /\ pid \notin S
      BY <2>1, <2>2
    <2>4. IsWithout(after, ring, S, pid)
      BY <2>2, <2>3 DEF IsWithout
    <2> QED BY <2>4
  <1>8. CASE \E i \in 0 .. n - 1 : Found(nx, n, pid, i) /\ after = CutOut(ring, w[i], pid)
    <2>1. PICK i \in 0 .. n - 1 : Found(nx, n, pid, i) /\ after = CutOut(ring, w[i], pid)
      BY <1>8
    <2>2. i \in 0 .. N /\ w[i + 1] = pid
      BY <1>5, <2>1 DEF Found, w
    <2> DEFINE q == w[i]
    <2>3. q \in S /\ nx[q] = pid /\ pid \in S
      BY <1>4, <1>5, <2>2 DEF Leads
    <2> HIDE DEF q
    <2>4. q # pid
      BY <1>1, <2>3, NoSelfLoop
    <2>5. IsRing(n - 1, Cut(nx, q, pid), S \ {pid}) /\ nx[pid] \in S \ {pid}
          /\ Cut(nx, q, pid)[pid] = nx[pid]
      <3>1. Links(nx, B) /\ S \subseteq B /\ IsRing(n, nx, S) /\ pid # q
        BY <1>1, <2>4
      <3> QED BY <2>3, <3>1, RingCut
    <2>6. after.nx = Cut(nx, q, pid) /\ after.card = n - 1 /\ after.cut = ring.cut \cup {pid}
      BY <2>1 DEF q, CutOut, nx, n
    <2>7. RingOn(after, S \ {pid})
      BY <2>5, <2>6 DEF RingOn
    <2>8. after.nx[pid] \in S \ {pid} /\ after.cut = ring.cut \cup {pid}
      BY <2>5, <2>6
    <2>9. IsWithout(after, ring, S, pid)
      BY <2>3, <2>7, <2>8 DEF IsWithout
    <2> QED BY <2>9
  <1> QED BY <1>3, <1>7, <1>8

\* Who is gone after i rounds of killAllExceptCurrent.
Gone(ring, i) == {walk(ring.nx, current)[k] : k \in {j \in 1 .. i : ~Spared(ring, j)}}

\* killAllExceptCurrent leaves the circle of init and current, and does not cut init out.
LEMMA KillRing ==
    ASSUME NEW B, NEW ring \in Rings(B), NEW S, S \subseteq B, current \in S, InitPid \in S,
           RingOn(ring, S)
    PROVE  /\ RingOn(killAllExceptCurrent(ring), {InitPid, current})
           /\ InitPid \in killAllExceptCurrent(ring).cut => InitPid \in ring.cut
  <1> DEFINE nx == ring.nx
             n == ring.card
             w == walk(nx, current)
  <1>1. current \in B /\ B \subseteq Pids /\ S \subseteq Pids /\ IsRing(n, nx, S)
    BY DEF Rings, Links, RingOn
  <1>2. PICK r \in [Hops -> Rings(B)] : KillRun(ring, r) /\ killAllExceptCurrent(ring) = r[N + 1]
    BY <1>1, KillIs
  <1>3. /\ {w[i] : i \in 0 .. n - 1} = S
        /\ \A i \in 1 .. n - 1 : w[i] # current
    <2> HIDE DEF n, nx
    <2> QED BY <1>1, RingMeets
  <1>4. n \in Nat /\ n # 0 /\ n =< N /\ N \in Nat /\ Leads(nx, S) /\ Hops = 0 .. N + 1
    <2> HIDE DEF n, nx
    <2> QED BY <1>1, RingSize, HopsAre
  <1>5. w[0] = current
    <2> HIDE DEF n, nx
    <2> QED BY <1>4, WalkIs
  <1>6. /\ r[0] = ring
        /\ \A i \in 1 .. N + 1 :
             r[i] = IF Spared(ring, i) THEN r[i - 1] ELSE removeProcess(r[i - 1], w[i])
    BY <1>2 DEF KillRun
  <1>7. \A i \in 1 .. N + 1 : Spared(ring, i) <=> (w[i] = InitPid \/ \E k \in 1 .. i : w[k] = current)
    BY DEF Spared
  <1>8. \A i \in Hops : \A x : x \in Gone(ring, i) <=> \E k \in 1 .. i : ~Spared(ring, k) /\ w[k] = x
    BY DEF Gone
  <1> HIDE DEF w, n, nx
  <1>9. \A i \in Hops : InitPid \notin Gone(ring, i) /\ current \notin Gone(ring, i)
    <2>1. ASSUME NEW i \in Hops PROVE InitPid \notin Gone(ring, i) /\ current \notin Gone(ring, i)
      <3>1. ASSUME NEW k \in 1 .. i, ~Spared(ring, k) PROVE w[k] # InitPid /\ w[k] # current
        <4>1. k \in 1 .. N + 1 /\ k \in 1 .. k
          BY <1>4
        <4> QED BY <1>7, <3>1, <4>1
      <3> QED BY <1>8, <3>1
    <2> QED BY <2>1
  <1> DEFINE T == {i \in Hops : /\ RingOn(r[i], S \ Gone(ring, i))
                               /\ r[i].cut \subseteq ring.cut \cup Gone(ring, i)}
  <1>10. 0 \in T
    <2>1. 0 \in Hops /\ 1 .. 0 = {}
      BY <1>4
    <2>2. Gone(ring, 0) = {}
      BY <1>8, <2>1
    <2>3. S \ Gone(ring, 0) = S
      BY <2>2
    <2> QED BY <1>6, <2>1, <2>3
  <1>11. ASSUME NEW i \in 0 .. (N + 1) - 1, i \in T PROVE i + 1 \in T
    <2>1. i \in Hops /\ i + 1 \in Hops /\ i + 1 \in 1 .. N + 1 /\ (i + 1) - 1 = i
          /\ \A k : k \in 1 .. i + 1 <=> k \in 1 .. i \/ k = i + 1
      BY <1>4
    <2>2. r[i + 1] = IF Spared(ring, i + 1) THEN r[i] ELSE removeProcess(r[i], w[i + 1])
      BY <1>6, <2>1
    <2>3. RingOn(r[i], S \ Gone(ring, i)) /\ r[i].cut \subseteq ring.cut \cup Gone(ring, i)
      BY <1>11
    <2>4. CASE Spared(ring, i + 1)
      <3>1. Gone(ring, i + 1) = Gone(ring, i)
        BY <1>8, <2>1, <2>4
      <3>2. /\ RingOn(r[i + 1], S \ Gone(ring, i + 1))
            /\ r[i + 1].cut \subseteq ring.cut \cup Gone(ring, i + 1)
        BY <2>2, <2>3, <2>4, <3>1
      <3> QED BY <2>1, <3>2
    <2>5. CASE ~Spared(ring, i + 1)
      <3> DEFINE S1 == S \ Gone(ring, i)
                 pid == w[i + 1]
      <3>1. r[i] \in Rings(B) /\ S1 \subseteq B /\ current \in S1 /\ RingOn(r[i], S1)
        BY <1>1, <1>9, <2>1, <2>3
      <3>2. \E k \in 1 .. i + 1 : ~Spared(ring, k) /\ w[k] = pid
        BY <2>1, <2>5
      <3>3. pid \in Gone(ring, i + 1)
        BY <1>8, <2>1, <3>2
      <3>4. current # pid
        BY <1>9, <2>1, <3>3
      <3>5. S \ Gone(ring, i + 1) = S1 \ {pid}
        BY <1>8, <2>1, <2>5
      <3> HIDE DEF S1, pid
      <3>6. \E x \in S1 : x # pid
        BY <3>1, <3>4
      <3>7. IsWithout(removeProcess(r[i], pid), r[i], S1, pid)
        BY <3>1, <3>6, RingRemove
      <3>8. RingOn(removeProcess(r[i], pid), S1 \ {pid})
        BY <3>7 DEF IsWithout
      <3>9. RingOn(r[i + 1], S \ Gone(ring, i + 1))
        BY <2>2, <2>5, <3>5, <3>8 DEF pid
      <3>10. removeProcess(r[i], pid).cut \subseteq r[i].cut \cup {pid}
        BY <3>7 DEF IsWithout
      <3>11. Gone(ring, i) \subseteq Gone(ring, i + 1)
        BY <1>8, <2>1
      <3>12. r[i + 1].cut \subseteq ring.cut \cup Gone(ring, i + 1)
        BY <2>2, <2>3, <2>5, <3>3, <3>10, <3>11 DEF pid
      <3> QED BY <2>1, <3>9, <3>12
    <2> QED BY <2>4, <2>5
  <1> HIDE DEF T
  <1>12. N + 1 \in Nat
    BY <1>4
  <1>13. \A i \in 0 .. N + 1 : i \in T
    BY <1>10, <1>11, <1>12, CountingUp
  <1>14. N + 1 \in T /\ N + 1 \in Hops
    BY <1>4, <1>13
  <1>15. /\ RingOn(r[N + 1], S \ Gone(ring, N + 1))
         /\ r[N + 1].cut \subseteq ring.cut \cup Gone(ring, N + 1)
    BY <1>14 DEF T
  <1>16. S \ Gone(ring, N + 1) = {InitPid, current}
    <2>1. ASSUME NEW x \in S, x # InitPid, x # current PROVE x \in Gone(ring, N + 1)
      <3>1. PICK k \in 0 .. n - 1 : w[k] = x
        BY <1>3
      <3>2. k \in 1 .. n - 1 /\ k \in 1 .. N + 1 /\ \A j \in 1 .. k : j \in 1 .. n - 1
        BY <1>4, <1>5, <2>1, <3>1
      <3>3. ~Spared(ring, k)
        BY <1>3, <1>7, <2>1, <3>1, <3>2
      <3> QED BY <1>8, <1>14, <3>1, <3>2, <3>3
    <2> QED BY <1>9, <1>14, <2>1
  <1>17. InitPid \in r[N + 1].cut => InitPid \in ring.cut
    BY <1>9, <1>14, <1>15
  <1> QED BY <1>2, <1>15, <1>16, <1>17

-----------------------------------------------------------------------------
(* Every step keeps the circle, and is one of the process table.           *)

\* The processes that were created and not removed.
Live == Born \ ended

\* What the two invariants say of the circle.
LEMMA RingFacts ==
    ASSUME LinksInv, RingInv
    PROVE  /\ Ring \in Rings(Born) /\ RingOn(Ring, Live) /\ Ring.nx = next
           /\ Ring.card = cardinal_processes /\ Ring.cut = {}
           /\ Live \subseteq Born /\ Born \subseteq Pids
           /\ current \in Live /\ InitPid \in Live
           /\ Leads(next, Live) /\ Links(next, Born)
           /\ state \in [Pids -> ProcessStates] /\ StatesOK(state)
           /\ IsRing(cardinal_processes, next, Live)
           /\ Visited = Live
  <1>1. /\ Ring \in Rings(Born) /\ Ring.nx = next /\ Ring.card = cardinal_processes
        /\ Ring.cut = {}
        /\ Born \subseteq Pids /\ StatesOK(state) /\ ListOK(next, Born, cardinal_processes, current)
    BY InvFacts
  <1>2. Live \subseteq Born /\ current \in Live /\ InitPid \in Live
    BY <1>1 DEF RingInv, Live, ListOK
  <1>3. IsRing(cardinal_processes, next, Live)
    BY DEF RingInv, Live
  <1>4. RingOn(Ring, Live)
    BY <1>1, <1>3 DEF RingOn
  <1>5. Live \subseteq Pids
    BY <1>1, <1>2
  <1>6. Leads(next, Live)
    BY <1>3, <1>5, RingSize
  <1>7. {walk(next, current)[i] : i \in 0 .. cardinal_processes - 1} = Live
    BY <1>2, <1>3, <1>5, RingMeets
  <1>8. Links(next, Born) /\ state \in [Pids -> ProcessStates]
    BY <1>1 DEF ListOK, StatesOK
  <1> QED BY <1>1, <1>2, <1>3, <1>4, <1>6, <1>7, <1>8 DEF Visited

\* The process table that the states st of the slots B are, when the slots S are linked.
Abs(st, B, S) ==
    [p \in Pids |-> IF p \notin B THEN "UNBORN" ELSE IF p \in S THEN st[p] ELSE "REMOVED"]

AbsOK == abstractState = Abs(state, Born, Live)

\* The list of init holds the live processes.
LEMMA AbsIs == LinksInv /\ RingInv => AbsOK
  <1> SUFFICES ASSUME LinksInv, RingInv PROVE abstractState = Abs(state, Born, Live)
    BY DEF AbsOK
  <1>1. /\ Live \subseteq Born /\ Born \subseteq Pids /\ InitPid \in Live /\ Leads(next, Live)
        /\ IsRing(cardinal_processes, next, Live)
    BY RingFacts
  <1>2. Live \subseteq Pids
    BY <1>1
  <1> DEFINE w == walk(next, InitPid)
             n == cardinal_processes
  <1>3. {w[i] : i \in 0 .. n - 1} = Live
    BY <1>1, <1>2, RingMeets
  <1>4. \A i \in Hops : w[i] \in Live
    BY <1>1, WalkIs
  <1>5. n \in Nat /\ n =< N /\ N \in Nat /\ Hops = 0 .. N + 1
    BY <1>1, <1>2, RingSize, HopsAre
  <1>6. \A i \in 0 .. n - 1 : i \in Hops
    BY <1>5
  <1> HIDE DEF w, n
  <1>7. {w[i] : i \in Hops} = Live
    BY <1>3, <1>4, <1>6
  <1>8. Linked = Live
    BY <1>7 DEF Linked, w
  <1> QED BY <1>1, <1>8 DEF abstractState, Abs

\* A running process goes back to READY.
Demote(st) == IF st[current] = "RUNNING" THEN [st EXCEPT ![current] = "READY"] ELSE st

\* The state after schedule: a READY process of S runs.
Dispatched(st, S) ==
    \E q \in S : /\ Demote(st)[q] = "READY"
                 /\ current' = q
                 /\ state' = [Demote(st) EXCEPT ![q] = "RUNNING"]

\* The links lead into S, from current too.
LeadsIn(nx, S, from) == \A x \in S \cup {from} : nx[x] \in S

\* schedule stays in the circle, and enters it when current was just removed.
LEMMA ScheduleIs ==
    ASSUME NEW nx, NEW S, S \subseteq Pids, current \in Pids,
           LeadsIn(nx, S, current), NEW st, schedule(nx, st)
    PROVE  Dispatched(st, S)
  <1> DEFINE w == walk(nx, current)
             B == S \cup {current}
  <1>0. \A x \in S \cup {current} : nx[x] \in S
    BY DEF LeadsIn
  <1>1. Leads(nx, B)
    BY <1>0 DEF Leads
  <1>2. N \in Nat /\ Hops = 0 .. N + 1
    BY HopsAre
  <1>3. (\A i \in 0 .. N : w[i + 1] = nx[w[i]]) /\ \A i \in Hops : w[i] \in B
    <2>1. current \in B
      OBVIOUS
    <2> HIDE DEF B
    <2> QED BY <1>1, <2>1, WalkIs
  <1>4. PICK j \in Hops \ {0} : /\ Demote(st)[w[j]] = "READY"
                                /\ current' = w[j]
                                /\ state' = [Demote(st) EXCEPT ![w[j]] = "RUNNING"]
    BY DEF schedule, Demote
  <1>5. w[j] \in S
    <2>1. j - 1 \in 0 .. N /\ (j - 1) + 1 = j /\ j - 1 \in Hops
      BY <1>2
    <2>2. w[j] = nx[w[j - 1]] /\ w[j - 1] \in B
      <3> HIDE DEF w, B
      <3> QED BY <1>3, <2>1
    <2> HIDE DEF w
    <2> QED BY <1>0, <2>2
  <1> HIDE DEF w
  <1> QED BY <1>4, <1>5 DEF Dispatched

\* The table makes the same step.
LEMMA TableSchedule ==
    ASSUME NEW st \in [Pids -> ProcessStates], NEW B, B \subseteq Pids, NEW S, S \subseteq B,
           current \in Pids, Dispatched(st, S), abstractState' = Abs(state', B, S)
    PROVE  Table!schedule(Abs(st, B, S))
  <1>1. PICK q \in S : /\ Demote(st)[q] = "READY"
                       /\ current' = q
                       /\ state' = [Demote(st) EXCEPT ![q] = "RUNNING"]
    BY DEF Dispatched
  <1> DEFINE a == Abs(st, B, S)
             d == Table!Demoted(a)
  <1>2. /\ Demote(st) \in [Pids -> ProcessStates]
        /\ \A p \in Pids : Demote(st)[p] = IF p = current /\ st[p] = "RUNNING" THEN "READY" ELSE st[p]
    BY DEF Demote, ProcessStates
  <1>3. \A p \in Pids : d[p] = IF p = current /\ a[p] = "RUNNING" THEN "READY" ELSE a[p]
    BY DEF Table!Demoted
  <1>4. \A p \in Pids : a[p] = IF p \notin B THEN "UNBORN" ELSE IF p \in S THEN st[p] ELSE "REMOVED"
    BY DEF Abs
  <1>5. q \in Pids /\ q \in B
    OBVIOUS
  <1>6. d = [p \in Pids |-> d[p]]
    BY DEF Table!Demoted
  <1>7. \A p \in Pids : state'[p] = IF p = q THEN "RUNNING" ELSE Demote(st)[p]
    BY <1>1, <1>2, <1>5
  <1> HIDE DEF a, d
  <1>8. d[q] = "READY"
    BY <1>1, <1>2, <1>3, <1>4, <1>5
  <1>9. Abs(state', B, S) = [d EXCEPT ![q] = "RUNNING"]
    <2>1. \A p \in Pids : Abs(state', B, S)[p] = IF p = q THEN "RUNNING" ELSE d[p]
      <3>1. \A p \in Pids : Abs(state', B, S)[p] =
                   IF p \notin B THEN "UNBORN" ELSE IF p \in S THEN state'[p] ELSE "REMOVED"
        BY DEF Abs
      <3> QED BY <1>2, <1>3, <1>4, <1>5, <1>7, <3>1
    <2>2. Abs(state', B, S) = [p \in Pids |-> Abs(state', B, S)[p]]
      BY DEF Abs
    <2>3. Abs(state', B, S) = [p \in Pids |-> IF p = q THEN "RUNNING" ELSE d[p]]
      BY <2>1, <2>2
    <2>4. [d EXCEPT ![q] = "RUNNING"] = [p \in Pids |-> IF p = q THEN "RUNNING" ELSE d[p]]
      BY <1>6
    <2> QED BY <2>3, <2>4
  <1>10. Table!schedule(a)
    <2>1. abstractState' = [d EXCEPT ![q] = "RUNNING"]
      BY <1>9
    <2> QED BY <1>1, <1>5, <1>8, <2>1 DEF Table!schedule, d
  <1> QED BY <1>10 DEF a

\* The links are a circle of S afterwards, the slots B, and everybody else is new.
RingThen(B, S) ==
    /\ Born' = B /\ B \subseteq Pids /\ S \subseteq B /\ S = B \ ended' /\ ended' \subseteq B \ {InitPid}
    /\ IsRing(cardinal_processes', next', S)
    /\ exit' = exit

\* RingInv and the table after a step.
LEMMA RingStep1 ==
    ASSUME LinksInv', RingInv, NEW B, NEW S, RingThen(B, S), current' \in S,
           \A p \in Pids \ B : state'[p] = "READY",
           state'[current'] = "RUNNING" \/ current' = InitPid
    PROVE  RingInv' /\ abstractState' = Abs(state', B, S)
  <1>1. SlotsTyped' /\ state'[InitPid] \in {"READY", "RUNNING"}
    BY DEF LinksInv
  <1>2. exit' = [p \in Pids |-> UserCode]
    BY DEF RingInv, RingThen
  <1>3. Live' = S /\ Born' = B
    BY DEF Live, RingThen
  <1>4. /\ ended' \subseteq Born' \ {InitPid} /\ current' \notin ended'
        /\ IsRing(cardinal_processes', next', Born' \ ended')
        /\ \A p \in Pids \ Born' : state'[p] = "READY"
    BY <1>3 DEF RingThen
  <1>5. RingInv'
    BY <1>1, <1>2, <1>4 DEF RingInv
  <1>6. LinksInv' /\ RingInv' => AbsOK'
    BY AbsIs, PTL
  <1> QED BY <1>3, <1>5, <1>6 DEF AbsOK

\* The same for a step that ends in schedule.
LEMMA RingStep2 ==
    ASSUME LinksInv', RingInv, NEW B, NEW S, RingThen(B, S), current \in B,
           NEW nx, next' = nx, LeadsIn(nx, S, current),
           NEW st \in [Pids -> ProcessStates], \A p \in Pids \ B : st[p] = "READY",
           schedule(nx, st)
    PROVE  RingInv' /\ Table!schedule(Abs(st, B, S))
  <1>1. B \subseteq Pids /\ S \subseteq B /\ S \subseteq Pids /\ current \in Pids
    BY DEF RingThen
  <1>2. Dispatched(st, S)
    BY <1>1, ScheduleIs
  <1>3. PICK q \in S : /\ current' = q
                       /\ state' = [Demote(st) EXCEPT ![q] = "RUNNING"]
    BY <1>2 DEF Dispatched
  <1>4. /\ Demote(st) \in [Pids -> ProcessStates]
        /\ \A p \in Pids : p # current => Demote(st)[p] = st[p]
    BY <1>1 DEF Demote, ProcessStates
  <1>5. current' \in S /\ state'[current'] = "RUNNING" /\ \A p \in Pids \ B : state'[p] = "READY"
    BY <1>1, <1>3, <1>4
  <1>6. RingInv' /\ abstractState' = Abs(state', B, S)
    BY <1>5, RingStep1
  <1> QED BY <1>1, <1>2, <1>6, TableSchedule

\* A step of the list that is a step of the table, or none.
TableMoves == [Table!PTNext]_<<abstractState, current>>

\* The list is left alone.
LEMMA SameRing ==
    ASSUME LinksInv, RingInv, UNCHANGED <<next, cardinal_processes, exit, ended>>
    PROVE  RingThen(Born, Live)
  <1>1. Born' = Born /\ Born \subseteq Pids /\ Live \subseteq Born
    BY RingFacts DEF Born
  <1> QED BY <1>1 DEF RingThen, RingInv, Live

\* A caller is running.
LEMMA CallingIs ==
    ASSUME LinksInv, RingInv, Calling
    PROVE  Table!Calling /\ abstractState[current] = "RUNNING" /\ current # InitPid
           /\ state[current] = "RUNNING"
  <1>1. abstractState = Abs(state, Born, Live) /\ current \in Live /\ Live \subseteq Born
        /\ Born \subseteq Pids
    BY RingFacts, AbsIs DEF AbsOK
  <1>2. current # InitPid /\ state[current] = "RUNNING"
    BY DEF Calling, RingInv
  <1>3. abstractState[current] = "RUNNING"
    BY <1>1, <1>2 DEF Abs
  <1> QED BY <1>2, <1>3 DEF Table!Calling

\* schedule on the unchanged list.
LEMMA RingReschedule ==
    ASSUME LinksInv, RingInv, LinksInv', UNCHANGED <<next, cardinal_processes, exit, ended>>,
           NEW st \in [Pids -> ProcessStates], \A p \in Pids \ Born : st[p] = "READY",
           schedule(next, st)
    PROVE  RingInv' /\ Table!schedule(Abs(st, Born, Live))
  <1>1. RingThen(Born, Live) /\ next' = next
    BY SameRing
  <1>2. current \in Born /\ LeadsIn(next, Live, current)
    BY RingFacts DEF LeadsIn, Leads
  <1> QED BY <1>1, <1>2, RingStep2

\* The timer is the tick of the table.
LEMMA TimerRing ==
    ASSUME LinksInv, RingInv, LinksInv', timerTickHandler
    PROVE  RingInv' /\ TableMoves
  <1>1. PICK W \in SUBSET {p \in Visited : state[p] = "SLEEPING"} :
             schedule(next, [p \in Pids |-> IF p \in W THEN "READY" ELSE state[p]])
    BY DEF timerTickHandler
  <1> DEFINE st == [p \in Pids |-> IF p \in W THEN "READY" ELSE state[p]]
  <1>2. /\ state \in [Pids -> ProcessStates] /\ Visited = Live /\ Live \subseteq Born
        /\ Born \subseteq Pids /\ W \subseteq Live
        /\ \A p \in Pids \ Born : state[p] = "READY"
        /\ abstractState = Abs(state, Born, Live)
    BY RingFacts, AbsIs DEF Live, RingInv, AbsOK
  <1>3. st \in [Pids -> ProcessStates] /\ \A p \in Pids \ Born : st[p] = "READY"
    BY <1>2 DEF ProcessStates
  <1>4. Abs(st, Born, Live) = [p \in Pids |-> IF p \in W THEN "READY" ELSE abstractState[p]]
    BY <1>2 DEF Abs
  <1>5. W \in SUBSET {p \in Pids : abstractState[p] = "SLEEPING"}
    BY <1>2 DEF Abs
  <1> HIDE DEF st
  <1>6. schedule(next, st) /\ UNCHANGED <<next, cardinal_processes, exit, ended>>
    BY <1>1 DEF st, timerTickHandler
  <1>7. RingInv' /\ Table!schedule(Abs(st, Born, Live))
    BY <1>3, <1>6, RingReschedule
  <1>8. Table!schedule([p \in Pids |-> IF p \in W THEN "READY" ELSE abstractState[p]])
    BY <1>4, <1>7
  <1>9. Table!PTTick
    BY <1>5, <1>8 DEF Table!PTTick
  <1> QED BY <1>7, <1>9 DEF TableMoves, Table!PTNext

\* A suspension is one of the table that wakes nobody.
LEMMA SuspendRing ==
    ASSUME LinksInv, RingInv, LinksInv', NEW s \in {"BLOCKED", "SLEEPING"}, Suspend(s)
    PROVE  RingInv' /\ TableMoves
  <1> DEFINE st == changeProcessState(state, current, s)
  <1>1. /\ state \in [Pids -> ProcessStates] /\ Visited = Live /\ Live \subseteq Born
        /\ Born \subseteq Pids /\ current \in Live /\ NoPid \notin Pids
        /\ \A p \in Pids \ Born : state[p] = "READY"
        /\ abstractState = Abs(state, Born, Live)
    BY RingFacts, AbsIs, SchedulerAssumption DEF RingInv, AbsOK
  <1>2. st = [state EXCEPT ![current] = s] /\ s \in ProcessStates
    BY <1>1 DEF changeProcessState, ProcessStates
  <1> HIDE DEF st
  <1>3. st \in [Pids -> ProcessStates] /\ \A p \in Pids \ Born : st[p] = "READY"
    BY <1>1, <1>2
  <1>4. Abs(st, Born, Live) = [p \in Pids |-> IF p = current THEN s
                                              ELSE IF p = NoPid THEN "READY" ELSE abstractState[p]]
    BY <1>1, <1>2 DEF Abs
  <1>5. schedule(next, st) /\ UNCHANGED <<next, cardinal_processes, exit, ended>>
    BY DEF st, Suspend
  <1>6. RingInv' /\ Table!schedule(Abs(st, Born, Live))
    BY <1>3, <1>5, RingReschedule
  <1>7. Table!schedule([p \in Pids |-> IF p = current THEN s
                                       ELSE IF p = NoPid THEN "READY" ELSE abstractState[p]])
    BY <1>4, <1>6
  <1>8. Table!Calling
    BY CallingIs DEF Suspend
  <1>9. Table!PTSuspend
    BY <1>7, <1>8 DEF Table!PTSuspend
  <1> QED BY <1>6, <1>9 DEF TableMoves, Table!PTNext

\* A wake-up is one of the table.
LEMMA WakeRing ==
    ASSUME LinksInv, RingInv, LinksInv', NEW p \in Pids, Wake(p)
    PROVE  RingInv' /\ TableMoves
  <1>1. /\ state \in [Pids -> ProcessStates] /\ Visited = Live /\ Live \subseteq Born
        /\ Born \subseteq Pids /\ current \in Live
        /\ \A q \in Pids \ Born : state[q] = "READY"
        /\ abstractState = Abs(state, Born, Live)
    BY RingFacts, AbsIs DEF RingInv, AbsOK
  <1>2. /\ p \in Live /\ state[p] = "BLOCKED" /\ state' = changeProcessState(state, p, "READY")
        /\ UNCHANGED <<next, current, cardinal_processes, exit, ended>>
    BY <1>1 DEF Wake
  <1>3. state' = [state EXCEPT ![p] = "READY"]
    BY <1>1, <1>2 DEF changeProcessState
  <1>4. RingThen(Born, Live) /\ current' = current
    BY <1>2, SameRing
  <1>5. state[current] = "RUNNING" /\ Table!Calling /\ abstractState = Abs(state, Born, Live)
    BY <1>1, CallingIs DEF Wake
  <1>6. current' \in Live /\ state'[current'] = "RUNNING" /\ \A q \in Pids \ Born : state'[q] = "READY"
    BY <1>1, <1>2, <1>3, <1>5
  <1>7. RingInv' /\ abstractState' = Abs(state', Born, Live)
    BY <1>4, <1>6, RingStep1
  <1>8. abstractState' = [abstractState EXCEPT ![p] = "READY"] /\ abstractState[p] = "BLOCKED"
    BY <1>1, <1>2, <1>3, <1>7 DEF Abs
  <1>9. Table!PTWake
    BY <1>2, <1>5, <1>8 DEF Table!PTWake
  <1> QED BY <1>7, <1>9 DEF TableMoves, Table!PTNext

\* A creation is one of the table.
LEMMA CreateRing ==
    ASSUME LinksInv, RingInv, LinksInv', NEW p \in Pids, createProcess(p)
    PROVE  RingInv' /\ TableMoves
  <1>1. /\ state \in [Pids -> ProcessStates] /\ Live \subseteq Born
        /\ Born \subseteq Pids /\ current \in Live /\ InitPid \in Live
        /\ \A q \in Pids \ Born : state[q] = "READY"
        /\ abstractState = Abs(state, Born, Live)
        /\ Links(next, Born) /\ IsRing(cardinal_processes, next, Live)
        /\ ended \subseteq Born \ {InitPid}
    BY RingFacts, AbsIs DEF RingInv, AbsOK
  <1>2. /\ p \in Pids \ Born /\ next' = addProcess(next, p)
        /\ cardinal_processes' = cardinal_processes + 1
        /\ UNCHANGED <<state, current, exit, ended>>
    BY DEF createProcess
  <1> DEFINE B == Born \cup {p}
             S == Live \cup {p}
  <1>3. IsRing(cardinal_processes', next', S)
    BY <1>1, <1>2, RingInsert
  <1>4. Born' = B
    <2>1. Links(addProcess(next, p), B)
      BY <1>1, <1>2, AddLinks
    <2> QED BY <1>2, <2>1 DEF Links, Born
  <1>5. S \subseteq B /\ B \subseteq Pids /\ S = B \ ended' /\ ended' \subseteq B \ {InitPid}
        /\ (Pids \ B) \subseteq Pids \ Born
    BY <1>1, <1>2 DEF Live
  <1>6. current' \in S /\ \A q \in Pids \ B : state'[q] = "READY"
    BY <1>1, <1>2
  <1>7. state'[current'] = "RUNNING" /\ Table!Calling
    BY <1>2, CallingIs DEF createProcess
  <1>8. Abs(state, B, S) = [abstractState EXCEPT ![p] = "READY"] /\ abstractState[p] = "UNBORN"
    BY <1>1, <1>2 DEF Abs, Live
  <1> HIDE DEF B, S
  <1>9. RingThen(B, S)
    BY <1>2, <1>3, <1>4, <1>5 DEF RingThen
  <1>10. RingInv' /\ abstractState' = Abs(state', B, S)
    BY <1>6, <1>7, <1>9, RingStep1
  <1>11. abstractState' = [abstractState EXCEPT ![p] = "READY"] /\ current' = current
    BY <1>2, <1>8, <1>10
  <1>12. Table!PTCreate
    BY <1>2, <1>7, <1>8, <1>11 DEF Table!PTCreate
  <1> QED BY <1>10, <1>12 DEF TableMoves, Table!PTNext

\* A removal is one of the table: of another process, of the caller, or of nobody.
LEMMA KillRingStep ==
    ASSUME LinksInv, RingInv, LinksInv', NEW p \in Pids, kill(p)
    PROVE  RingInv' /\ TableMoves
  <1>1. /\ state \in [Pids -> ProcessStates] /\ Live \subseteq Born
        /\ Born \subseteq Pids /\ current \in Live /\ InitPid \in Live
        /\ \A q \in Pids \ Born : state[q] = "READY"
        /\ abstractState = Abs(state, Born, Live)
        /\ ended \subseteq Born \ {InitPid}
        /\ Ring \in Rings(Born) /\ RingOn(Ring, Live)
        /\ Ring.cut = {}
    BY RingFacts, AbsIs DEF RingInv, AbsOK
  <1>2. p \in Born /\ exit' = exit /\ Calling
    BY DEF kill
  <1>3. Table!Calling /\ current # InitPid /\ state[current] = "RUNNING"
        /\ abstractState[current] = "RUNNING"
    BY <1>2, CallingIs
  <1>4. CASE p = InitPid
    <2>1. schedule(next, state) /\ UNCHANGED <<next, cardinal_processes, exit, ended>>
      BY <1>4 DEF kill
    <2>2. RingInv' /\ Table!schedule(Abs(state, Born, Live))
      BY <1>1, <2>1, RingReschedule
    <2>3. Table!PTYield
      BY <1>1, <1>3, <2>2 DEF Table!PTYield
    <2> QED BY <2>2, <2>3 DEF TableMoves, Table!PTNext
  <1>5. CASE p # InitPid
    <2> DEFINE ring == removeProcess(Ring, p)
               S == Live \ {p}
    <2>1. /\ next' = ring.nx /\ cardinal_processes' = ring.card
          /\ ended' = ended \cup {p} \cup ring.cut
          /\ IF current \in ring.cut THEN schedule(ring.nx, state) ELSE UNCHANGED <<state, current>>
      BY <1>5 DEF kill
    <2>2. IsWithout(ring, Ring, Live, p)
      BY <1>1, <1>5, RingRemove
    <2>3. ring \in Rings(Born)
      BY <1>1, <1>2, RemoveKeeps DEF Kept
    <2> HIDE DEF ring
    <2>10. ring.cut = IF p \in Live THEN {p} ELSE {}
      BY <1>1, <2>2 DEF IsWithout
    <2>4. RingOn(ring, S) /\ Links(ring.nx, Born)
      BY <2>2, <2>3 DEF IsWithout, Rings
    <2>5. S \subseteq Born /\ S = Born \ ended' /\ ended' \subseteq Born \ {InitPid} /\ Born' = Born
      BY <1>1, <1>2, <1>5, <2>1, <2>4, <2>10 DEF Live, Links, Born
    <2>6. IsRing(cardinal_processes', next', S)
      BY <2>1, <2>4 DEF RingOn
    <2>7. RingThen(Born, S)
      BY <1>1, <1>2, <2>5, <2>6 DEF RingThen
    <2>8. CASE p = current
      <3>1. ring.nx[current] \in S
        BY <1>1, <2>2, <2>8 DEF IsWithout
      <3>3. schedule(ring.nx, state)
        BY <1>1, <2>1, <2>8, <2>10
      <3>4. LeadsIn(ring.nx, S, current)
        <4>1. S \subseteq Pids /\ IsRing(ring.card, ring.nx, S)
          BY <1>1, <2>4 DEF RingOn
        <4>2. Leads(ring.nx, S)
          BY <4>1, RingSize
        <4> QED BY <3>1, <4>2 DEF LeadsIn, Leads
      <3>5. current \in Born
        BY <1>1
      <3>6. RingInv' /\ Table!schedule(Abs(state, Born, S))
        <4> DEFINE nx == ring.nx
        <4>1. next' = nx /\ LeadsIn(nx, S, current) /\ schedule(nx, state)
          BY <2>1, <3>3, <3>4
        <4> HIDE DEF nx, S
        <4> QED BY <1>1, <2>7, <3>5, <4>1, RingStep2
      <3>7. Abs(state, Born, S) = Table!Removed(abstractState, current)
        BY <1>1, <1>3, <2>8 DEF Abs, Table!Removed, Table!changeProcessState, Table!Alive
      <3>8. Table!PTExit
        BY <1>3, <3>6, <3>7 DEF Table!PTExit
      <3> QED BY <3>6, <3>8 DEF TableMoves, Table!PTNext
    <2>9. CASE p # current
      <3>1. UNCHANGED <<state, current>>
        BY <2>1, <2>9, <2>10
      <3>2. current' \in S /\ \A q \in Pids \ Born : state'[q] = "READY"
        BY <1>1, <2>9, <3>1
      <3>3. RingInv' /\ abstractState' = Abs(state', Born, S)
        <4>1. state'[current'] = "RUNNING"
          BY <1>3, <3>1
        <4> HIDE DEF S
        <4> QED BY <2>7, <3>2, <4>1, RingStep1
      <3>4. CASE p \in Live
        <4>1. p \in Table!Alive(abstractState) \ {InitPid, current}
          <5>1. abstractState[p] = state[p] /\ state[p] \in ProcessStates
            BY <1>1, <3>4 DEF Abs
          <5> QED BY <1>5, <2>9, <5>1 DEF Table!Alive, ProcessStates
        <4>2. Abs(state, Born, S) = Table!Removed(abstractState, p)
          BY <1>1, <3>4, <4>1 DEF Abs, Table!Removed, Table!changeProcessState
        <4>3. abstractState' = Table!Removed(abstractState, p) /\ current' = current
          BY <3>1, <3>3, <4>2
        <4>4. Table!PTKill
          BY <1>3, <4>1, <4>3 DEF Table!PTKill
        <4> QED BY <3>3, <4>4 DEF TableMoves, Table!PTNext
      <3>5. CASE p \notin Live
        <4>1. S = Live
          BY <3>5
        <4>2. abstractState' = abstractState /\ current' = current
          BY <1>1, <3>1, <3>3, <4>1
        <4> QED BY <3>3, <4>2 DEF TableMoves
      <3> QED BY <3>4, <3>5
    <2> QED BY <2>8, <2>9
  <1> QED BY <1>4, <1>5

\* The circle after runC and restartSHELL is S, and the slots are B.
Replaced(B, S, nx) ==
    /\ Born' = B /\ next' = nx
    /\ IsRing(cardinal_processes', nx, S) /\ LeadsIn(nx, S, current) /\ schedule(nx, state)

\* The new process is in the circle, and current is not, unless it is init.
LEMMA ReplaceRing ==
    ASSUME LinksInv, RingInv, NEW ring \in Rings(Born), NEW S0, S0 \subseteq Born,
           current \in S0, InitPid \in S0, RingOn(ring, S0),
           NEW p \in Pids \ Born, NEW asked, asked \subseteq Born, current \in asked,
           InitPid \notin ring.cut, ReplaceCurrent(ring, p, asked)
    PROVE  \E nx : Replaced(Born \cup {p}, (S0 \cup {p}) \ ({current} \ {InitPid}), nx)
                   /\ exit' = exit /\ ended' = ended \cup (asked \ {InitPid}) \cup ring.cut
  <1> DEFINE B == Born \cup {p}
             S1 == S0 \cup {p}
             S == S1 \ ({current} \ {InitPid})
             grown == Grown(ring, p)
             after == IF current = InitPid THEN grown ELSE removeProcess(grown, current)
  <1>1. /\ Born \subseteq Pids /\ InitPid \in Born /\ current \in Born /\ S0 \subseteq Pids
        /\ Links(ring.nx, Born) /\ IsRing(ring.card, ring.nx, S0)
    BY RingFacts DEF Rings, RingOn
  <1>2. ring.card =< Cardinality(Born)
    <2>1. ring.card = Cardinality(S0) /\ IsFiniteSet(Born)
      BY <1>1, RingSize, BornCount
    <2>2. Cardinality(S0) =< Cardinality(Born)
      BY <2>1, FS_Subset
    <2> QED BY <2>1, <2>2
  <1>3. /\ grown \in Rings(B) /\ grown.nx = addProcess(ring.nx, p)
        /\ grown.card = ring.card + 1 /\ grown.cut = ring.cut
    BY <1>1, <1>2, AddKeeps
  <1>4. IsRing(ring.card + 1, addProcess(ring.nx, p), S1)
    BY <1>1, RingInsert
  <1> HIDE DEF grown
  <1>5. RingOn(grown, S1)
    BY <1>3, <1>4 DEF RingOn
  <1>14. /\ next' = after.nx /\ cardinal_processes' = after.card
         /\ ended' = ended \cup (asked \ {InitPid}) \cup after.cut
         /\ IF current = InitPid \/ current \in after.cut
            THEN schedule(after.nx, state) ELSE UNCHANGED <<state, current>>
         /\ exit' = exit
    BY DEF ReplaceCurrent, grown, Grown
  <1>7. S1 \subseteq B /\ B \subseteq Pids /\ current \in S1 /\ InitPid \in S1 /\ current \in B
    BY <1>1
  <1> HIDE DEF B, S1
  <1>8. /\ after \in Rings(B) /\ RingOn(after, S)
        /\ current # InitPid => after.nx[current] \in S
        /\ after.cut = ring.cut \cup ({current} \ {InitPid})
    <2>1. CASE current = InitPid
      <3>1. S = S1 /\ after = grown /\ {current} \ {InitPid} = {}
        BY <2>1
      <3> QED BY <1>3, <1>5, <2>1, <3>1
    <2>2. CASE current # InitPid
      <3>1. S = S1 \ {current} /\ after = removeProcess(grown, current)
        BY <2>2
      <3>2. removeProcess(grown, current) \in Rings(B)
        BY <1>3, <1>7, RemoveKeeps DEF Kept
      <3>3. IsWithout(removeProcess(grown, current), grown, S1, current)
        BY <1>3, <1>5, <1>7, <2>2, RingRemove
      <3>4. {current} \ {InitPid} = {current}
        BY <2>2
      <3> HIDE DEF after, S
      <3> QED BY <1>3, <1>7, <3>1, <3>2, <3>3, <3>4 DEF IsWithout
    <2> QED BY <2>1, <2>2
  <1>9. S \subseteq Pids /\ (current = InitPid => current \in S)
    BY <1>7
  <1> HIDE DEF after, S
  <1>6. schedule(after.nx, state)
    BY <1>8, <1>14
  <1>15. ended' = ended \cup (asked \ {InitPid}) \cup ring.cut
    BY <1>8, <1>14
  <1>10. IsRing(after.card, after.nx, S) /\ Leads(after.nx, S) /\ Links(after.nx, B)
    <2>1. IsRing(after.card, after.nx, S) /\ Links(after.nx, B)
      BY <1>8 DEF RingOn, Rings
    <2> QED BY <1>9, <2>1, RingSize
  <1>11. LeadsIn(after.nx, S, current)
    BY <1>8, <1>9, <1>10 DEF LeadsIn, Leads
  <1>12. Born' = B
    BY <1>10, <1>14 DEF Born, Links
  <1>13. Replaced(B, S, after.nx)
    <2> DEFINE nx == after.nx
    <2>1. /\ next' = nx /\ IsRing(cardinal_processes', nx, S) /\ LeadsIn(nx, S, current)
          /\ schedule(nx, state)
      BY <1>6, <1>10, <1>11, <1>14
    <2> HIDE DEF nx
    <2>2. Replaced(B, S, nx)
      BY <1>12, <2>1 DEF Replaced
    <2> QED BY <2>2 DEF nx
  <1> QED BY <1>13, <1>14, <1>15 DEF B, S, S1

\* A program that replaces its caller does so in the table.
LEMMA RunRing ==
    ASSUME LinksInv, RingInv, LinksInv', NEW p \in Pids, sys_call_runC(p)
    PROVE  RingInv' /\ TableMoves
  <1>1. /\ state \in [Pids -> ProcessStates] /\ Live \subseteq Born
        /\ Born \subseteq Pids /\ current \in Live /\ InitPid \in Live
        /\ \A q \in Pids \ Born : state[q] = "READY"
        /\ abstractState = Abs(state, Born, Live)
        /\ ended \subseteq Born \ {InitPid}
        /\ Ring \in Rings(Born) /\ RingOn(Ring, Live) /\ Ring.cut = {}
    BY RingFacts, AbsIs DEF RingInv, AbsOK
  <1>2. p \in Pids \ Born /\ ReplaceCurrent(Ring, p, {current}) /\ Calling
    BY DEF sys_call_runC
  <1>3. Table!Calling /\ current # InitPid /\ state[current] = "RUNNING"
    BY <1>2, CallingIs
  <1> DEFINE B == Born \cup {p}
             S == (Live \cup {p}) \ ({current} \ {InitPid})
  <1>4. PICK nx : Replaced(B, S, nx) /\ exit' = exit /\ ended' = ended \cup {current}
    <2>1. InitPid \notin Ring.cut /\ {current} \subseteq Born /\ current \in {current}
      BY <1>1
    <2>2. \E nx : Replaced(B, S, nx) /\ exit' = exit
                  /\ ended' = ended \cup ({current} \ {InitPid}) \cup Ring.cut
      BY <1>1, <1>2, <2>1, ReplaceRing
    <2>3. ended \cup ({current} \ {InitPid}) \cup Ring.cut = ended \cup {current}
      BY <1>1, <1>3
    <2> HIDE DEF B, S
    <2> QED BY <2>2, <2>3
  <1>5. S \subseteq B /\ B \subseteq Pids /\ S = B \ ended' /\ ended' \subseteq B \ {InitPid} /\ current \in B
        /\ \A q \in Pids \ B : state[q] = "READY"
    BY <1>1, <1>2, <1>3, <1>4 DEF Live
  <1>6. Abs(state, B, S) = Table!Removed([abstractState EXCEPT ![p] = "READY"], current)
        /\ abstractState[p] = "UNBORN"
    <2> DEFINE a == [abstractState EXCEPT ![p] = "READY"]
    <2>1. \A q \in Pids : a[q] = IF q = p THEN "READY" ELSE abstractState[q]
      BY <1>1, <1>2 DEF Abs
    <2> HIDE DEF a
    <2>2. \A q \in Pids : abstractState[q] = IF q \notin Born THEN "UNBORN"
                                             ELSE IF q \in Live THEN state[q] ELSE "REMOVED"
      BY <1>1 DEF Abs
    <2>3. current \in Table!Alive(a) /\ current # p
      BY <1>1, <1>2, <1>3, <2>1, <2>2 DEF Table!Alive
    <2>4. Table!Removed(a, current) = [q \in Pids |-> IF q = current THEN "REMOVED" ELSE a[q]]
      BY <2>3 DEF Table!Removed, Table!changeProcessState
    <2>5. Abs(state, B, S) = [q \in Pids |-> IF q = current THEN "REMOVED" ELSE a[q]]
      BY <1>1, <1>2, <1>3, <2>1, <2>2 DEF Abs
    <2> QED BY <1>2, <2>2, <2>4, <2>5 DEF a
  <1> HIDE DEF B, S
  <1>7. RingThen(B, S)
    BY <1>4, <1>5 DEF RingThen, Replaced
  <1>8. RingInv' /\ Table!schedule(Abs(state, B, S))
    <2>1. next' = nx /\ LeadsIn(nx, S, current) /\ schedule(nx, state)
      BY <1>4 DEF Replaced
    <2> QED BY <1>1, <1>5, <1>7, <2>1, RingStep2
  <1>9. Table!PTRun
    BY <1>2, <1>3, <1>6, <1>8 DEF Table!PTRun
  <1> QED BY <1>8, <1>9 DEF TableMoves, Table!PTNext

\* A new shell that replaces everybody does so in the table.
LEMMA RestartRing ==
    ASSUME LinksInv, RingInv, LinksInv', NEW p \in Pids, restartSHELL(p)
    PROVE  RingInv' /\ TableMoves
  <1>1. /\ state \in [Pids -> ProcessStates] /\ Live \subseteq Born
        /\ Born \subseteq Pids /\ current \in Live /\ InitPid \in Live
        /\ \A q \in Pids \ Born : state[q] = "READY"
        /\ abstractState = Abs(state, Born, Live)
        /\ ended \subseteq Born \ {InitPid}
        /\ Ring \in Rings(Born) /\ RingOn(Ring, Live) /\ Ring.cut = {}
    BY RingFacts, AbsIs DEF RingInv, AbsOK
  <1> DEFINE ring == killAllExceptCurrent(Ring)
  <1>2. p \in Pids \ Born /\ ReplaceCurrent(ring, p, Born)
    BY DEF restartSHELL
  <1> DEFINE B == Born \cup {p}
             S0 == {InitPid, current}
             S == (S0 \cup {p}) \ ({current} \ {InitPid})
  <1>3. /\ ring \in Rings(Born) /\ RingOn(ring, S0)
        /\ InitPid \notin ring.cut /\ ring.cut \subseteq Born
    <2>1. ring \in Rings(Born)
      BY <1>1, KillKeeps DEF Kept
    <2>2. RingOn(ring, S0) /\ InitPid \notin ring.cut
      BY <1>1, KillRing
    <2> HIDE DEF ring
    <2> QED BY <2>1, <2>2 DEF Rings
  <1> HIDE DEF ring
  <1>4. PICK nx : Replaced(B, S, nx) /\ exit' = exit /\ ended' = ended \cup (Born \ {InitPid})
    <2>1. S0 \subseteq Born /\ current \in S0 /\ InitPid \in S0 /\ Born \subseteq Born
          /\ current \in Born
      BY <1>1
    <2>2. \E nx : Replaced(B, S, nx) /\ exit' = exit
                  /\ ended' = ended \cup (Born \ {InitPid}) \cup ring.cut
      <3> HIDE DEF S0
      <3> QED BY <1>2, <1>3, <2>1, ReplaceRing
    <2>3. ended \cup (Born \ {InitPid}) \cup ring.cut = ended \cup (Born \ {InitPid})
      BY <1>3
    <2> HIDE DEF B, S
    <2> QED BY <2>2, <2>3
  <1>5. S = {InitPid, p} /\ InitPid # p
    BY <1>1, <1>2
  <1>6. S \subseteq B /\ B \subseteq Pids /\ S = B \ ended' /\ ended' \subseteq B \ {InitPid} /\ current \in B
        /\ \A q \in Pids \ B : state[q] = "READY"
    BY <1>1, <1>2, <1>4, <1>5 DEF Live
  <1>7. Abs(state, B, S) = [q \in Pids |-> IF q = p THEN "READY"
                              ELSE IF q \in Table!Alive(abstractState) \ {InitPid} THEN "REMOVED"
                              ELSE abstractState[q]]
        /\ abstractState[p] = "UNBORN"
    <2>1. \A q \in Pids : abstractState[q] = IF q \notin Born THEN "UNBORN"
                                             ELSE IF q \in Live THEN state[q] ELSE "REMOVED"
      BY <1>1 DEF Abs
    <2>2. \A q \in Pids : q \in Table!Alive(abstractState) <=> q \in Live
      BY <1>1, <2>1 DEF Table!Alive, ProcessStates
    <2>3. \A q \in Pids : (IF q \notin B THEN "UNBORN" ELSE IF q \in S THEN state[q] ELSE "REMOVED")
              = IF q = p THEN "READY"
                ELSE IF q \in Table!Alive(abstractState) \ {InitPid} THEN "REMOVED"
                ELSE abstractState[q]
      BY <1>1, <1>2, <1>5, <2>1, <2>2
    <2> QED BY <1>2, <2>1, <2>3 DEF Abs
  <1> HIDE DEF B, S
  <1>8. RingThen(B, S)
    BY <1>4, <1>6 DEF RingThen, Replaced
  <1>9. RingInv' /\ Table!schedule(Abs(state, B, S))
    <2>1. next' = nx /\ LeadsIn(nx, S, current) /\ schedule(nx, state)
      BY <1>4 DEF Replaced
    <2> QED BY <1>1, <1>6, <1>8, <2>1, RingStep2
  <1>10. Table!PTRestart
    BY <1>2, <1>7, <1>9 DEF Table!PTRestart
  <1> QED BY <1>9, <1>10 DEF TableMoves, Table!PTNext

\* At boot init and the shell are a circle.
LEMMA InitRing ==
    ASSUME Init
    PROVE  RingInv /\ Table!PTInit
  <1>1. LinksInv
    BY InitLinks
  <1> DEFINE r == [i \in 0 .. 1 |-> IF i = 0 THEN InitPid ELSE ShellPid]
             S == {InitPid, ShellPid}
  <1>2. /\ InitPid \in Pids /\ ShellPid \in Pids /\ InitPid # ShellPid /\ NoPid \notin Pids
        /\ \A p \in Pids : next[p] = IF p = InitPid THEN ShellPid
                                     ELSE IF p = ShellPid THEN InitPid ELSE NoPid
    BY SchedulerAssumption DEF Init
  <1>3. Born = S
    BY <1>2 DEF Born
  <1>4. r \in [0 .. 2 - 1 -> S] /\ r[0] = InitPid /\ r[1] = ShellPid
    OBVIOUS
  <1> HIDE DEF r
  <1>5. RingFrom(r, 2, next, S)
    BY <1>2, <1>4 DEF RingFrom
  <1>6. IsRing(2, next, S)
    BY <1>4, <1>5 DEF IsRing
  <1>7. RingInv
    <2>1. SlotsTyped
      BY <1>1 DEF LinksInv
    <2> QED BY <1>2, <1>3, <1>6, <2>1 DEF Init, RingInv
  <1>8. abstractState = Abs(state, Born, Live)
    BY <1>1, <1>7, AbsIs DEF AbsOK
  <1>9. Table!PTInit
    BY <1>2, <1>3, <1>8 DEF Table!PTInit, Abs, Live, Init
  <1> QED BY <1>7, <1>9

\* A process whose locals become e is in the middle of its exit.
LEMMA MovedIs ==
    ASSUME LinksInv, NEW x, x # "user",
           \/ exit' = [exit EXCEPT ![current].pc = x]
           \/ \E e : e.pc = x /\ exit' = [exit EXCEPT ![current] = e]
    PROVE  exit'[current].pc = x /\ current \in Pids
  <1>1. exit \in [Pids -> LocalsType] /\ current \in Pids
    BY InvFacts
  <1>2. CASE exit' = [exit EXCEPT ![current].pc = x]
    <2> DEFINE e == [exit[current] EXCEPT !.pc = x]
    <2>1. e.pc = x
      <3>1. exit[current] \in LocalsType
        BY <1>1
      <3> QED BY <3>1 DEF LocalsType
    <2>2. exit' = [exit EXCEPT ![current] = e]
      BY <1>2
    <2> HIDE DEF e
    <2> QED BY <1>1, <2>1, <2>2
  <1>3. CASE \E e : e.pc = x /\ exit' = [exit EXCEPT ![current] = e]
    BY <1>1, <1>3
  <1> QED BY <1>2, <1>3

\* Once a process has returned from main, it never is in user code again.
LEMMA ReturnsStay ==
    ASSUME LinksInv, [Next]_vars, exit' # exit
    PROVE  exit'[current].pc # "user" /\ current \in Pids
  <1>1. CASE exitStart
    <2> DEFINE e == [UserCode EXCEPT !.pc = "search", !.prevSlot = current,
                                     !.slotToRemove = next[current]]
    <2>1. e.pc = "search"
      BY DEF UserCode
    <2>2. exit' = [exit EXCEPT ![current] = e]
      BY <1>1 DEF exitStart
    <2> HIDE DEF e
    <2> QED BY <2>1, <2>2, MovedIs
  <1>2. CASE exitSearch
    <2> DEFINE x == IF ~(exit[current].slotToRemove = current) /\ exit[current].i < cardinal_processes
                    THEN "advance" ELSE "check"
    <2>1. exit' = [exit EXCEPT ![current].pc = x] /\ x # "user"
      BY <1>2 DEF exitSearch
    <2> HIDE DEF x
    <2> QED BY <2>1, MovedIs
  <1>3. CASE exitAdvance
    <2> DEFINE o == exit[current]
               e == [o EXCEPT !.pc = "search", !.prevSlot = o.slotToRemove,
                              !.slotToRemove = next[o.slotToRemove], !.i = o.i + 1]
    <2>1. exit' = [exit EXCEPT ![current] = e]
      BY <1>3 DEF exitAdvance
    <2>2. o \in LocalsType
      BY ExitFacts
    <2> HIDE DEF o
    <2>3. e.pc = "search"
      BY <2>2 DEF LocalsType
    <2> HIDE DEF e
    <2> QED BY <2>1, <2>3, MovedIs
  <1>4. CASE exitCheck
    <2> DEFINE x == IF exit[current].i = cardinal_processes THEN "callProcess" ELSE "follow"
    <2>1. exit' = [exit EXCEPT ![current].pc = x] /\ x # "user"
      BY <1>4 DEF exitCheck
    <2> HIDE DEF x
    <2> QED BY <2>1, MovedIs
  <1>5. CASE exitFollow
    <2> DEFINE e == [exit[current] EXCEPT !.pc = "unlink", !.link = next[exit[current].slotToRemove]]
    <2>1. exit' = [exit EXCEPT ![current] = e] /\ exit[current] \in LocalsType
      BY <1>5, ExitFacts, InvFacts DEF exitFollow
    <2>2. e.pc = "unlink"
      BY <2>1 DEF LocalsType
    <2> HIDE DEF e
    <2> QED BY <2>1, <2>2, MovedIs
  <1>6. CASE exitUnlink
    <2> DEFINE x == "load"
    <2>1. exit' = [exit EXCEPT ![current].pc = x] /\ x # "user"
      BY <1>6 DEF exitUnlink
    <2> HIDE DEF x
    <2> QED BY <2>1, MovedIs
  <1>7. CASE exitLoad
    <2> DEFINE e == [exit[current] EXCEPT !.pc = "store", !.reg = cardinal_processes]
    <2>1. exit' = [exit EXCEPT ![current] = e] /\ exit[current] \in LocalsType
      BY <1>7, ExitFacts, InvFacts DEF exitLoad
    <2>2. e.pc = "store"
      BY <2>1 DEF LocalsType
    <2> HIDE DEF e
    <2> QED BY <2>1, <2>2, MovedIs
  <1>8. CASE exitStore
    <2> DEFINE x == IF exit[current].slotToRemove = current THEN "yield" ELSE "callProcess"
    <2>1. exit' = [exit EXCEPT ![current].pc = x] /\ x # "user"
      BY <1>8 DEF exitStore
    <2> HIDE DEF x
    <2> QED BY <2>1, MovedIs
  <1>9. CASE exitYield
    <2> DEFINE x == IF at("yield") THEN "callProcess" ELSE "past"
    <2>1. exit' = [exit EXCEPT ![current].pc = x] /\ x # "user"
      BY <1>9 DEF exitYield
    <2> HIDE DEF x
    <2> QED BY <2>1, MovedIs
  <1> QED BY <1>1, <1>2, <1>3, <1>4, <1>5, <1>6, <1>7, <1>8, <1>9
          DEF Next, createProcess, kill, Wake, sys_call_runC, restartSHELL, Suspend,
              timerTickHandler, ReplaceCurrent, vars

\* A step in which no returning process moves keeps the circle, and is one of the table.
LEMMA RingStep ==
    ASSUME LinksInv, RingInv, LinksInv', [Next]_vars, exit' = exit
    PROVE  RingInv' /\ TableMoves
  <1>1. ASSUME NEW p \in Pids, createProcess(p) PROVE RingInv' /\ TableMoves
    BY <1>1, CreateRing
  <1>2. ASSUME NEW p \in Pids, kill(p) PROVE RingInv' /\ TableMoves
    BY <1>2, KillRingStep
  <1>3. ASSUME NEW p \in Pids, Wake(p) PROVE RingInv' /\ TableMoves
    BY <1>3, WakeRing
  <1>4. ASSUME NEW p \in Pids, sys_call_runC(p) PROVE RingInv' /\ TableMoves
    BY <1>4, RunRing
  <1>5. ASSUME NEW p \in Pids, restartSHELL(p) PROVE RingInv' /\ TableMoves
    BY <1>5, RestartRing
  <1>6. ASSUME NEW s \in {"BLOCKED", "SLEEPING"}, Suspend(s) PROVE RingInv' /\ TableMoves
    BY <1>6, SuspendRing
  <1>7. CASE timerTickHandler
    BY <1>7, TimerRing
  <1>8. exit[current].pc = "user" /\ exit \in [Pids -> LocalsType] /\ current \in Pids
    <2>1. exit = [p \in Pids |-> UserCode] /\ current \in Pids /\ exit \in [Pids -> LocalsType]
      BY RingFacts, InvFacts DEF RingInv
    <2> QED BY <2>1 DEF UserCode
  <1>9. CASE \/ exitStart \/ exitSearch \/ exitAdvance \/ exitCheck \/ exitFollow \/ exitUnlink
             \/ exitLoad \/ exitStore \/ exitYield
    <2>1. CASE exitStart
      <3> DEFINE e == [UserCode EXCEPT !.pc = "search", !.prevSlot = current,
                                       !.slotToRemove = next[current]]
      <3>1. e.pc = "search"
        BY DEF UserCode
      <3>2. exit' = [exit EXCEPT ![current] = e]
        BY <2>1 DEF exitStart
      <3> HIDE DEF e
      <3>3. exit'[current].pc = "search"
        BY <3>1, <3>2, MovedIs
      <3> QED BY <1>8, <3>3
    <2> QED BY <1>8, <1>9, <2>1 DEF exitSearch, exitAdvance, exitCheck, exitFollow, exitUnlink,
                                    exitLoad, exitStore, exitYield, at
  <1>10. CASE UNCHANGED vars
    <2>1. UNCHANGED <<state, next, current, cardinal_processes, exit, ended>>
      BY <1>10 DEF vars
    <2>2. RingThen(Born, Live)
      BY <2>1, SameRing
    <2>3. /\ current' \in Live /\ \A p \in Pids \ Born : state'[p] = "READY"
          /\ state'[current'] = "RUNNING" \/ current' = InitPid
      BY <2>1, RingFacts DEF RingInv
    <2>4. RingInv' /\ abstractState' = Abs(state', Born, Live)
      BY <2>2, <2>3, RingStep1
    <2>5. abstractState = Abs(state, Born, Live)
      BY AbsIs DEF AbsOK
    <2>6. abstractState' = abstractState /\ current' = current
      BY <2>1, <2>4, <2>5
    <2> QED BY <2>4, <2>6 DEF TableMoves
  <1> QED BY <1>1, <1>2, <1>3, <1>4, <1>5, <1>6, <1>7, <1>9, <1>10 DEF Next

-----------------------------------------------------------------------------
(* What holds until somebody returns from main, or always, when nobody does.*)

\* Nobody has returned from main.
NobodyLeft == Exiting = {}

\* A step after which nobody has returned from main moves no returning process.
LEMMA NobodyLeftStep ==
    ASSUME LinksInv, [Next]_vars, NobodyLeft'
    PROVE  NobodyLeft /\ exit' = exit
  <1>1. \A p \in Pids : exit'[p].pc = "user"
    BY DEF NobodyLeft, Exiting
  <1>2. exit' = exit
    BY <1>1, ReturnsStay
  <1> QED BY <1>1, <1>2 DEF NobodyLeft, Exiting

\* Until a process returns from main, next leads round one circle of the live
\* processes, which has cardinal_processes slots, whoever may return later.
THEOREM SchedulerRing == Spec => [](NobodyLeft => RingInv)
  <1>1. Init => LinksInv /\ RingInv
    BY InitLinks, InitRing
  <1>2. LinksInv /\ (NobodyLeft => RingInv) /\ LinksInv' /\ [Next]_vars => (NobodyLeft' => RingInv')
    BY NobodyLeftStep, RingStep
  <1> QED BY <1>1, <1>2, SchedulerLinksInvariant, PTL DEF Spec

\* Nobody leaves when nobody returns from main.
LEMMA NobodyReturns ==
    ASSUME Returning = {}
    PROVE  Spec => []NobodyLeft
  <1>1. Init => NobodyLeft
    BY DEF Init, NobodyLeft, Exiting, UserCode
  <1>2. NobodyLeft /\ LinksInv /\ [Next]_vars => NobodyLeft'
    <2> SUFFICES ASSUME NobodyLeft, LinksInv, [Next]_vars PROVE NobodyLeft'
      OBVIOUS
    <2>1. exit[current].pc = "user"
      BY InvFacts DEF NobodyLeft, Exiting
    <2>2. ~exitStart
      BY DEF exitStart
    <2>3. /\ ~exitSearch /\ ~exitAdvance /\ ~exitCheck /\ ~exitFollow
          /\ ~exitUnlink /\ ~exitLoad /\ ~exitStore /\ ~exitYield
      BY <2>1 DEF exitSearch, exitAdvance, exitCheck, exitFollow, exitUnlink, exitLoad,
                  exitStore, exitYield, at
    <2>4. exit' = exit
      BY <2>2, <2>3 DEF Next, createProcess, kill, Wake, sys_call_runC, restartSHELL, Suspend,
                        timerTickHandler, ReplaceCurrent, vars
    <2> QED BY <2>4 DEF NobodyLeft, Exiting
  <1> QED BY <1>1, <1>2, SchedulerLinksInvariant, PTL DEF Spec

\* When nobody returns from main, every variable has its type: the counter is between 0
\* and the number of slots, and init is never removed.
THEOREM SchedulerTypes ==
    ASSUME Returning = {}
    PROVE  Spec => []TypeOK
  <1>1. ASSUME LinksInv, RingInv PROVE TypeOK
    <2>1. /\ Born \subseteq Pids /\ Live \subseteq Born /\ current \in Live
          /\ state \in [Pids -> ProcessStates]
          /\ IsRing(cardinal_processes, next, Live)
      BY <1>1, RingFacts
    <2>2. cardinal_processes \in Nat /\ cardinal_processes =< N /\ N \in Nat
      <3>1. Live \subseteq Pids
        BY <2>1
      <3> QED BY <2>1, <3>1, RingSize, HopsAre
    <2>3. cardinal_processes \in 0 .. Cardinality(Pids) /\ 0 \in 0 .. Cardinality(Pids)
      BY <2>2 DEF N
    <2>4. current \in Pids /\ next[current] # NoPid
      BY <2>1 DEF Born
    <2>5. UserCode \in [pc : Points, prevSlot : Pids \cup {NoPid},
                        slotToRemove : Pids \cup {NoPid}, link : Pids \cup {NoPid},
                        i : 0 .. Cardinality(Pids), reg : 0 .. Cardinality(Pids)]
      BY <2>3 DEF UserCode, Points
    <2>6. exit = [p \in Pids |-> UserCode] /\ ended \subseteq Born \ {InitPid}
          /\ next \in [Pids -> Pids \cup {NoPid}]
      BY <1>1 DEF RingInv, SlotsTyped
    <2>7. ended \subseteq Pids \ {InitPid}
      BY <2>1, <2>6
    <2>8. exit \in [Pids -> [pc : Points, prevSlot : Pids \cup {NoPid},
                        slotToRemove : Pids \cup {NoPid}, link : Pids \cup {NoPid},
                        i : 0 .. Cardinality(Pids), reg : 0 .. Cardinality(Pids)]]
      <3> HIDE DEF UserCode
      <3> QED BY <2>5, <2>6
    <2> QED BY <2>1, <2>3, <2>4, <2>6, <2>7, <2>8 DEF TypeOK, ProcessStates
  <1>2. LinksInv /\ RingInv => TypeOK
    BY <1>1
  <1> QED BY <1>2, SchedulerLinksInvariant, SchedulerRing, NobodyReturns, PTL

\* When nobody returns from main, every walk of cardinal_processes slots, like the one
\* of getCurrentProcesses for ps, meets each live process exactly once, and nobody else.
THEOREM SchedulerPsListsAll ==
    ASSUME Returning = {}
    PROVE  Spec => []PsListsAll
  <1>1. ASSUME LinksInv, RingInv PROVE PsListsAll
    <2>1. Visited = Live /\ IsRing(cardinal_processes, next, Live) /\ Live \subseteq Pids
      BY <1>1, RingFacts
    <2>2. cardinal_processes = Cardinality(Live)
      BY <2>1, RingSize
    <2>3. Exiting = {}
      <3>1. \A p \in Pids : exit[p].pc = "user"
        BY <1>1 DEF RingInv, UserCode
      <3> QED BY <3>1 DEF Exiting
    <2> QED BY <2>1, <2>2, <2>3 DEF PsListsAll, Live
  <1>2. LinksInv /\ RingInv => PsListsAll
    BY <1>1
  <1> QED BY <1>2, SchedulerLinksInvariant, SchedulerRing, NobodyReturns, PTL

\* As long as nobody returns from main, the list implements the process table.
THEOREM SchedulerTableUntilReturn == Spec /\ []NobodyLeft => ImplementsTable
  <1>1. Init => Table!PTInit
    BY InitRing
  <1>2. LinksInv /\ (NobodyLeft => RingInv) /\ LinksInv' /\ NobodyLeft /\ NobodyLeft' /\ [Next]_vars
          => [Table!PTNext]_(Table!ptVars)
    <2> SUFFICES ASSUME LinksInv, RingInv, LinksInv', NobodyLeft', [Next]_vars
                 PROVE  [Table!PTNext]_(Table!ptVars)
      OBVIOUS
    <2>1. exit' = exit
      BY NobodyLeftStep
    <2>2. TableMoves
      BY <2>1, RingStep
    <2> QED BY <2>2 DEF TableMoves, Table!ptVars
  <1> QED BY <1>1, <1>2, SchedulerLinksInvariant, SchedulerRing, PTL
          DEF Spec, ImplementsTable, Table!PTSpec

\* When nobody returns from main, the list implements the process table, step by step.
THEOREM SchedulerImplementsTable ==
    ASSUME Returning = {}
    PROVE  Spec => ImplementsTable
  BY NobodyReturns, SchedulerTableUntilReturn, PTL
=============================================================================
