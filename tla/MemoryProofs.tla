---------------------------- MODULE MemoryProofs ----------------------------
(***************************************************************************)
(* The buddy allocator gives no page to two users, for a heap of any size  *)
(* and any requests, as long as nothing is given back; the table of        *)
(* threads is counted and served in turn; and the chain of a heap tiles    *)
(* its extents, whatever is asked of mallock.                              *)
(***************************************************************************)
EXTENDS Memory, FiniteSetTheorems, SequenceTheorems, WellFoundedInduction, TLAPS

(* Recursion over an initial part of the numbers.                          *)

\* Every non-empty set of numbers has a least element.  (The segments 1 .. n are
\* well-founded under inclusion.)
LEMMA LeastExists ==
    ASSUME NEW T \in SUBSET Nat, T # {}
    PROVE  \E x \in T : \A y \in T : x =< y
  <1> DEFINE segments == {1 .. n : n \in T}
  <1>1. segments \subseteq FiniteSubsetsOf(Nat) /\ segments # {}
    <2>1. ASSUME NEW n \in T PROVE 1 .. n \in FiniteSubsetsOf(Nat)
      BY FS_Interval DEF FiniteSubsetsOf
    <2>2. PICK n \in T : TRUE
      OBVIOUS
    <2>3. 1 .. n \in segments
      OBVIOUS
    <2> QED BY <2>1, <2>3
  <1>2. IsWellFoundedOn(StrictSubsetOrdering(Nat), FiniteSubsetsOf(Nat))
    BY FS_StrictSubsetOrderingWellFounded
  <1>3. PICK s \in segments : \A r \in segments : <<r, s>> \notin StrictSubsetOrdering(Nat)
    <2> HIDE DEF segments
    <2> QED BY <1>1, <1>2, WFMin
  <1>4. PICK x \in T : s = 1 .. x
    BY <1>3
  <1>5. ASSUME NEW y \in T, y < x PROVE FALSE
    <2>1. x \in s /\ x \notin 1 .. y
      BY <1>4, <1>5
    <2>2. <<1 .. y, s>> \in StrictSubsetOrdering(Nat)
      BY <1>4, <1>5, <2>1 DEF StrictSubsetOrdering
    <2> QED BY <1>3, <2>2
  <1> QED BY <1>5

\* f is computed on D from the values s0 on B, by steps from the argument prev[n] to n.
IsDescent(f, D, B, s0, prev, step) ==
    \A n \in D : f[n] = IF n \in B THEN s0 ELSE step[n][f[prev[n]]]

\* There is such a function, since prev[n] is less than n.
LEMMA DescentExists ==
    ASSUME NEW N \in Nat, NEW D \in SUBSET (0 .. N), NEW B \in SUBSET D,
           NEW S, NEW s0 \in S,
           NEW prev \in [D \ B -> D], \A n \in D \ B : prev[n] < n,
           NEW step \in [D \ B -> [S -> S]]
    PROVE  \E f \in [D -> S] : IsDescent(f, D, B, s0, prev, step)
  <1> DEFINE Upto(n) == {k \in D : k =< n}
             Good(n) == \E g \in [Upto(n) -> S] :
                           \A k \in Upto(n) : g[k] = IF k \in B THEN s0 ELSE step[k][g[prev[k]]]
             Bad == {n \in 0 .. N : ~Good(n)}
  <1> HIDE DEF Good
  <1>0. \A k \in D : k \in Nat /\ k =< N
    <2>1. ASSUME NEW k \in D PROVE k \in 0 .. N
      OBVIOUS
    <2> QED BY <2>1
  <1>1. SUFFICES ASSUME Bad # {} PROVE FALSE
    <2>1. Bad = {} => Good(N)
      OBVIOUS
    <2>2. Upto(N) = D
      BY <1>0
    <2>3. Good(N) => \E f \in [D -> S] : IsDescent(f, D, B, s0, prev, step)
      <3> HIDE DEF Upto
      <3> QED BY <2>2 DEF IsDescent, Good
    <2> HIDE DEF Bad
    <2> QED BY <1>1, <2>1, <2>3
  <1>2. PICK n \in Bad : \A y \in Bad : n =< y
    <2>1. Bad \in SUBSET Nat
      OBVIOUS
    <2> HIDE DEF Bad
    <2> QED BY <1>1, <2>1, LeastExists
  <1>3. n \in Nat /\ n =< N /\ ~Good(n)
    OBVIOUS
  <1>4. PICK g \in [Upto(n - 1) -> S] :
               \A k \in Upto(n - 1) : g[k] = IF k \in B THEN s0 ELSE step[k][g[prev[k]]]
    <2>1. CASE n = 0
      <3>0. ASSUME NEW k \in Upto(n - 1) PROVE FALSE
        <4>1. k \in D /\ k =< n - 1
          OBVIOUS
        <4>2. k \in Nat
          BY <1>0, <4>1
        <4> QED BY <2>1, <4>1, <4>2
      <3>1. Upto(n - 1) = {}
        <4> HIDE DEF Upto
        <4> QED BY <3>0
      <3> DEFINE g == [k \in {} |-> s0]
      <3>2. g \in [Upto(n - 1) -> S] /\ \A k \in Upto(n - 1) : FALSE
        BY <3>1
      <3> HIDE DEF g, Upto
      <3> QED BY <3>2
    <2>2. CASE n # 0
      <3>1. n - 1 \in 0 .. N /\ n - 1 < n
        BY <1>3, <2>2
      <3>2. n - 1 \notin Bad
        <4> HIDE DEF Bad
        <4> QED BY <1>2, <1>3, <3>1
      <3>3. Good(n - 1)
        BY <3>1, <3>2
      <3> QED BY <3>3 DEF Good
    <2> QED BY <2>1, <2>2
  <1> DEFINE h == [k \in Upto(n) |-> IF k < n THEN g[k]
                                     ELSE IF k \in B THEN s0 ELSE step[k][g[prev[k]]]]
  <1>5. ASSUME NEW k \in Upto(n) \ B PROVE  prev[k] \in Upto(n - 1) /\ prev[k] \in Upto(n) /\ prev[k] < n
    <2>1. k \in D \ B /\ k =< n
      OBVIOUS
    <2>2. prev[k] \in D /\ prev[k] < k
      BY <2>1
    <2>3. k \in Nat /\ prev[k] \in Nat
      BY <1>0, <2>1, <2>2
    <2>4. prev[k] =< n - 1 /\ prev[k] =< n /\ prev[k] < n
      BY <1>3, <2>1, <2>2, <2>3
    <2> QED BY <2>2, <2>4
  <1>6. ASSUME NEW k \in Upto(n)
        PROVE  h[k] \in S /\ h[k] = IF k \in B THEN s0 ELSE step[k][h[prev[k]]]
    <2>0. k \in D /\ k \in Nat /\ k =< n
      BY <1>0
    <2>1. CASE k < n
      <3>1. k \in Upto(n - 1) /\ h[k] = g[k]
        BY <1>3, <2>0, <2>1
      <3>2. ASSUME k \notin B PROVE h[prev[k]] = g[prev[k]]
        <4>1. prev[k] \in Upto(n - 1) /\ prev[k] < n
          BY <1>5, <3>2
        <4>2. prev[k] \in Upto(n)
          BY <1>5, <3>2
        <4> QED BY <4>1, <4>2
      <3>3. g[k] \in S
        <4> HIDE DEF Upto
        <4> QED BY <1>4, <3>1
      <3> HIDE DEF h, Upto
      <3> QED BY <1>4, <3>1, <3>2, <3>3
    <2>2. CASE ~(k < n)
      <3>1. h[k] = IF k \in B THEN s0 ELSE step[k][g[prev[k]]]
        BY <2>2
      <3>2. ASSUME k \notin B
            PROVE  h[prev[k]] = g[prev[k]] /\ g[prev[k]] \in S /\ step[k] \in [S -> S]
        <4>1. prev[k] \in Upto(n - 1) /\ prev[k] < n
          BY <1>5, <3>2
        <4>2. prev[k] \in Upto(n)
          BY <1>5, <3>2
        <4>3. h[prev[k]] = g[prev[k]]
          BY <4>1, <4>2
        <4>4. g[prev[k]] \in S
          <5> HIDE DEF Upto
          <5> QED BY <4>1
        <4>5. step[k] \in [S -> S]
          BY <2>0, <3>2
        <4> QED BY <4>3, <4>4, <4>5
      <3> HIDE DEF h
      <3> QED BY <3>1, <3>2
    <2> QED BY <2>1, <2>2
  <1>7. h \in [Upto(n) -> S]
    <2>1. h = [k \in Upto(n) |-> h[k]]
      OBVIOUS
    <2> HIDE DEF h
    <2> QED BY <1>6, <2>1
  <1>8. Good(n)
    <2> HIDE DEF h
    <2> QED BY <1>6, <1>7 DEF Good
  <1> QED BY <1>3, <1>8

\* Every function so computed has its values in S.
LEMMA DescentStays ==
    ASSUME NEW N \in Nat, NEW D \in SUBSET (0 .. N), NEW B \in SUBSET D,
           NEW S, NEW s0 \in S,
           NEW prev \in [D \ B -> D], \A n \in D \ B : prev[n] < n,
           NEW step \in [D \ B -> [S -> S]],
           NEW f, IsDescent(f, D, B, s0, prev, step)
    PROVE  \A n \in D : f[n] \in S
  <1> DEFINE Bad == {n \in D : f[n] \notin S}
  <1>0. \A k \in D : k \in Nat /\ k =< N
    <2>1. ASSUME NEW k \in D PROVE k \in 0 .. N
      OBVIOUS
    <2> QED BY <2>1
  <1>1. SUFFICES ASSUME Bad # {} PROVE FALSE
    OBVIOUS
  <1>2. PICK n \in Bad : \A y \in Bad : n =< y
    <2>1. Bad \in SUBSET Nat
      BY <1>0
    <2> HIDE DEF Bad
    <2> QED BY <1>1, <2>1, LeastExists
  <1>3. n \in D /\ f[n] = IF n \in B THEN s0 ELSE step[n][f[prev[n]]]
    BY DEF IsDescent
  <1>4. CASE n \in B
    BY <1>3, <1>4
  <1>5. CASE n \notin B
    <2>1. prev[n] \in D /\ prev[n] < n
      BY <1>3, <1>5
    <2>2. prev[n] \in Nat /\ n \in Nat
      BY <1>0, <1>3, <2>1
    <2>3. prev[n] \notin Bad
      <3> HIDE DEF Bad
      <3> QED BY <1>2, <2>1, <2>2
    <2>4. f[prev[n]] \in S
      BY <2>1, <2>3
    <2>5. step[n] \in [S -> S]
      BY <1>3, <1>5
    <2> QED BY <1>3, <1>5, <2>4, <2>5
  <1> QED BY <1>4, <1>5

-----------------------------------------------------------------------------
(* The tree.                                                               *)

\* There are twice as many blocks on every next level.
LEMMA PowerIs ==
    /\ power[0] = 1
    /\ \A n \in 0 .. HeapLevel : power[n] \in Nat \ {0}
    /\ \A n \in 1 .. HeapLevel : power[n] = 2 * power[n - 1]
  <1> DEFINE D == 0 .. HeapLevel
             prev == [n \in D \ {0} |-> n - 1]
             step == [n \in D \ {0} |-> [x \in Nat \ {0} |-> 2 * x]]
  <1>0. HeapLevel \in Nat \ {0}
    BY BuddyAssumption
  <1>1. /\ D \in SUBSET (0 .. HeapLevel) /\ {0} \in SUBSET D /\ 1 \in Nat \ {0}
        /\ prev \in [D \ {0} -> D] /\ \A n \in D \ {0} : prev[n] < n
        /\ step \in [D \ {0} -> [Nat \ {0} -> Nat \ {0}]]
    BY <1>0
  <1>2. \E f \in [D -> Nat \ {0}] : IsDescent(f, D, {0}, 1, prev, step)
    <2> HIDE DEF D, prev, step
    <2> QED BY <1>0, <1>1, DescentExists
  <1>3. PICK f \in [D -> Nat \ {0}] : IsDescent(f, D, {0}, 1, prev, step)
    BY <1>2
  <1>4. ASSUME NEW n \in D PROVE f[n] = IF n = 0 THEN 1 ELSE 2 * f[n - 1]
    <2>1. f[n] = IF n \in {0} THEN 1 ELSE step[n][f[prev[n]]]
      BY <1>3 DEF IsDescent
    <2>2. CASE n = 0
      BY <2>1, <2>2
    <2>3. CASE n # 0
      <3>1. prev[n] = n - 1 /\ f[n - 1] \in Nat \ {0}
        BY <1>0, <2>3
      <3> QED BY <2>1, <2>3, <3>1
    <2> QED BY <2>2, <2>3
  <1>5. f = [n \in D |-> IF n = 0 THEN 1 ELSE 2 * f[n - 1]]
    <2>1. f = [n \in D |-> f[n]]
      OBVIOUS
    <2> QED BY <1>4, <2>1
  <1>6. power = [n \in D |-> IF n = 0 THEN 1 ELSE 2 * power[n - 1]]
    BY <1>5 DEF power
  <1>7. \A n \in D : power[n] = IF n = 0 THEN 1 ELSE 2 * power[n - 1]
    <2> HIDE DEF D
    <2> DEFINE g == power
    <2> HIDE DEF g
    <2>1. g = [n \in D |-> IF n = 0 THEN 1 ELSE 2 * g[n - 1]]
      BY <1>6 DEF g
    <2>2. \A n \in D : g[n] = IF n = 0 THEN 1 ELSE 2 * g[n - 1]
      BY <2>1
    <2> QED BY <2>2 DEF g
  <1>8. \A n \in D : power[n] \in Nat \ {0}
    <2> DEFINE Bad == {n \in D : power[n] \notin Nat \ {0}}
    <2>1. SUFFICES ASSUME Bad # {} PROVE FALSE
      OBVIOUS
    <2>2. PICK n \in Bad : \A y \in Bad : n =< y
      <3>1. Bad \in SUBSET Nat
        OBVIOUS
      <3> HIDE DEF Bad
      <3> QED BY <2>1, <3>1, LeastExists
    <2>3. n \in D /\ n # 0 /\ power[n] = 2 * power[n - 1]
      BY <1>7
    <2>4. n - 1 \in D /\ n - 1 < n
      BY <1>0, <2>3
    <2>5. n - 1 \notin Bad
      <3> HIDE DEF Bad
      <3> QED BY <2>2, <2>3, <2>4
    <2>6. power[n - 1] \in Nat \ {0}
      BY <2>4, <2>5
    <2> QED BY <2>3, <2>6
  <1>9. 0 \in D /\ \A n \in 1 .. HeapLevel : n \in D /\ n # 0
    BY <1>0
  <1> HIDE DEF D
  <1>10. power[0] = 1 /\ \A n \in 1 .. HeapLevel : power[n] = 2 * power[n - 1]
    BY <1>7, <1>9
  <1> QED BY <1>8, <1>10 DEF D

\* They grow from level to level.
LEMMA PowerGrows ==
    ASSUME NEW n \in 0 .. HeapLevel, NEW m \in n .. HeapLevel
    PROVE  power[n] =< power[m]
  <1> DEFINE Bad == {k \in n .. HeapLevel : power[n] > power[k]}
  <1>0. HeapLevel \in Nat \ {0}
    BY BuddyAssumption
  <1>1. SUFFICES ASSUME Bad # {} PROVE FALSE
    <2>1. power[n] \in Nat /\ power[m] \in Nat
      BY <1>0, PowerIs
    <2> QED BY <2>1
  <1>2. PICK k \in Bad : \A y \in Bad : k =< y
    <2>1. Bad \in SUBSET Nat
      OBVIOUS
    <2> HIDE DEF Bad
    <2> QED BY <1>1, <2>1, LeastExists
  <1>3. k \in Nat /\ n =< k /\ k =< HeapLevel /\ power[n] > power[k]
    OBVIOUS
  <1>4. power[n] \in Nat
    BY <1>0, PowerIs
  <1>5. k # n
    BY <1>3, <1>4
  <1>6. k - 1 \in n .. HeapLevel /\ k - 1 < k /\ k \in 1 .. HeapLevel /\ k - 1 \in 0 .. HeapLevel
    BY <1>0, <1>3, <1>5
  <1>7. k - 1 \notin Bad
    <2> HIDE DEF Bad
    <2> QED BY <1>2, <1>3, <1>6
  <1>8. power[k] = 2 * power[k - 1] /\ power[k - 1] \in Nat
    BY <1>6, PowerIs
  <1>9. ~(power[n] > power[k - 1])
    BY <1>6, <1>7
  <1> QED BY <1>3, <1>4, <1>8, <1>9

\* The numbers of the nodes.
LEMMA NodesAre ==
    /\ NumberOfPages \in Nat \ {0} /\ power[HeapLevel] = 2 * NumberOfPages
    /\ Nodes \in SUBSET (0 .. HEAPSIZE) /\ HEAPSIZE \in Nat
    /\ \A i : i \in Nodes <=> i \in Nat \ {0} /\ i < power[HeapLevel]
    /\ 1 \in Nodes
  <1>0. HeapLevel \in Nat \ {0}
    BY BuddyAssumption
  <1>1. NumberOfPages \in Nat \ {0} /\ power[HeapLevel] = 2 * NumberOfPages
    BY <1>0, PowerIs DEF NumberOfPages
  <1> QED BY <1>1 DEF Nodes, HEAPSIZE

\* The parent of a node, and which child it is.
LEMMA ParentIs ==
    ASSUME NEW i \in Nodes \ {1}
    PROVE  /\ PARENT(i) \in Nodes /\ PARENT(i) < i
           /\ i = LCHILD(PARENT(i)) \/ i = RCHILD(PARENT(i))
  <1>1. i \in Nat /\ i > 1 /\ i < power[HeapLevel] /\ power[HeapLevel] \in Nat
    BY NodesAre
  <1>2. PARENT(i) \in Nat /\ PARENT(i) >= 1 /\ PARENT(i) < i /\ (i = 2 * PARENT(i) \/ i = 2 * PARENT(i) + 1)
    BY <1>1 DEF PARENT
  <1>3. PARENT(i) \in Nodes
    BY <1>1, <1>2, NodesAre
  <1> QED BY <1>2, <1>3 DEF LCHILD, RCHILD

\* A child has its parent.
LEMMA ChildIs ==
    ASSUME NEW i \in Nodes
    PROVE  /\ LCHILD(i) \in Nat \ {0, 1} /\ RCHILD(i) \in Nat \ {0, 1}
           /\ PARENT(LCHILD(i)) = i /\ PARENT(RCHILD(i)) = i
           /\ LCHILD(i) = 2 * i /\ RCHILD(i) = 2 * i + 1
  <1>1. i \in Nat \ {0}
    BY NodesAre
  <1> QED BY <1>1 DEF LCHILD, RCHILD, PARENT

\* What holds of the root and of the children of a node of which it holds, holds of all.
LEMMA NodeInduction ==
    ASSUME NEW T \in SUBSET Nodes, 1 \in T,
           \A i \in Nodes \ {1} : PARENT(i) \in T => i \in T
    PROVE  \A i \in Nodes : i \in T
  <1> DEFINE Bad == Nodes \ T
  <1>1. SUFFICES ASSUME Bad # {} PROVE FALSE
    OBVIOUS
  <1>2. PICK n \in Bad : \A y \in Bad : n =< y
    <2>1. Bad \in SUBSET Nat
      BY NodesAre
    <2> HIDE DEF Bad
    <2> QED BY <1>1, <2>1, LeastExists
  <1>3. n \in Nodes \ {1} /\ n \in Nat
    BY NodesAre
  <1>4. PARENT(n) \in Nodes /\ PARENT(n) < n /\ PARENT(n) \in Nat
    BY <1>3, ParentIs, NodesAre
  <1>5. PARENT(n) \notin Bad
    <2> HIDE DEF Bad
    <2> QED BY <1>2, <1>3, <1>4
  <1> QED BY <1>3, <1>4, <1>5

\* The level of a child is the next one.
LEMMA LevelIs ==
    /\ level[1] = 1
    /\ \A i \in Nodes \ {1} : level[i] = level[PARENT(i)] + 1
  <1> DEFINE prev == [i \in Nodes \ {1} |-> PARENT(i)]
             step == [i \in Nodes \ {1} |-> [x \in Nat |-> x + 1]]
  <1>1. /\ Nodes \in SUBSET (0 .. HEAPSIZE) /\ HEAPSIZE \in Nat /\ {1} \in SUBSET Nodes
        /\ prev \in [Nodes \ {1} -> Nodes] /\ \A i \in Nodes \ {1} : prev[i] < i
        /\ step \in [Nodes \ {1} -> [Nat -> Nat]]
    BY NodesAre, ParentIs
  <1>2. \E f \in [Nodes -> Nat] : IsDescent(f, Nodes, {1}, 1, prev, step)
    <2> HIDE DEF prev, step
    <2> QED BY <1>1, DescentExists
  <1>3. PICK f \in [Nodes -> Nat] : IsDescent(f, Nodes, {1}, 1, prev, step)
    BY <1>2
  <1>4. ASSUME NEW i \in Nodes PROVE f[i] = IF i = 1 THEN 1 ELSE f[PARENT(i)] + 1
    <2>1. f[i] = IF i \in {1} THEN 1 ELSE step[i][f[prev[i]]]
      BY <1>3 DEF IsDescent
    <2>2. CASE i = 1
      BY <2>1, <2>2
    <2>3. CASE i # 1
      <3>1. prev[i] = PARENT(i) /\ f[PARENT(i)] \in Nat
        BY <2>3, ParentIs
      <3> QED BY <2>1, <2>3, <3>1
    <2> QED BY <2>2, <2>3
  <1>5. f = [i \in Nodes |-> IF i = 1 THEN 1 ELSE f[PARENT(i)] + 1]
    <2>1. f = [i \in Nodes |-> f[i]]
      OBVIOUS
    <2> QED BY <1>4, <2>1
  <1>6. Level = [i \in Nodes |-> IF i = 1 THEN 1 ELSE Level[PARENT(i)] + 1]
    BY <1>5 DEF Level
  <1> DEFINE g == Level
  <1> HIDE DEF g
  <1>7. g = [i \in Nodes |-> IF i = 1 THEN 1 ELSE g[PARENT(i)] + 1]
    BY <1>6 DEF g
  <1>8. \A i \in Nodes : g[i] = IF i = 1 THEN 1 ELSE g[PARENT(i)] + 1
    BY <1>7
  <1>9. \A i \in Nodes : level[i] = g[i]
    BY DEF level, g
  <1> QED BY <1>8, <1>9, NodesAre, ParentIs

\* The path of a child is that of its parent, and itself.
LEMMA PathIs ==
    /\ Path[1] = {1}
    /\ \A i \in Nodes \ {1} : Path[i] = {i} \cup Path[PARENT(i)]
    /\ \A i \in Nodes : Path[i] \subseteq Nodes
  <1> DEFINE prev == [i \in Nodes \ {1} |-> PARENT(i)]
             step == [i \in Nodes \ {1} |-> [x \in SUBSET Nodes |-> {i} \cup x]]
  <1>1. /\ Nodes \in SUBSET (0 .. HEAPSIZE) /\ HEAPSIZE \in Nat /\ {1} \in SUBSET Nodes
        /\ prev \in [Nodes \ {1} -> Nodes] /\ \A i \in Nodes \ {1} : prev[i] < i
        /\ step \in [Nodes \ {1} -> [SUBSET Nodes -> SUBSET Nodes]] /\ {1} \in SUBSET Nodes
    BY NodesAre, ParentIs
  <1>2. \E f \in [Nodes -> SUBSET Nodes] : IsDescent(f, Nodes, {1}, {1}, prev, step)
    <2> HIDE DEF prev, step
    <2> QED BY <1>1, DescentExists
  <1>3. PICK f \in [Nodes -> SUBSET Nodes] : IsDescent(f, Nodes, {1}, {1}, prev, step)
    BY <1>2
  <1>4. ASSUME NEW i \in Nodes
        PROVE  f[i] = {i} \cup IF i = 1 THEN {} ELSE f[PARENT(i)]
    <2>1. f[i] = IF i \in {1} THEN {1} ELSE step[i][f[prev[i]]]
      BY <1>3 DEF IsDescent
    <2>2. CASE i = 1
      BY <2>1, <2>2
    <2>3. CASE i # 1
      <3>1. prev[i] = PARENT(i) /\ f[PARENT(i)] \in SUBSET Nodes
        BY <2>3, ParentIs
      <3> QED BY <2>1, <2>3, <3>1
    <2> QED BY <2>2, <2>3
  <1>5. f = [i \in Nodes |-> {i} \cup IF i = 1 THEN {} ELSE f[PARENT(i)]]
    <2>1. f = [i \in Nodes |-> f[i]]
      OBVIOUS
    <2> QED BY <1>4, <2>1
  <1>6. Enclosing = [i \in Nodes |-> {i} \cup IF i = 1 THEN {} ELSE Enclosing[PARENT(i)]]
    BY <1>5 DEF Enclosing
  <1> DEFINE g == Enclosing
  <1> HIDE DEF g
  <1>7. g = [i \in Nodes |-> {i} \cup IF i = 1 THEN {} ELSE g[PARENT(i)]]
    BY <1>6 DEF g
  <1>8. \A i \in Nodes : g[i] = {i} \cup IF i = 1 THEN {} ELSE g[PARENT(i)]
    BY <1>7
  <1>9. \A i \in Nodes : g[i] \subseteq Nodes
    <2> DEFINE T == {i \in Nodes : g[i] \subseteq Nodes}
    <2>1. 1 \in T
      BY <1>8, NodesAre
    <2>2. ASSUME NEW i \in Nodes \ {1}, PARENT(i) \in T PROVE i \in T
      BY <1>8, <2>2
    <2>3. T \in SUBSET Nodes
      OBVIOUS
    <2> HIDE DEF T
    <2>4. \A i \in Nodes : i \in T
      BY <2>1, <2>2, <2>3, NodeInduction
    <2> QED BY <2>4 DEF T
  <1>10. g[1] = {1} /\ \A i \in Nodes \ {1} : g[i] = {i} \cup g[PARENT(i)]
    <2>1. g[1] = {1}
      BY <1>8, NodesAre
    <2>2. ASSUME NEW i \in Nodes \ {1} PROVE g[i] = {i} \cup g[PARENT(i)]
      BY <1>8
    <2> QED BY <2>1, <2>2
  <1>11. \A i \in Nodes : Path[i] = g[i]
    BY DEF Path, g
  <1> QED BY <1>9, <1>10, <1>11, NodesAre, ParentIs

\* The nodes of level l are those from 2^(l - 1) on, up to 2^l.
LEMMA LevelBounds ==
    ASSUME NEW i \in Nodes
    PROVE  /\ level[i] \in 1 .. HeapLevel
           /\ power[level[i] - 1] =< i /\ i < power[level[i]]
  <1> DEFINE T == {j \in Nodes : /\ level[j] \in 1 .. HeapLevel
                                 /\ power[level[j] - 1] =< j /\ j < power[level[j]]}
  <1>0. HeapLevel \in Nat \ {0}
    BY BuddyAssumption
  <1>1. 1 \in T
    <2>1. level[1] = 1 /\ power[0] = 1 /\ power[1] = 2 * power[0] /\ 1 \in Nodes
      BY <1>0, LevelIs, PowerIs, NodesAre
    <2> QED BY <1>0, <2>1
  <1>2. ASSUME NEW j \in Nodes \ {1}, PARENT(j) \in T PROVE j \in T
    <2> DEFINE p == PARENT(j)
               l == level[p]
    <2>1. /\ p \in Nodes /\ l \in 1 .. HeapLevel
          /\ power[l - 1] =< p /\ p < power[l]
      BY <1>2
    <2>2. j \in Nat /\ p \in Nat /\ (j = 2 * p \/ j = 2 * p + 1) /\ level[j] = l + 1
      BY <2>1, NodesAre, ParentIs, LevelIs DEF LCHILD, RCHILD
    <2>3. j < power[HeapLevel] /\ power[HeapLevel] \in Nat
      BY NodesAre
    <2> HIDE DEF l, p
    <2>4. power[l] = 2 * power[l - 1] /\ power[l] \in Nat /\ power[l - 1] \in Nat
      BY <1>0, <2>1, PowerIs
    <2>5. power[l] =< j
      BY <2>1, <2>2, <2>4
    <2>6. l # HeapLevel
      BY <2>2, <2>3, <2>5
    <2>7. l + 1 \in 1 .. HeapLevel /\ power[l + 1] = 2 * power[l]
      <3>1. l + 1 \in 1 .. HeapLevel /\ (l + 1) - 1 = l
        BY <1>0, <2>1, <2>6
      <3>2. power[l + 1] = 2 * power[(l + 1) - 1]
        BY <3>1, PowerIs
      <3> QED BY <3>1, <3>2
    <2>8. j < power[l + 1]
      BY <2>1, <2>2, <2>4, <2>7
    <2>9. (l + 1) - 1 = l
      BY <2>1
    <2> QED BY <2>2, <2>5, <2>7, <2>8, <2>9
  <1>3. T \in SUBSET Nodes
    OBVIOUS
  <1> HIDE DEF T
  <1>4. \A j \in Nodes : j \in T
    BY <1>1, <1>2, <1>3, NodeInduction
  <1> QED BY <1>4 DEF T

\* A node is on its path, with nothing behind it.
LEMMA PathUp ==
    ASSUME NEW i \in Nodes
    PROVE  /\ i \in Path[i] /\ Path[i] \subseteq Nodes
           /\ \A j \in Path[i] : j = i \/ (i # 1 /\ j \in Path[PARENT(i)])
           /\ i # 1 => Path[PARENT(i)] \subseteq Path[i]
  BY PathIs

\* The blocks around a block are smaller numbers and on higher levels.
LEMMA PathBelow ==
    ASSUME NEW i \in Nodes, NEW j \in Path[i]
    PROVE  j \in Nodes /\ (j = i \/ (j < i /\ level[j] < level[i]))
  <1> DEFINE T == {k \in Nodes : \A a \in Path[k] : a = k \/ (a < k /\ level[a] < level[k])}
  <1>1. 1 \in T
    BY PathIs, NodesAre
  <1>2. ASSUME NEW k \in Nodes \ {1}, PARENT(k) \in T PROVE k \in T
    <2>1. ASSUME NEW a \in Path[k], a # k PROVE a < k /\ level[a] < level[k]
      <3>1. a \in Path[PARENT(k)] /\ a \in Nodes /\ PARENT(k) \in Nodes /\ PARENT(k) < k
        BY <2>1, PathUp, ParentIs
      <3>2. a = PARENT(k) \/ (a < PARENT(k) /\ level[a] < level[PARENT(k)])
        BY <1>2, <3>1
      <3>3. level[k] = level[PARENT(k)] + 1
        BY LevelIs
      <3>4. a \in Nat /\ k \in Nat /\ PARENT(k) \in Nat /\ level[a] \in Nat /\ level[PARENT(k)] \in Nat
        <4>1. level[a] \in 1 .. HeapLevel /\ level[PARENT(k)] \in 1 .. HeapLevel
          BY <3>1, LevelBounds
        <4> QED BY <3>1, <4>1, NodesAre
      <3> QED BY <3>1, <3>2, <3>3, <3>4
    <2> QED BY <2>1
  <1>3. T \in SUBSET Nodes
    OBVIOUS
  <1> HIDE DEF T
  <1>4. i \in T
    BY <1>1, <1>2, <1>3, NodeInduction
  <1>5. j \in Nodes
    BY PathUp
  <1> QED BY <1>4, <1>5 DEF T

\* What is around a block around i is around i.
LEMMA PathTransitive ==
    ASSUME NEW i \in Nodes, NEW j \in Path[i]
    PROVE  Path[j] \subseteq Path[i]
  <1> DEFINE T == {k \in Nodes : \A a \in Path[k] : Path[a] \subseteq Path[k]}
  <1>1. 1 \in T
    BY PathIs, NodesAre
  <1>2. ASSUME NEW k \in Nodes \ {1}, PARENT(k) \in T PROVE k \in T
    BY <1>2, PathUp
  <1>3. T \in SUBSET Nodes
    OBVIOUS
  <1> HIDE DEF T
  <1>4. i \in T
    BY <1>1, <1>2, <1>3, NodeInduction
  <1> QED BY <1>4 DEF T

\* Of two blocks around a block, one is around the other.
LEMMA PathLinear ==
    ASSUME NEW i \in Nodes, NEW j \in Path[i], NEW k \in Path[i]
    PROVE  j \in Path[k] \/ k \in Path[j]
  <1> DEFINE T == {m \in Nodes : \A a, b \in Path[m] : a \in Path[b] \/ b \in Path[a]}
  <1>1. 1 \in T
    BY PathIs, NodesAre
  <1>2. ASSUME NEW m \in Nodes \ {1}, PARENT(m) \in T PROVE m \in T
    BY <1>2, PathUp
  <1>3. T \in SUBSET Nodes
    OBVIOUS
  <1> HIDE DEF T
  <1>4. i \in T
    BY <1>1, <1>2, <1>3, NodeInduction
  <1> QED BY <1>4 DEF T

\* A block around another one has a child around it.
LEMMA PathDown ==
    ASSUME NEW i \in Nodes, NEW j \in Path[i], j # i
    PROVE  \E c \in Path[i] \ {1} : PARENT(c) = j /\ (c = LCHILD(j) \/ c = RCHILD(j))
  <1> DEFINE T == {k \in Nodes : \A a \in Path[k] \ {k} : \E c \in Path[k] \ {1} : PARENT(c) = a}
  <1>1. 1 \in T
    BY PathIs, NodesAre
  <1>2. ASSUME NEW k \in Nodes \ {1}, PARENT(k) \in T PROVE k \in T
    <2>1. ASSUME NEW a \in Path[k] \ {k} PROVE \E c \in Path[k] \ {1} : PARENT(c) = a
      <3>1. a \in Path[PARENT(k)] /\ k \in Path[k] /\ Path[PARENT(k)] \subseteq Path[k]
        BY PathUp
      <3>2. CASE a = PARENT(k)
        BY <3>1, <3>2
      <3>3. CASE a # PARENT(k)
        BY <1>2, <3>1, <3>3
      <3> QED BY <3>2, <3>3
    <2> QED BY <2>1
  <1>3. T \in SUBSET Nodes
    OBVIOUS
  <1> HIDE DEF T
  <1>4. i \in T
    BY <1>1, <1>2, <1>3, NodeInduction
  <1>5. PICK c \in Path[i] \ {1} : PARENT(c) = j
    BY <1>4 DEF T
  <1>6. c \in Nodes \ {1}
    BY PathUp
  <1> QED BY <1>5, <1>6, ParentIs

\* There is a block of every lower level number around a block.
LEMMA AncestorAt ==
    ASSUME NEW i \in Nodes, NEW l \in 1 .. level[i]
    PROVE  \E a \in Path[i] : level[a] = l
  <1> DEFINE T == {k \in Nodes : \A m \in 1 .. level[k] : \E a \in Path[k] : level[a] = m}
  <1>1. 1 \in T
    <2>1. level[1] = 1 /\ 1 \in Path[1] /\ 1 \in Nodes
      BY LevelIs, NodesAre, PathUp
    <2>2. ASSUME NEW m \in 1 .. level[1] PROVE m = 1
      BY <2>1
    <2> QED BY <2>1, <2>2
  <1>2. ASSUME NEW k \in Nodes \ {1}, PARENT(k) \in T PROVE k \in T
    <2>1. ASSUME NEW m \in 1 .. level[k] PROVE \E a \in Path[k] : level[a] = m
      <3>1. level[k] = level[PARENT(k)] + 1 /\ level[PARENT(k)] \in Nat
        BY LevelIs, LevelBounds, ParentIs, BuddyAssumption
      <3>2. CASE m = level[k]
        BY <3>2, PathUp
      <3>3. CASE m # level[k]
        <4>1. m \in 1 .. level[PARENT(k)]
          BY <3>1, <3>3
        <4> QED BY <1>2, <4>1, PathUp
      <3> QED BY <3>2, <3>3
    <2> QED BY <2>1
  <1>3. T \in SUBSET Nodes
    OBVIOUS
  <1> HIDE DEF T
  <1>4. i \in T
    BY <1>1, <1>2, <1>3, NodeInduction
  <1> QED BY <1>4 DEF T

\* There is a block of every deeper level in a block.
LEMMA DescendantAt ==
    ASSUME NEW i \in Nodes, NEW l \in level[i] .. HeapLevel
    PROVE  \E d \in Nodes : level[d] = l /\ i \in Path[d]
  <1> DEFINE Bad == {m \in level[i] .. HeapLevel : \A d \in Nodes : ~(level[d] = m /\ i \in Path[d])}
  <1>0. HeapLevel \in Nat \ {0} /\ level[i] \in 1 .. HeapLevel
    BY BuddyAssumption, LevelBounds
  <1>1. SUFFICES ASSUME Bad # {} PROVE FALSE
    OBVIOUS
  <1>2. PICK m \in Bad : \A y \in Bad : m =< y
    <2>1. Bad \in SUBSET Nat
      BY <1>0
    <2> HIDE DEF Bad
    <2> QED BY <1>1, <2>1, LeastExists
  <1>3. m \in level[i] .. HeapLevel /\ \A d \in Nodes : ~(level[d] = m /\ i \in Path[d])
    OBVIOUS
  <1>4. m # level[i]
    BY <1>3, PathUp
  <1>5. m - 1 \in level[i] .. HeapLevel /\ m - 1 < m /\ m \in Nat
    BY <1>0, <1>3, <1>4
  <1>6. m - 1 \notin Bad
    <2> HIDE DEF Bad
    <2> QED BY <1>2, <1>5
  <1>7. PICK d \in Nodes : level[d] = m - 1 /\ i \in Path[d]
    BY <1>5, <1>6
  <1>8. LCHILD(d) \in Nodes \ {1} /\ PARENT(LCHILD(d)) = d
    <2>1. d < power[m - 1] /\ m - 1 \in 0 .. HeapLevel /\ m \in 1 .. HeapLevel
      BY <1>0, <1>3, <1>5, <1>7, LevelBounds
    <2>2. power[m] = 2 * power[m - 1] /\ power[m - 1] \in Nat
      BY <2>1, PowerIs
    <2>3. power[m] =< power[HeapLevel] /\ power[HeapLevel] \in Nat
      BY <1>0, <2>1, PowerGrows, PowerIs
    <2>4. LCHILD(d) = 2 * d /\ d \in Nat \ {0} /\ PARENT(LCHILD(d)) = d
      BY ChildIs, NodesAre
    <2>5. LCHILD(d) < power[HeapLevel] /\ LCHILD(d) \in Nat \ {0, 1}
      BY <2>1, <2>2, <2>3, <2>4
    <2> QED BY <2>4, <2>5, NodesAre
  <1>9. level[LCHILD(d)] = m
    <2>1. level[LCHILD(d)] = level[d] + 1
      BY <1>8, LevelIs
    <2> QED BY <1>5, <1>7, <2>1
  <1>10. i \in Path[LCHILD(d)]
    BY <1>7, <1>8, PathUp
  <1> QED BY <1>3, <1>8, <1>9, <1>10

\* Blocks of one level are in the order of the blocks of another level they lie in.
LEMMA OrderKept ==
    ASSUME NEW d \in Nodes, NEW e \in Nodes, level[d] = level[e],
           NEW x \in Path[d], NEW y \in Path[e], level[x] = level[y], x < y
    PROVE  d < e
  <1> DEFINE T == {k \in Nodes : \A m \in Nodes : level[k] = level[m] =>
                     \A a \in Path[k], b \in Path[m] : level[a] = level[b] /\ a < b => k < m}
  <1>0. ASSUME NEW k \in Nodes PROVE level[k] \in Nat
    BY LevelBounds, BuddyAssumption
  <1>a. ASSUME NEW k \in Nodes, NEW m \in Nodes, level[k] = level[m],
               NEW a \in Path[k], NEW b \in Path[m], level[a] = level[b], a < b,
               a = k \/ b = m
        PROVE  k < m
    <2>1. (a = k \/ level[a] < level[k]) /\ (b = m \/ level[b] < level[m])
      BY PathBelow
    <2>2. level[k] \in Nat /\ level[m] \in Nat
      BY <1>0
    <2>3. a = k /\ b = m
      BY <1>a, <2>1, <2>2
    <2> QED BY <1>a, <2>3
  <1>1. 1 \in T
    <2>1. Path[1] = {1} /\ 1 \in Nodes
      BY PathIs, NodesAre
    <2> QED BY <1>a, <2>1
  <1>2. ASSUME NEW k \in Nodes \ {1}, PARENT(k) \in T PROVE k \in T
    <2>1. ASSUME NEW m \in Nodes, level[k] = level[m],
                 NEW a \in Path[k], NEW b \in Path[m], level[a] = level[b], a < b
          PROVE  k < m
      <3>1. CASE a = k \/ b = m
        BY <1>a, <2>1, <3>1
      <3>2. CASE a # k /\ b # m
        <4>1. m # 1 /\ a \in Path[PARENT(k)] /\ b \in Path[PARENT(m)]
          BY <3>2, PathUp
        <4>2. PARENT(k) \in Nodes /\ PARENT(m) \in Nodes
          BY <4>1, ParentIs
        <4>3. level[k] = level[PARENT(k)] + 1 /\ level[m] = level[PARENT(m)] + 1
          BY <4>1, LevelIs
        <4>4. level[PARENT(k)] = level[PARENT(m)]
          <5>1. level[PARENT(k)] \in Nat /\ level[PARENT(m)] \in Nat
            BY <1>0, <4>2
          <5>2. level[PARENT(k)] + 1 = level[PARENT(m)] + 1
            BY <2>1, <4>3
          <5> QED BY <5>1, <5>2
        <4>5. PARENT(k) < PARENT(m)
          BY <1>2, <2>1, <4>1, <4>2, <4>4
        <4>6. /\ k = 2 * PARENT(k) \/ k = 2 * PARENT(k) + 1
              /\ m = 2 * PARENT(m) \/ m = 2 * PARENT(m) + 1
              /\ PARENT(k) \in Nat /\ PARENT(m) \in Nat
          BY <4>1, <4>2, ParentIs, NodesAre DEF LCHILD, RCHILD
        <4> QED BY <4>5, <4>6
      <3> QED BY <3>1, <3>2
    <2> QED BY <2>1
  <1>3. T \in SUBSET Nodes
    OBVIOUS
  <1> HIDE DEF T
  <1>4. d \in T
    BY <1>1, <1>2, <1>3, NodeInduction
  <1> QED BY <1>4 DEF T

\* The pages of a block are a number of pages, 2^(HeapLevel - l) on level l.
LEMMA PagesAre ==
    ASSUME NEW i \in Nodes
    PROVE  /\ base(i) \in Nat /\ power[HeapLevel - level[i]] \in Nat \ {0}
           /\ \A x : x \in Pages(i) <=> x \in Nat /\ base(i) =< x
                                        /\ x < base(i) + power[HeapLevel - level[i]]
  <1>0. HeapLevel \in Nat \ {0} /\ level[i] \in 1 .. HeapLevel /\ power[level[i] - 1] =< i
    BY BuddyAssumption, LevelBounds
  <1> DEFINE l == level[i]
             q == power[HeapLevel - l]
             z == i - power[l - 1]
  <1>1. HeapLevel - l \in 0 .. HeapLevel /\ l - 1 \in 0 .. HeapLevel
    BY <1>0
  <1>2. q \in Nat \ {0}
    BY <1>1, PowerIs
  <1>3. z \in Nat
    <2>1. i \in Nat /\ power[l - 1] \in Nat
      BY <1>1, NodesAre, PowerIs
    <2> QED BY <1>0, <2>1
  <1>4. base(i) = z * q
    BY DEF base
  <1> HIDE DEF q, z
  <1>5. z * q \in Nat
    BY <1>2, <1>3
  <1>6. \A x : x \in Pages(i) <=> x \in Nat /\ base(i) =< x /\ x < base(i) + q
    BY <1>2, <1>4, <1>5 DEF Pages, q
  <1> QED BY <1>2, <1>4, <1>5, <1>6 DEF q

\* A block lies in the one it is a half of.
LEMMA PagesOfParent ==
    ASSUME NEW i \in Nodes \ {1}
    PROVE  Pages(i) \subseteq Pages(PARENT(i))
  <1> DEFINE j == PARENT(i)
             l == level[j]
             q == power[HeapLevel - level[i]]
             z == j - power[l - 1]
  <1>0. HeapLevel \in Nat \ {0} /\ j \in Nodes /\ l \in 1 .. HeapLevel /\ power[l - 1] =< j
        /\ level[i] = l + 1 /\ level[i] \in 1 .. HeapLevel
    BY BuddyAssumption, ParentIs, LevelBounds, LevelIs
  <1>1. power[l] = 2 * power[l - 1] /\ power[l - 1] \in Nat
    BY <1>0, PowerIs
  <1>2. power[HeapLevel - l] = 2 * q /\ q \in Nat \ {0}
    <2>1. HeapLevel - l \in 1 .. HeapLevel /\ HeapLevel - level[i] \in 0 .. HeapLevel
          /\ (HeapLevel - l) - 1 = HeapLevel - level[i]
      BY <1>0
    <2> HIDE DEF j, l
    <2> QED BY <2>1, PowerIs
  <1>3. j \in Nat /\ z \in Nat /\ (i = 2 * j \/ i = 2 * j + 1)
    <2>1. j \in Nat /\ (i = 2 * j \/ i = 2 * j + 1)
      BY <1>0, NodesAre, ParentIs DEF LCHILD, RCHILD
    <2> HIDE DEF j, l
    <2> QED BY <1>0, <1>1, <2>1
  <1>4. i - power[level[i] - 1] = 2 * z \/ i - power[level[i] - 1] = 2 * z + 1
    <2>1. level[i] - 1 = l
      BY <1>0
    <2> HIDE DEF j, l
    <2> QED BY <1>0, <1>1, <1>3, <2>1
  <1>5. base(j) = z * (2 * q)
    <2> HIDE DEF q
    <2> QED BY <1>2 DEF base
  <1>6. base(i) = (i - power[level[i] - 1]) * q
    BY DEF base
  <1>7. base(i) = (2 * z) * q \/ base(i) = (2 * z + 1) * q
    <2> HIDE DEF q, z
    <2> QED BY <1>4, <1>6
  <1> HIDE DEF z, q
  <1>8. base(j) =< base(i) /\ base(i) + q =< base(j) + 2 * q /\ base(i) \in Nat /\ base(j) \in Nat
    <2>1. z * (2 * q) = 2 * (z * q) /\ (2 * z) * q = 2 * (z * q) /\ (2 * z + 1) * q = 2 * (z * q) + q
          /\ z * q \in Nat
      BY <1>2, <1>3
    <2> HIDE DEF j
    <2> QED BY <1>2, <1>5, <1>7, <2>1
  <1>9. ASSUME NEW x \in Pages(i) PROVE x \in Pages(j)
    <2>1. x \in Nat /\ base(i) =< x /\ x < base(i) + q
      BY PagesAre DEF q
    <2>2. x \in Pages(j) <=> x \in Nat /\ base(j) =< x /\ x < base(j) + 2 * q
      BY <1>0, <1>2, PagesAre
    <2> HIDE DEF j
    <2> QED BY <1>2, <1>8, <2>1, <2>2
  <1> QED BY <1>9

\* A block lies in every block around it.
LEMMA PagesOfPath ==
    ASSUME NEW i \in Nodes, NEW a \in Path[i]
    PROVE  Pages(i) \subseteq Pages(a)
  <1> DEFINE T == {k \in Nodes : \A b \in Path[k] : Pages(k) \subseteq Pages(b)}
  <1>1. 1 \in T
    BY PathIs, NodesAre
  <1>2. ASSUME NEW k \in Nodes \ {1}, PARENT(k) \in T PROVE k \in T
    <2>1. ASSUME NEW b \in Path[k] PROVE Pages(k) \subseteq Pages(b)
      <3>1. CASE b = k
        BY <3>1
      <3>2. CASE b # k
        <4>1. b \in Path[PARENT(k)]
          BY <3>2, PathUp
        <4>2. Pages(PARENT(k)) \subseteq Pages(b)
          BY <1>2, <4>1
        <4> QED BY <4>2, PagesOfParent
      <3> QED BY <3>1, <3>2
    <2> QED BY <2>1
  <1>3. T \in SUBSET Nodes
    OBVIOUS
  <1> HIDE DEF T
  <1>4. i \in T
    BY <1>1, <1>2, <1>3, NodeInduction
  <1> QED BY <1>4 DEF T

\* Two blocks of one level have no page in common.
LEMMA PagesOfLevel ==
    ASSUME NEW i \in Nodes, NEW k \in Nodes, level[i] = level[k], i < k
    PROVE  Pages(i) \cap Pages(k) = {}
  <1> DEFINE q == power[HeapLevel - level[i]]
             z == i - power[level[i] - 1]
             y == k - power[level[i] - 1]
  <1>1. z \in Nat /\ y \in Nat /\ z < y
    <2>1. HeapLevel \in Nat \ {0} /\ level[i] \in 1 .. HeapLevel /\ power[level[i] - 1] =< i
          /\ power[level[k] - 1] =< k
      BY BuddyAssumption, LevelBounds
    <2>2. i \in Nat /\ k \in Nat /\ power[level[i] - 1] \in Nat
      BY <2>1, NodesAre, PowerIs
    <2> QED BY <2>1, <2>2
  <1>2. base(i) = z * q /\ base(k) = y * q
    BY DEF base
  <1>3. q \in Nat \ {0} /\ base(i) \in Nat /\ base(k) \in Nat
    BY PagesAre
  <1> HIDE DEF q, z, y
  <1>4. z * q + q =< y * q
    BY <1>1, <1>3
  <1>5. ASSUME NEW x \in Pages(i), x \in Pages(k) PROVE FALSE
    <2>1. x < base(i) + q /\ x \in Nat /\ base(k) =< x
      BY <1>5, PagesAre DEF q
    <2> QED BY <1>2, <1>3, <1>4, <2>1
  <1> QED BY <1>5

\* Nor have two blocks none of which lies in the other.
LEMMA PagesApart ==
    ASSUME NEW i \in Nodes, NEW k \in Nodes, Apart(i, k)
    PROVE  Pages(i) \cap Pages(k) = {}
  <1>1. ASSUME NEW a \in Nodes, NEW b \in Nodes, Apart(a, b), level[a] =< level[b]
        PROVE  Pages(a) \cap Pages(b) = {}
    <2>1. level[a] \in 1 .. level[b]
      <3>1. level[a] \in 1 .. HeapLevel /\ level[b] \in 1 .. HeapLevel
        BY LevelBounds
      <3> QED BY <1>1, <3>1, BuddyAssumption
    <2>2. PICK c \in Path[b] : level[c] = level[a]
      BY <2>1, AncestorAt
    <2>3. c # a /\ c \in Nodes /\ c \in Nat /\ a \in Nat
      BY <1>1, PathUp, NodesAre DEF Apart
    <2>4. c < a \/ a < c
      BY <2>3
    <2>5. Pages(a) \cap Pages(c) = {}
      BY <2>2, <2>3, <2>4, PagesOfLevel
    <2> QED BY <2>5, PagesOfPath
  <1>2. level[i] \in 1 .. HeapLevel /\ level[k] \in 1 .. HeapLevel
    BY LevelBounds
  <1>3. level[i] =< level[k] \/ level[k] =< level[i]
    BY <1>2, BuddyAssumption
  <1>4. Apart(k, i)
    BY DEF Apart
  <1> QED BY <1>1, <1>3, <1>4

-----------------------------------------------------------------------------
(* Allocation.                                                             *)

\* The values of a mark, and the arrays of marks.
Marks == {EMPTY, PARTIALLY_FULL, BUDDY_FULL}
Arrays == [Nodes -> Marks]

\* The three are different.
LEMMA MarksDiffer ==
    /\ EMPTY \in Marks /\ PARTIALLY_FULL \in Marks /\ BUDDY_FULL \in Marks
    /\ EMPTY # PARTIALLY_FULL /\ EMPTY # BUDDY_FULL /\ PARTIALLY_FULL # BUDDY_FULL
  BY DEF Marks, EMPTY, PARTIALLY_FULL, BUDDY_FULL

\* A set of nodes has a leftmost one.
LEMMA MinIs ==
    ASSUME NEW S \in SUBSET Nat, S # {}
    PROVE  Min(S) \in S /\ \A y \in S : Min(S) =< y
  <1>1. PICK x \in S : \A y \in S : x =< y
    BY LeastExists
  <1> QED BY <1>1 DEF Min

\* What the search finds is empty, in no full block, and the first such block of its level.
LEMMA SearchFinds ==
    ASSUME NEW occ \in Arrays, NEW lv, NEW n, n = Search(occ, lv), n # 0
    PROVE  /\ n \in Nodes /\ occ[n] = EMPTY /\ Visible(occ, n)
           /\ \A d \in Nodes : level[d] = level[n] /\ occ[d] = EMPTY /\ Visible(occ, d) => n =< d
  <1> DEFINE found == {i \in Nodes : level[i] = lv /\ occ[i] = EMPTY /\ Visible(occ, i)}
  <1>1. found # {} /\ n = Min(found)
    BY DEF Search
  <1>2. found \in SUBSET Nat
    BY NodesAre
  <1>3. n \in found /\ \A d \in found : n =< d
    <2> HIDE DEF found
    <2> QED BY <1>1, <1>2, MinIs
  <1> QED BY <1>3

\* Without an empty block left it is NULL.
LEMMA SearchIsNode ==
    ASSUME NEW occ \in Arrays, NEW lv
    PROVE  Search(occ, lv) \in Nodes \cup {0}
  <1>1. Search(occ, lv) # 0 => Search(occ, lv) \in Nodes
    BY SearchFinds
  <1> QED BY <1>1

\* What is in an empty block is empty.
LEMMA EmptyBelow ==
    ASSUME NEW occ \in Arrays, MarksClosed(occ), NEW i \in Nodes, NEW a \in Path[i],
           occ[a] = EMPTY
    PROVE  occ[i] = EMPTY
  <1> DEFINE T == {k \in Nodes : \A b \in Path[k] : occ[b] = EMPTY => occ[k] = EMPTY}
  <1>1. 1 \in T
    BY PathIs, NodesAre
  <1>2. ASSUME NEW k \in Nodes \ {1}, PARENT(k) \in T PROVE k \in T
    <2>1. ASSUME NEW b \in Path[k], occ[b] = EMPTY PROVE occ[k] = EMPTY
      <3>1. CASE b = k
        BY <2>1, <3>1
      <3>2. CASE b # k
        <4>1. b \in Path[PARENT(k)]
          BY <3>2, PathUp
        <4>2. occ[PARENT(k)] = EMPTY
          BY <1>2, <2>1, <4>1
        <4> QED BY <4>2 DEF MarksClosed
      <3> QED BY <3>1, <3>2
    <2> QED BY <2>1
  <1>3. T \in SUBSET Nodes
    OBVIOUS
  <1> HIDE DEF T
  <1>4. i \in T
    BY <1>1, <1>2, <1>3, NodeInduction
  <1> QED BY <1>4 DEF T

\* An empty block in no full block is apart from every full block.
LEMMA EmptyApart ==
    ASSUME NEW occ \in Arrays, MarksClosed(occ), NEW n \in Nodes,
           occ[n] = EMPTY, Visible(occ, n), NEW u \in Nodes, occ[u] = BUDDY_FULL
    PROVE  Apart(n, u)
  <1>1. n \notin Path[u]
    BY EmptyBelow, MarksDiffer
  <1>2. u \notin Path[n]
    BY MarksDiffer DEF Visible
  <1> QED BY <1>1, <1>2 DEF Apart

\* The search does not leave an empty block of its way on the left: it goes right below
\* no block that is empty.
LEMMA RightBelowUsed ==
    ASSUME NEW occ \in Arrays, MarksClosed(occ), NEW n \in Nodes,
           occ[n] = EMPTY, Visible(occ, n),
           \A d \in Nodes : level[d] = level[n] /\ occ[d] = EMPTY /\ Visible(occ, d) => n =< d,
           NEW a \in Nodes, RCHILD(a) \in Path[n]
    PROVE  occ[a] # EMPTY
  <1> SUFFICES ASSUME occ[a] = EMPTY PROVE FALSE
    OBVIOUS
  <1> DEFINE r == RCHILD(a)
             c == LCHILD(a)
  <1>1. r \in Nodes \ {1} /\ PARENT(r) = a /\ c \in Nodes \ {1} /\ PARENT(c) = a /\ c < r
    <2>1. r \in Nodes
      BY PathUp
    <2>2. r = 2 * a + 1 /\ c = 2 * a /\ c \in Nat \ {0, 1} /\ r # 1 /\ a \in Nat
          /\ PARENT(r) = a /\ PARENT(c) = a
      BY ChildIs, NodesAre
    <2>3. r < power[HeapLevel] /\ power[HeapLevel] \in Nat
      BY <2>1, NodesAre
    <2>4. c < power[HeapLevel] /\ c < r
      BY <2>2, <2>3
    <2> HIDE DEF c, r
    <2> QED BY <2>1, <2>2, <2>4, NodesAre
  <1>2. level[c] = level[r] /\ level[r] \in 1 .. HeapLevel
    BY <1>1, LevelIs, LevelBounds
  <1> HIDE DEF c
  <1>3. level[n] \in level[c] .. HeapLevel
    <2>1. r = n \/ level[r] < level[n]
      BY PathBelow
    <2>2. level[n] \in 1 .. HeapLevel
      BY LevelBounds
    <2> HIDE DEF r
    <2> QED BY <1>2, <2>1, <2>2, BuddyAssumption
  <1>4. PICK d \in Nodes : level[d] = level[n] /\ c \in Path[d]
    BY <1>1, <1>3, DescendantAt
  <1>5. d < n
    BY <1>1, <1>2, <1>4, OrderKept
  <1>6. a \in Path[d] /\ a \in Path[n] /\ a # n
    <2>1. a \in Path[c] /\ a \in Path[r]
      BY <1>1, PathUp
    <2>2. a # n
      <3>1. a < r /\ r =< n /\ a \in Nat /\ r \in Nat /\ n \in Nat
        BY <1>1, PathBelow, ParentIs, NodesAre
      <3> HIDE DEF r
      <3> QED BY <3>1
    <2> QED BY <1>4, <2>1, <2>2, PathTransitive
  <1>7. occ[d] = EMPTY
    BY <1>6, EmptyBelow
  <1>8. ASSUME NEW j \in Path[d] \ {d} PROVE occ[j] # BUDDY_FULL
    <2>1. j \in Path[a] \/ a \in Path[j]
      BY <1>6, PathLinear
    <2>2. CASE j \in Path[a]
      <3>1. j \in Path[n]
        BY <1>6, <2>2, PathTransitive
      <3>2. j # n
        <4>1. j =< a /\ a < n /\ j \in Nat /\ a \in Nat /\ n \in Nat
          BY <1>6, <2>2, PathBelow, NodesAre
        <4> QED BY <4>1
      <3> QED BY <3>1, <3>2 DEF Visible
    <2>3. CASE a \in Path[j]
      <3>1. j \in Nodes
        BY PathUp
      <3>2. occ[j] = EMPTY
        BY <2>3, <3>1, EmptyBelow
      <3> QED BY <3>2, MarksDiffer
    <2> QED BY <2>1, <2>2, <2>3
  <1>9. Visible(occ, d)
    BY <1>8 DEF Visible
  <1>10. n =< d
    BY <1>4, <1>7, <1>9
  <1> QED BY <1>5, <1>10, NodesAre

\* The marks after an allocation are marks again.
LEMMA MarkedTyped ==
    ASSUME NEW occ \in Arrays, NEW n \in Nodes
    PROVE  Marked(occ, n) \in Arrays
  <1>1. ASSUME NEW i \in Nodes
        PROVE  Marked(occ, n)[i] \in {BUDDY_FULL, PARTIALLY_FULL, occ[i]}
    BY DEF Marked
  <1>2. \A i \in Nodes : occ[i] \in Marks
    BY DEF Arrays
  <1>3. Marked(occ, n) = [i \in Nodes |-> Marked(occ, n)[i]]
    BY DEF Marked
  <1>4. \A i \in Nodes : Marked(occ, n)[i] \in Marks
    BY <1>1, <1>2, MarksDiffer
  <1> QED BY <1>3, <1>4 DEF Arrays

\* What an allocation does to the array: the block found was apart from all full
\* blocks, it is full now, the full ones still are, and again nothing is marked in
\* an empty block.
LEMMA MarkedKeeps ==
    ASSUME NEW occ \in Arrays, MarksClosed(occ), NEW lv, NEW n, n = Search(occ, lv), n # 0
    PROVE  /\ MarksClosed(Marked(occ, n))
           /\ Marked(occ, n)[n] = BUDDY_FULL
           /\ \A u \in Nodes : occ[u] = BUDDY_FULL => Marked(occ, n)[u] = BUDDY_FULL /\ Apart(n, u)
  <1> DEFINE m == Marked(occ, n)
             path == Path[n]
  <1>1. /\ n \in Nodes /\ occ[n] = EMPTY /\ Visible(occ, n)
        /\ \A d \in Nodes : level[d] = level[n] /\ occ[d] = EMPTY /\ Visible(occ, d) => n =< d
    BY SearchFinds
  <1>2. ASSUME NEW i \in Nodes
        PROVE  /\ i \in path /\ LastIn(i, n) => m[i] = BUDDY_FULL
               /\ i \in path /\ ~LastIn(i, n) /\ LCHILD(i) \in path => m[i] = PARTIALLY_FULL
               /\ ~(i \in path /\ LastIn(i, n))
                    /\ ~(i \in path /\ ~LastIn(i, n) /\ LCHILD(i) \in path) => m[i] = occ[i]
    BY DEF Marked
  <1> HIDE DEF m
  <1>3. m[n] = BUDDY_FULL
    <2>1. n \in path
      BY <1>1, PathUp
    <2>2. LastIn(n, n)
      <3>1. ASSUME NEW j \in Path[n], j > n PROVE FALSE
        <4>1. j \in Nodes /\ (j = n \/ j < n)
          BY <1>1, PathBelow
        <4>2. j \in Nat /\ n \in Nat
          BY <1>1, <4>1, NodesAre
        <4> QED BY <3>1, <4>1, <4>2
      <3> QED BY <3>1 DEF LastIn
    <2> QED BY <1>1, <1>2, <2>1, <2>2
  <1>4. ASSUME NEW u \in Nodes, occ[u] = BUDDY_FULL PROVE m[u] = BUDDY_FULL /\ Apart(n, u)
    <2>1. Apart(n, u)
      BY <1>1, <1>4, EmptyApart
    <2>2. u \notin path
      BY <2>1 DEF Apart
    <2> QED BY <1>2, <1>4, <2>1, <2>2
  <1>5. ASSUME NEW i \in Nodes \ {1}, m[PARENT(i)] = EMPTY PROVE m[i] = EMPTY
    <2> DEFINE a == PARENT(i)
    <2>0. a \in Nodes /\ (i = LCHILD(a) \/ i = RCHILD(a)) /\ i \in Nodes
      BY ParentIs
    <2>1. ~(a \in path /\ LastIn(a, n)) /\ ~(a \in path /\ LCHILD(a) \in path) /\ occ[a] = EMPTY
      <3>1. m[a] # BUDDY_FULL /\ m[a] # PARTIALLY_FULL
        BY <1>5, MarksDiffer
      <3> HIDE DEF a
      <3>2. ~(a \in path /\ LastIn(a, n)) /\ ~(a \in path /\ LCHILD(a) \in path)
        BY <1>2, <2>0, <3>1
      <3> QED BY <1>2, <1>5, <2>0, <3>2 DEF a
    <2>2. occ[i] = EMPTY
      BY <2>1 DEF MarksClosed
    <2>3. CASE i \notin path
      BY <1>2, <2>0, <2>2, <2>3
    <2>4. CASE i \in path
      <3>1. a \in path
        BY <1>1, <2>0, <2>4, PathUp, PathTransitive
      <3>2. RCHILD(a) \in Path[n]
        BY <2>0, <2>1, <2>4, <3>1
      <3>3. occ[a] # EMPTY
        BY <1>1, <2>0, <3>2, RightBelowUsed
      <3> QED BY <2>1, <3>3
    <2> QED BY <2>3, <2>4
  <1>6. MarksClosed(m)
    BY <1>5 DEF MarksClosed
  <1> QED BY <1>3, <1>4, <1>6 DEF m

\* What a sequence of calls of allocPage hands out: as many nodes as requests.
Handed == [marks : Arrays, nodes : Seq(Nodes \cup {0})]

\* The next call of allocPage.
NextCall(before, pages) ==
    LET node == Search(before.marks, getLevel(pages))
    IN [marks |-> IF node = 0 THEN before.marks ELSE Marked(before.marks, node),
        nodes |-> Append(before.nodes, node)]

\* f records the calls of allocPage for the requests, one after the other.
IsCalls(f, occ, requests) ==
    /\ \A k \in 0 .. Len(requests) : f[k] \in Handed
    /\ f[0] = [marks |-> occ, nodes |-> <<>>]
    /\ \A k \in 1 .. Len(requests) : f[k] = NextCall(f[k - 1], requests[k])

\* The next call hands out a node or NULL.
LEMMA NextCallIs ==
    ASSUME NEW before \in Handed, NEW pages
    PROVE  NextCall(before, pages) \in Handed
  <1> DEFINE node == Search(before.marks, getLevel(pages))
  <1>1. before.marks \in Arrays /\ before.nodes \in Seq(Nodes \cup {0})
    BY DEF Handed
  <1>2. node \in Nodes \cup {0}
    BY <1>1, SearchIsNode
  <1>3. (IF node = 0 THEN before.marks ELSE Marked(before.marks, node)) \in Arrays
    BY <1>1, <1>2, MarkedTyped
  <1>4. Append(before.nodes, node) \in Seq(Nodes \cup {0})
    BY <1>1, <1>2
  <1> HIDE DEF node
  <1> QED BY <1>3, <1>4 DEF NextCall, Handed, node

\* allocPage returns the result of the last of the calls.
LEMMA AllocIs ==
    ASSUME NEW occ \in Arrays, NEW R, NEW requests \in Seq(R)
    PROVE  \E f : IsCalls(f, occ, requests) /\ allocPage(occ, requests) = f[Len(requests)]
  <1> DEFINE L == Len(requests)
             D == 0 .. L
             s0 == [marks |-> occ, nodes |-> <<>>]
             prev == [k \in D \ {0} |-> k - 1]
             step == [k \in D \ {0} |-> [x \in Handed |-> NextCall(x, requests[k])]]
  <1>0. L \in Nat
    OBVIOUS
  <1>1. /\ D \in SUBSET (0 .. L) /\ {0} \in SUBSET D /\ s0 \in Handed
        /\ prev \in [D \ {0} -> D] /\ \A n \in D \ {0} : prev[n] < n
        /\ step \in [D \ {0} -> [Handed -> Handed]]
    <2>1. s0 \in Handed
      BY DEF Handed
    <2>2. step \in [D \ {0} -> [Handed -> Handed]]
      <3> HIDE DEF D
      <3> QED BY NextCallIs
    <2>3. /\ D \in SUBSET (0 .. L) /\ {0} \in SUBSET D
          /\ prev \in [D \ {0} -> D] /\ \A n \in D \ {0} : prev[n] < n
      BY <1>0
    <2> QED BY <2>1, <2>2, <2>3
  <1>2. \E f \in [D -> Handed] : IsDescent(f, D, {0}, s0, prev, step)
    <2> HIDE DEF D, s0, prev, step
    <2> QED BY <1>0, <1>1, DescentExists
  <1>3. PICK f \in [D -> Handed] : IsDescent(f, D, {0}, s0, prev, step)
    BY <1>2
  <1> DEFINE body(g, k) == IF k = 0 THEN s0 ELSE NextCall(g[k - 1], requests[k])
  <1>4. ASSUME NEW k \in D PROVE f[k] = body(f, k)
    <2>1. f[k] = IF k \in {0} THEN s0 ELSE step[k][f[prev[k]]]
      BY <1>3 DEF IsDescent
    <2>2. CASE k = 0
      BY <2>1, <2>2
    <2>3. CASE k # 0
      <3>1. prev[k] = k - 1 /\ k - 1 \in D
        BY <1>0, <2>3
      <3>2. f[k - 1] \in Handed
        BY <3>1
      <3>3. step[k][f[k - 1]] = NextCall(f[k - 1], requests[k])
        <4> HIDE DEF s0, D
        <4> QED BY <2>3, <3>2
      <3> HIDE DEF s0, step, prev
      <3> QED BY <2>1, <2>3, <3>1, <3>3
    <2> QED BY <2>2, <2>3
  <1>5. f = [k \in D |-> body(f, k)]
    <2>1. f = [k \in D |-> f[k]]
      OBVIOUS
    <2> HIDE DEF body, D
    <2> QED BY <1>4, <2>1
  <1> DEFINE e == CHOOSE calls1 : calls1 = [k \in D |-> body(calls1, k)]
  <1>6. e = [k \in D |-> body(e, k)]
    <2> HIDE DEF body, D
    <2> QED BY <1>5
  <1>7. allocPage(occ, requests) = e[L]
    BY DEF allocPage, NextCall
  <1> HIDE DEF e
  <1>8. \A k \in D : e[k] = body(e, k)
    <2> HIDE DEF body, D
    <2> DEFINE h == [k \in D |-> body(e, k)]
    <2>1. \A k \in D : h[k] = body(e, k)
      OBVIOUS
    <2>2. e = h
      BY <1>6
    <2> HIDE DEF h
    <2> QED BY <2>1, <2>2
  <1>9. e[0] = s0 /\ \A k \in 1 .. L : e[k] = NextCall(e[k - 1], requests[k])
    <2>1. 0 \in D /\ \A k \in 1 .. L : k \in D /\ k # 0
      BY <1>0
    <2> HIDE DEF D, s0
    <2> QED BY <1>8, <2>1
  <1>10. \A k \in D : e[k] \in Handed
    <2> DEFINE Bad == {k \in D : e[k] \notin Handed}
    <2>1. SUFFICES ASSUME Bad # {} PROVE FALSE
      OBVIOUS
    <2>2. PICK n \in Bad : \A y \in Bad : n =< y
      <3>1. Bad \in SUBSET Nat
        OBVIOUS
      <3> HIDE DEF Bad
      <3> QED BY <2>1, <3>1, LeastExists
    <2>3. n \in D /\ e[n] \notin Handed
      OBVIOUS
    <2>4. n # 0
      <3>1. s0 \in Handed
        BY <1>1
      <3> HIDE DEF s0
      <3> QED BY <1>9, <2>3, <3>1
    <2>5. n - 1 \in D /\ n - 1 < n /\ n \in 1 .. L /\ n \in Nat
      BY <1>0, <2>3, <2>4
    <2>6. n - 1 \notin Bad
      <3> HIDE DEF Bad
      <3> QED BY <2>2, <2>5
    <2>7. e[n - 1] \in Handed
      BY <2>5, <2>6
    <2>8. e[n] = NextCall(e[n - 1], requests[n])
      BY <1>9, <2>5
    <2>9. NextCall(e[n - 1], requests[n]) \in Handed
      BY <2>7, NextCallIs
    <2> QED BY <2>3, <2>8, <2>9
  <1>11. IsCalls(e, occ, requests)
    <2> HIDE DEF L
    <2> QED BY <1>9, <1>10 DEF IsCalls, L
  <1> QED BY <1>7, <1>11

\* What the calls handed out so far: full blocks, apart from those that were full in
\* occ and from each other.
HandedApart(occ, x) ==
    /\ MarksClosed(x.marks)
    /\ \A u \in Nodes : occ[u] = BUDDY_FULL => x.marks[u] = BUDDY_FULL
    /\ \A k \in DOMAIN x.nodes : x.nodes[k] # 0 =>
          /\ x.nodes[k] \in Nodes /\ x.marks[x.nodes[k]] = BUDDY_FULL
          /\ \A u \in Nodes : occ[u] = BUDDY_FULL => Apart(x.nodes[k], u)
    /\ \A j, k \in DOMAIN x.nodes :
          j # k /\ x.nodes[j] # 0 /\ x.nodes[k] # 0 => Apart(x.nodes[j], x.nodes[k])

\* One more call keeps that.
LEMMA NextCallApart ==
    ASSUME NEW occ \in Arrays, NEW x \in Handed, HandedApart(occ, x), NEW pages
    PROVE  HandedApart(occ, NextCall(x, pages))
  <1> DEFINE n == Search(x.marks, getLevel(pages))
             y == NextCall(x, pages)
             L == Len(x.nodes)
  <1>1. x.marks \in Arrays /\ x.nodes \in Seq(Nodes \cup {0}) /\ L \in Nat
    BY DEF Handed
  <1>2. n \in Nodes \cup {0}
    BY <1>1, SearchIsNode
  <1>3. /\ y.marks = IF n = 0 THEN x.marks ELSE Marked(x.marks, n)
        /\ y.nodes = Append(x.nodes, n)
    BY DEF NextCall
  <1>4. n # 0 => /\ MarksClosed(Marked(x.marks, n)) /\ Marked(x.marks, n)[n] = BUDDY_FULL
                 /\ \A u \in Nodes : x.marks[u] = BUDDY_FULL =>
                       Marked(x.marks, n)[u] = BUDDY_FULL /\ Apart(n, u)
    BY <1>1, MarkedKeeps DEF HandedApart
  <1> HIDE DEF n, y
  <1>5. /\ DOMAIN x.nodes = 1 .. L /\ DOMAIN y.nodes = 1 .. L + 1
        /\ \A k \in 1 .. L : y.nodes[k] = x.nodes[k]
        /\ y.nodes[L + 1] = n
    <2> HIDE DEF L
    <2>1. DOMAIN Append(x.nodes, n) = 1 .. L + 1 /\ Append(x.nodes, n)[L + 1] = n
          /\ \A k \in 1 .. L : Append(x.nodes, n)[k] = x.nodes[k]
      BY <1>1, <1>2, AppendProperties DEF L
    <2>2. DOMAIN x.nodes = 1 .. L
      BY <1>1 DEF L
    <2> QED BY <1>3, <2>1, <2>2
  <1> HIDE DEF L
  <1>6. MarksClosed(y.marks)
    BY <1>3, <1>4 DEF HandedApart
  <1>7. \A u \in Nodes : x.marks[u] = BUDDY_FULL => y.marks[u] = BUDDY_FULL
    BY <1>3, <1>4
  <1>8. \A u \in Nodes : occ[u] = BUDDY_FULL => y.marks[u] = BUDDY_FULL
    BY <1>7 DEF HandedApart
  <1>9. ASSUME NEW k \in DOMAIN y.nodes, y.nodes[k] # 0
        PROVE  /\ y.nodes[k] \in Nodes /\ y.marks[y.nodes[k]] = BUDDY_FULL
               /\ \A u \in Nodes : occ[u] = BUDDY_FULL => Apart(y.nodes[k], u)
    <2>1. CASE k \in 1 .. L
      <3>1. y.nodes[k] = x.nodes[k] /\ k \in DOMAIN x.nodes
        BY <1>5, <2>1
      <3>2. /\ x.nodes[k] \in Nodes /\ x.marks[x.nodes[k]] = BUDDY_FULL
            /\ \A u \in Nodes : occ[u] = BUDDY_FULL => Apart(x.nodes[k], u)
        BY <1>9, <3>1 DEF HandedApart
      <3> QED BY <1>7, <3>1, <3>2
    <2>2. CASE k \notin 1 .. L
      <3>1. k = L + 1 /\ y.nodes[k] = n
        BY <1>1, <1>5, <2>2 DEF L
      <3>2. n \in Nodes /\ n # 0 /\ y.marks[n] = BUDDY_FULL
        BY <1>2, <1>3, <1>4, <1>9, <3>1
      <3>3. \A u \in Nodes : occ[u] = BUDDY_FULL => x.marks[u] = BUDDY_FULL
        BY DEF HandedApart
      <3>4. \A u \in Nodes : occ[u] = BUDDY_FULL => Apart(n, u)
        BY <1>4, <3>2, <3>3
      <3> QED BY <3>1, <3>2, <3>4
    <2> QED BY <2>1, <2>2
  <1>10. ASSUME NEW j \in DOMAIN y.nodes, NEW k \in DOMAIN y.nodes,
                j # k, y.nodes[j] # 0, y.nodes[k] # 0
         PROVE  Apart(y.nodes[j], y.nodes[k])
    <2>1. \A i \in DOMAIN y.nodes : i \in 1 .. L \/ i = L + 1
      BY <1>1, <1>5 DEF L
    <2>2. ASSUME NEW i \in 1 .. L, y.nodes[i] # 0, n # 0
          PROVE  Apart(n, y.nodes[i]) /\ Apart(y.nodes[i], n)
      <3>1. y.nodes[i] = x.nodes[i] /\ i \in DOMAIN x.nodes
        BY <1>5
      <3>2. x.nodes[i] \in Nodes /\ x.marks[x.nodes[i]] = BUDDY_FULL
        BY <2>2, <3>1 DEF HandedApart
      <3>3. Apart(n, x.nodes[i])
        BY <1>4, <2>2, <3>2
      <3> QED BY <3>1, <3>3 DEF Apart
    <2>3. CASE j \in 1 .. L /\ k \in 1 .. L
      BY <1>5, <1>10, <2>3 DEF HandedApart
    <2>4. CASE j = L + 1
      <3>1. k \in 1 .. L /\ y.nodes[j] = n
        BY <1>5, <1>10, <2>1, <2>4
      <3> QED BY <1>10, <2>2, <3>1
    <2>5. CASE k = L + 1
      <3>1. j \in 1 .. L /\ y.nodes[k] = n
        BY <1>5, <1>10, <2>1, <2>5
      <3> QED BY <1>10, <2>2, <3>1
    <2> QED BY <2>1, <2>3, <2>4, <2>5
  <1>11. HandedApart(occ, y)
    BY <1>6, <1>8, <1>9, <1>10 DEF HandedApart
  <1> QED BY <1>11 DEF y

\* allocPage: marks, and a node or NULL for every request.
LEMMA AllocTyped ==
    ASSUME NEW occ \in Arrays, NEW R, NEW requests \in Seq(R)
    PROVE  /\ allocPage(occ, requests).marks \in Arrays
           /\ allocPage(occ, requests).nodes \in Seq(Nodes \cup {0})
           /\ Len(allocPage(occ, requests).nodes) = Len(requests)
  <1>1. PICK f : IsCalls(f, occ, requests) /\ allocPage(occ, requests) = f[Len(requests)]
    BY AllocIs
  <1> DEFINE L == Len(requests)
             Bad == {k \in 0 .. L : Len(f[k].nodes) # k}
  <1>0. L \in Nat
    OBVIOUS
  <1>2. f[L] \in Handed
    BY <1>0, <1>1 DEF IsCalls
  <1>3. SUFFICES ASSUME Bad # {} PROVE FALSE
    <2>1. Len(f[L].nodes) = L
      BY <1>0, <1>3
    <2> QED BY <1>1, <1>2, <2>1 DEF Handed
  <1>4. PICK n \in Bad : \A y \in Bad : n =< y
    <2>1. Bad \in SUBSET Nat
      OBVIOUS
    <2> HIDE DEF Bad
    <2> QED BY <1>3, <2>1, LeastExists
  <1>5. n # 0
    <2>1. f[0].nodes = <<>>
      BY <1>1 DEF IsCalls
    <2> QED BY <1>4, <2>1
  <1>6. n \in 1 .. L /\ n - 1 \in 0 .. L /\ n - 1 < n /\ n \in Nat
    BY <1>0, <1>4, <1>5
  <1>7. n - 1 \notin Bad
    <2> HIDE DEF Bad
    <2> QED BY <1>4, <1>6
  <1>8. Len(f[n - 1].nodes) = n - 1
    BY <1>6, <1>7
  <1>9. f[n] = NextCall(f[n - 1], requests[n]) /\ f[n - 1] \in Handed
    BY <1>1, <1>6 DEF IsCalls
  <1>10. f[n - 1].nodes \in Seq(Nodes \cup {0}) /\ f[n - 1].marks \in Arrays
    BY <1>9 DEF Handed
  <1>11. Len(f[n].nodes) = n
    <2> DEFINE s == Search(f[n - 1].marks, getLevel(requests[n]))
    <2>1. s \in Nodes \cup {0}
      BY <1>10, SearchIsNode
    <2>2. f[n].nodes = Append(f[n - 1].nodes, s)
      BY <1>9 DEF NextCall
    <2> HIDE DEF s
    <2>3. Len(Append(f[n - 1].nodes, s)) = Len(f[n - 1].nodes) + 1
      BY <1>10, <2>1
    <2> QED BY <1>6, <1>8, <2>2, <2>3
  <1> QED BY <1>4, <1>11

\* allocPage: the blocks handed out are apart from the full ones and from each other.
LEMMA AllocApart ==
    ASSUME NEW occ \in Arrays, NEW R, NEW requests \in Seq(R), MarksClosed(occ)
    PROVE  HandedApart(occ, allocPage(occ, requests))
  <1>1. PICK f : IsCalls(f, occ, requests) /\ allocPage(occ, requests) = f[Len(requests)]
    BY AllocIs
  <1> DEFINE L == Len(requests)
             Bad == {k \in 0 .. L : ~HandedApart(occ, f[k])}
  <1>0. L \in Nat
    OBVIOUS
  <1>2. SUFFICES ASSUME Bad # {} PROVE FALSE
    <2>1. HandedApart(occ, f[L])
      BY <1>0, <1>2
    <2> QED BY <1>1, <2>1
  <1>3. PICK n \in Bad : \A y \in Bad : n =< y
    <2>1. Bad \in SUBSET Nat
      OBVIOUS
    <2> HIDE DEF Bad
    <2> QED BY <1>2, <2>1, LeastExists
  <1>4. n # 0
    <2> SUFFICES ASSUME n = 0 PROVE HandedApart(occ, f[0])
      BY <1>3
    <2>1. f[0].nodes = <<>> /\ f[0].marks = occ
      BY <1>1 DEF IsCalls
    <2> QED BY <2>1 DEF HandedApart
  <1>5. n \in 1 .. L /\ n - 1 \in 0 .. L /\ n - 1 < n /\ n \in Nat
    BY <1>0, <1>3, <1>4
  <1>6. n - 1 \notin Bad
    <2> HIDE DEF Bad
    <2> QED BY <1>3, <1>5
  <1>7. HandedApart(occ, f[n - 1])
    BY <1>5, <1>6
  <1>8. f[n] = NextCall(f[n - 1], requests[n]) /\ f[n - 1] \in Handed
    BY <1>1, <1>5 DEF IsCalls
  <1>9. HandedApart(occ, f[n])
    BY <1>7, <1>8, NextCallApart
  <1> QED BY <1>3, <1>9

\* f gives each use of V that is not in U one of the blocks of r, which no other one has.
OwnBlocks(f, U, V, r) ==
    /\ f \in [V \ U -> DOMAIN r.nodes]
    /\ \A u \in V \ U : u.node = r.nodes[f[u]]
    /\ \A u, v \in V \ U : u # v => f[u] # f[v]

\* If all the new uses have blocks of their own among those handed out, the uses are
\* apart as before.
LEMMA UsesStayApart ==
    ASSUME NEW occ \in Arrays, NEW R, NEW requests \in Seq(R), NEW r,
           r = allocPage(occ, requests), Granted(r),
           NEW U, NEW V, UsesApart(U, occ), NEW f, OwnBlocks(f, U, V, r)
    PROVE  UsesApart(V, r.marks)
  <1>0. /\ f \in [V \ U -> DOMAIN r.nodes]
        /\ \A u \in V \ U : u.node = r.nodes[f[u]]
        /\ \A u, v \in V \ U : u # v => f[u] # f[v]
    BY DEF OwnBlocks
  <1>1. HandedApart(occ, r)
    BY AllocApart DEF UsesApart
  <1>2. ASSUME NEW u \in V
        PROVE  u.node \in Nodes /\ r.marks[u.node] = BUDDY_FULL
    <2>1. CASE u \in U
      BY <1>1, <2>1 DEF HandedApart, UsesApart
    <2>2. CASE u \notin U
      BY <1>0, <1>1, <2>2 DEF HandedApart, Granted
    <2> QED BY <2>1, <2>2
  <1>3. ASSUME NEW u \in V \ U, NEW v \in U PROVE Apart(u.node, v.node)
    <2>1. v.node \in Nodes /\ occ[v.node] = BUDDY_FULL
      BY DEF UsesApart
    <2>2. f[u] \in DOMAIN r.nodes /\ r.nodes[f[u]] # 0
      BY <1>0 DEF Granted
    <2>3. Apart(r.nodes[f[u]], v.node)
      BY <1>1, <2>1, <2>2 DEF HandedApart
    <2> QED BY <1>0, <2>3
  <1>4. ASSUME NEW u \in V \ U, NEW v \in V \ U, u # v PROVE Apart(u.node, v.node)
    <2>1. f[u] \in DOMAIN r.nodes /\ r.nodes[f[u]] # 0 /\ f[v] \in DOMAIN r.nodes
          /\ r.nodes[f[v]] # 0 /\ f[u] # f[v]
      BY <1>0, <1>4 DEF Granted
    <2>2. Apart(r.nodes[f[u]], r.nodes[f[v]])
      BY <1>1, <2>1 DEF HandedApart
    <2> QED BY <1>0, <2>2
  <1>5. ASSUME NEW u \in V, NEW v \in V, u # v PROVE Apart(u.node, v.node)
    <2>1. CASE u \in U /\ v \in U
      BY <1>5, <2>1 DEF UsesApart
    <2>2. CASE u \notin U /\ v \in U
      BY <1>3, <2>2
    <2>3. CASE u \in U /\ v \notin U
      <3>1. Apart(v.node, u.node)
        BY <1>3, <2>3
      <3> QED BY <3>1 DEF Apart
    <2>4. CASE u \notin U /\ v \notin U
      BY <1>4, <1>5, <2>4
    <2> QED BY <2>1, <2>2, <2>3, <2>4
  <1>6. MarksClosed(r.marks)
    BY <1>1 DEF HandedApart
  <1> QED BY <1>2, <1>5, <1>6 DEF UsesApart

\* The leaf of a page is a node.
LEMMA LeafIs ==
    ASSUME NEW page \in Nat, page < NumberOfPages
    PROVE  leafOf(page) \in Nodes
  <1>1. NumberOfPages \in Nat \ {0} /\ power[HeapLevel] = 2 * NumberOfPages
    BY NodesAre
  <1>2. leafOf(page) \in Nat \ {0} /\ leafOf(page) < power[HeapLevel]
    BY <1>1 DEF leafOf
  <1> QED BY <1>2, NodesAre

\* freeUpRecursive starts and goes on at one of its places.
LEMMA PlacesAre ==
    ASSUME NEW node \in Nodes
    PROVE  /\ At(node) \in Places /\ At(node).node = node /\ Returned \in Places
           /\ Returned.node = 1
           /\ \A case \in 1 .. 3, step \in {"parent", "sibling", "store"} :
                 [node |-> node, case |-> case, step |-> step] \in Places
  BY NodesAre DEF At, Returned, Places

\* A load or store of freeUpRecursive leaves marks, and gets to such a place.
LEMMA ProceedTyped ==
    ASSUME NEW occ \in Arrays, NEW place \in Places, place.node # 1
    PROVE  Proceed(occ, place).marks \in Arrays /\ Proceed(occ, place).place \in Places
  <1> DEFINE parent == PARENT(place.node)
             case == Cases[place.case]
             next == IF place.case = 3 THEN At(parent)
                     ELSE [node |-> place.node, case |-> place.case + 1, step |-> "parent"]
             go(step) == [node |-> place.node, case |-> place.case, step |-> step]
  <1>1. place.node \in Nodes /\ place.case \in 1 .. 3 /\ place.step \in {"parent", "sibling", "store"}
    BY DEF Places
  <1>2. parent \in Nodes
    BY <1>1, ParentIs
  <1>3. case.becomes \in Marks
    BY <1>1, MarksDiffer DEF Cases
  <1> HIDE DEF case, parent
  <1>4. At(parent) \in Places /\ go("sibling") \in Places /\ go("store") \in Places
    BY <1>1, <1>2, PlacesAre
  <1>5. next \in Places
    <2>1. CASE place.case = 3
      BY <1>4, <2>1
    <2>2. CASE place.case # 3
      <3>1. place.case + 1 \in 1 .. 3
        BY <1>1, <2>2
      <3> QED BY <1>1, <2>2, <3>1, PlacesAre
    <2> QED BY <2>1, <2>2
  <1> HIDE DEF go, next
  <1>6. [occ EXCEPT ![parent] = case.becomes] \in Arrays
    BY <1>2, <1>3 DEF Arrays
  <1>7. CASE place.step = "parent"
    <2>1. Proceed(occ, place) =
             [marks |-> occ,
              place |-> IF occ[parent] = case.parent THEN go("sibling") ELSE next]
      BY <1>7 DEF Proceed, parent, case, go, next
    <2> QED BY <1>4, <1>5, <2>1
  <1>8. CASE place.step = "sibling"
    <2>1. Proceed(occ, place) =
             [marks |-> occ,
              place |-> IF occ[SIBLING(place.node)] = case.sibling THEN go("store") ELSE next]
      BY <1>8 DEF Proceed, parent, case, go, next
    <2> QED BY <1>4, <1>5, <2>1
  <1>9. CASE place.step = "store"
    <2>1. Proceed(occ, place) =
             [marks |-> [occ EXCEPT ![parent] = case.becomes], place |-> At(parent)]
      BY <1>9 DEF Proceed, parent, case
    <2> QED BY <1>4, <1>6, <2>1
  <1> QED BY <1>1, <1>7, <1>8, <1>9

-----------------------------------------------------------------------------
(* The table of threads, and the types.                                    *)

\* The part of MemInv that does not ask which blocks are in use.
TableInv ==
    /\ MemTypeOK /\ ended \in Nat
    /\ UnbornBlank /\ AllCounted /\ LeaverOut /\ OnlyEndersFree /\ TurnsNear

\* The slots of Process.thread, and what is in one.
ThreadRecords == [t : Nodes, page1 : Nodes, page2 : Nodes, end : 0 .. 3] \cup {NULL}

\* The first slot is one, and so are those createThread looks at.
LEMMA TableBasics ==
    /\ 0 \in Indices /\ MAX_THREADS \in Nat \ {0}
    /\ \A i : i \in Indices <=> i \in Nat /\ i < MAX_THREADS
    /\ NULL \in ThreadRecords
    /\ 0 .. Spots - 1 \subseteq Indices
  <1>1. MAX_THREADS \in Nat \ {0} /\ Spots \in 1 .. MAX_THREADS
    BY MemoryAssumption
  <1>2. \A i : i \in Indices <=> i \in Nat /\ i < MAX_THREADS
    BY <1>1 DEF Indices
  <1>3. 0 .. Spots - 1 \subseteq Indices
    BY <1>1, <1>2
  <1> QED BY <1>1, <1>2, <1>3 DEF ThreadRecords

\* What an allocation that succeeds hands out.
LEMMA GrantedIs ==
    ASSUME NEW occ \in Arrays, NEW R, NEW requests \in Seq(R), NEW r,
           r = allocPage(occ, requests), Granted(r)
    PROVE  /\ r.marks \in Arrays /\ r.nodes \in Seq(Nodes)
           /\ Len(r.nodes) = Len(requests) /\ DOMAIN r.nodes = 1 .. Len(requests)
           /\ \A k \in 1 .. Len(requests) : r.nodes[k] \in Nodes
  <1>1. r.marks \in Arrays /\ r.nodes \in Seq(Nodes \cup {0}) /\ Len(r.nodes) = Len(requests)
    BY AllocTyped
  <1>2. DOMAIN r.nodes = 1 .. Len(requests)
    BY <1>1
  <1>3. \A k \in 1 .. Len(requests) : r.nodes[k] \in Nodes
    BY <1>1, <1>2 DEF Granted
  <1>4. r.nodes \in Seq(Nodes)
    <2>1. Len(requests) \in Nat
      OBVIOUS
    <2>2. r.nodes \in [1 .. Len(requests) -> Nodes]
      BY <1>1, <1>2, <1>3
    <2> QED BY <2>1, <2>2
  <1> QED BY <1>1, <1>2, <1>3, <1>4

\* The thread that three of the blocks belong to.
LEMMA ThreadIs ==
    ASSUME NEW n \in Seq(Nodes), NEW i \in Nat \ {0}, i + 2 =< Len(n)
    PROVE  /\ Thread(SubSeq(n, i, i + 2)) =
                 [t |-> n[i], page1 |-> n[i + 1], page2 |-> n[i + 2], end |-> 0]
           /\ Thread(SubSeq(n, i, i + 2)) \in ThreadRecords
           /\ Thread(SubSeq(n, i, i + 2)) # NULL
           /\ Thread(SubSeq(n, i, i + 2)).end = 0
  <1> DEFINE s == SubSeq(n, i, i + 2)
  <1>1. s[1] = n[i] /\ s[2] = n[i + 1] /\ s[3] = n[i + 2]
    <2>1. Len(n) \in Nat /\ i \in 1 .. Len(n) + 1 /\ i + 2 \in i - 1 .. Len(n)
      OBVIOUS
    <2>2. /\ Len(s) = IF i =< i + 2 THEN (i + 2) - i + 1 ELSE 0
          /\ \A k \in 1 .. ((i + 2) - i + 1) : s[k] = n[i + k - 1]
      BY <2>1, SubSeqProperties
    <2>3. (i + 2) - i + 1 = 3
      OBVIOUS
    <2>4. \A k \in 1 .. 3 : s[k] = n[i + k - 1]
      BY <2>2, <2>3
    <2>5. i + 1 - 1 = i /\ i + 2 - 1 = i + 1 /\ i + 3 - 1 = i + 2
      OBVIOUS
    <2> HIDE DEF s
    <2> QED BY <2>4, <2>5
  <1>2. n[i] \in Nodes /\ n[i + 1] \in Nodes /\ n[i + 2] \in Nodes
    <2>1. i \in 1 .. Len(n) /\ i + 1 \in 1 .. Len(n) /\ i + 2 \in 1 .. Len(n)
      OBVIOUS
    <2> QED BY <2>1
  <1>3. 0 \notin Nodes
    BY NodesAre
  <1> HIDE DEF s
  <1>4. Thread(s) = [t |-> n[i], page1 |-> n[i + 1], page2 |-> n[i + 2], end |-> 0]
    BY <1>1 DEF Thread
  <1>5. Thread(s) \in ThreadRecords /\ Thread(s).t = n[i] /\ Thread(s).end = 0
    BY <1>2, <1>4 DEF ThreadRecords
  <1>6. Thread(s) # NULL
    <2>1. NULL.t = 0
      BY DEF NULL
    <2> QED BY <1>2, <1>3, <1>5, <2>1
  <1> QED BY <1>4, <1>5, <1>6 DEF s

\* The types, with the names of this module.
LEMMA TypesAre ==
    MemTypeOK <=>
      /\ occupied \in Arrays
      /\ state \in [Pids -> {"UNBORN", "ALIVE", "REMOVED"}]
      /\ slot \in [Pids -> Seq(Nodes)]
      /\ thread \in [Pids -> [Indices -> ThreadRecords]]
      /\ freeing \in [Pids -> [Indices -> Places]] /\ leaving \in BOOLEAN
      /\ number \in [Pids -> Nat] /\ active \in [Pids -> Indices]
      /\ extents \in [Pids -> Seq(Nodes)] /\ current \in Pids
  BY DEF MemTypeOK, Arrays, Marks, ThreadRecords

\* While the current thread is in the table, the count is exact.
LEMMA NobodyLeaves ==
    ASSUME TableInv, thread[current][active[current]] # NULL
    PROVE  ~leaving /\ \A q : Uncounted(q) = 0
  BY DEF TableInv, LeaverOut, Uncounted

\* So it is after a step that leaves nobody leaving.
LEMMA NobodyLeft ==
    ASSUME ~leaving'
    PROVE  LeaverOut' /\ \A q : Uncounted(q)' = 0
  BY DEF LeaverOut, Uncounted

\* createProcess: the first thread is counted, and nothing has passed it.
LEMMA CreateProcessTable ==
    ASSUME TableInv, NEW p \in Pids, createProcess(p)
    PROVE  TableInv'
  <1> DEFINE r == allocPage(occupied, ProcessPages)
             T == Thread(SubSeq(r.nodes, 2, 4))
  <1>1. /\ occupied \in Arrays /\ state \in [Pids -> {"UNBORN", "ALIVE", "REMOVED"}]
        /\ slot \in [Pids -> Seq(Nodes)] /\ thread \in [Pids -> [Indices -> ThreadRecords]]
        /\ freeing \in [Pids -> [Indices -> Places]] /\ leaving \in BOOLEAN
        /\ number \in [Pids -> Nat] /\ active \in [Pids -> Indices]
        /\ extents \in [Pids -> Seq(Nodes)] /\ current \in Pids
    BY TypesAre DEF TableInv
  <1>2. /\ Granted(r) /\ occupied' = r.marks
        /\ slot' = [slot EXCEPT ![p] = <<r.nodes[1], r.nodes[5]>>]
        /\ thread' = [thread EXCEPT ![p][0] = T]
        /\ state' = [state EXCEPT ![p] = "ALIVE"] /\ number' = [number EXCEPT ![p] = 1]
        /\ active' = active /\ extents' = extents /\ current' = current /\ passed' = passed
        /\ ended' = ended /\ state[p] = "UNBORN" /\ freeing' = freeing /\ leaving' = leaving
        /\ ~leaving /\ ~leaving' /\ \A q : Uncounted(q) = 0 /\ Uncounted(q)' = 0
        /\ LeaverOut'
    BY NobodyLeaves, NobodyLeft DEF createProcess, Calling, Allocates
  <1>3. /\ r.marks \in Arrays /\ r.nodes \in Seq(Nodes) /\ Len(r.nodes) = 5
        /\ \A k \in 1 .. 5 : r.nodes[k] \in Nodes
    <2>1. ProcessPages \in Seq(Nat) /\ Len(ProcessPages) = 5
      BY DEF ProcessPages
    <2> QED BY <1>1, <1>2, <2>1, GrantedIs
  <1> HIDE DEF r
  <1>4. T \in ThreadRecords /\ T # NULL
    <2>1. 2 \in Nat \ {0} /\ 2 + 2 =< Len(r.nodes) /\ 2 + 2 = 4
      BY <1>3
    <2>2. Thread(SubSeq(r.nodes, 2, 2 + 2)) \in ThreadRecords /\ Thread(SubSeq(r.nodes, 2, 2 + 2)) # NULL
      BY <1>3, <2>1, ThreadIs
    <2> QED BY <2>1, <2>2
  <1> HIDE DEF T
  <1>5. <<r.nodes[1], r.nodes[5]>> \in Seq(Nodes)
    BY <1>3
  <1>6. MemTypeOK'
    <2>1. thread' \in [Pids -> [Indices -> ThreadRecords]]
      BY <1>1, <1>2, <1>4, TableBasics
    <2>2. slot' \in [Pids -> Seq(Nodes)]
      BY <1>1, <1>2, <1>5
    <2>3. number' \in [Pids -> Nat] /\ state' \in [Pids -> {"UNBORN", "ALIVE", "REMOVED"}]
      BY <1>1, <1>2
    <2> QED BY <1>1, <1>2, <1>3, <2>1, <2>2, <2>3, TypesAre DEF MemTypeOK, Arrays, Marks, ThreadRecords
  <1>7. /\ thread'[p][0] = T
        /\ \A i \in Indices \ {0} : thread'[p][i] = NULL
        /\ \A q \in Pids \ {p} : thread'[q] = thread[q] /\ slot'[q] = slot[q]
                                 /\ number'[q] = number[q] /\ state'[q] = state[q]
        /\ number'[p] = 1 /\ state'[p] = "ALIVE" /\ active[p] = 0
        /\ \A i \in Indices : passed[p][i] = 0
    <2>1. \A i \in Indices : thread[p][i] = NULL /\ passed[p][i] = 0 /\ active[p] = 0
      BY <1>2 DEF TableInv, UnbornBlank
    <2>2. thread'[p][0] = T /\ \A i \in Indices \ {0} : thread'[p][i] = thread[p][i]
      BY <1>1, <1>2, TableBasics
    <2>3. \A q \in Pids \ {p} : thread'[q] = thread[q] /\ slot'[q] = slot[q]
                                 /\ number'[q] = number[q] /\ state'[q] = state[q]
      BY <1>1, <1>2
    <2>4. number'[p] = 1 /\ state'[p] = "ALIVE"
      BY <1>1, <1>2
    <2> QED BY <2>1, <2>2, <2>3, <2>4, TableBasics
  <1>8. Existing(p)' = {0} /\ \A q \in Pids \ {p} : Existing(q)' = Existing(q)
    <2>1. Existing(p)' = {0}
      BY <1>4, <1>7, TableBasics DEF Existing
    <2>2. \A q \in Pids \ {p} : Existing(q)' = Existing(q)
      BY <1>7 DEF Existing
    <2> QED BY <2>1, <2>2
  <1>9. UnbornBlank'
    BY <1>2, <1>7 DEF TableInv, UnbornBlank
  <1>10. AllCounted'
    <2>1. Cardinality({0}) = 1
      BY FS_Singleton
    <2>2. \A q \in Pids : state[q] # "UNBORN" => number[q] = Cardinality(Existing(q)) + 0
                                                /\ 0 \in Existing(q)
      BY <1>2 DEF TableInv, AllCounted
    <2>3. ASSUME NEW q \in Pids, state'[q] # "UNBORN"
          PROVE  number'[q] = Cardinality(Existing(q)') + 0 /\ 0 \in Existing(q)'
      <3>1. CASE q = p
        BY <1>7, <1>8, <2>1, <3>1
      <3>2. CASE q # p
        BY <1>7, <1>8, <2>2, <2>3, <3>2
      <3> QED BY <3>1, <3>2
    <2> QED BY <1>2, <2>3 DEF AllCounted
  <1>12. OnlyEndersFree'
    <2>1. \A q \in Pids : \A i \in Indices :
             freeing[q][i].node # 1 => thread[q][i] # NULL /\ thread[q][i].end > 0
      BY DEF TableInv, OnlyEndersFree
    <2>2. \A i \in Indices : thread[p][i] = NULL
      BY <1>2 DEF TableInv, UnbornBlank
    <2> QED BY <1>2, <1>7, <2>1, <2>2 DEF OnlyEndersFree
  <1>11. TurnsNear'
    <2>1. /\ passed \in [Pids -> [Indices -> Nat]] /\ \A q \in Pids : passed[q][active[q]] = 0
          /\ \A q \in Pids : \A i \in Indices :
                IF i \in Existing(q) THEN passed[q][i] + Distance(q, i) =< MAX_THREADS
                                    ELSE passed[q][i] = 0
      BY DEF TableInv, TurnsNear
    <2>2. \A q \in Pids, i \in Indices : Distance(q, i)' = Distance(q, i)
      BY <1>2 DEF Distance
    <2>3. passed[p][0] + Distance(p, 0) =< MAX_THREADS
      BY <1>7, TableBasics DEF Distance
    <2>4. ASSUME NEW q \in Pids, NEW i \in Indices
          PROVE  IF i \in Existing(q)' THEN passed[q][i] + Distance(q, i) =< MAX_THREADS
                                       ELSE passed[q][i] = 0
      <3>1. CASE q = p
        BY <1>7, <1>8, <2>3, <3>1
      <3>2. CASE q # p
        BY <1>8, <2>1, <3>2
      <3> QED BY <3>1, <3>2
    <2> QED BY <1>2, <2>1, <2>2, <2>4 DEF TurnsNear
  <1> QED BY <1>2, <1>6, <1>9, <1>10, <1>11, <1>12 DEF TableInv

\* The threads of a process can be counted.
LEMMA ExistingFinite ==
    ASSUME NEW p
    PROVE  /\ Existing(p) \subseteq Indices /\ IsFiniteSet(Existing(p))
           /\ Cardinality(Existing(p)) \in Nat
  <1>1. Existing(p) \subseteq Indices
    BY DEF Existing
  <1>2. IsFiniteSet(Indices)
    <2>1. 0 \in Int /\ MAX_THREADS - 1 \in Int
      BY TableBasics
    <2> QED BY <2>1, FS_Interval DEF Indices
  <1>3. IsFiniteSet(Existing(p))
    BY <1>1, <1>2, FS_Subset
  <1> QED BY <1>1, <1>3, FS_CardinalityType

\* A step that leaves the tables alone keeps what is said of them.
LEMMA TableKept ==
    ASSUME TableInv, occupied' \in Arrays, extents' \in [Pids -> Seq(Nodes)],
           \A q \in Pids : state[q] = "UNBORN" => extents'[q] = extents[q],
           UNCHANGED <<state, slot, thread, freeing, leaving, number, active, passed>>,
           current' \in Pids, leaving => current' = current, ended' \in Nat
    PROVE  TableInv'
  <1>1. MemTypeOK'
    BY DEF TableInv, MemTypeOK, Arrays, Marks
  <1>2. \A q : Existing(q)' = Existing(q)
    BY DEF Existing
  <1>3. \A q, i : Distance(q, i)' = Distance(q, i)
    BY DEF Distance
  <1>4. UnbornBlank'
    BY DEF TableInv, UnbornBlank
  <1>5. AllCounted'
    <2>1. \A q : Uncounted(q)' = Uncounted(q)
      BY DEF Uncounted
    <2> QED BY <1>2, <2>1 DEF TableInv, AllCounted
  <1>6. TurnsNear'
    BY <1>2, <1>3 DEF TableInv, TurnsNear
  <1>7. LeaverOut' /\ OnlyEndersFree'
    BY DEF TableInv, LeaverOut, OnlyEndersFree
  <1> QED BY <1>1, <1>4, <1>5, <1>6, <1>7 DEF TableInv

\* removeProcess leaves the threads of a removed process counted.
LEMMA RemoveProcessTable ==
    ASSUME TableInv, NEW p \in Pids, removeProcess(p)
    PROVE  TableInv'
  <1>1. /\ state' = [state EXCEPT ![p] = "REMOVED"] /\ state[p] = "ALIVE"
        /\ UNCHANGED <<occupied, slot, thread, freeing, leaving, number, active, extents, current,
                       passed, ended>>
        /\ ~leaving /\ ~leaving' /\ \A q : Uncounted(q) = 0 /\ Uncounted(q)' = 0
        /\ LeaverOut'
    BY NobodyLeaves, NobodyLeft DEF removeProcess, Calling
  <1>2. state \in [Pids -> {"UNBORN", "ALIVE", "REMOVED"}]
    BY TypesAre DEF TableInv
  <1>3. state' \in [Pids -> {"UNBORN", "ALIVE", "REMOVED"}]
        /\ \A q \in Pids : state'[q] = "UNBORN" <=> state[q] = "UNBORN"
    BY <1>1, <1>2
  <1>4. MemTypeOK'
    BY <1>1, <1>3 DEF TableInv, MemTypeOK
  <1>5. \A q : Existing(q)' = Existing(q)
    BY <1>1 DEF Existing
  <1>6. \A q, i : Distance(q, i)' = Distance(q, i)
    BY <1>1 DEF Distance
  <1>7. UnbornBlank'
    BY <1>1, <1>3 DEF TableInv, UnbornBlank
  <1>8. AllCounted'
    BY <1>1, <1>3, <1>5 DEF TableInv, AllCounted
  <1>9. TurnsNear'
    BY <1>1, <1>5, <1>6 DEF TableInv, TurnsNear
  <1>10. OnlyEndersFree'
    BY <1>1 DEF TableInv, OnlyEndersFree
  <1> QED BY <1>1, <1>4, <1>7, <1>8, <1>9, <1>10 DEF TableInv

\* getCurrentProcesses only takes a page.
LEMMA GetCurrentProcessesTable ==
    ASSUME TableInv, getCurrentProcesses
    PROVE  TableInv'
  <1>1. /\ occupied \in Arrays /\ extents \in [Pids -> Seq(Nodes)] /\ current \in Pids /\ ended \in Nat
    BY TypesAre DEF TableInv
  <1>2. <<1>> \in Seq(Nat)
    OBVIOUS
  <1>3. occupied' \in Arrays
    BY <1>1, <1>2, AllocTyped DEF getCurrentProcesses, Allocates
  <1> QED BY <1>1, <1>3, TableKept DEF getCurrentProcesses

\* createThread: the new thread is counted with its slot, and nothing has passed it.
LEMMA CreateThreadTable ==
    ASSUME TableInv, createThread
    PROVE  TableInv'
  <1>0. PICK c \in Pids : c = current
    BY TypesAre DEF TableInv
  <1> DEFINE r == allocPage(occupied, <<1, 2, 2>>)
             T == Thread(r.nodes)
             s == Min(FreeSpots(c))
  <1>1. /\ occupied \in Arrays /\ state \in [Pids -> {"UNBORN", "ALIVE", "REMOVED"}]
        /\ slot \in [Pids -> Seq(Nodes)] /\ thread \in [Pids -> [Indices -> ThreadRecords]]
        /\ freeing \in [Pids -> [Indices -> Places]] /\ leaving \in BOOLEAN
        /\ number \in [Pids -> Nat] /\ active \in [Pids -> Indices]
        /\ extents \in [Pids -> Seq(Nodes)] /\ ended \in Nat
    BY TypesAre DEF TableInv
  <1>2. /\ Granted(r) /\ occupied' = r.marks /\ state[c] = "ALIVE"
        /\ state' = state /\ slot' = slot /\ active' = active /\ extents' = extents
        /\ current' = c /\ current = c /\ passed' = passed /\ ended' = ended
        /\ freeing' = freeing /\ leaving' = leaving
        /\ ~leaving /\ ~leaving' /\ \A q : Uncounted(q) = 0 /\ Uncounted(q)' = 0
        /\ LeaverOut'
    BY <1>0, NobodyLeaves, NobodyLeft DEF createThread, Asks, Calling, Allocates
  <1>3. /\ r.marks \in Arrays /\ r.nodes \in Seq(Nodes) /\ Len(r.nodes) = 3
    <2>1. <<1, 2, 2>> \in Seq(Nat) /\ Len(<<1, 2, 2>>) = 3
      OBVIOUS
    <2> QED BY <1>1, <1>2, <2>1, GrantedIs
  <1>4. CASE FreeSpots(c) = {}
    <2>1. thread' = thread /\ number' = number
      BY <1>0, <1>4 DEF createThread
    <2> HIDE DEF r
    <2> QED BY <1>1, <1>2, <1>3, <2>1, TableKept
  <1>5. CASE FreeSpots(c) # {}
    <2>1. thread' = [thread EXCEPT ![c][s] = T] /\ number' = [number EXCEPT ![c] = @ + 1]
      BY <1>0, <1>5 DEF createThread
    <2>2. s \in Indices /\ s \notin Existing(c)
      <3>1. FreeSpots(c) \in SUBSET Nat /\ FreeSpots(c) \subseteq Indices \ Existing(c)
        BY TableBasics, MemoryAssumption DEF FreeSpots
      <3> QED BY <1>5, <3>1, MinIs
    <2>3. T \in ThreadRecords /\ T # NULL
      <3> HIDE DEF r
      <3>1. SubSeq(r.nodes, 1, 1 + 2) = r.nodes
        BY <1>3
      <3>2. 1 \in Nat \ {0} /\ 1 + 2 =< Len(r.nodes)
        BY <1>3
      <3>3. Thread(SubSeq(r.nodes, 1, 1 + 2)) \in ThreadRecords
            /\ Thread(SubSeq(r.nodes, 1, 1 + 2)) # NULL
        BY <1>3, <3>2, ThreadIs
      <3> QED BY <3>1, <3>3
    <2> HIDE DEF T, r, s
    <2>4. /\ thread'[c][s] = T
          /\ \A i \in Indices \ {s} : thread'[c][i] = thread[c][i]
          /\ \A q \in Pids \ {c} : thread'[q] = thread[q] /\ number'[q] = number[q]
          /\ number'[c] = number[c] + 1
      <3>1. thread'[c][s] = T /\ \A i \in Indices \ {s} : thread'[c][i] = thread[c][i]
        BY <1>1, <2>1, <2>2
      <3>2. \A q \in Pids \ {c} : thread'[q] = thread[q] /\ number'[q] = number[q]
        BY <1>1, <2>1
      <3>3. number'[c] = number[c] + 1
        BY <1>1, <2>1
      <3> QED BY <3>1, <3>2, <3>3
    <2>5. MemTypeOK'
      <3>1. thread' \in [Pids -> [Indices -> ThreadRecords]]
        BY <1>1, <2>1, <2>2, <2>3
      <3>2. number' \in [Pids -> Nat]
        BY <1>1, <2>1
      <3> QED BY <1>1, <1>2, <1>3, <3>1, <3>2 DEF MemTypeOK, Arrays, Marks, ThreadRecords
    <2>6. Existing(c)' = Existing(c) \cup {s} /\ \A q \in Pids \ {c} : Existing(q)' = Existing(q)
      <3>1. Existing(c)' = Existing(c) \cup {s}
        BY <2>2, <2>3, <2>4 DEF Existing
      <3>2. \A q \in Pids \ {c} : Existing(q)' = Existing(q)
        BY <2>4 DEF Existing
      <3> QED BY <3>1, <3>2
    <2>7. UnbornBlank'
      BY <1>2, <2>4 DEF TableInv, UnbornBlank
    <2>8. AllCounted'
      <3>1. Cardinality(Existing(c) \cup {s}) = Cardinality(Existing(c)) + 1
        BY <2>2, ExistingFinite, FS_AddElement
      <3>2. \A q \in Pids : state[q] # "UNBORN" => number[q] = Cardinality(Existing(q)) + 0
                                                 /\ 0 \in Existing(q)
        BY <1>2 DEF TableInv, AllCounted
      <3>3. ASSUME NEW q \in Pids, state[q] # "UNBORN"
            PROVE  number'[q] = Cardinality(Existing(q)') + 0 /\ 0 \in Existing(q)'
        <4>1. CASE q = c
          <5>1. Cardinality(Existing(c)) \in Nat
            BY ExistingFinite
          <5> QED BY <1>2, <2>4, <2>6, <3>1, <3>2, <4>1, <5>1
        <4>2. CASE q # c
          BY <2>4, <2>6, <3>2, <3>3, <4>2
        <4> QED BY <4>1, <4>2
      <3> QED BY <1>2, <3>3 DEF AllCounted
    <2>10. OnlyEndersFree'
      <3>1. \A q \in Pids : \A i \in Indices :
               freeing[q][i].node # 1 => thread[q][i] # NULL /\ thread[q][i].end > 0
        BY DEF TableInv, OnlyEndersFree
      <3>2. thread[c][s] = NULL
        BY <2>2 DEF Existing
      <3>3. ASSUME NEW q \in Pids, NEW i \in Indices, freeing[q][i].node # 1
            PROVE  thread'[q][i] = thread[q][i]
        BY <2>4, <3>1, <3>2, <3>3
      <3> QED BY <1>2, <3>1, <3>3 DEF OnlyEndersFree
    <2>9. TurnsNear'
      <3>1. /\ passed \in [Pids -> [Indices -> Nat]] /\ \A q \in Pids : passed[q][active[q]] = 0
            /\ \A q \in Pids : \A i \in Indices :
                  IF i \in Existing(q) THEN passed[q][i] + Distance(q, i) =< MAX_THREADS
                                      ELSE passed[q][i] = 0
        BY DEF TableInv, TurnsNear
      <3>2. \A q \in Pids, i \in Indices : Distance(q, i)' = Distance(q, i)
        BY <1>2 DEF Distance
      <3>3. passed[c][s] = 0
        BY <1>1, <2>2, <3>1
      <3>4. passed[c][s] + Distance(c, s) =< MAX_THREADS
        <4>1. s \in Nat /\ s < MAX_THREADS /\ active[c] \in Nat /\ active[c] < MAX_THREADS
              /\ MAX_THREADS \in Nat
          BY <1>1, <2>2, TableBasics
        <4>2. Distance(c, s) \in Nat /\ Distance(c, s) =< MAX_THREADS
          BY <4>1 DEF Distance
        <4> QED BY <3>3, <4>1, <4>2
      <3>5. ASSUME NEW q \in Pids, NEW i \in Indices
            PROVE  IF i \in Existing(q)' THEN passed[q][i] + Distance(q, i) =< MAX_THREADS
                                         ELSE passed[q][i] = 0
        <4>1. CASE q = c
          BY <2>6, <3>1, <3>4, <4>1
        <4>2. CASE q # c
          BY <2>6, <3>1, <4>2
        <4> QED BY <4>1, <4>2
      <3> QED BY <1>2, <3>1, <3>2, <3>5 DEF TurnsNear
    <2> QED BY <1>1, <1>2, <2>5, <2>7, <2>8, <2>9, <2>10 DEF TableInv
  <1> QED BY <1>4, <1>5

\* mallock: only the extents of the process grow.
LEMMA MallockTable ==
    ASSUME TableInv, NEW size \in Sizes, mallock(size)
    PROVE  TableInv'
  <1> DEFINE times == Extensions(size, 1)
             pages == NUMBER_OF_PAGES_TO_ALLOC(size + BLOCK_STRUCT_SIZE)
             requests == [k \in 1 .. times |-> pages]
             r == allocPage(occupied, requests)
  <1>1. /\ occupied \in Arrays /\ extents \in [Pids -> Seq(Nodes)] /\ current \in Pids /\ ended \in Nat
    BY TypesAre DEF TableInv
  <1>2. /\ Granted(r) /\ occupied' = r.marks
        /\ extents' = [extents EXCEPT ![current] = @ \o r.nodes]
        /\ state[current] = "ALIVE" /\ current' = current /\ ended' = ended
        /\ UNCHANGED <<state, slot, thread, freeing, leaving, number, active, passed>>
    BY DEF mallock, Asks, Calling, Allocates
  <1>3. times \in Nat
    BY DEF Extensions
  <1> HIDE DEF times, pages
  <1>4. requests \in Seq({pages}) /\ Len(requests) = times
    BY <1>3
  <1> HIDE DEF requests
  <1>5. r.marks \in Arrays /\ r.nodes \in Seq(Nodes)
    BY <1>1, <1>2, <1>4, GrantedIs
  <1> HIDE DEF r
  <1>6. extents' \in [Pids -> Seq(Nodes)]
    <2>1. extents[current] \o r.nodes \in Seq(Nodes)
      BY <1>1, <1>5, ConcatProperties
    <2> QED BY <1>1, <1>2, <2>1
  <1>7. \A q \in Pids : state[q] = "UNBORN" => extents'[q] = extents[q]
    BY <1>1, <1>2
  <1> QED BY <1>1, <1>2, <1>5, <1>6, <1>7, TableKept

\* Giving pages back changes marks and the progress of the thread, which stays in its slot.
LEMMA FreePagesTable ==
    ASSUME TableInv, NEW step \in 0 .. 2, Ending(step),
           NEW page \in Nat, deallocPage(step, page)
    PROVE  TableInv'
  <1>0. PICK c \in Pids : c = current
    BY TypesAre DEF TableInv
  <1>1. /\ occupied \in Arrays /\ state \in [Pids -> {"UNBORN", "ALIVE", "REMOVED"}]
        /\ slot \in [Pids -> Seq(Nodes)] /\ thread \in [Pids -> [Indices -> ThreadRecords]]
        /\ freeing \in [Pids -> [Indices -> Places]] /\ leaving \in BOOLEAN
        /\ number \in [Pids -> Nat] /\ active \in [Pids -> Indices]
        /\ extents \in [Pids -> Seq(Nodes)] /\ ended \in Nat
    BY TypesAre DEF TableInv
  <1> DEFINE a == active[c]
  <1>2. a \in Indices
    BY <1>1
  <1>3. /\ thread' = [thread EXCEPT ![c][a].end = step + 1]
        /\ UNCHANGED <<state, slot, number, active, extents, passed>>
        /\ current' = c /\ current = c /\ ended' \in Nat
        /\ state[c] = "ALIVE" /\ thread[c][a] # NULL
        /\ occupied' = [occupied EXCEPT ![leafOf(page)] = EMPTY] /\ page < NumberOfPages
        /\ freeing' = [freeing EXCEPT ![c][a] = At(leafOf(page))] /\ leaving' = leaving
    BY <1>0, <1>1 DEF deallocPage, Ending
  <1>13. ~leaving /\ ~leaving' /\ (\A q : Uncounted(q) = 0 /\ Uncounted(q)' = 0) /\ LeaverOut'
    BY <1>3, NobodyLeaves, NobodyLeft
  <1>4. occupied' \in Arrays
    BY <1>1, <1>3, LeafIs, MarksDiffer DEF Arrays
  <1> HIDE DEF a
  <1>14. /\ freeing' \in [Pids -> [Indices -> Places]]
         /\ \A i \in Indices \ {a} : freeing'[c][i] = freeing[c][i]
         /\ \A q \in Pids \ {c} : freeing'[q] = freeing[q]
    <2>1. At(leafOf(page)) \in Places
      BY <1>3, LeafIs, PlacesAre
    <2> QED BY <1>1, <1>2, <1>3, <2>1
  <1> DEFINE T == [thread[c][a] EXCEPT !.end = step + 1]
  <1>5. T \in ThreadRecords /\ T # NULL
    <2>1. thread[c][a] \in [t : Nodes, page1 : Nodes, page2 : Nodes, end : 0 .. 3]
      BY <1>1, <1>2, <1>3 DEF ThreadRecords
    <2>2. step + 1 \in 0 .. 3 /\ step + 1 # 0
      OBVIOUS
    <2>3. T \in [t : Nodes, page1 : Nodes, page2 : Nodes, end : 0 .. 3] /\ T.end = step + 1
      BY <2>1, <2>2
    <2>4. NULL.end = 0
      BY DEF NULL
    <2> HIDE DEF T
    <2> QED BY <2>2, <2>3, <2>4 DEF ThreadRecords
  <1>15. T.end > 0
    <2>1. thread[c][a] \in [t : Nodes, page1 : Nodes, page2 : Nodes, end : 0 .. 3]
      BY <1>1, <1>2, <1>3 DEF ThreadRecords
    <2> QED BY <2>1
  <1>6. /\ thread'[c][a] = T
        /\ \A i \in Indices \ {a} : thread'[c][i] = thread[c][i]
        /\ \A q \in Pids \ {c} : thread'[q] = thread[q]
        /\ thread' \in [Pids -> [Indices -> ThreadRecords]]
    <2>1. thread' = [thread EXCEPT ![c] = [thread[c] EXCEPT ![a] = T]]
      BY <1>1, <1>2, <1>3
    <2> HIDE DEF T
    <2> QED BY <1>1, <1>2, <1>5, <2>1
  <1> HIDE DEF T
  <1>7. MemTypeOK'
    BY <1>1, <1>3, <1>4, <1>6, <1>14 DEF MemTypeOK, Arrays, Marks, ThreadRecords
  <1>8. \A q \in Pids : Existing(q)' = Existing(q)
    <2>1. Existing(c)' = Existing(c)
      BY <1>2, <1>3, <1>5, <1>6 DEF Existing
    <2>2. \A q \in Pids \ {c} : Existing(q)' = Existing(q)
      BY <1>6 DEF Existing
    <2> QED BY <2>1, <2>2
  <1>9. \A q, i : Distance(q, i)' = Distance(q, i)
    BY <1>3 DEF Distance
  <1>10. UnbornBlank'
    BY <1>3, <1>6 DEF TableInv, UnbornBlank
  <1>11. AllCounted'
    BY <1>3, <1>8, <1>13 DEF TableInv, AllCounted
  <1>12. TurnsNear'
    BY <1>3, <1>8, <1>9 DEF TableInv, TurnsNear
  <1>16. OnlyEndersFree'
    <2>1. \A q \in Pids : \A i \in Indices :
             freeing[q][i].node # 1 => thread[q][i] # NULL /\ thread[q][i].end > 0
      BY DEF TableInv, OnlyEndersFree
    <2>2. ASSUME NEW q \in Pids, NEW i \in Indices, freeing'[q][i].node # 1
          PROVE  thread'[q][i] # NULL /\ thread'[q][i].end > 0
      <3>1. CASE q = c /\ i = a
        BY <1>5, <1>6, <1>15, <3>1
      <3>2. CASE ~(q = c /\ i = a)
        <4>1. freeing'[q][i] = freeing[q][i] /\ thread'[q][i] = thread[q][i]
          BY <1>6, <1>14, <3>2
        <4> QED BY <2>1, <2>2, <4>1
      <3> QED BY <3>1, <3>2
    <2> QED BY <2>2 DEF OnlyEndersFree
  <1> QED BY <1>3, <1>7, <1>10, <1>11, <1>12, <1>13, <1>16 DEF TableInv

\* A load or store of freeUpRecursive changes marks and the place of the thread in it.
LEMMA FreeUpTable ==
    ASSUME TableInv, freeUpRecursive
    PROVE  TableInv'
  <1>0. PICK c \in Pids : c = current
    BY TypesAre DEF TableInv
  <1>1. /\ occupied \in Arrays /\ active \in [Pids -> Indices]
        /\ freeing \in [Pids -> [Indices -> Places]]
    BY TypesAre DEF TableInv
  <1> DEFINE a == active[c]
             done == Proceed(occupied, freeing[c][a])
  <1>2. a \in Indices
    BY <1>1
  <1>3. /\ freeing[c][a].node # 1 /\ occupied' = done.marks
        /\ freeing' = [freeing EXCEPT ![c][a] = done.place]
        /\ UNCHANGED <<state, slot, thread, leaving, number, active, extents, passed, ended>>
        /\ current' = c /\ current = c
    BY <1>0 DEF freeUpRecursive
  <1> HIDE DEF a
  <1>4. occupied' \in Arrays /\ done.place \in Places
    <2>1. freeing[c][a] \in Places
      BY <1>1, <1>2
    <2> QED BY <1>1, <1>3, <2>1, ProceedTyped
  <1> HIDE DEF done
  <1>5. /\ freeing' \in [Pids -> [Indices -> Places]]
        /\ \A i \in Indices \ {a} : freeing'[c][i] = freeing[c][i]
        /\ \A q \in Pids \ {c} : freeing'[q] = freeing[q]
    BY <1>1, <1>2, <1>3, <1>4
  <1>6. MemTypeOK'
    BY <1>3, <1>4, <1>5, TypesAre DEF TableInv, MemTypeOK, Arrays, Marks
  <1>7. \A q : Existing(q)' = Existing(q) /\ Uncounted(q)' = Uncounted(q)
    BY <1>3 DEF Existing, Uncounted
  <1>8. \A q, i : Distance(q, i)' = Distance(q, i)
    BY <1>3 DEF Distance
  <1>9. UnbornBlank'
    BY <1>3 DEF TableInv, UnbornBlank
  <1>10. AllCounted'
    BY <1>3, <1>7 DEF TableInv, AllCounted
  <1>11. TurnsNear'
    BY <1>3, <1>7, <1>8 DEF TableInv, TurnsNear
  <1>12. LeaverOut'
    BY <1>3 DEF TableInv, LeaverOut
  <1>13. OnlyEndersFree'
    <2>1. \A q \in Pids : \A i \in Indices :
             freeing[q][i].node # 1 => thread[q][i] # NULL /\ thread[q][i].end > 0
      BY DEF TableInv, OnlyEndersFree
    <2>2. thread[c][a] # NULL /\ thread[c][a].end > 0
      BY <1>2, <1>3, <2>1
    <2>3. ASSUME NEW q \in Pids, NEW i \in Indices, freeing'[q][i].node # 1
          PROVE  thread[q][i] # NULL /\ thread[q][i].end > 0
      <3>1. CASE q = c /\ i = a
        BY <2>2, <3>1
      <3>2. CASE ~(q = c /\ i = a)
        <4>1. freeing'[q][i] = freeing[q][i]
          BY <1>5, <3>2
        <4> QED BY <2>1, <2>3, <4>1
      <3> QED BY <3>1, <3>2
    <2> QED BY <1>3, <2>3 DEF OnlyEndersFree
  <1>14. ended' \in Nat
    BY <1>3 DEF TableInv
  <1> QED BY <1>6, <1>9, <1>10, <1>11, <1>12, <1>13, <1>14 DEF TableInv

\* terminateThread empties a slot other than the first; the count is one too high then.
LEMMA TerminateThreadTable ==
    ASSUME TableInv, terminateThread
    PROVE  TableInv'
  <1>0. PICK c \in Pids : c = current
    BY TypesAre DEF TableInv
  <1>1. /\ occupied \in Arrays /\ state \in [Pids -> {"UNBORN", "ALIVE", "REMOVED"}]
        /\ slot \in [Pids -> Seq(Nodes)] /\ thread \in [Pids -> [Indices -> ThreadRecords]]
        /\ freeing \in [Pids -> [Indices -> Places]] /\ leaving \in BOOLEAN
        /\ number \in [Pids -> Nat] /\ active \in [Pids -> Indices]
        /\ extents \in [Pids -> Seq(Nodes)] /\ ended \in Nat
    BY TypesAre DEF TableInv
  <1> DEFINE a == active[c]
  <1>2. /\ thread' = [thread EXCEPT ![c][a] = NULL] /\ leaving'
        /\ UNCHANGED <<occupied, state, slot, freeing, number, active, extents, passed, ended>>
        /\ current' = c /\ current = c /\ freeing[c][a].node = 1
        /\ state[c] = "ALIVE" /\ thread[c][a] # NULL /\ a # 0 /\ a \in Indices
    BY <1>0, <1>1 DEF terminateThread, Ending
  <1>12. ~leaving /\ \A q : Uncounted(q) = 0
    BY <1>2, NobodyLeaves
  <1>13. Uncounted(c)' = 1 /\ \A q \in Pids \ {c} : Uncounted(q)' = 0
    BY <1>2 DEF Uncounted
  <1> HIDE DEF a
  <1>3. a \in Existing(c)
    BY <1>2 DEF Existing
  <1>4. \A q \in Pids : state[q] # "UNBORN" => number[q] = Cardinality(Existing(q)) + 0
                                              /\ 0 \in Existing(q)
    BY <1>12 DEF TableInv, AllCounted
  <1>5. /\ thread'[c][a] = NULL
        /\ \A i \in Indices \ {a} : thread'[c][i] = thread[c][i]
        /\ \A q \in Pids \ {c} : thread'[q] = thread[q]
        /\ thread' \in [Pids -> [Indices -> ThreadRecords]]
    <2>1. thread'[c][a] = NULL /\ \A i \in Indices \ {a} : thread'[c][i] = thread[c][i]
      BY <1>1, <1>2
    <2>2. \A q \in Pids \ {c} : thread'[q] = thread[q]
      BY <1>1, <1>2
    <2>3. thread' \in [Pids -> [Indices -> ThreadRecords]]
      BY <1>1, <1>2 DEF ThreadRecords
    <2> QED BY <2>1, <2>2, <2>3
  <1>6. Existing(c)' = Existing(c) \ {a} /\ \A q \in Pids \ {c} : Existing(q)' = Existing(q)
    <2>1. Existing(c)' = Existing(c) \ {a}
      BY <1>2, <1>5 DEF Existing
    <2>2. \A q \in Pids \ {c} : Existing(q)' = Existing(q)
      BY <1>5 DEF Existing
    <2> QED BY <2>1, <2>2
  <1>7. Cardinality(Existing(c) \ {a}) = Cardinality(Existing(c)) - 1
        /\ Cardinality(Existing(c) \ {a}) \in Nat /\ Cardinality(Existing(c)) \in Nat
    <2>1. IsFiniteSet(Existing(c) \ {a}) /\ Cardinality(Existing(c) \ {a}) = Cardinality(Existing(c)) - 1
      BY <1>3, ExistingFinite, FS_RemoveElement
    <2> QED BY <2>1, ExistingFinite, FS_CardinalityType
  <1>8. MemTypeOK'
    BY <1>1, <1>2, <1>5, TypesAre DEF TableInv, MemTypeOK, Arrays, Marks, ThreadRecords
  <1>9. UnbornBlank'
    BY <1>2, <1>5 DEF TableInv, UnbornBlank
  <1>10. AllCounted'
    <2>1. ASSUME NEW q \in Pids, state[q] # "UNBORN"
          PROVE  number[q] = Cardinality(Existing(q)') + Uncounted(q)' /\ 0 \in Existing(q)'
      <3>1. CASE q = c
        <4>1. 0 \in Existing(c) \ {a}
          BY <1>2, <1>4
        <4>2. number[c] = Cardinality(Existing(c))
          BY <1>2, <1>4, <1>7
        <4>3. Existing(q)' = Existing(c) \ {a} /\ Uncounted(q)' = 1
          BY <1>6, <1>13, <3>1
        <4>4. number[q] = Cardinality(Existing(c) \ {a}) + 1
          BY <1>7, <3>1, <4>2
        <4> QED BY <4>1, <4>3, <4>4
      <3>2. CASE q # c
        BY <1>4, <1>6, <1>13, <2>1, <3>2
      <3> QED BY <3>1, <3>2
    <2> QED BY <1>2, <2>1 DEF AllCounted
  <1>11. TurnsNear'
    <2>1. /\ passed \in [Pids -> [Indices -> Nat]] /\ \A q \in Pids : passed[q][active[q]] = 0
          /\ \A q \in Pids : \A i \in Indices :
                IF i \in Existing(q) THEN passed[q][i] + Distance(q, i) =< MAX_THREADS
                                    ELSE passed[q][i] = 0
      BY DEF TableInv, TurnsNear
    <2>2. \A q \in Pids, i \in Indices : Distance(q, i)' = Distance(q, i)
      BY <1>2 DEF Distance
    <2>3. passed[c][a] = 0
      BY <2>1 DEF a
    <2>4. ASSUME NEW q \in Pids, NEW i \in Indices
          PROVE  IF i \in Existing(q)' THEN passed[q][i] + Distance(q, i) =< MAX_THREADS
                                       ELSE passed[q][i] = 0
      <3>1. CASE q = c
        BY <1>6, <2>1, <2>3, <3>1
      <3>2. CASE q # c
        BY <1>6, <2>1, <3>2
      <3> QED BY <3>1, <3>2
    <2> QED BY <1>2, <2>1, <2>2, <2>4 DEF TurnsNear
  <1>14. LeaverOut'
    BY <1>2, <1>5 DEF LeaverOut, a
  <1>15. OnlyEndersFree'
    <2>1. \A q \in Pids : \A i \in Indices :
             freeing[q][i].node # 1 => thread[q][i] # NULL /\ thread[q][i].end > 0
      BY DEF TableInv, OnlyEndersFree
    <2>2. ASSUME NEW q \in Pids, NEW i \in Indices, freeing[q][i].node # 1
          PROVE  thread'[q][i] = thread[q][i]
      BY <1>2, <1>5, <2>2
    <2> QED BY <1>2, <2>1, <2>2 DEF OnlyEndersFree
  <1> QED BY <1>2, <1>1, <1>8, <1>9, <1>10, <1>11, <1>14, <1>15 DEF TableInv

\* The count follows the table.
LEMMA UncountThreadTable ==
    ASSUME TableInv, uncountThread
    PROVE  TableInv'
  <1>0. PICK c \in Pids : c = current
    BY TypesAre DEF TableInv
  <1>1. number \in [Pids -> Nat]
    BY TypesAre DEF TableInv
  <1>2. /\ leaving /\ ~leaving' /\ number' = [number EXCEPT ![c] = number[c] - 1]
        /\ UNCHANGED <<occupied, state, slot, thread, freeing, active, extents, passed, ended>>
        /\ current' = c /\ current = c /\ state[c] = "ALIVE" /\ leaving' = FALSE
    BY <1>0 DEF uncountThread, TableInv, LeaverOut
  <1>3. LeaverOut' /\ \A q : Uncounted(q)' = 0
    BY <1>2, NobodyLeft
  <1>4. Uncounted(c) = 1 /\ \A q \in Pids \ {c} : Uncounted(q) = 0
    BY <1>2 DEF Uncounted
  <1>5. \A q : Existing(q)' = Existing(q)
    BY <1>2 DEF Existing
  <1>6. \A q \in Pids : state[q] # "UNBORN" =>
           number[q] = Cardinality(Existing(q)) + Uncounted(q) /\ 0 \in Existing(q)
    BY DEF TableInv, AllCounted
  <1>7. /\ number[c] = Cardinality(Existing(c)) + 1 /\ Cardinality(Existing(c)) \in Nat
        /\ number[c] - 1 = Cardinality(Existing(c)) + 0 /\ number[c] - 1 \in Nat
    <2>1. number[c] = Cardinality(Existing(c)) + 1 /\ Cardinality(Existing(c)) \in Nat
      BY <1>2, <1>4, <1>6, ExistingFinite
    <2> QED BY <2>1
  <1>8. /\ number' \in [Pids -> Nat] /\ number'[c] = Cardinality(Existing(c)) + 0
        /\ \A q \in Pids \ {c} : number'[q] = number[q]
    BY <1>1, <1>2, <1>7
  <1>9. MemTypeOK'
    BY <1>0, <1>2, <1>8 DEF TableInv, MemTypeOK
  <1>10. AllCounted'
    <2>1. ASSUME NEW q \in Pids, state[q] # "UNBORN"
          PROVE  number'[q] = Cardinality(Existing(q)) + 0 /\ 0 \in Existing(q)
      <3>1. CASE q = c
        BY <1>6, <1>8, <2>1, <3>1
      <3>2. CASE q # c
        BY <1>4, <1>6, <1>8, <2>1, <3>2
      <3> QED BY <3>1, <3>2
    <2> QED BY <1>2, <1>3, <1>5, <2>1 DEF AllCounted
  <1>11. \A q, i : Distance(q, i)' = Distance(q, i)
    BY <1>2 DEF Distance
  <1>12. TurnsNear'
    BY <1>2, <1>5, <1>11 DEF TableInv, TurnsNear
  <1>13. UnbornBlank' /\ OnlyEndersFree' /\ ended' \in Nat
    BY <1>2 DEF TableInv, UnbornBlank, OnlyEndersFree
  <1> QED BY <1>3, <1>9, <1>10, <1>12, <1>13 DEF TableInv

\* The remainder, once around the table.
LEMMA Around ==
    ASSUME NEW m \in Nat \ {0}, NEW x \in Nat, x < 2 * m
    PROVE  (x < m => x % m = x) /\ (~(x < m) => x % m = x - m)
  OBVIOUS

\* nextThread is a thread, and the others are nearer to their turn than before.
LEMMA NextThreadIs ==
    ASSUME TableInv, NEW p \in Pids, state[p] = "ALIVE",
           NEW n, n = nextThread(p)
    PROVE  /\ n \in Existing(p) /\ n \in Indices
           /\ \A i \in Existing(p) \ {n} :
                 (IF i > n THEN i - n ELSE i - n + MAX_THREADS) < Distance(p, i)
  <1> DEFINE a == active[p]
             M == MAX_THREADS
             E == Existing(p)
             S == {i \in 1 .. M : (a + i) % M \in E}
             d == Min(S)
  <1>1. a \in Nat /\ a < M /\ M \in Nat \ {0}
    BY TableBasics, TypesAre DEF TableInv
  <1>2. 0 \in E /\ \A i \in E : i \in Nat /\ i < M
    BY TableBasics, ExistingFinite DEF TableInv, AllCounted
  <1> HIDE DEF a, E
  <1>3. ASSUME NEW i \in E
        PROVE  Distance(p, i) \in 1 .. M /\ (a + Distance(p, i)) % M = i
    <2>1. i \in Nat /\ i < M
      BY <1>2
    <2>2. Distance(p, i) = IF i > a THEN i - a ELSE i - a + M
      BY DEF Distance, a
    <2> HIDE DEF M
    <2>3. Distance(p, i) \in 1 .. M /\ a + Distance(p, i) \in Nat /\ a + Distance(p, i) < 2 * M
      BY <1>1, <2>1, <2>2
    <2>4. (a + Distance(p, i)) % M =
             IF a + Distance(p, i) < M THEN a + Distance(p, i) ELSE a + Distance(p, i) - M
      BY <1>1, <2>3, Around
    <2> QED BY <1>1, <2>1, <2>2, <2>3, <2>4
  <1>4. S \in SUBSET Nat /\ S # {}
    BY <1>2, <1>3
  <1>5. d \in 1 .. M /\ (a + d) % M \in E /\ \A y \in S : d =< y
    <2> HIDE DEF S
    <2>1. d \in S /\ \A y \in S : d =< y
      BY <1>4, MinIs
    <2> HIDE DEF d
    <2> QED BY <2>1 DEF S
  <1>6. n = (a + d) % M
    BY DEF nextThread, a, E
  <1> HIDE DEF d, M
  <1>7. n = IF a + d < M THEN a + d ELSE a + d - M
    <2> DEFINE z == a + d
    <2>1. z \in Nat /\ z < 2 * M
      BY <1>1, <1>5
    <2>2. n = z % M
      BY <1>6
    <2> HIDE DEF z
    <2>3. (z < M => z % M = z) /\ (~(z < M) => z % M = z - M)
      BY <1>1, <2>1, Around
    <2>4. (z < M => n = z) /\ (~(z < M) => n = z - M)
      BY <2>2, <2>3, Zenon
    <2> QED BY <1>1, <1>5, <2>4 DEF z
  <1>8. ASSUME NEW i \in E \ {n}
        PROVE  (IF i > n THEN i - n ELSE i - n + M) < Distance(p, i)
    <2> DEFINE x == Distance(p, i)
    <2>1. x \in 1 .. M /\ (a + x) % M = i /\ x \in S
      BY <1>3
    <2> HIDE DEF S, x
    <2>2. d =< x
      BY <1>5, <2>1
    <2>3. d # x
      BY <1>6, <2>1
    <2>4. i = IF a + x < M THEN a + x ELSE a + x - M
      <3> DEFINE z == a + x
      <3>1. z \in Nat /\ z < 2 * M /\ z % M = i
        BY <1>1, <2>1
      <3> HIDE DEF z
      <3>2. (z < M => z % M = z) /\ (~(z < M) => z % M = z - M)
        BY <1>1, <3>1, Around
      <3>3. (z < M => i = z) /\ (~(z < M) => i = z - M)
        BY <3>1, <3>2, Zenon
      <3> QED BY <1>1, <2>1, <3>3 DEF z
    <2>5. (IF i > n THEN i - n ELSE i - n + M) < x
      BY <1>1, <1>5, <1>7, <2>1, <2>2, <2>3, <2>4
    <2> QED BY <2>5 DEF x
  <1>9. n \in Indices
    BY <1>2, <1>5, <1>6, TableBasics DEF M
  <1> QED BY <1>5, <1>6, <1>8, <1>9 DEF E, M

\* The timer: the thread dispatched is at the start of its turn, the others came nearer.
LEMMA TimerTickTable ==
    ASSUME TableInv, NEW p \in Pids, timerTick(p)
    PROVE  TableInv'
  <1>1. /\ occupied \in Arrays /\ state \in [Pids -> {"UNBORN", "ALIVE", "REMOVED"}]
        /\ slot \in [Pids -> Seq(Nodes)] /\ thread \in [Pids -> [Indices -> ThreadRecords]]
        /\ freeing \in [Pids -> [Indices -> Places]] /\ leaving \in BOOLEAN
        /\ number \in [Pids -> Nat] /\ active \in [Pids -> Indices]
        /\ extents \in [Pids -> Seq(Nodes)] /\ ended \in Nat /\ current \in Pids
    BY TypesAre DEF TableInv
  <1>2. CASE thread[current][active[current]] = NULL
    BY <1>1, <1>2, TableKept DEF timerTick
  <1>3. CASE thread[current][active[current]] # NULL
    <2> DEFINE n == nextThread(p)
    <2>1. /\ UNCHANGED <<occupied, state, slot, thread, freeing, leaving, number, extents, ended>>
          /\ current' = p /\ state[p] = "ALIVE"
          /\ active' = [active EXCEPT ![p] = n]
          /\ passed' = [passed EXCEPT ![p] = [i \in Indices |->
                            IF i \in Existing(p) \ {n} THEN passed[p][i] + 1 ELSE 0]]
      <3>1. passed' = [passed EXCEPT ![p] = [i \in Indices |->
                            IF i \in Existing(p) \ {n} THEN @[i] + 1 ELSE 0]]
        BY <1>3 DEF timerTick
      <3>2. /\ UNCHANGED <<occupied, state, slot, thread, freeing, leaving, number, extents, ended>>
            /\ current' = p /\ state[p] = "ALIVE"
            /\ active' = [active EXCEPT ![p] = n]
        BY <1>3 DEF timerTick
      <3> HIDE DEF n
      <3> QED BY <3>1, <3>2
    <2>12. /\ ~leaving /\ ~leaving' /\ LeaverOut'
           /\ \A q : Uncounted(q) = 0 /\ Uncounted(q)' = 0
      BY <1>3, <2>1, NobodyLeaves, NobodyLeft
    <2>2. /\ n \in Existing(p) /\ n \in Indices
          /\ \A i \in Existing(p) \ {n} :
                (IF i > n THEN i - n ELSE i - n + MAX_THREADS) < Distance(p, i)
      BY <2>1, NextThreadIs
    <2> HIDE DEF n
    <2>3. passed \in [Pids -> [Indices -> Nat]]
      BY DEF TableInv, TurnsNear
    <2>4. /\ \A q \in Pids \ {p} : active'[q] = active[q] /\ passed'[q] = passed[q]
          /\ active'[p] = n /\ active' \in [Pids -> Indices]
      BY <1>1, <2>1, <2>2, <2>3
    <2>5. \A i \in Indices :
             passed'[p][i] = IF i \in Existing(p) \ {n} THEN passed[p][i] + 1 ELSE 0
      BY <2>1, <2>3
    <2>6. passed' \in [Pids -> [Indices -> Nat]]
      <3>1. [i \in Indices |-> IF i \in Existing(p) \ {n} THEN passed[p][i] + 1 ELSE 0]
               \in [Indices -> Nat]
        BY <2>3
      <3> QED BY <2>1, <2>3, <3>1
    <2>7. \A q : Existing(q)' = Existing(q)
      BY <2>1 DEF Existing
    <2>8. MemTypeOK'
      BY <1>1, <2>1, <2>4 DEF MemTypeOK, Arrays, Marks, ThreadRecords
    <2>9. UnbornBlank'
      BY <2>1, <2>4 DEF TableInv, UnbornBlank
    <2>10. AllCounted'
      BY <2>1, <2>7, <2>12 DEF TableInv, AllCounted
    <2>13. OnlyEndersFree'
      BY <2>1 DEF TableInv, OnlyEndersFree
    <2>11. TurnsNear'
      <3>1. /\ \A q \in Pids : passed[q][active[q]] = 0
            /\ \A q \in Pids : \A i \in Indices :
                  IF i \in Existing(q) THEN passed[q][i] + Distance(q, i) =< MAX_THREADS
                                      ELSE passed[q][i] = 0
        BY DEF TableInv, TurnsNear
      <3>2. \A q \in Pids \ {p}, i \in Indices : Distance(q, i)' = Distance(q, i)
        BY <2>4 DEF Distance
      <3>3. \A i \in Indices :
               Distance(p, i)' = IF i > n THEN i - n ELSE i - n + MAX_THREADS
        BY <2>4 DEF Distance
      <3>4. \A q \in Pids : passed'[q][active'[q]] = 0
        BY <2>2, <2>4, <2>5, <3>1
      <3>5. ASSUME NEW q \in Pids, NEW i \in Indices
            PROVE  IF i \in Existing(q) THEN passed'[q][i] + Distance(q, i)' =< MAX_THREADS
                                         ELSE passed'[q][i] = 0
        <4>1. CASE q # p
          BY <2>4, <3>1, <3>2, <4>1
        <4>2. CASE q = p /\ i \notin Existing(p) \ {n}
          <5>1. passed'[p][i] = 0
            BY <2>5, <4>2
          <5>2. i = n => Distance(p, i)' = MAX_THREADS
            BY <2>2, <3>3, TableBasics
          <5> QED BY <2>2, <4>2, <5>1, <5>2, TableBasics
        <4>3. CASE q = p /\ i \in Existing(p) \ {n}
          <5>1. passed'[p][i] = passed[p][i] + 1 /\ passed[p][i] \in Nat
            BY <2>3, <2>5, <4>3
          <5>2. passed[p][i] + Distance(p, i) =< MAX_THREADS
            BY <3>1, <4>3
          <5>3. Distance(p, i)' < Distance(p, i)
            BY <2>2, <3>3, <4>3
          <5>4. Distance(p, i) \in Int /\ Distance(p, i)' \in Int /\ MAX_THREADS \in Int
            <6>1. i \in Nat /\ n \in Nat /\ active[p] \in Nat /\ MAX_THREADS \in Nat
              BY <1>1, <2>2, TableBasics
            <6> QED BY <3>3, <6>1 DEF Distance
          <5>5. passed[p][i] + 1 + Distance(p, i)' =< MAX_THREADS
            BY <5>1, <5>2, <5>3, <5>4
          <5> QED BY <4>3, <5>1, <5>5
        <4> QED BY <4>1, <4>2, <4>3
      <3> QED BY <2>6, <2>7, <3>4, <3>5 DEF TurnsNear
    <2> QED BY <1>1, <2>1, <2>8, <2>9, <2>10, <2>11, <2>12, <2>13 DEF TableInv
  <1> QED BY <1>2, <1>3

\* A _yield changes neither the tables nor the turns.
LEMMA YieldTable ==
    ASSUME TableInv, NEW p \in Pids, yield(p)
    PROVE  TableInv'
  <1>1. /\ occupied \in Arrays /\ extents \in [Pids -> Seq(Nodes)] /\ ended \in Nat
    BY TypesAre DEF TableInv
  <1> QED BY <1>1, TableKept DEF yield

\* The array of createHeap is one of marks, with nothing marked.
LEMMA HeapIs ==
    createHeap \in Arrays /\ MarksClosed(createHeap)
  <1>1. createHeap \in Arrays
    BY MarksDiffer DEF createHeap, Arrays
  <1>2. MarksClosed(createHeap)
    BY DEF createHeap, MarksClosed
  <1> QED BY <1>1, <1>2

\* What main() asks for: two processes, five blocks each, all of them granted.
LEMMA BootIs ==
    ASSUME NEW r, r = allocPage(createHeap, BootPages)
    PROVE  /\ Granted(r) /\ BootPages \in Seq(Nat)
           /\ r.marks \in Arrays /\ r.nodes \in Seq(Nodes) /\ Len(r.nodes) = 10
           /\ DOMAIN r.nodes = 1 .. 10
           /\ \A k \in 1 .. 10 : r.nodes[k] \in Nodes
  <1>1. ProcessPages \in Seq(Nat) /\ Len(ProcessPages) = 5
    BY DEF ProcessPages
  <1>2. BootPages \in Seq(Nat) /\ Len(BootPages) = 10
    <2> DEFINE q == ProcessPages
    <2>1. q \in Seq(Nat) /\ Len(q) = 5 /\ BootPages = q \o q
      BY <1>1 DEF BootPages
    <2> HIDE DEF q
    <2>2. q \o q \in Seq(Nat) /\ Len(q \o q) = Len(q) + Len(q)
      BY <2>1, ConcatProperties
    <2> QED BY <2>1, <2>2
  <1>3. Granted(r)
    BY BootAssumption
  <1> QED BY <1>2, <1>3, HeapIs, GrantedIs

\* The processes of main(): their structures are the blocks handed out, in order.
LEMMA BornIs ==
    ASSUME MemInit, NEW r, r = allocPage(createHeap, BootPages),
           NEW p \in {InitPid, ShellPid}, NEW o, o = IF p = InitPid THEN 0 ELSE 5
    PROVE  /\ p \in Pids /\ state[p] = "ALIVE" /\ number[p] = 1 /\ active[p] = 0
           /\ slot[p] = <<r.nodes[o + 1], r.nodes[o + 5]>> /\ slot[p] \in Seq(Nodes)
           /\ thread[p][0] = [t |-> r.nodes[o + 2], page1 |-> r.nodes[o + 3],
                              page2 |-> r.nodes[o + 4], end |-> 0]
           /\ thread[p][0] \in ThreadRecords /\ thread[p][0] # NULL
           /\ \A i \in Indices \ {0} : thread[p][i] = NULL
           /\ thread[p] \in [Indices -> ThreadRecords]
  <1>1. p \in Pids
    BY MemoryAssumption
  <1>2. /\ r.nodes \in Seq(Nodes) /\ Len(r.nodes) = 10 /\ \A k \in 1 .. 10 : r.nodes[k] \in Nodes
    BY BootIs
  <1>3. o \in {0, 5}
    OBVIOUS
  <1> DEFINE T == Thread(SubSeq(r.nodes, o + 2, o + 4))
  <1>4. /\ T = [t |-> r.nodes[o + 2], page1 |-> r.nodes[o + 3], page2 |-> r.nodes[o + 4], end |-> 0]
        /\ T \in ThreadRecords /\ T # NULL
    <2>1. o + 2 \in Nat \ {0} /\ o + 2 + 2 =< Len(r.nodes) /\ o + 2 + 2 = o + 4 /\ o + 2 + 1 = o + 3
      BY <1>2, <1>3
    <2>2. /\ Thread(SubSeq(r.nodes, o + 2, o + 2 + 2)) =
               [t |-> r.nodes[o + 2], page1 |-> r.nodes[o + 2 + 1], page2 |-> r.nodes[o + 2 + 2],
                end |-> 0]
          /\ Thread(SubSeq(r.nodes, o + 2, o + 2 + 2)) \in ThreadRecords
          /\ Thread(SubSeq(r.nodes, o + 2, o + 2 + 2)) # NULL
      BY <1>2, <2>1, ThreadIs
    <2> QED BY <2>1, <2>2
  <1>5. thread[p] = [i \in Indices |-> IF i = 0 THEN T ELSE NULL]
    <2>1. thread = [q \in Pids |-> [i \in Indices |->
                       IF q \in {InitPid, ShellPid} /\ i = 0
                       THEN Thread(SubSeq(r.nodes, (IF q = InitPid THEN 0 ELSE 5) + 2,
                                                   (IF q = InitPid THEN 0 ELSE 5) + 4))
                       ELSE NULL]]
      BY DEF MemInit
    <2>2. thread[p] = [i \in Indices |->
                       IF p \in {InitPid, ShellPid} /\ i = 0
                       THEN Thread(SubSeq(r.nodes, (IF p = InitPid THEN 0 ELSE 5) + 2,
                                                   (IF p = InitPid THEN 0 ELSE 5) + 4))
                       ELSE NULL]
      BY <1>1, <2>1
    <2> QED BY <2>2
  <1> HIDE DEF T
  <1>6. /\ thread[p][0] = T /\ \A i \in Indices \ {0} : thread[p][i] = NULL
        /\ thread[p] \in [Indices -> ThreadRecords]
    BY <1>4, <1>5, TableBasics DEF ThreadRecords
  <1>7. slot[p] = <<r.nodes[o + 1], r.nodes[o + 5]>>
    <2>1. slot = [q \in Pids |-> IF q \in {InitPid, ShellPid}
                                 THEN <<r.nodes[(IF q = InitPid THEN 0 ELSE 5) + 1],
                                        r.nodes[(IF q = InitPid THEN 0 ELSE 5) + 5]>>
                                 ELSE <<>>]
      BY DEF MemInit
    <2> QED BY <1>1, <2>1
  <1>8. slot[p] \in Seq(Nodes)
    <2>1. r.nodes[o + 1] \in Nodes /\ r.nodes[o + 5] \in Nodes
      BY <1>2, <1>3, SMTT(30)
    <2> QED BY <1>7, <2>1
  <1>9. state[p] = "ALIVE" /\ number[p] = 1 /\ active[p] = 0
    BY <1>1 DEF MemInit
  <1> QED BY <1>1, <1>4, <1>6, <1>7, <1>8, <1>9

\* The other processes have nothing at first.
LEMMA UnbornIs ==
    ASSUME MemInit, NEW p \in Pids \ {InitPid, ShellPid}
    PROVE  /\ state[p] = "UNBORN" /\ number[p] = 0 /\ active[p] = 0
           /\ slot[p] = <<>> /\ extents[p] = <<>>
           /\ thread[p] = [i \in Indices |-> NULL]
  <1>1. state[p] = "UNBORN" /\ number[p] = 0 /\ active[p] = 0 /\ slot[p] = <<>> /\ extents[p] = <<>>
    BY DEF MemInit
  <1>2. thread[p] = [i \in Indices |-> NULL]
    BY DEF MemInit
  <1> QED BY <1>1, <1>2

\* The tables at first.
LEMMA InitTable ==
    ASSUME MemInit
    PROVE  TableInv
  <1> DEFINE r == allocPage(createHeap, BootPages)
             born == {InitPid, ShellPid}
  <1>1. /\ occupied = r.marks /\ extents = [p \in Pids |-> <<>>]
        /\ passed = [p \in Pids |-> [i \in Indices |-> 0]]
        /\ current = InitPid /\ ended = 0
        /\ state = [p \in Pids |-> IF p \in born THEN "ALIVE" ELSE "UNBORN"]
        /\ number = [p \in Pids |-> IF p \in born THEN 1 ELSE 0]
        /\ active = [p \in Pids |-> 0]
        /\ freeing = [p \in Pids |-> [i \in Indices |-> Returned]] /\ leaving = FALSE
    BY DEF MemInit
  <1>2. InitPid \in Pids /\ born \subseteq Pids
    BY MemoryAssumption
  <1>3. occupied \in Arrays
    BY <1>1, BootIs
  <1>4. ASSUME NEW p \in born
        PROVE  /\ state[p] = "ALIVE" /\ number[p] = 1 /\ slot[p] \in Seq(Nodes)
               /\ thread[p] \in [Indices -> ThreadRecords] /\ Existing(p) = {0}
    <2>1. /\ state[p] = "ALIVE" /\ number[p] = 1 /\ slot[p] \in Seq(Nodes)
          /\ thread[p] \in [Indices -> ThreadRecords] /\ thread[p][0] # NULL
          /\ \A i \in Indices \ {0} : thread[p][i] = NULL
      BY BornIs
    <2> QED BY <2>1, TableBasics DEF Existing
  <1>5. ASSUME NEW p \in Pids \ born
        PROVE  /\ state[p] = "UNBORN" /\ slot[p] = <<>> /\ extents[p] = <<>>
               /\ thread[p] \in [Indices -> ThreadRecords]
               /\ \A i \in Indices : thread[p][i] = NULL
               /\ Existing(p) = {}
    <2>1. thread[p] = [i \in Indices |-> NULL]
      BY UnbornIs
    <2>2. \A i \in Indices : thread[p][i] = NULL
      BY <2>1
    <2> QED BY <2>1, <2>2, UnbornIs DEF ThreadRecords, Existing
  <1> HIDE DEF r
  <1>6. MemTypeOK
    <2>1. slot \in [Pids -> Seq(Nodes)]
      <3>1. slot = [p \in Pids |-> slot[p]]
        BY DEF MemInit
      <3>2. <<>> \in Seq(Nodes)
        OBVIOUS
      <3>3. \A p \in Pids : slot[p] \in Seq(Nodes)
        BY <1>4, <1>5, <3>2
      <3> QED BY <3>1, <3>3
    <2>2. thread \in [Pids -> [Indices -> ThreadRecords]]
      <3>1. thread = [p \in Pids |-> thread[p]]
        BY DEF MemInit
      <3>2. \A p \in Pids : thread[p] \in [Indices -> ThreadRecords]
        BY <1>4, <1>5
      <3> QED BY <3>1, <3>2
    <2>3. extents \in [Pids -> Seq(Nodes)]
      <3>1. <<>> \in Seq(Nodes)
        OBVIOUS
      <3> QED BY <1>1, <3>1
    <2>4. /\ state \in [Pids -> {"UNBORN", "ALIVE", "REMOVED"}]
          /\ number \in [Pids -> Nat] /\ active \in [Pids -> Indices] /\ current \in Pids
      BY <1>1, <1>2, TableBasics
    <2>5. freeing \in [Pids -> [Indices -> Places]] /\ leaving \in BOOLEAN
      <3>1. Returned \in Places
        BY NodesAre, PlacesAre
      <3> QED BY <1>1, <3>1
    <2> QED BY <1>3, <2>1, <2>2, <2>3, <2>4, <2>5, TypesAre
  <1>7. UnbornBlank
    <2>1. \A p \in Pids : state[p] = "UNBORN" => p \in Pids \ born
      BY <1>4
    <2>2. \A p \in Pids : active[p] = 0 /\ \A i \in Indices : passed[p][i] = 0
      BY <1>1
    <2> QED BY <1>5, <2>1, <2>2 DEF UnbornBlank
  <1>8. AllCounted
    <2>1. \A p \in Pids : state[p] # "UNBORN" => p \in born
      BY <1>5
    <2>2. Cardinality({0}) = 1
      BY FS_Singleton
    <2>3. \A p \in Pids : Uncounted(p) = 0
      BY <1>1 DEF Uncounted
    <2>4. ASSUME NEW p \in Pids, state[p] # "UNBORN"
          PROVE  number[p] = Cardinality(Existing(p)) + Uncounted(p) /\ 0 \in Existing(p)
      <3>1. number[p] = 1 /\ Existing(p) = {0} /\ Uncounted(p) = 0
        BY <1>4, <2>1, <2>3, <2>4
      <3>2. Cardinality(Existing(p)) = 1 /\ 0 \in Existing(p)
        BY <2>2, <3>1
      <3> QED BY <3>1, <3>2
    <2> QED BY <2>4 DEF AllCounted
  <1>10. LeaverOut /\ OnlyEndersFree
    <2>1. Returned.node = 1
      BY DEF Returned, At
    <2> QED BY <1>1, <2>1 DEF LeaverOut, OnlyEndersFree
  <1>9. TurnsNear
    <2>1. passed \in [Pids -> [Indices -> Nat]]
      BY <1>1
    <2>2. \A p \in Pids : active[p] = 0 /\ \A i \in Indices : passed[p][i] = 0
      BY <1>1
    <2>3. \A p \in Pids : \A i \in Existing(p) : i = 0
      BY <1>4, <1>5
    <2>4. \A p \in Pids : Distance(p, 0) = MAX_THREADS
      BY <2>2, TableBasics DEF Distance
    <2>5. \A p \in Pids : passed[p][active[p]] = 0
      BY <2>2, TableBasics
    <2>6. \A p \in Pids : \A i \in Indices :
             IF i \in Existing(p) THEN passed[p][i] + Distance(p, i) =< MAX_THREADS
                                 ELSE passed[p][i] = 0
      BY <2>2, <2>3, <2>4, TableBasics
    <2> QED BY <2>1, <2>5, <2>6 DEF TurnsNear
  <1> QED BY <1>1, <1>6, <1>7, <1>8, <1>9, <1>10 DEF TableInv

\* Every step keeps them.
LEMMA NextTable ==
    ASSUME TableInv, [MemNext]_vars
    PROVE  TableInv'
  <1>1. CASE UNCHANGED vars
    <2>1. /\ occupied \in Arrays /\ extents \in [Pids -> Seq(Nodes)] /\ ended \in Nat /\ current \in Pids
      BY TypesAre DEF TableInv
    <2> QED BY <1>1, <2>1, TableKept DEF vars
  <1>2. ASSUME NEW p \in Pids, createProcess(p) \/ removeProcess(p) \/ timerTick(p) \/ yield(p)
        PROVE  TableInv'
    BY <1>2, CreateProcessTable, RemoveProcessTable, TimerTickTable, YieldTable
  <1>3. CASE getCurrentProcesses \/ createThread
    BY <1>3, GetCurrentProcessesTable, CreateThreadTable
  <1>4. ASSUME NEW size \in Sizes, mallock(size) PROVE TableInv'
    BY <1>4, MallockTable
  <1> DEFINE x == thread[current][active[current]]
  <1>5. ASSUME NEW step \in 0 .. 2, Ending(step)
        PROVE  base(x.t) \in Nat /\ base(x.page2) \in Nat /\ Pages(x.page1) \subseteq Nat
    <2>1. x \in ThreadRecords /\ x # NULL
      BY <1>5, TypesAre DEF TableInv, Ending
    <2>2. x.t \in Nodes /\ x.page1 \in Nodes /\ x.page2 \in Nodes
      <3> HIDE DEF x
      <3> QED BY <2>1 DEF ThreadRecords
    <2> HIDE DEF x
    <2> QED BY <2>2, PagesAre
  <1>6. ASSUME freeUserStack PROVE TableInv'
    <2>1. Ending(0) /\ \E page \in Pages(x.page1) : deallocPage(0, page)
      BY <1>6 DEF freeUserStack
    <2> QED BY <1>5, <2>1, FreePagesTable
  <1>7. ASSUME freeKernelStack PROVE TableInv'
    <2>1. Ending(1) /\ deallocPage(1, base(x.page2) + 2)
      BY <1>7 DEF freeKernelStack
    <2>2. base(x.page2) + 2 \in Nat
      BY <1>5, <2>1
    <2> QED BY <2>1, <2>2, FreePagesTable
  <1>8. ASSUME freeThread PROVE TableInv'
    <2>1. Ending(2) /\ deallocPage(2, base(x.t))
      BY <1>8 DEF freeThread
    <2>2. base(x.t) \in Nat
      BY <1>5, <2>1
    <2> QED BY <2>1, <2>2, FreePagesTable
  <1>9. CASE freeUpRecursive \/ terminateThread \/ uncountThread
    BY <1>9, FreeUpTable, TerminateThreadTable, UncountThreadTable
  <1> QED BY <1>1, <1>2, <1>3, <1>4, <1>6, <1>7, <1>8, <1>9 DEF MemNext

-----------------------------------------------------------------------------
(* The blocks in use.                                                      *)

\* The uses of a process with these structures, threads and extents.
UsesFrom(p, s, t, e) ==
    {[by |-> p, for |-> "slot", nth |-> k, node |-> s[k]] : k \in DOMAIN s}
      \cup {[by |-> p, for |-> f, nth |-> i, node |-> t[i][f]] :
               f \in {"t", "page1", "page2"}, i \in {k \in Indices : t[k] # NULL /\ t[k].end = 0}}
      \cup {[by |-> p, for |-> "heap", nth |-> k, node |-> e[k]] : k \in DOMAIN e}

\* They are those of a process of the model, before and after a step.
LEMMA UsesAre ==
    ASSUME NEW p
    PROVE  /\ Uses(p) = UsesFrom(p, slot[p], thread[p], extents[p])
           /\ Uses(p)' = UsesFrom(p, slot'[p], thread'[p], extents'[p])
  <1>1. {k \in Existing(p) : thread[p][k].end = 0} =
           {k \in Indices : thread[p][k] # NULL /\ thread[p][k].end = 0}
    BY DEF Existing
  <1>2. {k \in Existing(p) : thread[p][k].end = 0}' =
           {k \in Indices : thread'[p][k] # NULL /\ thread'[p][k].end = 0}
    BY DEF Existing
  <1>3. Uses(p) = UsesFrom(p, slot[p], thread[p], extents[p])
    BY <1>1 DEF Uses, UsesFrom
  <1>4. Uses(p)' = UsesFrom(p, slot'[p], thread'[p], extents'[p])
    BY <1>2 DEF Uses, UsesFrom
  <1> QED BY <1>3, <1>4

\* Which of the five blocks of a new process a use is for.
SpotOf(u) ==
    IF u.for = "slot" THEN (IF u.nth = 1 THEN 1 ELSE 5)
    ELSE IF u.for = "t" THEN 2 ELSE IF u.for = "page1" THEN 3 ELSE 4

\* The structures and threads of a new process are the nodes of n after the first o.
IsNew(n, o, s, t) ==
    /\ s = <<n[o + 1], n[o + 5]>>
    /\ t[0] = [t |-> n[o + 2], page1 |-> n[o + 3], page2 |-> n[o + 4], end |-> 0]
    /\ \A i \in Indices \ {0} : t[i] = NULL

\* In uses, process p has one use for each of these five nodes.
FiveUses(uses, p, n, o) ==
    /\ \A u \in uses : u.by = p /\ SpotOf(u) \in 1 .. 5 /\ u.node = n[o + SpotOf(u)]
    /\ \A u, v \in uses : SpotOf(u) = SpotOf(v) => u = v

\* A new process uses five blocks for five things.
LEMMA UsesOfNew ==
    ASSUME NEW p, NEW n, NEW o \in Nat, NEW s, NEW t, IsNew(n, o, s, t)
    PROVE  FiveUses(UsesFrom(p, s, t, <<>>), p, n, o)
  <1> DEFINE a == [by |-> p, for |-> "slot", nth |-> 1, node |-> n[o + 1]]
             b == [by |-> p, for |-> "t", nth |-> 0, node |-> n[o + 2]]
             c == [by |-> p, for |-> "page1", nth |-> 0, node |-> n[o + 3]]
             d == [by |-> p, for |-> "page2", nth |-> 0, node |-> n[o + 4]]
             e == [by |-> p, for |-> "slot", nth |-> 2, node |-> n[o + 5]]
  <1>1. DOMAIN s = {1, 2} /\ s[1] = n[o + 1] /\ s[2] = n[o + 5]
    BY DEF IsNew
  <1>2. t[0].t = n[o + 2] /\ t[0].page1 = n[o + 3] /\ t[0].page2 = n[o + 4]
    BY DEF IsNew
  <1>3. \A k \in DOMAIN <<>> : FALSE
    OBVIOUS
  <1>4. ASSUME NEW u \in UsesFrom(p, s, t, <<>>) PROVE u \in {a, b, c, d, e}
    <2>1. CASE \E k \in DOMAIN s : u = [by |-> p, for |-> "slot", nth |-> k, node |-> s[k]]
      BY <1>1, <2>1
    <2>2. CASE \E f \in {"t", "page1", "page2"} :
                 \E i \in {k \in Indices : t[k] # NULL /\ t[k].end = 0} :
                    u = [by |-> p, for |-> f, nth |-> i, node |-> t[i][f]]
      <3>1. PICK f \in {"t", "page1", "page2"}, i \in {k \in Indices : t[k] # NULL /\ t[k].end = 0} :
                    u = [by |-> p, for |-> f, nth |-> i, node |-> t[i][f]]
        BY <2>2
      <3>2. i = 0
        BY DEF IsNew
      <3>3. u = [by |-> p, for |-> f, nth |-> 0, node |-> t[0][f]]
        BY <3>1, <3>2
      <3>4. f = "t" => t[0][f] = n[o + 2]
        BY <1>2
      <3>5. f = "page1" => t[0][f] = n[o + 3]
        BY <1>2
      <3>6. f = "page2" => t[0][f] = n[o + 4]
        BY <1>2
      <3> QED BY <3>3, <3>4, <3>5, <3>6
    <2>3. CASE \E k \in DOMAIN <<>> : u = [by |-> p, for |-> "heap", nth |-> k, node |-> <<>>[k]]
      BY <1>3, <2>3
    <2> HIDE DEF a, b, c, d, e
    <2> QED BY <2>1, <2>2, <2>3 DEF UsesFrom
  <1>5. /\ SpotOf(a) = 1 /\ SpotOf(b) = 2 /\ SpotOf(c) = 3 /\ SpotOf(d) = 4 /\ SpotOf(e) = 5
    BY DEF SpotOf
  <1>6. /\ a.by = p /\ b.by = p /\ c.by = p /\ d.by = p /\ e.by = p
        /\ a.node = n[o + 1] /\ b.node = n[o + 2] /\ c.node = n[o + 3] /\ d.node = n[o + 4]
        /\ e.node = n[o + 5]
    OBVIOUS
  <1> HIDE DEF a, b, c, d, e
  <1>7. \A u \in {a, b, c, d, e} : u.by = p /\ SpotOf(u) \in 1 .. 5 /\ u.node = n[o + SpotOf(u)]
    BY <1>5, <1>6
  <1>8. \A u, v \in {a, b, c, d, e} : SpotOf(u) = SpotOf(v) => u = v
    BY <1>5
  <1> DEFINE W == UsesFrom(p, s, t, <<>>)
             X == {a, b, c, d, e}
  <1>9. W \subseteq X
    BY <1>4
  <1>10. /\ \A u \in X : u.by = p /\ SpotOf(u) \in 1 .. 5 /\ u.node = n[o + SpotOf(u)]
         /\ \A u, v \in X : SpotOf(u) = SpotOf(v) => u = v
    BY <1>7, <1>8
  <1> HIDE DEF X, W
  <1>11. /\ \A u \in W : u.by = p /\ SpotOf(u) \in 1 .. 5 /\ u.node = n[o + SpotOf(u)]
         /\ \A u, v \in W : SpotOf(u) = SpotOf(v) => u = v
    BY <1>9, <1>10
  <1> QED BY <1>11 DEF W, FiveUses

\* Every use is by its process.
LEMMA UseBy ==
    ASSUME NEW p, NEW s, NEW t, NEW e, NEW u \in UsesFrom(p, s, t, e)
    PROVE  u.by = p
  <1>1. CASE u \in {[by |-> p, for |-> "slot", nth |-> k, node |-> s[k]] : k \in DOMAIN s}
    BY <1>1
  <1>2. CASE u \in {[by |-> p, for |-> f, nth |-> i, node |-> t[i][f]] :
                       f \in {"t", "page1", "page2"},
                       i \in {k \in Indices : t[k] # NULL /\ t[k].end = 0}}
    <2>1. PICK f \in {"t", "page1", "page2"}, i \in {k \in Indices : t[k] # NULL /\ t[k].end = 0} :
                  u = [by |-> p, for |-> f, nth |-> i, node |-> t[i][f]]
      BY <1>2
    <2> QED BY <2>1
  <1>3. CASE u \in {[by |-> p, for |-> "heap", nth |-> k, node |-> e[k]] : k \in DOMAIN e}
    BY <1>3
  <1> QED BY <1>1, <1>2, <1>3 DEF UsesFrom

\* A step that changes no block in use keeps them apart.
LEMMA BlocksKept ==
    ASSUME BlocksApart, UNCHANGED <<occupied, slot, thread, extents>>
    PROVE  BlocksApart'
  <1>1. \A p : Existing(p)' = Existing(p)
    BY DEF Existing
  <1>2. \A p : Uses(p)' = Uses(p)
    <2>1. ASSUME NEW p PROVE Uses(p)' = Uses(p)
      BY UsesAre
    <2> QED BY <2>1
  <1>3. (UNION {Uses(p) : p \in Pids})' = UNION {Uses(p) : p \in Pids}
    BY <1>2
  <1>4. UsesApart(UNION {Uses(p) : p \in Pids}, occupied)'
    BY <1>3 DEF BlocksApart, UsesApart
  <1> QED BY <1>1, <1>4 DEF BlocksApart

\* The blocks of main() are apart.
LEMMA InitBlocks ==
    ASSUME MemInit
    PROVE  BlocksApart
  <1> DEFINE r == allocPage(createHeap, BootPages)
             V == UNION {Uses(p) : p \in Pids}
             offset(p) == IF p = InitPid THEN 0 ELSE 5
  <1>1. /\ Granted(r) /\ BootPages \in Seq(Nat) /\ DOMAIN r.nodes = 1 .. 10 /\ occupied = r.marks
    BY BootIs DEF MemInit
  <1>2. InitPid \in Pids /\ ShellPid \in Pids /\ InitPid # ShellPid
    BY MemoryAssumption
  <1>3. ASSUME NEW p \in {InitPid, ShellPid}
        PROVE  /\ \A u \in Uses(p) : u.by = p /\ SpotOf(u) \in 1 .. 5
                                     /\ u.node = r.nodes[offset(p) + SpotOf(u)]
               /\ \A u, v \in Uses(p) : SpotOf(u) = SpotOf(v) => u = v
               /\ \A i \in Existing(p) : thread[p][i].end = 0
    <2>1. /\ slot[p] = <<r.nodes[offset(p) + 1], r.nodes[offset(p) + 5]>>
          /\ thread[p][0] = [t |-> r.nodes[offset(p) + 2], page1 |-> r.nodes[offset(p) + 3],
                             page2 |-> r.nodes[offset(p) + 4], end |-> 0]
          /\ \A i \in Indices \ {0} : thread[p][i] = NULL
      BY BornIs
    <2>2. extents[p] = <<>>
      BY <1>2 DEF MemInit
    <2>3. offset(p) \in Nat
      OBVIOUS
    <2>4. Uses(p) = UsesFrom(p, slot[p], thread[p], <<>>)
      BY <2>2, UsesAre
    <2>5. \A i \in Existing(p) : thread[p][i].end = 0
      BY <2>1 DEF Existing
    <2> DEFINE n == r.nodes
               o == offset(p)
               s == slot[p]
               t == thread[p]
    <2>6. o \in Nat /\ IsNew(n, o, s, t)
      BY <2>1, <2>3 DEF IsNew
    <2> HIDE DEF n, o, s, t
    <2>7. FiveUses(UsesFrom(p, s, t, <<>>), p, n, o)
      BY <2>6, UsesOfNew
    <2> QED BY <2>4, <2>5, <2>7 DEF n, o, s, t, FiveUses
  <1>4. ASSUME NEW p \in Pids \ {InitPid, ShellPid}
        PROVE  Uses(p) = {} /\ Existing(p) = {}
    <2>1. slot[p] = <<>> /\ extents[p] = <<>> /\ thread[p] = [i \in Indices |-> NULL]
      BY UnbornIs
    <2>2. Existing(p) = {}
      BY <2>1 DEF Existing
    <2>3. Uses(p) = {}
      BY <2>1, <2>2 DEF Uses
    <2> QED BY <2>2, <2>3
  <1> DEFINE f == [u \in V |-> offset(u.by) + SpotOf(u)]
  <1>5. ASSUME NEW u \in V
        PROVE  /\ u.by \in {InitPid, ShellPid} /\ u \in Uses(u.by)
               /\ f[u] \in 1 .. 10 /\ u.node = r.nodes[f[u]]
    <2>1. PICK p \in Pids : u \in Uses(p)
      OBVIOUS
    <2>2. p \in {InitPid, ShellPid}
      BY <1>4, <2>1
    <2> HIDE DEF r, V
    <2>3. u.by = p /\ SpotOf(u) \in 1 .. 5 /\ u.node = r.nodes[offset(p) + SpotOf(u)]
      BY <1>3, <2>1, <2>2
    <2> QED BY <2>1, <2>2, <2>3
  <1>6. ASSUME NEW u \in V, NEW v \in V, u # v PROVE f[u] # f[v]
    <2>1. /\ SpotOf(u) \in 1 .. 5 /\ SpotOf(v) \in 1 .. 5
          /\ u.by = v.by => SpotOf(u) # SpotOf(v)
          /\ u.by \in {InitPid, ShellPid} /\ v.by \in {InitPid, ShellPid}
      <3> HIDE DEF V, f
      <3> QED BY <1>3, <1>5, <1>6
    <2>2. f[u] = offset(u.by) + SpotOf(u) /\ f[v] = offset(v.by) + SpotOf(v)
      OBVIOUS
    <2> HIDE DEF f
    <2> QED BY <1>2, <2>1, <2>2
  <1>7. UsesApart({}, createHeap)
    BY HeapIs DEF UsesApart
  <1>8. f \in [V \ {} -> DOMAIN r.nodes]
    <2>1. f = [u \in V |-> f[u]]
      OBVIOUS
    <2> HIDE DEF f, V, r
    <2> QED BY <1>1, <1>5, <2>1
  <1>9. UsesApart(V, r.marks)
    <2> HIDE DEF f, V, r
    <2>1. \A u \in V \ {} : u.node = r.nodes[f[u]]
      BY <1>5
    <2>2. \A u, v \in V \ {} : u # v => f[u] # f[v]
      BY <1>6
    <2>3. OwnBlocks(f, {}, V, r)
      BY <1>8, <2>1, <2>2 DEF OwnBlocks
    <2>4. r = allocPage(createHeap, BootPages)
      BY DEF r
    <2> QED BY <1>1, <1>7, <2>3, <2>4, HeapIs, UsesStayApart
  <1>10. \A p \in Pids : \A i \in Existing(p) : thread[p][i].end = 0
    BY <1>3, <1>4
  <1> QED BY <1>1, <1>9, <1>10 DEF BlocksApart

\* The blocks of a new process are apart from those in use.
LEMMA CreateProcessBlocks ==
    ASSUME TableInv, BlocksApart, NEW p \in Pids, createProcess(p)
    PROVE  BlocksApart'
  <1> DEFINE r == allocPage(occupied, ProcessPages)
             T == Thread(SubSeq(r.nodes, 2, 4))
             U == UNION {Uses(q) : q \in Pids}
             V == UNION {Uses(q)' : q \in Pids}
  <1>1. /\ occupied \in Arrays /\ slot \in [Pids -> Seq(Nodes)]
        /\ thread \in [Pids -> [Indices -> ThreadRecords]]
    BY TypesAre DEF TableInv
  <1>2. /\ Granted(r) /\ occupied' = r.marks
        /\ slot' = [slot EXCEPT ![p] = <<r.nodes[1], r.nodes[5]>>]
        /\ thread' = [thread EXCEPT ![p][0] = T] /\ extents' = extents /\ state[p] = "UNBORN"
    BY DEF createProcess, Allocates
  <1>3. ProcessPages \in Seq(Nat) /\ Len(ProcessPages) = 5
    BY DEF ProcessPages
  <1>4. DOMAIN r.nodes = 1 .. 5 /\ r.nodes \in Seq(Nodes) /\ Len(r.nodes) = 5
    BY <1>1, <1>2, <1>3, GrantedIs
  <1> HIDE DEF r
  <1>5. /\ T = [t |-> r.nodes[2], page1 |-> r.nodes[3], page2 |-> r.nodes[4], end |-> 0]
    <2>1. 2 \in Nat \ {0} /\ 2 + 2 =< Len(r.nodes) /\ 2 + 2 = 4 /\ 2 + 1 = 3
      BY <1>4
    <2>2. Thread(SubSeq(r.nodes, 2, 2 + 2)) =
             [t |-> r.nodes[2], page1 |-> r.nodes[2 + 1], page2 |-> r.nodes[2 + 2], end |-> 0]
      BY <1>4, <2>1, ThreadIs
    <2> QED BY <2>1, <2>2
  <1> HIDE DEF T
  <1>6. /\ slot'[p] = <<r.nodes[1], r.nodes[5]>> /\ thread'[p][0] = T /\ extents'[p] = <<>>
        /\ \A i \in Indices \ {0} : thread'[p][i] = NULL
        /\ \A q \in Pids \ {p} : slot'[q] = slot[q] /\ thread'[q] = thread[q]
                                 /\ extents'[q] = extents[q]
    <2>1. extents[p] = <<>> /\ \A i \in Indices : thread[p][i] = NULL
      BY <1>2 DEF TableInv, UnbornBlank
    <2>2. thread'[p][0] = T /\ \A i \in Indices \ {0} : thread'[p][i] = thread[p][i]
      BY <1>1, <1>2, TableBasics
    <2>3. slot'[p] = <<r.nodes[1], r.nodes[5]>>
      BY <1>1, <1>2
    <2>4. \A q \in Pids \ {p} : slot'[q] = slot[q] /\ thread'[q] = thread[q]
      BY <1>1, <1>2
    <2> QED BY <1>2, <2>1, <2>2, <2>3, <2>4
  <1>7. /\ \A u \in Uses(p)' : u.by = p /\ SpotOf(u) \in 1 .. 5 /\ u.node = r.nodes[SpotOf(u)]
        /\ \A u, v \in Uses(p)' : SpotOf(u) = SpotOf(v) => u = v
    <2>1. Uses(p)' = UsesFrom(p, slot'[p], thread'[p], <<>>)
      BY <1>6, UsesAre
    <2>2. /\ slot'[p] = <<r.nodes[0 + 1], r.nodes[0 + 5]>> /\ 0 \in Nat
          /\ thread'[p][0] = [t |-> r.nodes[0 + 2], page1 |-> r.nodes[0 + 3],
                              page2 |-> r.nodes[0 + 4], end |-> 0]
      BY <1>5, <1>6
    <2> DEFINE n == r.nodes
               s == slot'[p]
               t == thread'[p]
    <2>3. 0 \in Nat /\ IsNew(n, 0, s, t)
      BY <1>6, <2>2 DEF IsNew
    <2> HIDE DEF n, s, t
    <2>4. FiveUses(UsesFrom(p, s, t, <<>>), p, n, 0)
      BY <2>3, UsesOfNew
    <2>5. /\ \A u \in UsesFrom(p, s, t, <<>>) :
                 u.by = p /\ SpotOf(u) \in 1 .. 5 /\ u.node = n[SpotOf(u)]
          /\ \A u, v \in UsesFrom(p, s, t, <<>>) : SpotOf(u) = SpotOf(v) => u = v
      <3>1. \A k \in 1 .. 5 : 0 + k = k
        OBVIOUS
      <3> QED BY <2>4, <3>1 DEF FiveUses
    <2> QED BY <2>1, <2>5 DEF n, s, t
  <1>8. \A q \in Pids \ {p} : Uses(q)' = Uses(q)
    <2>1. ASSUME NEW q \in Pids \ {p} PROVE Uses(q)' = Uses(q)
      BY <1>6, UsesAre
    <2> QED BY <2>1
  <1>9. \A u \in V \ U : u \in Uses(p)'
    BY <1>8
  <1> DEFINE f == [u \in V \ U |-> SpotOf(u)]
  <1>10. UsesApart(V, r.marks)
    <2>1. UsesApart(U, occupied)
      BY DEF BlocksApart
    <2> HIDE DEF U, V
    <2>2. f \in [V \ U -> DOMAIN r.nodes]
      BY <1>4, <1>7, <1>9
    <2>3. \A u \in V \ U : u.node = r.nodes[f[u]]
      BY <1>7, <1>9
    <2>4. \A u, v \in V \ U : u # v => f[u] # f[v]
      BY <1>7, <1>9
    <2> HIDE DEF f
    <2>5. OwnBlocks(f, U, V, r)
      BY <2>2, <2>3, <2>4 DEF OwnBlocks
    <2>6. r = allocPage(occupied, ProcessPages)
      BY DEF r
    <2> QED BY <1>1, <1>2, <1>3, <2>1, <2>5, <2>6, UsesStayApart
  <1>11. ASSUME NEW q \in Pids, NEW i \in Existing(q)' PROVE thread'[q][i].end = 0
    <2>1. CASE q = p
      <3>1. i = 0
        BY <1>6, <2>1 DEF Existing
      <3> QED BY <1>5, <1>6, <2>1, <3>1
    <2>2. CASE q # p
      <3>1. i \in Existing(q)
        BY <1>6, <2>2 DEF Existing
      <3> QED BY <1>6, <2>2, <3>1 DEF BlocksApart
    <2> QED BY <2>1, <2>2
  <1>12. UsesApart(UNION {Uses(q) : q \in Pids}, occupied)'
    BY <1>2, <1>10 DEF UsesApart
  <1> QED BY <1>11, <1>12 DEF BlocksApart

\* The list of ps takes a block, and nobody keeps track of it.
LEMMA GetCurrentProcessesBlocks ==
    ASSUME TableInv, BlocksApart, getCurrentProcesses
    PROVE  BlocksApart'
  <1> DEFINE r == allocPage(occupied, <<1>>)
             U == UNION {Uses(q) : q \in Pids}
             f == [u \in {} |-> 0]
  <1>1. occupied \in Arrays /\ <<1>> \in Seq(Nat)
    BY TypesAre DEF TableInv
  <1>2. Granted(r) /\ occupied' = r.marks /\ UNCHANGED <<slot, thread, extents>>
    BY DEF getCurrentProcesses, Allocates
  <1>3. UsesApart(U, r.marks)
    <2>1. UsesApart(U, occupied)
      BY DEF BlocksApart
    <2>2. f \in [U \ U -> DOMAIN r.nodes] /\ U \ U = {}
      OBVIOUS
    <2>3. OwnBlocks(f, U, U, r)
      BY <2>2 DEF OwnBlocks
    <2> HIDE DEF U, f, r
    <2>4. r = allocPage(occupied, <<1>>)
      BY DEF r
    <2> QED BY <1>1, <1>2, <2>1, <2>3, <2>4, UsesStayApart
  <1>4. \A q : Existing(q)' = Existing(q)
    BY <1>2 DEF Existing
  <1>5. (UNION {Uses(q) : q \in Pids})' = U
    <2>1. ASSUME NEW q PROVE Uses(q)' = Uses(q)
      BY <1>2, UsesAre
    <2> QED BY <2>1
  <1>6. UsesApart(UNION {Uses(q) : q \in Pids}, occupied)'
    BY <1>2, <1>3, <1>5 DEF UsesApart
  <1> QED BY <1>2, <1>4, <1>6 DEF BlocksApart

\* The blocks of a new thread are apart from those in use, whether it gets a slot or not.
LEMMA CreateThreadBlocks ==
    ASSUME TableInv, BlocksApart, createThread
    PROVE  BlocksApart'
  <1>0. PICK c \in Pids : c = current
    BY TypesAre DEF TableInv
  <1> DEFINE requests == <<1, 2, 2>>
             r == allocPage(occupied, requests)
             T == Thread(r.nodes)
             s == Min(FreeSpots(c))
             U == UNION {Uses(q) : q \in Pids}
             V == UNION {Uses(q)' : q \in Pids}
  <1>1. /\ occupied \in Arrays /\ thread \in [Pids -> [Indices -> ThreadRecords]]
    BY TypesAre DEF TableInv
  <1>2. /\ Granted(r) /\ occupied' = r.marks /\ slot' = slot /\ extents' = extents
    BY DEF createThread, Allocates
  <1>3. requests \in Seq(Nat) /\ Len(requests) = 3
    OBVIOUS
  <1> HIDE DEF requests
  <1>4. DOMAIN r.nodes = 1 .. 3 /\ r.nodes \in Seq(Nodes) /\ Len(r.nodes) = 3
    BY <1>1, <1>2, <1>3, GrantedIs
  <1>9. r = allocPage(occupied, requests)
    OBVIOUS
  <1> HIDE DEF r
  <1>5. T = [t |-> r.nodes[1], page1 |-> r.nodes[2], page2 |-> r.nodes[3], end |-> 0]
    BY DEF Thread
  <1>6. UsesApart(U, occupied)
    BY DEF BlocksApart
  <1>7. CASE FreeSpots(c) = {}
    <2>1. thread' = thread
      BY <1>0, <1>7 DEF createThread
    <2>2. V = U
      <3>1. ASSUME NEW q \in Pids PROVE Uses(q)' = Uses(q)
        BY <1>2, <2>1, UsesAre
      <3> QED BY <3>1
    <2> DEFINE f == [u \in {} |-> 0]
    <2>3. f \in [V \ U -> DOMAIN r.nodes] /\ V \ U = {}
      BY <2>2
    <2> HIDE DEF U, V, f
    <2>4. UsesApart(V, r.marks)
      <3>1. OwnBlocks(f, U, V, r)
        BY <2>3 DEF OwnBlocks
      <3> QED BY <1>1, <1>2, <1>3, <1>9, <1>6, <3>1, UsesStayApart
    <2>5. UsesApart(UNION {Uses(q) : q \in Pids}, occupied)'
      BY <1>2, <2>4 DEF UsesApart, V
    <2>6. \A q : Existing(q)' = Existing(q)
      BY <2>1 DEF Existing
    <2> QED BY <2>1, <2>5, <2>6 DEF BlocksApart
  <1>8. CASE FreeSpots(c) # {}
    <2>1. thread' = [thread EXCEPT ![c][s] = T]
      BY <1>0, <1>8 DEF createThread, r, requests
    <2>2. s \in Indices /\ thread[c][s] = NULL
      <3>1. FreeSpots(c) \in SUBSET Nat /\ FreeSpots(c) \subseteq Indices \ Existing(c)
        BY TableBasics, MemoryAssumption DEF FreeSpots
      <3>2. s \in Indices \ Existing(c)
        BY <1>8, <3>1, MinIs
      <3> QED BY <3>2 DEF Existing
    <2> HIDE DEF s, T
    <2>3. /\ thread'[c][s] = T
          /\ \A i \in Indices \ {s} : thread'[c][i] = thread[c][i]
          /\ \A q \in Pids \ {c} : thread'[q] = thread[q]
      <3>1. thread'[c][s] = T /\ \A i \in Indices \ {s} : thread'[c][i] = thread[c][i]
        BY <1>1, <2>1, <2>2
      <3> QED BY <1>1, <2>1, <3>1
    <2> DEFINE x == [by |-> c, for |-> "t", nth |-> s, node |-> r.nodes[1]]
               y == [by |-> c, for |-> "page1", nth |-> s, node |-> r.nodes[2]]
               z == [by |-> c, for |-> "page2", nth |-> s, node |-> r.nodes[3]]
    <2>4. ASSUME NEW u \in Uses(c)' PROVE u \in Uses(c) \/ u \in {x, y, z}
      <3> DEFINE sl == slot[c]
                 ex == extents[c]
                 t0 == thread[c]
                 t1 == thread'[c]
      <3>1. Uses(c) = UsesFrom(c, sl, t0, ex) /\ Uses(c)' = UsesFrom(c, sl, t1, ex)
        BY <1>2, UsesAre
      <3>2. t1[s] = T /\ \A i \in Indices \ {s} : t1[i] = t0[i]
        BY <2>3
      <3>3. t1[s].t = r.nodes[1] /\ t1[s].page1 = r.nodes[2] /\ t1[s].page2 = r.nodes[3]
        BY <1>5, <3>2
      <3> HIDE DEF sl, ex, t0, t1
      <3>4. CASE u \in {[by |-> c, for |-> "slot", nth |-> k, node |-> sl[k]] : k \in DOMAIN sl}
        BY <3>1, <3>4 DEF UsesFrom
      <3>5. CASE u \in {[by |-> c, for |-> "heap", nth |-> k, node |-> ex[k]] : k \in DOMAIN ex}
        BY <3>1, <3>5 DEF UsesFrom
      <3>6. CASE u \in {[by |-> c, for |-> f, nth |-> i, node |-> t1[i][f]] :
                       f \in {"t", "page1", "page2"},
                       i \in {k \in Indices : t1[k] # NULL /\ t1[k].end = 0}}
        <4>1. PICK f \in {"t", "page1", "page2"},
                   i \in {k \in Indices : t1[k] # NULL /\ t1[k].end = 0} :
                  u = [by |-> c, for |-> f, nth |-> i, node |-> t1[i][f]]
          BY <3>6
        <4>2. CASE i # s
          <5>1. t1[i] = t0[i] /\ i \in {k \in Indices : t0[k] # NULL /\ t0[k].end = 0}
            BY <3>2, <4>2
          <5>2. u = [by |-> c, for |-> f, nth |-> i, node |-> t0[i][f]]
            BY <4>1, <5>1
          <5>3. u \in {[by |-> c, for |-> g, nth |-> j, node |-> t0[j][g]] :
                       g \in {"t", "page1", "page2"},
                       j \in {k \in Indices : t0[k] # NULL /\ t0[k].end = 0}}
            BY <5>1, <5>2
          <5> QED BY <3>1, <5>3 DEF UsesFrom
        <4>3. CASE i = s
          <5>1. u = [by |-> c, for |-> f, nth |-> s, node |-> t1[s][f]]
            BY <4>1, <4>3
          <5>2. (f = "t" => t1[s][f] = r.nodes[1]) /\ (f = "page1" => t1[s][f] = r.nodes[2])
                /\ (f = "page2" => t1[s][f] = r.nodes[3])
            BY <3>3
          <5> QED BY <5>1, <5>2
        <4> QED BY <4>2, <4>3
      <3> HIDE DEF x, y, z
      <3> QED BY <3>1, <3>4, <3>5, <3>6 DEF UsesFrom
    <2>5. /\ SpotOf(x) = 2 /\ SpotOf(y) = 3 /\ SpotOf(z) = 4
          /\ x.node = r.nodes[1] /\ y.node = r.nodes[2] /\ z.node = r.nodes[3]
      BY DEF SpotOf
    <2>6. \A q \in Pids \ {c} : Uses(q)' = Uses(q)
      <3>1. ASSUME NEW q \in Pids \ {c} PROVE Uses(q)' = Uses(q)
        BY <1>2, <2>3, UsesAre
      <3> QED BY <3>1
    <2> HIDE DEF x, y, z
    <2>7. \A u \in V \ U : u \in {x, y, z}
      BY <2>4, <2>6
    <2> DEFINE f == [u \in V \ U |-> SpotOf(u) - 1]
    <2>8. UsesApart(V, r.marks)
      <3> HIDE DEF U, V
      <3>1. \A u \in V \ U : f[u] \in 1 .. 3 /\ u.node = r.nodes[f[u]]
        BY <2>5, <2>7
      <3>2. f \in [V \ U -> DOMAIN r.nodes]
        BY <1>4, <3>1
      <3>3. \A u, v \in V \ U : u # v => f[u] # f[v]
        BY <2>5, <2>7
      <3> HIDE DEF f
      <3>4. OwnBlocks(f, U, V, r)
        BY <3>1, <3>2, <3>3 DEF OwnBlocks
      <3> QED BY <1>1, <1>2, <1>3, <1>9, <1>6, <3>4, UsesStayApart
    <2>9. ASSUME NEW q \in Pids, NEW i \in Existing(q)' PROVE thread'[q][i].end = 0
      <3>1. CASE q = c /\ i = s
        BY <1>5, <2>3, <3>1
      <3>2. CASE ~(q = c /\ i = s)
        <4>1. i \in Existing(q) /\ thread'[q][i] = thread[q][i]
          BY <2>3, <3>2 DEF Existing
        <4> QED BY <4>1 DEF BlocksApart
      <3> QED BY <3>1, <3>2
    <2>10. UsesApart(UNION {Uses(q) : q \in Pids}, occupied)'
      BY <1>2, <2>8 DEF UsesApart
    <2> QED BY <2>9, <2>10 DEF BlocksApart
  <1> QED BY <1>7, <1>8

\* The blocks a heap grows by are apart from those in use.
LEMMA MallockBlocks ==
    ASSUME TableInv, BlocksApart, NEW size \in Sizes, mallock(size)
    PROVE  BlocksApart'
  <1>0. PICK c \in Pids : c = current
    BY TypesAre DEF TableInv
  <1> DEFINE times == Extensions(size, 1)
             pages == NUMBER_OF_PAGES_TO_ALLOC(size + BLOCK_STRUCT_SIZE)
             requests == [k \in 1 .. times |-> pages]
             r == allocPage(occupied, requests)
             U == UNION {Uses(q) : q \in Pids}
             V == UNION {Uses(q)' : q \in Pids}
             ex == extents[c]
             L == Len(ex)
  <1>1. occupied \in Arrays /\ extents \in [Pids -> Seq(Nodes)]
    BY TypesAre DEF TableInv
  <1>2. /\ Granted(r) /\ occupied' = r.marks /\ slot' = slot /\ thread' = thread
        /\ extents' = [extents EXCEPT ![c] = ex \o r.nodes]
    <2>1. extents' = [extents EXCEPT ![current] = @ \o r.nodes]
      BY DEF mallock
    <2>2. extents' = [extents EXCEPT ![c] = ex \o r.nodes]
      <3> HIDE DEF r
      <3> QED BY <1>0, <2>1
    <2> QED BY <2>2 DEF mallock, Allocates
  <1>3. times \in Nat
    BY DEF Extensions
  <1> HIDE DEF times, pages
  <1>4. requests \in Seq({pages}) /\ Len(requests) = times
    BY <1>3
  <1> HIDE DEF requests
  <1>5. DOMAIN r.nodes = 1 .. times /\ r.nodes \in Seq(Nodes) /\ Len(r.nodes) = times
    BY <1>1, <1>2, <1>4, GrantedIs
  <1> HIDE DEF r
  <1>6. UsesApart(U, occupied)
    BY DEF BlocksApart
  <1>7. /\ ex \in Seq(Nodes) /\ L \in Nat /\ DOMAIN ex = 1 .. L
        /\ \A q \in Pids \ {c} : extents'[q] = extents[q]
        /\ extents'[c] = ex \o r.nodes
    BY <1>1, <1>2
  <1> HIDE DEF ex, L
  <1> DEFINE e1 == extents'[c]
  <1>8. /\ DOMAIN e1 = 1 .. L + times
        /\ \A k \in 1 .. L + times : e1[k] = IF k =< L THEN ex[k] ELSE r.nodes[k - L]
    <2>1. /\ ex \o r.nodes \in Seq(Nodes) /\ Len(ex \o r.nodes) = Len(ex) + Len(r.nodes)
          /\ \A k \in 1 .. Len(ex) + Len(r.nodes) :
                (ex \o r.nodes)[k] = IF k =< Len(ex) THEN ex[k] ELSE r.nodes[k - Len(ex)]
      BY <1>5, <1>7, ConcatProperties
    <2>2. Len(ex) = L /\ Len(r.nodes) = times
      BY <1>5 DEF L
    <2> QED BY <1>7, <2>1, <2>2
  <1>9. ASSUME NEW u \in Uses(c)'
        PROVE  \/ u \in Uses(c)
               \/ \E k \in L + 1 .. L + times :
                     u = [by |-> c, for |-> "heap", nth |-> k, node |-> r.nodes[k - L]]
    <2> DEFINE sl == slot[c]
               t0 == thread[c]
    <2>1. Uses(c) = UsesFrom(c, sl, t0, ex) /\ Uses(c)' = UsesFrom(c, sl, t0, e1)
      BY <1>2, UsesAre DEF ex
    <2> HIDE DEF sl, t0, e1
    <2>2. CASE u \in {[by |-> c, for |-> "slot", nth |-> k, node |-> sl[k]] : k \in DOMAIN sl}
      BY <2>1, <2>2 DEF UsesFrom
    <2>3. CASE u \in {[by |-> c, for |-> f, nth |-> i, node |-> t0[i][f]] :
                       f \in {"t", "page1", "page2"},
                       i \in {k \in Indices : t0[k] # NULL /\ t0[k].end = 0}}
      BY <2>1, <2>3 DEF UsesFrom
    <2>4. CASE u \in {[by |-> c, for |-> "heap", nth |-> k, node |-> e1[k]] : k \in DOMAIN e1}
      <3>1. PICK k \in DOMAIN e1 : u = [by |-> c, for |-> "heap", nth |-> k, node |-> e1[k]]
        BY <2>4
      <3>2. k \in 1 .. L + times
        BY <1>8
      <3>3. CASE k =< L
        <4>1. k \in DOMAIN ex /\ e1[k] = ex[k]
          BY <1>7, <1>8, <3>2, <3>3
        <4>2. u \in {[by |-> c, for |-> "heap", nth |-> j, node |-> ex[j]] : j \in DOMAIN ex}
          BY <3>1, <4>1
        <4> QED BY <2>1, <4>2 DEF UsesFrom
      <3>4. CASE ~(k =< L)
        <4>1. k \in L + 1 .. L + times /\ e1[k] = r.nodes[k - L]
          BY <1>3, <1>7, <1>8, <3>2, <3>4
        <4> QED BY <3>1, <4>1
      <3> QED BY <3>3, <3>4
    <2> QED BY <2>1, <2>2, <2>3, <2>4 DEF UsesFrom
  <1>10. \A q \in Pids \ {c} : Uses(q)' = Uses(q)
    <2>1. ASSUME NEW q \in Pids \ {c} PROVE Uses(q)' = Uses(q)
      BY <1>2, <1>7, UsesAre
    <2> QED BY <2>1
  <1>11. \A u \in V \ U : \E k \in L + 1 .. L + times :
            u = [by |-> c, for |-> "heap", nth |-> k, node |-> r.nodes[k - L]]
    BY <1>9, <1>10
  <1>12. ASSUME NEW u \in V \ U
         PROVE  /\ u.nth \in L + 1 .. L + times
                /\ u = [by |-> c, for |-> "heap", nth |-> u.nth, node |-> r.nodes[u.nth - L]]
                /\ u.node = r.nodes[u.nth - L]
    <2>1. PICK k \in L + 1 .. L + times :
            u = [by |-> c, for |-> "heap", nth |-> k, node |-> r.nodes[k - L]]
      BY <1>11
    <2>2. u.nth = k
      BY <2>1
    <2> QED BY <2>1, <2>2
  <1> DEFINE f == [u \in V \ U |-> u.nth - L]
  <1>13. UsesApart(V, r.marks)
    <2> HIDE DEF U, V
    <2>1. \A u \in V \ U : f[u] \in 1 .. times /\ u.node = r.nodes[f[u]]
      BY <1>3, <1>7, <1>12
    <2>2. f \in [V \ U -> DOMAIN r.nodes]
      BY <1>5, <2>1
    <2>3. ASSUME NEW u \in V \ U, NEW v \in V \ U, f[u] = f[v] PROVE u = v
      <3>1. u.nth \in L + 1 .. L + times /\ v.nth \in L + 1 .. L + times
        BY <1>12
      <3>2. u.nth - L = v.nth - L
        BY <2>3
      <3>3. u.nth = v.nth
        BY <1>3, <1>7, <3>1, <3>2
      <3>4. /\ u = [by |-> c, for |-> "heap", nth |-> u.nth, node |-> r.nodes[u.nth - L]]
            /\ v = [by |-> c, for |-> "heap", nth |-> v.nth, node |-> r.nodes[v.nth - L]]
        BY <1>12
      <3> QED BY <3>3, <3>4
    <2> HIDE DEF f
    <2>4. \A u, v \in V \ U : u # v => f[u] # f[v]
      BY <2>3
    <2>5. OwnBlocks(f, U, V, r)
      BY <2>1, <2>2, <2>4 DEF OwnBlocks
    <2>6. r = allocPage(occupied, requests)
      BY DEF r
    <2> QED BY <1>1, <1>2, <1>4, <1>6, <2>5, <2>6, UsesStayApart
  <1>14. \A q : Existing(q)' = Existing(q)
    BY <1>2 DEF Existing
  <1>15. UsesApart(UNION {Uses(q) : q \in Pids}, occupied)'
    BY <1>2, <1>13 DEF UsesApart
  <1> QED BY <1>2, <1>14, <1>15 DEF BlocksApart

\* Every step keeps the blocks apart, until the first thread gives its pages back.
LEMMA NextBlocks ==
    ASSUME MemInv, [MemNext]_vars, ended' = 0
    PROVE  BlocksApart'
  <1>0. TableInv /\ ended \in Nat /\ (ended = 0 => BlocksApart) /\ current \in Pids
        /\ active \in [Pids -> Indices]
    BY TypesAre DEF MemInv, TableInv
  <1>1. CASE UNCHANGED vars
    BY <1>0, <1>1, BlocksKept DEF vars
  <1>2. ASSUME NEW p \in Pids, createProcess(p) PROVE BlocksApart'
    BY <1>0, <1>2, CreateProcessBlocks DEF createProcess
  <1>3. ASSUME NEW p \in Pids, removeProcess(p) \/ timerTick(p) \/ yield(p) PROVE BlocksApart'
    BY <1>0, <1>3, BlocksKept DEF removeProcess, timerTick, yield
  <1>4. CASE getCurrentProcesses
    BY <1>0, <1>4, GetCurrentProcessesBlocks DEF getCurrentProcesses
  <1>5. CASE createThread
    BY <1>0, <1>5, CreateThreadBlocks DEF createThread
  <1>6. ASSUME NEW size \in Sizes, mallock(size) PROVE BlocksApart'
    BY <1>0, <1>6, MallockBlocks DEF mallock
  <1>7. ASSUME freeUserStack PROVE FALSE
    <2>1. ended' = ended + 1
      BY <1>7 DEF freeUserStack, deallocPage
    <2> QED BY <1>0, <2>1
  <1>9. CASE uncountThread
    BY <1>0, <1>9, BlocksKept DEF uncountThread
  <1>10. ASSUME freeUpRecursive PROVE FALSE
    <2>1. ended' = ended /\ freeing[current][active[current]].node # 1
      BY <1>10 DEF freeUpRecursive
    <2>2. thread[current][active[current]] # NULL /\ thread[current][active[current]].end # 0
          /\ active[current] \in Indices
      BY <1>0, <2>1 DEF TableInv, OnlyEndersFree
    <2> QED BY <1>0, <2>1, <2>2 DEF BlocksApart, Existing
  <1>8. ASSUME freeKernelStack \/ freeThread \/ terminateThread PROVE FALSE
    <2>1. ended' = ended /\ (Ending(1) \/ Ending(2) \/ Ending(3))
      BY <1>8 DEF freeKernelStack, freeThread, terminateThread, deallocPage
    <2>2. active[current] \in Existing(current) /\ thread[current][active[current]].end # 0
      BY <1>0, <2>1 DEF Ending, Existing
    <2> QED BY <1>0, <2>1, <2>2 DEF BlocksApart
  <1> QED BY <1>1, <1>2, <1>3, <1>4, <1>5, <1>6, <1>7, <1>8, <1>9, <1>10 DEF MemNext

-----------------------------------------------------------------------------
\* MemInv is an invariant, for every heap, number of processes and length of the table of
\* threads: the blocks in use are marked full and apart from each other until a thread
\* ends, and the table is counted and every thread near its turn all the time.
THEOREM MemoryInvariant == MemSpec => []MemInv
  <1>1. MemInit => MemInv
    BY InitTable, InitBlocks DEF MemInv, TableInv
  <1>2. MemInv /\ [MemNext]_vars => MemInv'
    <2> SUFFICES ASSUME MemInv, [MemNext]_vars PROVE MemInv'
      OBVIOUS
    <2>1. TableInv
      BY DEF MemInv, TableInv
    <2>2. TableInv'
      BY <2>1, NextTable
    <2>3. ended' = 0 => BlocksApart'
      BY NextBlocks
    <2> QED BY <2>2, <2>3 DEF MemInv, TableInv
  <1> QED BY <1>1, <1>2, PTL DEF MemSpec

\* In the calls of allocPage, whatever processes, threads, heaps and lists of ps they are
\* for, no page is given to two users, and none lacks a block: no two structures, stacks
\* or heaps of living processes overlap before the first thread ends.
THEOREM MemoryNoSharing == MemSpec => []NoSharing
  <1>1. MemInv => NoSharing
    <2> SUFFICES ASSUME MemInv, ended = 0 PROVE NoSharing
      BY DEF NoSharing, MemInv
    <2>1. UsesApart(UNION {Uses(p) : p \in Pids}, occupied)
      BY DEF MemInv, BlocksApart
    <2>2. ASSUME NEW p \in Living, NEW q \in Living, NEW u \in Uses(p), NEW v \in Uses(q), u # v
          PROVE  Pages(u.node) \cap Pages(v.node) = {}
      <3>1. p \in Pids /\ q \in Pids
        BY DEF Living
      <3>2. u.node \in Nodes /\ v.node \in Nodes /\ Apart(u.node, v.node)
        BY <2>1, <2>2, <3>1 DEF UsesApart
      <3> QED BY <3>2, PagesApart
    <2> QED BY <2>2 DEF NoSharing
  <1> QED BY <1>1, MemoryInvariant, PTL

\* occupied[i] = 0 means empty, as the declaration of the array says, as long as no thread
\* has ended: a block the search of allocPage would take has no page in use.
THEOREM MemoryEmptyIsEmpty == MemSpec => [](ended = 0 => EmptyIsEmpty)
  <1>1. MemInv => (ended = 0 => EmptyIsEmpty)
    <2> SUFFICES ASSUME MemInv, ended = 0 PROVE EmptyIsEmpty
      OBVIOUS
    <2>1. UsesApart(UNION {Uses(p) : p \in Pids}, occupied) /\ occupied \in Arrays
      BY TypesAre DEF MemInv, BlocksApart
    <2>2. ASSUME NEW i \in Nodes, occupied[i] = EMPTY, Visible(occupied, i),
                 NEW p \in Living, NEW u \in Uses(p)
          PROVE  Pages(i) \cap Pages(u.node) = {}
      <3>1. p \in Pids
        BY DEF Living
      <3>2. u.node \in Nodes /\ occupied[u.node] = BUDDY_FULL /\ MarksClosed(occupied)
        BY <2>1, <3>1 DEF UsesApart
      <3>3. Apart(i, u.node)
        BY <2>1, <2>2, <3>2, EmptyApart
      <3> QED BY <3>2, <3>3, PagesApart
    <2> QED BY <2>2 DEF EmptyIsEmpty
  <1> QED BY <1>1, MemoryInvariant, PTL

\* numberOfThreads counts the threads in the table and the one that is between the two
\* statements with which terminateThread takes it out of both, and the first thread stays,
\* through createThread with and without a free slot and terminateThread in any order.
THEOREM MemoryThreadsCounted == MemSpec => []ThreadsCounted
  <1>1. MemInv => ThreadsCounted
    <2> SUFFICES ASSUME MemInv PROVE ThreadsCounted
      OBVIOUS
    <2>1. ASSUME NEW p \in Living
          PROVE  number[p] = Cardinality(Existing(p)) + Uncounted(p) /\ 0 \in Existing(p)
      <3>1. p \in Pids /\ state[p] # "UNBORN"
        BY DEF Living
      <3> QED BY <3>1 DEF MemInv, AllCounted
    <2>2. leaving => thread[current][active[current]] = NULL
      BY DEF MemInv, LeaverOut
    <2> QED BY <2>1, <2>2 DEF ThreadsCounted, MemInv
  <1> QED BY <1>1, MemoryInvariant, PTL

\* nextThread starves no thread: the timer never dispatches a process MAX_THREADS times
\* without one of its threads, for a table of any length, with threads coming and going.
THEOREM MemoryTurns == MemSpec => []TurnsComeRound
  <1>1. MemInv => TurnsComeRound
    <2> SUFFICES ASSUME MemInv PROVE TurnsComeRound
      OBVIOUS
    <2>1. ASSUME NEW p \in Living, NEW i \in Existing(p) PROVE passed[p][i] < MAX_THREADS
      <3>1. p \in Pids /\ i \in Indices
        BY ExistingFinite DEF Living
      <3>2. passed[p][i] + Distance(p, i) =< MAX_THREADS /\ passed[p][i] \in Nat
        BY <3>1 DEF MemInv, TurnsNear
      <3>3. Distance(p, i) \in Nat /\ Distance(p, i) >= 1
        <4>1. i \in Nat /\ active[p] \in Nat /\ active[p] < MAX_THREADS /\ MAX_THREADS \in Nat
          BY <3>1, TableBasics, TypesAre DEF MemInv
        <4> QED BY <4>1 DEF Distance
      <3> QED BY <3>2, <3>3, TableBasics
    <2> QED BY <2>1 DEF TurnsComeRound
  <1> QED BY <1>1, MemoryInvariant, PTL

-----------------------------------------------------------------------------
(* The chain of the blocks of a heap.                                      *)

\* getLevel: as many pages as asked for fit in a block of that level.
LEMMA LevelSuffices ==
    ASSUME NEW pages \in Nat \ {0}
    PROVE  \E h \in Nat : getLevel(pages) = HeapLevel - h /\ (h =< HeapLevel => pages =< power[h])
  <1> DEFINE D == 1 .. pages
             prev == [n \in D \ {1} |-> (n + 1) \div 2]
             step == [n \in D \ {1} |-> [x \in Nat |-> 1 + x]]
             body(g, n) == IF n = 1 THEN 0 ELSE 1 + g[(n + 1) \div 2]
             e == CHOOSE g : g = [n \in D |-> body(g, n)]
  <1>0. \A n \in D \ {1} : (n + 1) \div 2 \in D /\ (n + 1) \div 2 < n /\ n =< 2 * ((n + 1) \div 2)
    OBVIOUS
  <1>1. /\ D \in SUBSET (0 .. pages) /\ {1} \in SUBSET D /\ 0 \in Nat /\ pages \in Nat
        /\ prev \in [D \ {1} -> D] /\ \A n \in D \ {1} : prev[n] < n
        /\ step \in [D \ {1} -> [Nat -> Nat]]
    <2>1. /\ D \in SUBSET (0 .. pages) /\ {1} \in SUBSET D /\ 0 \in Nat /\ pages \in Nat
          /\ step \in [D \ {1} -> [Nat -> Nat]]
      OBVIOUS
    <2>2. prev \in [D \ {1} -> D] /\ \A n \in D \ {1} : prev[n] < n
      <3> HIDE DEF D
      <3> QED BY <1>0
    <2> QED BY <2>1, <2>2
  <1>2. PICK f \in [D -> Nat] : IsDescent(f, D, {1}, 0, prev, step)
    <2> HIDE DEF D, prev, step
    <2> QED BY <1>1, DescentExists
  <1>3. ASSUME NEW g, \A n \in D : g[n] \in Nat, NEW n \in D
        PROVE  (IF n \in {1} THEN 0 ELSE step[n][g[prev[n]]]) = body(g, n)
    <2>1. CASE n = 1
      BY <2>1
    <2>2. CASE n # 1
      <3>1. prev[n] = (n + 1) \div 2 /\ prev[n] \in D
        <4> HIDE DEF D
        <4> QED BY <1>0, <2>2
      <3>2. g[prev[n]] \in Nat
        BY <1>3, <3>1
      <3>3. step[n][g[prev[n]]] = 1 + g[prev[n]]
        <4> HIDE DEF D, prev
        <4> QED BY <2>2, <3>2
      <3> HIDE DEF step, prev, D
      <3> QED BY <2>2, <3>1, <3>3
    <2> QED BY <2>1, <2>2
  <1>4. f = [n \in D |-> body(f, n)]
    <2>1. \A n \in D : f[n] = body(f, n)
      <3> HIDE DEF D, prev, step, body
      <3> QED BY <1>2, <1>3 DEF IsDescent
    <2>2. f = [n \in D |-> f[n]]
      BY <1>2
    <2> HIDE DEF body, D
    <2> QED BY <2>1, <2>2
  <1>5. e = [n \in D |-> body(e, n)]
    <2> HIDE DEF body, D
    <2> QED BY <1>4
  <1>6. getLevel(pages) = HeapLevel - e[pages]
    BY DEF getLevel
  <1> HIDE DEF e
  <1>7. \A n \in D : e[n] = body(e, n)
    <2> DEFINE h == [n \in D |-> body(e, n)]
    <2> HIDE DEF body, D
    <2>1. \A n \in D : h[n] = body(e, n)
      OBVIOUS
    <2>2. e = h
      BY <1>5
    <2> HIDE DEF h
    <2> QED BY <2>1, <2>2
  <1> DEFINE Good(n) == e[n] \in Nat /\ (e[n] =< HeapLevel => n =< power[e[n]])
             Bad == {n \in D : ~Good(n)}
  <1>8. Bad = {}
    <2>1. SUFFICES ASSUME Bad # {} PROVE FALSE
      OBVIOUS
    <2>2. PICK n \in Bad : \A y \in Bad : n =< y
      <3>1. Bad \in SUBSET Nat
        OBVIOUS
      <3> HIDE DEF Bad
      <3> QED BY <2>1, <3>1, LeastExists
    <2>3. n \in D /\ n \in Nat /\ ~Good(n)
      <3> HIDE DEF Good
      <3> QED OBVIOUS
    <2>4. n # 1
      <3>1. e[1] = 0
        BY <1>7
      <3>2. HeapLevel \in Nat /\ power[0] = 1
        BY BuddyAssumption, PowerIs
      <3> QED BY <2>3, <3>1, <3>2
    <2> DEFINE k == (n + 1) \div 2
    <2>5. k \in D /\ k < n /\ n =< 2 * k /\ k \in Nat
      BY <1>0, <2>3, <2>4
    <2>6. e[n] = 1 + e[k]
      BY <1>7, <2>3, <2>4
    <2> HIDE DEF k
    <2>7. Good(k)
      <3> HIDE DEF Good, D
      <3> QED BY <2>2, <2>3, <2>5
    <2>8. e[n] \in Nat /\ e[k] \in Nat
      BY <2>6, <2>7
    <2>9. ASSUME e[n] =< HeapLevel PROVE n =< power[e[n]]
      <3>0. HeapLevel \in Nat
        BY BuddyAssumption
      <3> DEFINE x == e[n]
                 y == e[k]
      <3>1. y =< HeapLevel /\ x \in 1 .. HeapLevel /\ y \in 0 .. HeapLevel /\ x - 1 = y
        <4>1. x = 1 + y /\ x \in Nat /\ y \in Nat /\ x =< HeapLevel
          BY <2>6, <2>8, <2>9
        <4> HIDE DEF x, y
        <4> QED BY <3>0, <4>1
      <3>2. power[e[n]] = 2 * power[e[k]] /\ power[e[k]] \in Nat
        BY <3>1, PowerIs
      <3>3. k =< power[e[k]]
        BY <2>7, <3>1
      <3> QED BY <2>3, <2>5, <3>2, <3>3
    <2> QED BY <2>3, <2>8, <2>9
  <1>9. Good(pages)
    <2> HIDE DEF Good
    <2> QED BY <1>8
  <1> QED BY <1>6, <1>9

\* The level of what the search finds is the one it looks on.
LEMMA SearchLevel ==
    ASSUME NEW occ \in Arrays, NEW lv, Search(occ, lv) # 0
    PROVE  level[Search(occ, lv)] = lv
  <1> DEFINE found == {i \in Nodes : level[i] = lv /\ occ[i] = EMPTY /\ Visible(occ, i)}
  <1>1. found # {} /\ Search(occ, lv) = Min(found)
    BY DEF Search
  <1>2. found \in SUBSET Nat
    BY NodesAre
  <1>3. Min(found) \in found
    <2> HIDE DEF found
    <2> QED BY <1>1, <1>2, MinIs
  <1> QED BY <1>1, <1>3

\* allocPage: every block handed out is on the level of the pages asked for.
LEMMA AllocLevels ==
    ASSUME NEW occ \in Arrays, NEW R, NEW requests \in Seq(R), NEW r,
           r = allocPage(occ, requests), Granted(r)
    PROVE  \A k \in 1 .. Len(requests) : level[r.nodes[k]] = getLevel(requests[k])
  <1>1. PICK f : IsCalls(f, occ, requests) /\ allocPage(occ, requests) = f[Len(requests)]
    BY AllocIs
  <1> DEFINE L == Len(requests)
             Made(n) == /\ Len(f[n].nodes) = n
                        /\ \A j \in 1 .. n :
                              f[n].nodes[j] # 0 => level[f[n].nodes[j]] = getLevel(requests[j])
             Bad == {n \in 0 .. L : ~Made(n)}
  <1>0. L \in Nat
    OBVIOUS
  <1>3. SUFFICES ASSUME Bad # {} PROVE FALSE
    <2>1. Made(L)
      BY <1>0, <1>3
    <2>2. r = f[L] /\ DOMAIN r.nodes = 1 .. L
      BY <1>1, GrantedIs
    <2> HIDE DEF L
    <2> QED BY <2>1, <2>2 DEF Granted, L
  <1>4. PICK n \in Bad : \A y \in Bad : n =< y
    <2>1. Bad \in SUBSET Nat
      OBVIOUS
    <2> HIDE DEF Bad
    <2> QED BY <1>3, <2>1, LeastExists
  <1>5. n # 0
    <2>1. f[0].nodes = <<>>
      BY <1>1 DEF IsCalls
    <2> QED BY <1>4, <2>1
  <1>6. n \in 1 .. L /\ n - 1 \in 0 .. L /\ n - 1 < n /\ n \in Nat
    BY <1>0, <1>4, <1>5
  <1>7. n - 1 \notin Bad
    <2> HIDE DEF Bad
    <2> QED BY <1>4, <1>6
  <1>8. Made(n - 1)
    BY <1>6, <1>7
  <1>9. f[n] = NextCall(f[n - 1], requests[n]) /\ f[n - 1] \in Handed
    BY <1>1, <1>6 DEF IsCalls
  <1>10. f[n - 1].nodes \in Seq(Nodes \cup {0}) /\ f[n - 1].marks \in Arrays
    BY <1>9 DEF Handed
  <1>11. Made(n)
    <2> DEFINE s == Search(f[n - 1].marks, getLevel(requests[n]))
               q == f[n - 1].nodes
    <2>1. s \in Nodes \cup {0} /\ (s # 0 => level[s] = getLevel(requests[n]))
      BY <1>10, SearchIsNode, SearchLevel
    <2>2. f[n].nodes = Append(q, s)
      BY <1>9 DEF NextCall
    <2>3. q \in Seq(Nodes \cup {0}) /\ Len(q) = n - 1
      BY <1>8, <1>10
    <2>4. \A j \in 1 .. n - 1 : q[j] # 0 => level[q[j]] = getLevel(requests[j])
      BY <1>8
    <2> HIDE DEF s, q
    <2>5. Len(Append(q, s)) = n /\ \A j \in 1 .. n : Append(q, s)[j] = IF j = n THEN s ELSE q[j]
      BY <1>6, <2>1, <2>3
    <2> QED BY <1>6, <2>1, <2>2, <2>4, <2>5
  <1> QED BY <1>4, <1>11

\* A quotient is a number the divisor of which goes into y that often.
LEMMA DivIs ==
    ASSUME NEW y \in Nat, NEW p \in Nat \ {0}
    PROVE  y \div p \in Int /\ (y \div p) * p =< y /\ y < (y \div p) * p + p
  <1>1. y \div p \in Int
    OBVIOUS
  <1>2. (y \div p) * p =< y
    BY SMTT(60)
  <1>3. y < (y \div p) * p + p
    BY SMTT(60)
  <1> QED BY <1>1, <1>2, <1>3

\* Rounding up to whole words and to whole pages.
LEMMA AlignIs ==
    ASSUME NEW size \in Nat \ {0}
    PROVE  align4(size) \in Nat \ {0} /\ size =< align4(size)
  BY DEF align4

\* A quotient rounded up covers what was divided.
LEMMA RoundsUp ==
    ASSUME NEW x \in Nat \ {0}
    PROVE  /\ NUMBER_OF_PAGES_TO_ALLOC(x) \in Nat \ {0}
           /\ x =< NUMBER_OF_PAGES_TO_ALLOC(x) * PAGE_SIZE
  <1>0. PAGE_SIZE \in Nat \ {0}
    BY MemoryAssumption
  <1> DEFINE y == x + PAGE_SIZE - 1
             q == y \div PAGE_SIZE
  <1>1. y \in Nat /\ y >= PAGE_SIZE
    BY <1>0
  <1> HIDE DEF y
  <1>2. q \in Int /\ q * PAGE_SIZE =< y /\ y < q * PAGE_SIZE + PAGE_SIZE
    BY <1>0, <1>1, DivIs DEF q
  <1> HIDE DEF q
  <1>3. q * PAGE_SIZE >= x
    BY <1>0, <1>2 DEF y
  <1>4. q \in Nat \ {0}
    <2>1. SUFFICES ASSUME q =< 0 PROVE FALSE
      BY <1>2
    <2> DEFINE z == 0 - q
    <2>2. z \in Nat /\ q = 0 - z
      BY <1>2, <2>1
    <2> HIDE DEF z
    <2>3. z * PAGE_SIZE \in Nat /\ q * PAGE_SIZE = 0 - z * PAGE_SIZE
      BY <1>0, <2>2
    <2> QED BY <1>3, <2>3
  <1> QED BY <1>3, <1>4 DEF q, y, NUMBER_OF_PAGES_TO_ALLOC

\* More pages, more bytes.
LEMMA TimesKeepsOrder ==
    ASSUME NEW a \in Nat, NEW b \in Nat, NEW c \in Nat, a =< b
    PROVE  a * c \in Nat /\ a * c =< b * c
  <1> DEFINE d == b - a
  <1>1. d \in Nat /\ b = a + d
    OBVIOUS
  <1> HIDE DEF d
  <1>2. a * c \in Nat /\ d * c \in Nat /\ b * c = a * c + d * c
    BY <1>1
  <1> QED BY <1>2

\* How many pages a block of the tree has.
LEMMA PagesCounted ==
    ASSUME NEW node \in Nodes
    PROVE  Cardinality(Pages(node)) = power[HeapLevel - level[node]]
  <1> DEFINE a == base(node)
             n == power[HeapLevel - level[node]]
  <1>1. a \in Nat /\ n \in Nat \ {0}
    BY PagesAre
  <1>2. Pages(node) = a .. a + n - 1
    BY DEF Pages
  <1> HIDE DEF a, n
  <1>3. Cardinality(a .. a + n - 1) = n
    <2> DEFINE b == a + n - 1
    <2>1. a \in Int /\ b \in Int /\ ~(a > b) /\ b - a + 1 = n
      BY <1>1
    <2> HIDE DEF b
    <2>2. Cardinality(a .. b) = IF a > b THEN 0 ELSE b - a + 1
      BY <2>1, FS_Interval
    <2> QED BY <2>1, <2>2 DEF b
  <1> QED BY <1>2, <1>3 DEF n

\* What the chain of a heap is made of.
HeapBlocks == [at : Nat, size : Nat, free : BOOLEAN, asked : Nat]

\* The constants of the heap.
LEMMA HeapBasics ==
    /\ PAGE_SIZE \in Nat \ {0} /\ BLOCK_STRUCT_SIZE \in Nat
    /\ \A size \in Sizes : size \in Nat \ {0}
  BY MemoryAssumption

\* extendHeap: the new block starts its pages and has room for what is asked.
LEMMA ExtensionIs ==
    ASSUME NEW size \in Sizes, NEW node \in Nodes
    PROVE  /\ extension(size, node) \in HeapBlocks
           /\ extension(size, node).at = StartOf(node)
           /\ extension(size, node).asked = 0
           /\ extension(size, node).size >= size /\ extension(size, node).size > 0
           /\ EndOf(extension(size, node)) =
                StartOf(node) + NUMBER_OF_PAGES_TO_ALLOC(size + BLOCK_STRUCT_SIZE) * PAGE_SIZE
  <1> DEFINE n == NUMBER_OF_PAGES_TO_ALLOC(size + BLOCK_STRUCT_SIZE)
             start == base(node) * PAGE_SIZE
  <1>1. size + BLOCK_STRUCT_SIZE \in Nat \ {0} /\ size \in Nat \ {0} /\ BLOCK_STRUCT_SIZE \in Nat
    BY HeapBasics
  <1>2. n \in Nat \ {0} /\ size + BLOCK_STRUCT_SIZE =< n * PAGE_SIZE
    BY <1>1, RoundsUp
  <1>3. start \in Nat
    <2>1. base(node) \in Nat /\ PAGE_SIZE \in Nat
      BY PagesAre, HeapBasics
    <2> QED BY <2>1
  <1> DEFINE bytes == n * PAGE_SIZE
  <1>4. bytes \in Nat
    <2> HIDE DEF n
    <2> QED BY <1>2, HeapBasics
  <1>5. extension(size, node) = [at |-> start, size |-> bytes - BLOCK_STRUCT_SIZE,
                                 free |-> TRUE, asked |-> 0]
    BY DEF extension
  <1>6. StartOf(node) = start
    BY DEF StartOf
  <1>7. size + BLOCK_STRUCT_SIZE =< bytes
    BY <1>2
  <1> HIDE DEF n, start
  <1>8. bytes - BLOCK_STRUCT_SIZE \in Nat /\ bytes - BLOCK_STRUCT_SIZE >= size
        /\ start + BLOCK_STRUCT_SIZE + (bytes - BLOCK_STRUCT_SIZE) = start + bytes
    BY <1>1, <1>3, <1>4, <1>7
  <1> DEFINE rest == bytes - BLOCK_STRUCT_SIZE
  <1>9. rest \in Nat /\ rest >= size /\ rest > 0
    BY <1>1, <1>8
  <1>10. EndOf(extension(size, node)) = start + bytes
    <2> HIDE DEF bytes
    <2> QED BY <1>5, <1>8 DEF EndOf
  <1> HIDE DEF rest
  <1>11. extension(size, node) = [at |-> start, size |-> rest, free |-> TRUE, asked |-> 0]
    BY <1>5 DEF rest
  <1>12. extension(size, node) \in HeapBlocks
    BY <1>3, <1>9, <1>11 DEF HeapBlocks
  <1> QED BY <1>6, <1>9, <1>10, <1>11, <1>12 DEF n

\* It ends in the block allocPage handed out for it.
LEMMA ExtensionFits ==
    ASSUME NEW size \in Sizes, NEW node \in Nodes,
           level[node] = getLevel(NUMBER_OF_PAGES_TO_ALLOC(size + BLOCK_STRUCT_SIZE))
    PROVE  EndOf(extension(size, node)) =< StartOf(node) + Cardinality(Pages(node)) * PAGE_SIZE
  <1> DEFINE n == NUMBER_OF_PAGES_TO_ALLOC(size + BLOCK_STRUCT_SIZE)
             card == power[HeapLevel - level[node]]
  <1>1. n \in Nat \ {0}
    <2>1. size + BLOCK_STRUCT_SIZE \in Nat \ {0}
      BY HeapBasics
    <2> QED BY <2>1, RoundsUp
  <1>2. PICK h \in Nat : getLevel(n) = HeapLevel - h /\ (h =< HeapLevel => n =< power[h])
    <2> HIDE DEF n
    <2> QED BY <1>1, LevelSuffices
  <1>3. HeapLevel \in Nat /\ level[node] \in 1 .. HeapLevel
    BY BuddyAssumption, LevelBounds
  <1>4. level[node] = HeapLevel - h
    BY <1>2
  <1> HIDE DEF n
  <1>5. h = HeapLevel - level[node] /\ h =< HeapLevel
    BY <1>2, <1>3, <1>4
  <1>6. n =< card /\ card \in Nat
    BY <1>2, <1>5, PagesAre
  <1>7. n * PAGE_SIZE \in Nat /\ n * PAGE_SIZE =< card * PAGE_SIZE /\ card * PAGE_SIZE \in Nat
    <2> HIDE DEF card
    <2>1. PAGE_SIZE \in Nat
      BY HeapBasics
    <2> QED BY <1>1, <1>6, <2>1, TimesKeepsOrder
  <1>8. StartOf(node) \in Nat
    <2>1. base(node) \in Nat /\ PAGE_SIZE \in Nat
      BY PagesAre, HeapBasics
    <2> QED BY <2>1 DEF StartOf
  <1>9. Cardinality(Pages(node)) = card
    BY PagesCounted
  <1>10. EndOf(extension(size, node)) = StartOf(node) + n * PAGE_SIZE
    BY ExtensionIs DEF n
  <1> DEFINE x == n * PAGE_SIZE
             y == card * PAGE_SIZE
  <1>11. x \in Nat /\ y \in Nat /\ x =< y
    BY <1>7
  <1> HIDE DEF x, y
  <1>12. StartOf(node) + x =< StartOf(node) + y
    BY <1>8, <1>11
  <1> QED BY <1>9, <1>10, <1>12 DEF x, y

\* The parts of Tiling: a block lies in the pages of node, and the block c of extent j
\* comes after the block b of extent i.
BlockFits(b, node) ==
    /\ b.asked =< b.size /\ b.size > 0
    /\ StartOf(node) =< b.at /\ EndOf(b) =< StartOf(node) + Cardinality(Pages(node)) * PAGE_SIZE
Follows(i, b, j, c, nodes) ==
    \/ j = i /\ c.at = EndOf(b)
    \/ j > i /\ c.at = StartOf(nodes[j])

Tiled(chain, nodes) == \E own \in [DOMAIN chain -> DOMAIN nodes] : Tiling(own, chain, nodes)

\* Tiling, taken apart and put together block by block.
LEMMA TilingIs ==
    ASSUME NEW own, NEW chain, NEW nodes
    PROVE  Tiling(own, chain, nodes) <=>
             \A k \in DOMAIN chain :
               /\ BlockFits(chain[k], nodes[own[k]])
               /\ k < Len(chain) => Follows(own[k], chain[k], own[k + 1], chain[k + 1], nodes)
  BY DEF Tiling, BlockFits, Follows

\* A chain that is continued in new extents.
LEMMA TiledLonger ==
    ASSUME NEW chain \in Seq(HeapBlocks), NEW nodes \in Seq(Nodes), Tiled(chain, nodes),
           NEW new \in Seq(HeapBlocks), NEW more \in Seq(Nodes), Len(new) = Len(more),
           \A k \in 1 .. Len(new) : BlockFits(new[k], more[k]) /\ new[k].at = StartOf(more[k])
    PROVE  Tiled(chain \o new, nodes \o more)
  <1>1. PICK own \in [DOMAIN chain -> DOMAIN nodes] : Tiling(own, chain, nodes)
    BY DEF Tiled
  <1> DEFINE c == Len(chain)
             n == Len(nodes)
             t == Len(new)
             blocks == chain \o new
             ext == nodes \o more
             own2 == [k \in 1 .. c + t |-> IF k =< c THEN own[k] ELSE n + (k - c)]
  <1>2. /\ c \in Nat /\ n \in Nat /\ t \in Nat /\ DOMAIN chain = 1 .. c /\ DOMAIN nodes = 1 .. n
        /\ t = Len(more)
    OBVIOUS
  <1>3. /\ DOMAIN blocks = 1 .. c + t /\ Len(blocks) = c + t
        /\ \A k \in 1 .. c + t : blocks[k] = IF k =< c THEN chain[k] ELSE new[k - c]
    <2>1. /\ blocks \in Seq(HeapBlocks) /\ Len(blocks) = c + t
          /\ \A k \in 1 .. c + t : blocks[k] = IF k =< c THEN chain[k] ELSE new[k - c]
      BY ConcatProperties, ZenonT(30)
    <2>2. DOMAIN blocks = 1 .. Len(blocks)
      BY <2>1
    <2> QED BY <2>1, <2>2
  <1>4. /\ DOMAIN ext = 1 .. n + t
        /\ \A k \in 1 .. n + t : ext[k] = IF k =< n THEN nodes[k] ELSE more[k - n]
    <2>1. /\ ext \in Seq(Nodes) /\ Len(ext) = n + t
          /\ \A k \in 1 .. n + t : ext[k] = IF k =< n THEN nodes[k] ELSE more[k - n]
      BY <1>2, ConcatProperties
    <2>2. DOMAIN ext = 1 .. Len(ext)
      BY <2>1
    <2> QED BY <2>1, <2>2
  <1>5. \A k \in 1 .. c : own[k] \in 1 .. n
    BY <1>1, <1>2
  <1>6. \A k \in 1 .. c :
          /\ BlockFits(chain[k], nodes[own[k]])
          /\ k < c => Follows(own[k], chain[k], own[k + 1], chain[k + 1], nodes)
    BY <1>1, <1>2, TilingIs
  <1>7. \A k \in 1 .. t : BlockFits(new[k], more[k]) /\ new[k].at = StartOf(more[k])
    OBVIOUS
  <1> HIDE DEF c, n, t, blocks, ext
  <1>8. \A k \in 1 .. c + t : own2[k] = IF k =< c THEN own[k] ELSE n + (k - c)
    OBVIOUS
  <1>9. \A k \in 1 .. c + t : own2[k] \in 1 .. n + t
    BY <1>2, <1>5
  <1>10. own2 \in [DOMAIN blocks -> DOMAIN ext]
    BY <1>3, <1>4, <1>9
  <1> HIDE DEF own2
  <1>11. ASSUME NEW k \in 1 .. c + t
         PROVE  /\ BlockFits(blocks[k], ext[own2[k]])
                /\ k < c + t => Follows(own2[k], blocks[k], own2[k + 1], blocks[k + 1], ext)
    <2>0. k \in Nat
      BY <1>2
    <2>1. CASE k =< c
      <3>1. k \in 1 .. c /\ blocks[k] = chain[k] /\ own2[k] = own[k] /\ own[k] \in 1 .. n
        BY <1>2, <1>3, <1>5, <1>8, <2>0, <2>1
      <3>2. ext[own2[k]] = nodes[own[k]]
        BY <1>2, <1>4, <3>1
      <3>3. CASE k < c
        <4>1. /\ k + 1 \in 1 .. c /\ k + 1 \in 1 .. c + t
              /\ blocks[k + 1] = chain[k + 1] /\ own2[k + 1] = own[k + 1] /\ own[k + 1] \in 1 .. n
          BY <1>2, <1>3, <1>5, <1>8, <2>0, <3>3
        <4>2. ext[own2[k + 1]] = nodes[own[k + 1]]
          BY <1>2, <1>4, <4>1
        <4> QED BY <1>6, <3>1, <3>2, <3>3, <4>1, <4>2 DEF Follows
      <3>4. CASE k = c
        <4>1. ASSUME k < c + t
              PROVE  Follows(own2[k], blocks[k], own2[k + 1], blocks[k + 1], ext)
          <5>1. /\ k + 1 \in 1 .. c + t /\ ~(k + 1 =< c) /\ (k + 1) - c = 1 /\ 1 \in 1 .. t
                /\ n + 1 \in 1 .. n + t /\ ~(n + 1 =< n) /\ (n + 1) - n = 1
            BY <1>2, <2>0, <3>4, <4>1
          <5>2. blocks[k + 1] = new[1] /\ own2[k + 1] = n + 1 /\ ext[n + 1] = more[1]
            BY <1>3, <1>4, <1>8, <5>1
          <5>3. n + 1 > own2[k]
            BY <1>2, <3>1
          <5> QED BY <1>7, <5>1, <5>2, <5>3 DEF Follows
        <4> QED BY <1>6, <3>1, <3>2, <4>1
      <3> QED BY <1>2, <2>0, <2>1, <3>3, <3>4
    <2>2. CASE ~(k =< c)
      <3>1. /\ k - c \in 1 .. t /\ n + (k - c) \in 1 .. n + t /\ ~(n + (k - c) =< n)
            /\ (n + (k - c)) - n = k - c
        BY <1>2, <2>0, <2>2
      <3>2. blocks[k] = new[k - c] /\ own2[k] = n + (k - c) /\ ext[own2[k]] = more[k - c]
        BY <1>3, <1>4, <1>8, <2>2, <3>1
      <3>3. ASSUME k < c + t
            PROVE  Follows(own2[k], blocks[k], own2[k + 1], blocks[k + 1], ext)
        <4>1. /\ k + 1 \in 1 .. c + t /\ ~(k + 1 =< c) /\ (k + 1) - c \in 1 .. t
              /\ n + ((k + 1) - c) \in 1 .. n + t /\ ~(n + ((k + 1) - c) =< n)
              /\ (n + ((k + 1) - c)) - n = (k + 1) - c
              /\ n + ((k + 1) - c) > n + (k - c)
          BY <1>2, <2>0, <2>2, <3>3
        <4>2. blocks[k + 1] = new[(k + 1) - c] /\ own2[k + 1] = n + ((k + 1) - c)
              /\ ext[own2[k + 1]] = more[(k + 1) - c]
          BY <1>3, <1>4, <1>8, <4>1
        <4> QED BY <1>7, <3>2, <4>1, <4>2 DEF Follows
      <3> QED BY <1>7, <3>1, <3>2, <3>3
    <2> QED BY <2>1, <2>2
  <1>12. Tiling(own2, blocks, ext)
    BY <1>3, <1>11, TilingIs
  <1> QED BY <1>10, <1>12 DEF Tiled, blocks, ext

\* Two elements in the place of one.
Splice(b, k, x, y) == SubSeq(b, 1, k - 1) \o <<x, y>> \o SubSeq(b, k + 1, Len(b))

IsSplice(r, c, k, u, v) ==
    \A j \in 1 .. Len(c) + 1 :
        /\ j < k => r[j] = c[j]
        /\ j = k => r[j] = u
        /\ j = k + 1 => r[j] = v
        /\ j > k + 1 => r[j] = c[j - 1]

\* Those before it stay where they were, those behind it move by one.
LEMMA SpliceIs ==
    ASSUME NEW c \in Seq(HeapBlocks), NEW k \in 1 .. Len(c), NEW u \in HeapBlocks,
           NEW v \in HeapBlocks,
           NEW r, r = Splice(c, k, u, v)
    PROVE  /\ r \in Seq(HeapBlocks) /\ Len(r) = Len(c) + 1
           /\ IsSplice(r, c, k, u, v)
  <1> DEFINE n == Len(c)
             left == SubSeq(c, 1, k - 1)
             mid == <<u, v>>
             right == SubSeq(c, k + 1, n)
             lm == left \o mid
  <1>1. n \in Nat /\ k \in Nat /\ 1 =< k /\ k =< n /\ \A j \in 1 .. n : c[j] \in HeapBlocks
    OBVIOUS
  <1> HIDE DEF n
  <1>2. left \in Seq(HeapBlocks) /\ Len(left) = k - 1 /\ \A j \in 1 .. k - 1 : left[j] = c[j]
    <2> DEFINE a == k - 1
    <2>1. a \in Int /\ 1 \in Int /\ a - 1 + 1 = a /\ (IF 1 =< a THEN a ELSE 0) = a
          /\ (\A j \in 1 .. a : c[j] \in HeapBlocks) /\ \A j \in 1 .. a : 1 + j - 1 = j
      BY <1>1
    <2> HIDE DEF a
    <2>2. /\ SubSeq(c, 1, a) \in Seq(HeapBlocks)
          /\ Len(SubSeq(c, 1, a)) = IF 1 =< a THEN a - 1 + 1 ELSE 0
          /\ \A j \in 1 .. a - 1 + 1 : SubSeq(c, 1, a)[j] = c[1 + j - 1]
      BY <2>1, SubSeqProperties
    <2> QED BY <2>1, <2>2 DEF a
  <1>3. right \in Seq(HeapBlocks) /\ Len(right) = n - k /\ \A j \in 1 .. n - k : right[j] = c[k + j]
    <2> DEFINE a == k + 1
    <2>1. a \in Int /\ n \in Int /\ n - a + 1 = n - k /\ (IF a =< n THEN n - k ELSE 0) = n - k
          /\ (\A j \in a .. n : c[j] \in HeapBlocks) /\ \A j \in 1 .. n - k : a + j - 1 = k + j
      BY <1>1
    <2> HIDE DEF a
    <2>2. /\ SubSeq(c, a, n) \in Seq(HeapBlocks)
          /\ Len(SubSeq(c, a, n)) = IF a =< n THEN n - a + 1 ELSE 0
          /\ \A j \in 1 .. n - a + 1 : SubSeq(c, a, n)[j] = c[a + j - 1]
      BY <2>1, SubSeqProperties
    <2> QED BY <2>1, <2>2 DEF a
  <1>4. mid \in Seq(HeapBlocks) /\ Len(mid) = 2 /\ mid[1] = u /\ mid[2] = v
    OBVIOUS
  <1>5. r = lm \o right
    BY DEF n, Splice
  <1> HIDE DEF left, mid, right
  <1>6. /\ lm \in Seq(HeapBlocks) /\ Len(lm) = k + 1
        /\ \A j \in 1 .. k + 1 : lm[j] = IF j =< k - 1 THEN left[j] ELSE mid[j - (k - 1)]
    <2>1. /\ lm \in Seq(HeapBlocks) /\ Len(lm) = Len(left) + Len(mid)
          /\ \A j \in 1 .. Len(left) + Len(mid) :
                lm[j] = IF j =< Len(left) THEN left[j] ELSE mid[j - Len(left)]
      BY <1>2, <1>4, ConcatProperties
    <2>2. Len(left) + Len(mid) = k + 1 /\ Len(left) = k - 1
      BY <1>1, <1>2, <1>4
    <2> QED BY <2>1, <2>2
  <1> HIDE DEF lm
  <1>7. /\ r \in Seq(HeapBlocks) /\ Len(r) = n + 1
        /\ \A j \in 1 .. n + 1 : r[j] = IF j =< k + 1 THEN lm[j] ELSE right[j - (k + 1)]
    <2>1. /\ lm \o right \in Seq(HeapBlocks) /\ Len(lm \o right) = Len(lm) + Len(right)
          /\ \A j \in 1 .. Len(lm) + Len(right) :
                (lm \o right)[j] = IF j =< Len(lm) THEN lm[j] ELSE right[j - Len(lm)]
      BY <1>3, <1>6, ConcatProperties
    <2>2. Len(lm) + Len(right) = n + 1 /\ Len(lm) = k + 1
      BY <1>1, <1>3, <1>6
    <2> QED BY <1>5, <2>1, <2>2
  <1>8. ASSUME NEW j \in 1 .. n + 1
        PROVE  /\ j < k => r[j] = c[j]
               /\ j = k => r[j] = u
               /\ j = k + 1 => r[j] = v
               /\ j > k + 1 => r[j] = c[j - 1]
    <2>1. ASSUME j < k PROVE r[j] = c[j]
      <3>1. j \in 1 .. k - 1 /\ j =< k - 1 /\ j \in 1 .. k + 1 /\ j =< k + 1
        BY <1>1, <2>1
      <3> QED BY <1>2, <1>6, <1>7, <3>1
    <2>2. ASSUME j = k PROVE r[j] = u
      <3>1. k \in 1 .. k + 1 /\ k =< k + 1 /\ ~(k =< k - 1) /\ k - (k - 1) = 1
        BY <1>1
      <3> QED BY <1>4, <1>6, <1>7, <2>2, <3>1
    <2>3. ASSUME j = k + 1 PROVE r[j] = v
      <3>1. k + 1 \in 1 .. k + 1 /\ k + 1 =< k + 1 /\ ~(k + 1 =< k - 1) /\ (k + 1) - (k - 1) = 2
        BY <1>1
      <3> QED BY <1>4, <1>6, <1>7, <2>3, <3>1
    <2>4. ASSUME j > k + 1 PROVE r[j] = c[j - 1]
      <3>1. ~(j =< k + 1) /\ j - (k + 1) \in 1 .. n - k /\ k + (j - (k + 1)) = j - 1
        BY <1>1, <2>4
      <3> QED BY <1>3, <1>7, <3>1
    <2> QED BY <2>1, <2>2, <2>3, <2>4
  <1> QED BY <1>7, <1>8 DEF n, IsSplice

\* A block that ends where it did: another size asked of it changes nothing.
LEMMA TiledSame ==
    ASSUME NEW chain \in Seq(HeapBlocks), NEW nodes \in Seq(Nodes), Tiled(chain, nodes),
           NEW new \in Seq(HeapBlocks), Len(new) = Len(chain), NEW k \in 1 .. Len(chain),
           \A j \in 1 .. Len(chain) : j # k => new[j] = chain[j],
           new[k].at = chain[k].at, new[k].size = chain[k].size, new[k].asked =< chain[k].size
    PROVE  Tiled(new, nodes)
  <1>1. PICK own \in [DOMAIN chain -> DOMAIN nodes] : Tiling(own, chain, nodes)
    BY DEF Tiled
  <1>2. DOMAIN new = DOMAIN chain /\ DOMAIN chain = 1 .. Len(chain) /\ Len(chain) \in Nat
    OBVIOUS
  <1>3. \A j \in 1 .. Len(chain) :
          /\ new[j].at = chain[j].at /\ new[j].size = chain[j].size
          /\ EndOf(new[j]) = EndOf(chain[j])
          /\ new[j].asked =< chain[j].size \/ new[j].asked = chain[j].asked
    BY DEF EndOf
  <1>4. ASSUME NEW j \in 1 .. Len(chain)
        PROVE  /\ BlockFits(new[j], nodes[own[j]])
               /\ j < Len(chain) => Follows(own[j], new[j], own[j + 1], new[j + 1], nodes)
    <2>1. /\ BlockFits(chain[j], nodes[own[j]])
          /\ j < Len(chain) => Follows(own[j], chain[j], own[j + 1], chain[j + 1], nodes)
      BY <1>1, <1>2, TilingIs
    <2>2. BlockFits(new[j], nodes[own[j]])
      BY <1>3, <2>1 DEF BlockFits
    <2>3. ASSUME j < Len(chain) PROVE Follows(own[j], new[j], own[j + 1], new[j + 1], nodes)
      <3>1. j + 1 \in 1 .. Len(chain)
        BY <1>2, <2>3
      <3>2. new[j + 1].at = chain[j + 1].at /\ EndOf(new[j]) = EndOf(chain[j])
        BY <1>3, <3>1
      <3> QED BY <2>1, <2>3, <3>2 DEF Follows
    <2> QED BY <2>2, <2>3
  <1>5. Tiling(own, new, nodes)
    BY <1>2, <1>4, TilingIs
  <1> QED BY <1>2, <1>5 DEF Tiled

\* Two blocks that share the place of one lie in the same pages.
LEMMA CutFits ==
    ASSUME NEW b, NEW x \in HeapBlocks, NEW y \in HeapBlocks, NEW node \in Nodes,
           BlockFits(b, node), x.at = b.at, EndOf(x) = y.at, EndOf(y) = EndOf(b),
           x.size > 0, x.asked =< x.size, y.size > 0, y.asked =< y.size
    PROVE  BlockFits(x, node) /\ BlockFits(y, node)
  <1> DEFINE start == StartOf(node)
             bytes == Cardinality(Pages(node)) * PAGE_SIZE
  <1>1. start \in Nat
    BY PagesAre, HeapBasics DEF StartOf
  <1>2. bytes \in Nat
    <2>1. Cardinality(Pages(node)) \in Nat /\ PAGE_SIZE \in Nat
      BY PagesAre, PagesCounted, HeapBasics
    <2> QED BY <2>1
  <1>3. start =< x.at /\ EndOf(y) =< start + bytes
    BY DEF BlockFits
  <1> HIDE DEF start, bytes
  <1>4. /\ x.at \in Nat /\ x.size \in Nat /\ y.at \in Nat /\ y.size \in Nat
        /\ BLOCK_STRUCT_SIZE \in Nat
    BY HeapBasics DEF HeapBlocks
  <1>5. /\ y.at = x.at + BLOCK_STRUCT_SIZE + x.size
        /\ EndOf(y) = y.at + BLOCK_STRUCT_SIZE + y.size
    BY DEF EndOf
  <1>6. start =< y.at
    BY <1>1, <1>3, <1>4, <1>5
  <1>7. y.at =< EndOf(y) /\ EndOf(y) \in Nat
    BY <1>4, <1>5
  <1>8. y.at =< start + bytes
    BY <1>1, <1>2, <1>3, <1>4, <1>7
  <1> QED BY <1>3, <1>6, <1>8 DEF BlockFits, start, bytes

\* A block that is cut in two, the second of which ends where it did.
LEMMA TiledSplit ==
    ASSUME NEW chain \in Seq(HeapBlocks), NEW nodes \in Seq(Nodes), Tiled(chain, nodes),
           NEW new \in Seq(HeapBlocks), Len(new) = Len(chain) + 1, NEW k \in 1 .. Len(chain),
           \A j \in 1 .. Len(chain) + 1 :
              /\ j < k => new[j] = chain[j]
              /\ j > k + 1 => new[j] = chain[j - 1],
           new[k].at = chain[k].at, EndOf(new[k]) = new[k + 1].at,
           EndOf(new[k + 1]) = EndOf(chain[k]),
           new[k].size > 0, new[k].asked =< new[k].size,
           new[k + 1].size > 0, new[k + 1].asked =< new[k + 1].size
    PROVE  Tiled(new, nodes)
  <1>1. PICK own \in [DOMAIN chain -> DOMAIN nodes] : Tiling(own, chain, nodes)
    BY DEF Tiled
  <1> DEFINE n == Len(chain)
             own2 == [j \in 1 .. n + 1 |-> IF j =< k THEN own[j] ELSE own[j - 1]]
  <1>2. /\ DOMAIN new = 1 .. n + 1 /\ DOMAIN chain = 1 .. n /\ n \in Nat /\ Len(new) = n + 1
        /\ k \in Nat /\ 1 =< k /\ k =< n
    OBVIOUS
  <1>3. /\ \A j \in 1 .. n : BlockFits(chain[j], nodes[own[j]])
        /\ \A j \in 1 .. n : j < n => Follows(own[j], chain[j], own[j + 1], chain[j + 1], nodes)
    BY <1>1, <1>2, TilingIs
  <1>4. \A j \in 1 .. n + 1 :
          /\ j < k => new[j] = chain[j]
          /\ j > k + 1 => new[j] = chain[j - 1]
    OBVIOUS
  <1>5. \A j \in 1 .. n : own[j] \in DOMAIN nodes
    BY <1>2
  <1> HIDE DEF n
  <1>6. \A j \in 1 .. n + 1 : own2[j] = IF j =< k THEN own[j] ELSE own[j - 1]
    OBVIOUS
  <1>7. own2 \in [DOMAIN new -> DOMAIN nodes]
    BY <1>2, <1>5
  <1> HIDE DEF own2
  <1>8. k \in 1 .. n /\ k \in 1 .. n + 1 /\ k + 1 \in 1 .. n + 1 /\ ~(k + 1 =< k) /\ (k + 1) - 1 = k
    BY <1>2
  <1>9. own2[k] = own[k] /\ own2[k + 1] = own[k]
    BY <1>2, <1>6, <1>8
  <1>10. BlockFits(new[k], nodes[own[k]]) /\ BlockFits(new[k + 1], nodes[own[k]])
    <2> DEFINE x == new[k]
               y == new[k + 1]
               b == chain[k]
               node == nodes[own[k]]
    <2>1. x \in HeapBlocks /\ y \in HeapBlocks /\ node \in Nodes /\ BlockFits(b, node)
      BY <1>2, <1>3, <1>5, <1>8
    <2>2. /\ x.at = b.at /\ EndOf(x) = y.at /\ EndOf(y) = EndOf(b)
          /\ x.size > 0 /\ x.asked =< x.size /\ y.size > 0 /\ y.asked =< y.size
      OBVIOUS
    <2> HIDE DEF x, y, b, node
    <2>3. BlockFits(x, node) /\ BlockFits(y, node)
      BY <2>1, <2>2, CutFits
    <2> QED BY <2>3 DEF x, y, node
  <1>11. ASSUME NEW j \in 1 .. n + 1
         PROVE  /\ BlockFits(new[j], nodes[own2[j]])
                /\ j < n + 1 => Follows(own2[j], new[j], own2[j + 1], new[j + 1], nodes)
    <2>1. CASE j < k
      <3>1. j \in 1 .. n /\ j < n /\ j =< k /\ j + 1 =< k /\ j + 1 \in 1 .. n + 1
        BY <1>2, <2>1
      <3>2. new[j] = chain[j] /\ own2[j] = own[j] /\ own2[j + 1] = own[j + 1]
        BY <1>2, <1>4, <1>6, <2>1, <3>1
      <3>3. new[j + 1].at = chain[j + 1].at
        <4>1. CASE j + 1 < k
          BY <1>2, <1>4, <3>1, <4>1
        <4>2. CASE j + 1 = k
          BY <4>2
        <4> QED BY <1>2, <3>1, <4>1, <4>2
      <3> QED BY <1>3, <3>1, <3>2, <3>3 DEF Follows
    <2>2. CASE j = k
      BY <1>9, <1>10, <2>2 DEF Follows
    <2>3. CASE j = k + 1
      <3>1. BlockFits(new[j], nodes[own2[j]])
        BY <1>9, <1>10, <2>3
      <3>2. ASSUME j < n + 1 PROVE Follows(own2[j], new[j], own2[j + 1], new[j + 1], nodes)
        <4>1. /\ k < n /\ j + 1 \in 1 .. n + 1 /\ j + 1 > k + 1 /\ ~(j + 1 =< k)
              /\ (j + 1) - 1 = k + 1
          BY <1>2, <2>3, <3>2
        <4>2. new[j + 1] = chain[k + 1] /\ own2[j + 1] = own[k + 1]
          BY <1>2, <1>4, <1>6, <4>1, SMTT(30)
        <4>3. Follows(own[k], chain[k], own[k + 1], chain[k + 1], nodes)
          BY <1>3, <1>8, <4>1
        <4> QED BY <1>9, <2>3, <4>2, <4>3 DEF Follows
      <3> QED BY <3>1, <3>2
    <2>4. CASE j > k + 1
      <3>1. j - 1 \in 1 .. n /\ ~(j =< k)
        BY <1>2, <2>4
      <3>2. new[j] = chain[j - 1] /\ own2[j] = own[j - 1]
        BY <1>2, <1>4, <1>6, <2>4, <3>1
      <3>3. ASSUME j < n + 1 PROVE Follows(own2[j], new[j], own2[j + 1], new[j + 1], nodes)
        <4>1. /\ j - 1 < n /\ j + 1 \in 1 .. n + 1 /\ j + 1 > k + 1 /\ ~(j + 1 =< k)
              /\ (j + 1) - 1 = (j - 1) + 1
          BY <1>2, <2>4, <3>3
        <4>2. new[j + 1] = chain[(j - 1) + 1] /\ own2[j + 1] = own[(j - 1) + 1]
          BY <1>2, <1>4, <1>6, <4>1, ZenonT(30)
        <4> QED BY <1>3, <3>1, <3>2, <4>1, <4>2
      <3> QED BY <1>3, <3>1, <3>2, <3>3
    <2> QED BY <1>2, <2>1, <2>2, <2>3, <2>4
  <1>12. Tiling(own2, new, nodes)
    BY <1>2, <1>11, TilingIs
  <1> QED BY <1>7, <1>12 DEF Tiled

\* The block that mallock takes.
Take(parts, k, size) == [parts EXCEPT ![k].free = FALSE, ![k].asked = size]

\* A block by its fields.
LEMMA BlockIs ==
    ASSUME NEW b \in HeapBlocks
    PROVE  b = [at |-> b.at, size |-> b.size, free |-> b.free, asked |-> b.asked]
  BY DEF HeapBlocks

\* Only its mark and what was asked of it change.
LEMMA SetTaken ==
    ASSUME NEW parts \in Seq(HeapBlocks), NEW k \in 1 .. Len(parts), NEW size \in Nat,
           NEW new, new = Take(parts, k, size)
    PROVE  /\ new \in Seq(HeapBlocks) /\ Len(new) = Len(parts)
           /\ \A j \in 1 .. Len(parts) : j # k => new[j] = parts[j]
           /\ new[k].at = parts[k].at /\ new[k].size = parts[k].size /\ new[k].asked = size
  <1> DEFINE c == parts[k]
             b == [at |-> c.at, size |-> c.size, free |-> FALSE, asked |-> size]
  <1>1. c \in HeapBlocks
    OBVIOUS
  <1>2. b \in HeapBlocks
    BY <1>1 DEF HeapBlocks
  <1>3. new = [parts EXCEPT ![k] = b]
    <2>1. new = [parts EXCEPT ![k] = [[c EXCEPT !.free = FALSE] EXCEPT !.asked = size]]
      BY DEF Take
    <2>2. [[c EXCEPT !.free = FALSE] EXCEPT !.asked = size] = b
      <3> DEFINE a == c.at
                 z == c.size
                 f == c.free
                 q == c.asked
                 no == FALSE
                 d == [c EXCEPT !.free = no]
      <3>1. c = [at |-> a, size |-> z, free |-> f, asked |-> q]
        BY <1>1, BlockIs
      <3>2. b = [at |-> a, size |-> z, free |-> no, asked |-> size]
        OBVIOUS
      <3> HIDE DEF a, z, f, q, b, c, no
      <3>3. d = [at |-> a, size |-> z, free |-> no, asked |-> q]
        BY <3>1
      <3> HIDE DEF d
      <3>4. [d EXCEPT !.asked = size] = [at |-> a, size |-> z, free |-> no, asked |-> size]
        BY <3>3
      <3> QED BY <3>2, <3>4 DEF d, no
    <2> HIDE DEF b, c
    <2> QED BY <2>1, <2>2
  <1>4. b.at = c.at /\ b.size = c.size /\ b.asked = size
    OBVIOUS
  <1>5. Len(parts) \in Nat /\ DOMAIN parts = 1 .. Len(parts)
    OBVIOUS
  <1> HIDE DEF b
  <1>6. new \in Seq(HeapBlocks) /\ Len(new) = Len(parts)
    <2> DEFINE n == Len(parts)
    <2>1. parts \in [1 .. n -> HeapBlocks] /\ n \in Nat /\ k \in 1 .. n
      BY <1>5
    <2> HIDE DEF n
    <2>2. new \in [1 .. n -> HeapBlocks] /\ DOMAIN new = 1 .. n
      BY <1>2, <1>3, <2>1
    <2>3. new \in Seq(HeapBlocks)
      BY <2>1, <2>2
    <2>4. Len(new) = n
      BY <2>1, <2>2, <2>3
    <2> QED BY <2>3, <2>4 DEF n
  <1>7. \A j \in 1 .. Len(parts) : j # k => new[j] = parts[j]
    BY <1>3, <1>5
  <1>8. new[k] = b
    BY <1>3, <1>5
  <1> QED BY <1>4, <1>6, <1>7, <1>8

\* mallock takes a block that is large enough, and cuts off what it does not need: the
\* chain tiles its extents as before.
LEMMA TakenTiles ==
    ASSUME NEW chain \in Seq(HeapBlocks), NEW nodes \in Seq(Nodes), Tiled(chain, nodes),
           NEW k \in 1 .. Len(chain), NEW size \in Sizes, size =< chain[k].size
    PROVE  taken(chain, k, size) \in Seq(HeapBlocks) /\ Tiled(taken(chain, k, size), nodes)
  <1> DEFINE s == align4(size)
             b == chain[k]
             parts == IF b.size > s + 4 + BLOCK_STRUCT_SIZE THEN split_block(chain, k, s)
                      ELSE chain
             new == taken(chain, k, size)
  <1>1. s \in Nat \ {0} /\ size =< s /\ size \in Nat \ {0} /\ BLOCK_STRUCT_SIZE \in Nat
    BY HeapBasics, AlignIs
  <1>2. b \in HeapBlocks /\ b.at \in Nat /\ b.size \in Nat
    <2>1. b \in HeapBlocks
      OBVIOUS
    <2> QED BY <2>1 DEF HeapBlocks
  <1>3. new = Take(parts, k, size)
    BY DEF taken, Take
  <1>4. size =< b.size
    OBVIOUS
  <1> HIDE DEF s, new
  <1>5. CASE ~(b.size > s + 4 + BLOCK_STRUCT_SIZE)
    <2>1. parts = chain
      BY <1>5
    <2> HIDE DEF parts
    <2>2. /\ new \in Seq(HeapBlocks) /\ Len(new) = Len(chain)
          /\ \A j \in 1 .. Len(chain) : j # k => new[j] = chain[j]
          /\ new[k].at = b.at /\ new[k].size = b.size /\ new[k].asked = size
      <3>1. /\ parts \in Seq(HeapBlocks) /\ k \in 1 .. Len(parts) /\ size \in Nat
            /\ new = Take(parts, k, size)
        BY <1>1, <1>3, <2>1
      <3>2. /\ new \in Seq(HeapBlocks) /\ Len(new) = Len(parts)
            /\ \A j \in 1 .. Len(parts) : j # k => new[j] = parts[j]
            /\ new[k].at = parts[k].at /\ new[k].size = parts[k].size /\ new[k].asked = size
        BY <3>1, SetTaken
      <3> QED BY <2>1, <3>2
    <2>3. new[k].asked =< chain[k].size
      BY <1>4, <2>2
    <2>4. Tiled(new, nodes)
      BY <2>2, <2>3, TiledSame
    <2> QED BY <2>2, <2>4 DEF new
  <1>6. CASE b.size > s + 4 + BLOCK_STRUCT_SIZE
    <2> DEFINE x == [at |-> b.at, size |-> s, free |-> b.free, asked |-> b.asked]
               rest == b.size - (s + BLOCK_STRUCT_SIZE)
               y == [at |-> b.at + BLOCK_STRUCT_SIZE + s, size |-> rest, free |-> TRUE, asked |-> 0]
    <2>1. rest \in Nat \ {0} /\ b.at + BLOCK_STRUCT_SIZE + s \in Nat
          /\ (b.at + BLOCK_STRUCT_SIZE + s) + BLOCK_STRUCT_SIZE + rest
               = b.at + BLOCK_STRUCT_SIZE + b.size
      <3> DEFINE z == b.size
                 a == b.at
                 h == BLOCK_STRUCT_SIZE
      <3>1. z \in Nat /\ a \in Nat /\ h \in Nat /\ s \in Nat /\ z > s + 4 + h
        BY <1>1, <1>2, <1>6
      <3>2. rest = z - (s + h)
        OBVIOUS
      <3> HIDE DEF z, a, h, rest
      <3>3. rest \in Nat \ {0} /\ a + h + s \in Nat /\ (a + h + s) + h + rest = a + h + z
        BY <3>1, <3>2
      <3> QED BY <3>3 DEF z, a, h
    <2>2. x \in HeapBlocks
      BY <1>1, <1>2 DEF HeapBlocks
    <2> HIDE DEF rest
    <2>3. y \in HeapBlocks
      BY <2>1 DEF HeapBlocks
    <2>4. x = [b EXCEPT !.size = s]
      <3> DEFINE a == b.at
                 z == b.size
                 f == b.free
                 q == b.asked
      <3>1. b = [at |-> a, size |-> z, free |-> f, asked |-> q]
        BY <1>2, BlockIs
      <3>2. x = [at |-> a, size |-> s, free |-> f, asked |-> q]
        OBVIOUS
      <3> HIDE DEF a, z, f, q, b, x
      <3> QED BY <3>1, <3>2
    <2>5. parts = Splice(chain, k, x, y)
      <3>1. parts = split_block(chain, k, s)
        BY <1>6
      <3>2. split_block(chain, k, s)
              = SubSeq(chain, 1, k - 1) \o <<[b EXCEPT !.size = s], y>>
                  \o SubSeq(chain, k + 1, Len(chain))
        BY DEF split_block, rest
      <3> HIDE DEF parts, x, y, b
      <3> QED BY <2>4, <3>1, <3>2 DEF Splice
    <2>6. x.at = b.at /\ x.size = s /\ y.at = b.at + BLOCK_STRUCT_SIZE + s /\ y.size = rest
          /\ y.asked = 0
      OBVIOUS
    <2> HIDE DEF x, y, parts
    <2>7. /\ parts \in Seq(HeapBlocks) /\ Len(parts) = Len(chain) + 1
          /\ \A j \in 1 .. Len(chain) + 1 :
                /\ j < k => parts[j] = chain[j]
                /\ j = k => parts[j] = x
                /\ j = k + 1 => parts[j] = y
                /\ j > k + 1 => parts[j] = chain[j - 1]
      <3>1. /\ chain \in Seq(HeapBlocks) /\ k \in 1 .. Len(chain)
            /\ x \in HeapBlocks /\ y \in HeapBlocks /\ parts = Splice(chain, k, x, y)
        BY <2>2, <2>3, <2>5
      <3>2. /\ parts \in Seq(HeapBlocks) /\ Len(parts) = Len(chain) + 1
            /\ IsSplice(parts, chain, k, x, y)
        BY <3>1, SpliceIs
      <3> QED BY <3>2 DEF IsSplice
    <2>8. /\ k \in Nat /\ Len(chain) \in Nat /\ k \in 1 .. Len(chain) + 1 /\ k \in 1 .. Len(parts)
          /\ k + 1 \in 1 .. Len(chain) + 1 /\ k + 1 # k
      BY <2>7
    <2>9. parts[k] = x /\ parts[k + 1] = y
      BY <2>7, <2>8
    <2>10. /\ new \in Seq(HeapBlocks) /\ Len(new) = Len(parts)
           /\ \A j \in 1 .. Len(parts) : j # k => new[j] = parts[j]
           /\ new[k].at = parts[k].at /\ new[k].size = parts[k].size /\ new[k].asked = size
      <3>1. /\ parts \in Seq(HeapBlocks) /\ k \in 1 .. Len(parts) /\ size \in Nat
            /\ new = Take(parts, k, size)
        BY <1>1, <1>3, <2>7, <2>8
      <3> QED BY <3>1, SetTaken
    <2>11. Len(new) = Len(chain) + 1 /\ new[k + 1] = y
      BY <2>7, <2>8, <2>9, <2>10
    <2>12. ASSUME NEW j \in 1 .. Len(chain) + 1
           PROVE  /\ j < k => new[j] = chain[j]
                  /\ j > k + 1 => new[j] = chain[j - 1]
      <3>1. ASSUME j < k \/ j > k + 1 PROVE j # k /\ new[j] = parts[j]
        BY <2>7, <2>8, <2>10, <3>1
      <3> QED BY <2>7, <3>1
    <2>13. /\ new[k].at = chain[k].at /\ new[k].size = s /\ new[k].asked = size
           /\ new[k + 1].at = b.at + BLOCK_STRUCT_SIZE + s /\ new[k + 1].size = rest
           /\ new[k + 1].asked = 0
      BY <2>6, <2>9, <2>10, <2>11
    <2>14. EndOf(new[k]) = new[k + 1].at
      BY <2>13 DEF EndOf
    <2>15. EndOf(new[k + 1]) = EndOf(chain[k])
      BY <2>1, <2>13 DEF EndOf
    <2>16. /\ new[k].size > 0 /\ new[k].asked =< new[k].size
           /\ new[k + 1].size > 0 /\ new[k + 1].asked =< new[k + 1].size
      BY <1>1, <2>1, <2>13
    <2>17. Tiled(new, nodes)
      BY <2>10, <2>11, <2>12, <2>13, <2>14, <2>15, <2>16, TiledSplit
    <2> QED BY <2>10, <2>17 DEF new
  <1> QED BY <1>5, <1>6

\* The first free block that is large enough.
LEMMA FreeBlockFits ==
    ASSUME NEW chain \in Seq(HeapBlocks), NEW s, findFirstFreeBlock(chain, s) # 0
    PROVE  /\ findFirstFreeBlock(chain, s) \in 1 .. Len(chain)
           /\ chain[findFirstFreeBlock(chain, s)].size > s
  <1> DEFINE fit == {k \in DOMAIN chain : chain[k].free /\ chain[k].size > s}
  <1>1. fit # {} /\ findFirstFreeBlock(chain, s) = Min(fit)
    BY DEF findFirstFreeBlock
  <1>2. DOMAIN chain = 1 .. Len(chain)
    OBVIOUS
  <1>3. fit \in SUBSET Nat
    BY <1>2
  <1>4. Min(fit) \in fit
    <2> HIDE DEF fit
    <2> QED BY <1>1, <1>3, MinIs
  <1> QED BY <1>1, <1>2, <1>4

\* The chain that extendHeap leaves, and the block mallock takes from it.
Chain(p, times, size, nodes) == heap[p] \o [k \in 1 .. times |-> extension(size, nodes[k])]
Found(chain, size) ==
    IF findFirstFreeBlock(chain, align4(size)) = 0 THEN Len(chain)
    ELSE findFirstFreeBlock(chain, align4(size))

\* The heap of the caller after a mallock still tiles its extents.
LEMMA MallockTiles ==
    ASSUME TableInv, heap[current] \in Seq(HeapBlocks), Tiled(heap[current], extents[current]),
           NEW size \in Sizes, mallock(size)
    PROVE  \E blocks : /\ heap' = [heap EXCEPT ![current] = blocks]
                       /\ blocks \in Seq(HeapBlocks)
                       /\ Tiled(blocks, extents'[current])
  <1> DEFINE times == Extensions(size, 1)
             pages == NUMBER_OF_PAGES_TO_ALLOC(size + BLOCK_STRUCT_SIZE)
             requests == [k \in 1 .. times |-> pages]
             r == allocPage(occupied, requests)
             chain == Chain(current, times, size, r.nodes)
             blocks == taken(chain, Found(chain, size), size)
             old == heap[current]
             new == [k \in 1 .. times |-> extension(size, r.nodes[k])]
  <1>1. /\ occupied \in Arrays /\ extents \in [Pids -> Seq(Nodes)] /\ current \in Pids
    BY TypesAre DEF TableInv
  <1>2. Granted(r) /\ heap' = [heap EXCEPT ![current] = blocks]
        /\ extents' = [extents EXCEPT ![current] = @ \o r.nodes]
    BY DEF mallock, Chain, Found, Allocates
  <1>3. times \in Nat /\ (times = 0 => old # <<>> /\ findFirstFreeBlock(old, align4(size)) # 0)
    BY DEF Extensions
  <1>4. extents'[current] = extents[current] \o r.nodes
    BY <1>1, <1>2
  <1>5. chain = old \o new
    BY DEF Chain
  <1> HIDE DEF times, blocks
  <1>6. requests \in Seq({pages}) /\ Len(requests) = times
        /\ \A k \in 1 .. times : requests[k] = pages
    <2> HIDE DEF pages
    <2> QED BY <1>3
  <1> HIDE DEF requests
  <1>7. /\ r.nodes \in Seq(Nodes) /\ Len(r.nodes) = times
        /\ \A k \in 1 .. times : r.nodes[k] \in Nodes
    BY <1>1, <1>2, <1>6, GrantedIs
  <1>8. \A k \in 1 .. times : level[r.nodes[k]] = getLevel(pages)
    <2> DEFINE R == {pages}
    <2>1. r = allocPage(occupied, requests) /\ requests \in Seq(R) /\ Granted(r)
      BY <1>2, <1>6
    <2> HIDE DEF r, pages, R
    <2>2. \A k \in 1 .. Len(requests) : level[r.nodes[k]] = getLevel(requests[k])
      BY <1>1, <2>1, AllocLevels
    <2> QED BY <1>6, <2>2
  <1> HIDE DEF r, chain
  <1>9. \A k \in 1 .. times : new[k] = extension(size, r.nodes[k])
    OBVIOUS
  <1>10. ASSUME NEW k \in 1 .. times
         PROVE  /\ new[k] \in HeapBlocks /\ new[k].size >= size
                /\ BlockFits(new[k], r.nodes[k]) /\ new[k].at = StartOf(r.nodes[k])
    <2> DEFINE x == new[k]
               node == r.nodes[k]
    <2>1. x = extension(size, node) /\ node \in Nodes /\ level[node] = getLevel(pages)
      BY <1>7, <1>8, <1>9
    <2> HIDE DEF x, node
    <2>2. /\ x \in HeapBlocks /\ x.at = StartOf(node) /\ x.asked = 0 /\ x.size >= size
          /\ x.size > 0
      BY <2>1, ExtensionIs
    <2>3. EndOf(x) =< StartOf(node) + Cardinality(Pages(node)) * PAGE_SIZE
      BY <2>1, ExtensionFits
    <2>4. StartOf(node) =< x.at
      <3>1. x.at \in Nat
        BY <2>2 DEF HeapBlocks
      <3> QED BY <2>2, <3>1
    <2>5. x.asked =< x.size
      <3>1. x.size \in Nat
        BY <2>2 DEF HeapBlocks
      <3> QED BY <2>2, <3>1
    <2>6. BlockFits(x, node)
      BY <2>2, <2>3, <2>4, <2>5 DEF BlockFits
    <2> QED BY <2>2, <2>6 DEF x, node
  <1>11. new \in Seq(HeapBlocks) /\ Len(new) = times
    <2>1. new \in [1 .. times -> HeapBlocks]
      BY <1>9, <1>10
    <2> HIDE DEF new
    <2> QED BY <1>3, <2>1
  <1> HIDE DEF new
  <1>12. extents[current] \in Seq(Nodes)
    BY <1>1
  <1> DEFINE ext == extents[current]
  <1>13. Tiled(chain, ext \o r.nodes)
    <2>1. \A k \in 1 .. Len(new) : BlockFits(new[k], r.nodes[k]) /\ new[k].at = StartOf(r.nodes[k])
      BY <1>10, <1>11
    <2> HIDE DEF ext
    <2>2. ext \in Seq(Nodes) /\ Tiled(old, ext) /\ old \in Seq(HeapBlocks)
      BY <1>12 DEF ext
    <2> HIDE DEF old
    <2>3. Len(new) = Len(r.nodes)
      BY <1>7, <1>11
    <2>4. Tiled(old \o new, ext \o r.nodes)
      BY <1>7, <1>11, <2>1, <2>2, <2>3, TiledLonger
    <2> QED BY <1>5, <2>4
  <1>14. chain \in Seq(HeapBlocks) /\ ext \o r.nodes \in Seq(Nodes)
         /\ Len(chain) = Len(old) + times
         /\ (times # 0 => chain[Len(chain)] = new[times])
    <2>1. /\ old \o new \in Seq(HeapBlocks) /\ Len(old \o new) = Len(old) + Len(new)
          /\ \A i \in 1 .. Len(old) + Len(new) :
                (old \o new)[i] = IF i =< Len(old) THEN old[i] ELSE new[i - Len(old)]
      BY <1>11, ConcatProperties
    <2>2. Len(old) \in Nat
      OBVIOUS
    <2> DEFINE n == Len(old)
    <2>3. ASSUME times # 0 PROVE (old \o new)[n + times] = new[times]
      <3>1. n + times \in 1 .. n + times /\ ~(n + times =< n) /\ (n + times) - n = times
        BY <1>3, <2>2, <2>3
      <3> QED BY <1>11, <2>1, <3>1
    <2>4. ext \o r.nodes \in Seq(Nodes)
      BY <1>7, <1>12, ConcatProperties
    <2> HIDE DEF old
    <2> QED BY <1>5, <1>11, <2>1, <2>3, <2>4
  <1> DEFINE f == Found(chain, size)
             s == align4(size)
  <1>15. s \in Nat \ {0} /\ size =< s /\ size \in Nat
    BY HeapBasics, AlignIs
  <1>16. f \in 1 .. Len(chain) /\ size =< chain[f].size
    <2>1. CASE findFirstFreeBlock(chain, s) # 0
      <3>1. f = findFirstFreeBlock(chain, s)
        BY <2>1 DEF Found
      <3> HIDE DEF f, s
      <3>2. f \in 1 .. Len(chain) /\ chain[f].size > s
        BY <1>14, <2>1, <3>1, FreeBlockFits
      <3>3. chain[f].size \in Nat
        <4>1. chain[f] \in HeapBlocks
          BY <1>14, <3>2
        <4> QED BY <4>1 DEF HeapBlocks
      <3> QED BY <1>15, <3>2, <3>3
    <2>2. CASE findFirstFreeBlock(chain, s) = 0
      <3>1. f = Len(chain)
        BY <2>2 DEF Found
      <3>2. times # 0
        <4>1. SUFFICES ASSUME times = 0 PROVE FALSE
          OBVIOUS
        <4>2. new = <<>>
          BY <1>11, <4>1
        <4>3. chain = old
          BY <1>5, <4>2
        <4> QED BY <1>3, <2>2, <4>1, <4>3
      <3>3. times \in 1 .. times /\ Len(old) \in Nat
        BY <1>3, <3>2
      <3>4. Len(chain) \in 1 .. Len(chain)
        BY <1>3, <1>14, <3>2, <3>3
      <3>5. chain[Len(chain)] = new[times]
        BY <1>14, <3>2
      <3>6. new[times] \in HeapBlocks /\ new[times].size >= size
        BY <1>10, <3>3
      <3>7. new[times].size \in Nat
        BY <3>6 DEF HeapBlocks
      <3>8. size =< new[times].size
        BY <1>15, <3>6, <3>7
      <3> QED BY <3>1, <3>4, <3>5, <3>8
    <2> QED BY <2>1, <2>2
  <1> HIDE DEF f, ext
  <1>17. taken(chain, f, size) \in Seq(HeapBlocks) /\ Tiled(taken(chain, f, size), ext \o r.nodes)
    BY <1>13, <1>14, <1>16, TakenTiles
  <1>18. blocks = taken(chain, f, size)
    BY DEF blocks, f
  <1>19. extents'[current] = ext \o r.nodes
    BY <1>4 DEF ext
  <1> QED BY <1>2, <1>17, <1>18, <1>19

\* The parts of the invariant of the heaps.
LEMMA HeapInvIs ==
    HeapInv <=> /\ heap \in [Pids -> Seq(HeapBlocks)]
                /\ stray \/ \A p \in Pids : Tiled(heap[p], extents[p])
  BY DEF HeapInv, ChainTiled, HeapBlocks, Tiled

\* A heap nothing is added to.
LEMMA HeapKept ==
    ASSUME HeapInv, UNCHANGED <<heap, extents>>, stray => stray'
    PROVE  HeapInv'
  BY DEF HeapInv, ChainTiled

\* main() gives nobody a heap.
LEMMA InitHeap == MemInit => HeapInv
  <1> SUFFICES ASSUME MemInit PROVE HeapInv
    OBVIOUS
  <1>1. heap = [p \in Pids |-> <<>>] /\ extents = [p \in Pids |-> <<>>]
    BY DEF MemInit
  <1>2. heap \in [Pids -> Seq(HeapBlocks)]
    BY <1>1
  <1>3. ASSUME NEW p \in Pids PROVE Tiled(heap[p], extents[p])
    <2>1. heap[p] = <<>> /\ extents[p] = <<>>
      BY <1>1
    <2> DEFINE own == [k \in {} |-> 1]
    <2>2. DOMAIN heap[p] = {} /\ own \in [DOMAIN heap[p] -> DOMAIN extents[p]]
      BY <2>1
    <2>3. Tiling(own, heap[p], extents[p])
      BY <2>2, TilingIs
    <2> QED BY <2>2, <2>3 DEF Tiled
  <1> QED BY <1>2, <1>3, HeapInvIs

\* Only mallock touches the heaps, and it touches that of its caller only.
LEMMA NextHeap ==
    ASSUME MemInv, HeapInv, [MemNext]_vars
    PROVE  HeapInv'
  <1>0. TableInv
    BY DEF MemInv, TableInv
  <1>1. ASSUME NEW size \in Sizes, mallock(size) PROVE HeapInv'
    <2>1. /\ heap \in [Pids -> Seq(HeapBlocks)] /\ current \in Pids
          /\ extents \in [Pids -> Seq(Nodes)]
          /\ \A p \in Pids : Tiled(heap[p], extents[p])
      <3>1. ~stray
        BY <1>1 DEF mallock, Asks, Calling
      <3> QED BY <1>0, <3>1, HeapInvIs, TypesAre DEF TableInv
    <2>2. PICK c \in Pids : c = current
      BY <2>1
    <2>3. PICK blocks : /\ heap' = [heap EXCEPT ![current] = blocks]
                        /\ blocks \in Seq(HeapBlocks) /\ Tiled(blocks, extents'[current])
      BY <1>0, <1>1, <2>1, MallockTiles
    <2>4. \A p \in Pids \ {c} : extents'[p] = extents[p]
      <3>1. PICK e : extents' = [extents EXCEPT ![current] = e]
        BY <1>1 DEF mallock
      <3> QED BY <2>1, <2>2, <3>1
    <2>5. heap' \in [Pids -> Seq(HeapBlocks)]
      BY <2>1, <2>3
    <2>6. ASSUME NEW p \in Pids PROVE Tiled(heap'[p], extents'[p])
      <3>1. CASE p = c
        <4>1. heap'[p] = blocks
          BY <2>1, <2>2, <2>3, <3>1
        <4> QED BY <2>2, <2>3, <3>1, <4>1
      <3>2. CASE p # c
        <4>1. heap'[p] = heap[p] /\ extents'[p] = extents[p]
          BY <2>1, <2>2, <2>3, <2>4, <3>2
        <4> QED BY <2>1, <4>1
      <3> QED BY <3>1, <3>2
    <2>7. HeapInv' <=> /\ heap' \in [Pids -> Seq(HeapBlocks)]
                       /\ stray' \/ \A p \in Pids : Tiled(heap'[p], extents'[p])
      BY DEF HeapInv, ChainTiled, HeapBlocks, Tiled
    <2> QED BY <2>5, <2>6, <2>7
  <1>2. CASE UNCHANGED vars
    BY <1>2, HeapKept DEF vars
  <1>3. ASSUME NEW p \in Pids, createProcess(p) \/ removeProcess(p) \/ timerTick(p) \/ yield(p)
        PROVE  HeapInv'
    <2>1. CASE createProcess(p)
      BY <2>1, HeapKept DEF createProcess, Calling
    <2>2. CASE removeProcess(p)
      BY <2>2, HeapKept DEF removeProcess, Calling
    <2>3. CASE timerTick(p)
      BY <2>3, HeapKept DEF timerTick
    <2>4. CASE yield(p)
      BY <2>4, HeapKept DEF yield
    <2> QED BY <1>3, <2>1, <2>2, <2>3, <2>4
  <1>4. CASE getCurrentProcesses \/ createThread
    BY <1>4, HeapKept DEF getCurrentProcesses, createThread, Asks, Calling
  <1>5. CASE \/ freeUserStack \/ freeKernelStack \/ freeThread \/ freeUpRecursive
             \/ terminateThread \/ uncountThread
    BY <1>5, HeapKept DEF freeUserStack, freeKernelStack, freeThread, deallocPage,
                          freeUpRecursive, terminateThread, uncountThread
  <1> QED BY <1>1, <1>2, <1>3, <1>4, <1>5 DEF MemNext

-----------------------------------------------------------------------------
\* Whatever is asked of mallock, the chain of a heap tiles the pages extendHeap got: no
\* block reaches behind them or into the next one, and each holds what was asked of it,
\* as long as no page in use was handed out, whose new user may overwrite the headers.
THEOREM MemoryHeapTiled == MemSpec => []HeapTiled
  <1>1. MemInit => HeapInv
    BY InitHeap
  <1>2. MemInv /\ HeapInv /\ [MemNext]_vars => HeapInv'
    BY NextHeap
  <1>3. HeapInv => HeapTiled
    BY DEF HeapInv, HeapTiled, Living
  <1> QED BY <1>1, <1>2, <1>3, MemoryInvariant, PTL DEF MemSpec
=============================================================================
