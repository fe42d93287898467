------------------------- MODULE ProcessTableProofs -------------------------
(***************************************************************************)
(* The process table for any set of processes: schedule() always finds     *)
(* somebody to run, because init is never anything but READY or RUNNING,   *)
(* and nobody but the current process is RUNNING.                          *)
(***************************************************************************)
EXTENDS ProcessTable, FiniteSetTheorems, WellFoundedInduction, TLAPS

\* A non-empty set of numbers has a least element: the loops that look for the first
\* free or occupied slot of a table find it, and a loop that goes wrong goes wrong
\* for a first time.  (The segments 1 .. n are well-founded under inclusion.)
LEMMA LeastExists ==
    ASSUME NEW T \in SUBSET Nat, T # {}
    PROVE  \E x \in T : \A y \in T : x =< y
  <1> DEFINE segments == {1 .. n : n \in T}
  <1>1. segments \subseteq FiniteSubsetsOf(Nat) /\ segments # {}
    <2>1. ASSUME NEW n \in T PROVE 1 .. n \in FiniteSubsetsOf(Nat)
      BY FS_Interval DEF FiniteSubsetsOf
    <2>2. PICK n \in T : TRUE
      OBVIOUS
    <2>3. 1 .. n \in segments
      OBVIOUS
    <2> QED BY <2>1, <2>3
  <1>2. IsWellFoundedOn(StrictSubsetOrdering(Nat), FiniteSubsetsOf(Nat))
    BY FS_StrictSubsetOrderingWellFounded
  <1>3. PICK s \in segments : \A r \in segments : <<r, s>> \notin StrictSubsetOrdering(Nat)
    <2> HIDE DEF segments
    <2> QED BY <1>1, <1>2, WFMin
  <1>4. PICK x \in T : s = 1 .. x
    BY <1>3
  <1>5. ASSUME NEW y \in T, y < x PROVE FALSE
    <2>1. x \in s /\ x \notin 1 .. y
      BY <1>4, <1>5
    <2>2. <<1 .. y, s>> \in StrictSubsetOrdering(Nat)
      BY <1>4, <1>5, <2>1 DEF StrictSubsetOrdering
    <2> QED BY <1>3, <2>2
  <1> QED BY <1>5

\* The function f from the state of a loop to the one it ends in: the loop is over in
\* the states of stop, and goes on with nxt[r] in the others.
IsLoop(f, S, nxt, stop) == f = [r \in S |-> IF r \in stop THEN r ELSE f[nxt[r]]]

\* An iteration of the loop does not leave C.
Closed(C, nxt, stop) == \A x \in C : x \notin stop => nxt[x] \in C

\* A loop whose iterations bring a measure m down has an end: the function is there.
\* (It is the state of stop in the least set that holds r and that the loop does not leave.)
LEMMA LoopExists ==
    ASSUME NEW S, NEW nxt \in [S -> S], NEW stop \in SUBSET S, NEW m \in [S -> Nat],
           \A r \in S : r \notin stop => m[nxt[r]] < m[r]
    PROVE  \E f : IsLoop(f, S, nxt, stop)
  <1> DEFINE Reached(r) == {x \in S : \A C \in SUBSET S : r \in C /\ Closed(C, nxt, stop) => x \in C}
             Ends(r) == Reached(r) \cap stop
             f == [r \in S |-> CHOOSE x \in Ends(r) : TRUE]
  <1>1. ASSUME NEW r \in S
        PROVE  r \in Reached(r) /\ Closed(Reached(r), nxt, stop) /\ Reached(r) \subseteq S
    BY <1>1 DEF Closed
  <1>2. ASSUME NEW r \in S PROVE Ends(r) # {}
    <2> DEFINE T == {m[x] : x \in Reached(r)}
    <2>1. T \in SUBSET Nat /\ T # {}
      BY <1>1
    <2>2. PICK t \in T : \A y \in T : t =< y
      <3> HIDE DEF T
      <3> QED BY <2>1, LeastExists
    <2>3. PICK x \in Reached(r) : t = m[x]
      BY <2>2
    <2>4. ASSUME x \notin stop PROVE FALSE
      <3>1. nxt[x] \in Reached(r)
        BY <1>1, <2>3, <2>4 DEF Closed
      <3>2. m[nxt[x]] \in T /\ m[nxt[x]] < m[x] /\ m[x] \in Nat /\ m[nxt[x]] \in Nat
        BY <1>1, <2>3, <2>4, <3>1
      <3> QED BY <2>2, <2>3, <3>2
    <2> QED BY <2>4
  <1>3. ASSUME NEW r \in S, r \notin stop PROVE Ends(r) = Ends(nxt[r])
    <2>1. nxt[r] \in S
      OBVIOUS
    <2>2. ASSUME NEW x \in Ends(nxt[r]) PROVE x \in Ends(r)
      BY <1>1, <1>3, <2>1 DEF Closed
    <2>3. ASSUME NEW x \in Ends(r) PROVE x \in Ends(nxt[r])
      <3>1. ASSUME NEW C \in SUBSET S, nxt[r] \in C, Closed(C, nxt, stop) PROVE x \in C
        <4>1. C \cup {r} \in SUBSET S /\ r \in C \cup {r} /\ Closed(C \cup {r}, nxt, stop)
          BY <3>1 DEF Closed
        <4>2. x \in C \cup {r}
          BY <4>1
        <4> QED BY <1>3, <4>2
      <3> QED BY <3>1
    <2> QED BY <2>2, <2>3
  <1>4. ASSUME NEW r \in S, r \in stop PROVE Ends(r) = {r}
    <2>1. {r} \in SUBSET S /\ r \in {r} /\ Closed({r}, nxt, stop)
      BY <1>4 DEF Closed
    <2>2. Ends(r) \subseteq {r}
      BY <2>1
    <2> QED BY <1>1, <1>4, <2>2
  <1>5. ASSUME NEW r \in S PROVE f[r] = IF r \in stop THEN r ELSE f[nxt[r]]
    <2>1. CASE r \in stop
      <3>1. Ends(r) = {r} /\ f[r] = CHOOSE x \in Ends(r) : TRUE
        BY <2>1, <1>4
      <3> HIDE DEF f, Ends
      <3> QED BY <2>1, <3>1
    <2>2. CASE r \notin stop
      <3>1. Ends(r) = Ends(nxt[r]) /\ nxt[r] \in S
        BY <2>2, <1>3
      <3>2. /\ f[r] = CHOOSE x \in Ends(r) : TRUE
            /\ f[nxt[r]] = CHOOSE x \in Ends(nxt[r]) : TRUE
        BY <3>1
      <3> HIDE DEF f, Ends
      <3> QED BY <2>2, <3>1, <3>2
    <2> QED BY <2>1, <2>2
  <1>6. f = [r \in S |-> f[r]]
    OBVIOUS
  <1> HIDE DEF f
  <1>7. IsLoop(f, S, nxt, stop)
    BY <1>5, <1>6 DEF IsLoop
  <1> QED BY <1>7

\* What holds before a loop, and is kept by its iterations, holds at its end.
LEMMA LoopKeeps ==
    ASSUME NEW S, NEW nxt \in [S -> S], NEW stop \in SUBSET S, NEW m \in [S -> Nat],
           \A r \in S : r \notin stop => m[nxt[r]] < m[r],
           NEW f, IsLoop(f, S, nxt, stop),
           NEW C \in SUBSET S, Closed(C, nxt, stop), NEW r0 \in C
    PROVE  f[r0] \in C /\ f[r0] \in stop
  <1> DEFINE Bad == {r \in C : ~(f[r] \in C /\ f[r] \in stop)}
             T == {m[x] : x \in Bad}
  <1>1. SUFFICES ASSUME Bad # {} PROVE FALSE
    OBVIOUS
  <1>2. T \in SUBSET Nat /\ T # {}
    BY <1>1
  <1>3. PICK t \in T : \A y \in T : t =< y
    <2> HIDE DEF T
    <2> QED BY <1>2, LeastExists
  <1>4. PICK r \in Bad : t = m[r]
    BY <1>3
  <1>5. f[r] = IF r \in stop THEN r ELSE f[nxt[r]]
    BY <1>4 DEF IsLoop
  <1>6. r \notin stop
    BY <1>4, <1>5
  <1>7. nxt[r] \in C
    BY <1>4, <1>6 DEF Closed
  <1>8. nxt[r] \in Bad
    BY <1>4, <1>5, <1>6, <1>7
  <1>9. m[nxt[r]] \in T /\ m[nxt[r]] < m[r] /\ m[r] \in Nat /\ m[nxt[r]] \in Nat
    BY <1>4, <1>6, <1>7, <1>8
  <1> QED BY <1>3, <1>4, <1>9

-----------------------------------------------------------------------------
\* What schedule() does to well-formed states st: nobody is blocked, unblocked,
\* created or removed, and the process it picks is the only one RUNNING.
LEMMA ScheduleFacts ==
    ASSUME NEW st \in [Pids -> States], schedule(st),
           current \in Pids,
           \A p \in Pids : st[p] = "RUNNING" => p = current,
           st[InitPid] \in {"READY", "RUNNING"}
    PROVE  /\ procState' \in [Pids -> States]
           /\ current' \in Pids
           /\ OneRunning'
           /\ InitSchedulable'
           /\ \A p \in Pids, s \in {"UNBORN", "BLOCKED", "SLEEPING", "REMOVED"} :
                  procState'[p] = s <=> st[p] = s
  BY PidAssumption DEF schedule, Demoted, OneRunning, InitSchedulable, States

TableInv == PTTypeOK /\ InitSchedulable /\ OneRunning

\* One case of TableStep: a step that ends in schedule(st), for states st in which
\* nobody but the current process is RUNNING and init can run, keeps the invariant.
LEMMA ScheduleKeeps ==
    ASSUME TableInv, NEW st \in [Pids -> States], schedule(st),
           \A p \in Pids : st[p] = "RUNNING" => procState[p] = "RUNNING",
           st[InitPid] \in {"READY", "RUNNING"}
    PROVE  TableInv'
  <1>1. \A p \in Pids : st[p] = "RUNNING" => p = current
    BY DEF TableInv, OneRunning
  <1> QED BY <1>1, ScheduleFacts DEF TableInv, PTTypeOK

\* Every step of the table keeps the invariant; the caller of a system call is
\* never init, so init is never suspended or removed.
LEMMA TableStep == TableInv /\ [PTNext]_ptVars => TableInv'
  <1> SUFFICES ASSUME TableInv, [PTNext]_ptVars PROVE TableInv'
    OBVIOUS
  <1> USE PidAssumption DEF TableInv, PTTypeOK, InitSchedulable, OneRunning
  <1>1. CASE UNCHANGED ptVars
    BY <1>1 DEF ptVars
  <1>2. CASE PTCreate
    BY <1>2 DEF PTCreate, States
  <1>3. CASE PTTick
    <2>1. PICK W \in SUBSET {p \in Pids : procState[p] = "SLEEPING"} :
            schedule([p \in Pids |-> IF p \in W THEN "READY" ELSE procState[p]])
      BY <1>3 DEF PTTick
    <2> QED BY <2>1, ScheduleKeeps DEF States
  <1>4. CASE PTSuspend
    <2>1. PICK s \in {"BLOCKED", "SLEEPING"}, w \in Pids \cup {NoPid} :
            /\ w # NoPid => w # current /\ procState[w] = "BLOCKED"
            /\ schedule([p \in Pids |-> IF p = current THEN s
                                        ELSE IF p = w THEN "READY" ELSE procState[p]])
      BY <1>4 DEF PTSuspend
    <2>2. current # InitPid
      BY <1>4 DEF PTSuspend, Calling
    <2> QED BY <2>1, <2>2, ScheduleKeeps DEF States
  <1>5. CASE PTWake
    BY <1>5 DEF PTWake, States
  <1>6. CASE PTYield
    BY <1>6, ScheduleKeeps DEF PTYield
  <1>7. CASE PTKill
    BY <1>7 DEF PTKill, Removed, changeProcessState, Alive, States
  <1>8. CASE PTExit
    BY <1>8, ScheduleKeeps DEF PTExit, Calling, Removed, changeProcessState, States
  <1>9. CASE PTRun
    <2>1. PICK p \in Pids :
            /\ procState[p] = "UNBORN"
            /\ schedule(Removed([procState EXCEPT ![p] = "READY"], current))
      BY <1>9 DEF PTRun
    <2>2. current # InitPid
      BY <1>9 DEF PTRun, Calling
    <2> QED BY <2>1, <2>2, ScheduleKeeps DEF Removed, changeProcessState, States
  <1>10. CASE PTRestart
    <2>1. PICK p \in Pids :
            /\ procState[p] = "UNBORN"
            /\ schedule([q \in Pids |->
                           IF q = p THEN "READY"
                           ELSE IF q \in Alive(procState) \ {InitPid} THEN "REMOVED"
                           ELSE procState[q]])
      BY <1>10 DEF PTRestart
    <2> QED BY <2>1, ScheduleKeeps DEF States, Alive
  <1> QED
    BY <1>1, <1>2, <1>3, <1>4, <1>5, <1>6, <1>7, <1>8, <1>9, <1>10 DEF PTNext

\* The loop of schedule() always meets a READY process, and only the current
\* process is RUNNING, through creations, suspensions, kills, exits and restarts.
THEOREM TableInvariant == PTSpec => [](PTTypeOK /\ InitSchedulable /\ OneRunning)
  <1>1. PTInit => TableInv
    BY PidAssumption DEF PTInit, TableInv, PTTypeOK, InitSchedulable, OneRunning, States
  <1>2. TableInv => PTTypeOK /\ InitSchedulable /\ OneRunning
    BY DEF TableInv
  <1> QED BY <1>1, <1>2, TableStep, PTL DEF PTSpec
=============================================================================
