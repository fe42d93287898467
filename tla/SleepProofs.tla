----------------------------- MODULE SleepProofs ------------------------------
(***************************************************************************)
(* The sleepers of Kernel/interrupts.c for any number of processes, any    *)
(* length of the table and any intervals: whoever sleeps is woken at the   *)
(* tick its interval ends, although entries move while the loop of the     *)
(* timer runs and processes are killed while they sleep.                   *)
(***************************************************************************)
EXTENDS Sleep, ProcessTableProofs, FiniteSetTheorems

\* The loop of timerTickHandlerC as a loop over the states of Scan.
atEnd == {r \in Scan : r.j > Len(r.list)}
iterate == [r \in Scan |-> IF r \in atEnd THEN r ELSE step(r)]
remaining == [r \in Scan |-> IF r \in atEnd THEN 0 ELSE Len(r.list) - r.j + 1]

\* What an iteration does to the entry j: counted, and either kept or, once expired,
\* overwritten by the last one (perhaps itself), which is not counted yet.
LEMMA StepFacts ==
    ASSUME NEW r \in Scan, r \notin atEnd
    PROVE  /\ r.j \in DOMAIN r.list /\ r.list[r.j] \in Entries /\ r.j \in Nat \ {0}
           /\ \/ /\ r.list[r.j].counter + 1 # r.list[r.j].alarm
                 /\ step(r).j = r.j + 1 /\ step(r).woken = r.woken
                 /\ step(r).list \in Seq(Entries) /\ Len(step(r).list) = Len(r.list)
                 /\ \A k \in DOMAIN r.list \ {r.j} : step(r).list[k] = r.list[k]
                 /\ step(r).list[r.j] = [r.list[r.j] EXCEPT !.counter = @ + 1]
              \/ /\ r.list[r.j].counter + 1 = r.list[r.j].alarm
                 /\ step(r).j = r.j /\ step(r).woken = r.woken \cup {r.list[r.j].pid}
                 /\ step(r).list \in Seq(Entries) /\ Len(step(r).list) = Len(r.list) - 1
                 /\ \A k \in 1 .. Len(r.list) - 1 :
                       step(r).list[k] = r.list[IF k = r.j THEN Len(r.list) ELSE k]
           /\ step(r) \in Scan
  <1> DEFINE s == r.list
             i == r.j
             e == [s[i] EXCEPT !.counter = @ + 1]
             counted == [s EXCEPT ![i] = e]
  <1>1. s \in Seq(Entries) /\ i \in Nat \ {0} /\ r.woken \in SUBSET Pids /\ i =< Len(s)
    BY DEF Scan, atEnd
  <1>2. i \in DOMAIN s /\ s[i] \in Entries /\ DOMAIN s = 1 .. Len(s) /\ Len(s) \in Nat
    <2> HIDE DEF s, i
    <2> QED BY <1>1
  <1>3. e \in Entries /\ e.counter = s[i].counter + 1 /\ e.alarm = s[i].alarm /\ e.pid = s[i].pid
    <2> HIDE DEF s, i
    <2> QED BY <1>2 DEF Entries
  <1>4. [r.list EXCEPT ![r.j].counter = @ + 1] = counted
    OBVIOUS
  <1> HIDE DEF e
  <1>5. /\ counted \in Seq(Entries) /\ Len(counted) = Len(s) /\ counted[i] = e
        /\ \A k \in DOMAIN s \ {i} : counted[k] = s[k]
    <2> HIDE DEF s, i
    <2> QED BY <1>1, <1>2, <1>3
  <1> HIDE DEF counted
  <1>6. CASE e.counter # e.alarm
    <2>1. step(r) = [r EXCEPT !.list = counted, !.j = @ + 1]
      BY <1>4, <1>5, <1>6 DEF step
    <2>2. step(r) = [list |-> counted, j |-> i + 1, woken |-> r.woken]
      BY <2>1 DEF Scan
    <2>3. /\ step(r).list = counted /\ step(r).j = i + 1 /\ step(r).woken = r.woken
          /\ step(r) \in Scan
      BY <1>1, <1>5, <2>2 DEF Scan
    <2> QED BY <1>1, <1>2, <1>3, <1>5, <1>6, <2>3 DEF e
  <1>7. CASE e.counter = e.alarm
    <2> DEFINE moved == [counted EXCEPT ![i] = counted[Len(s)]]
               shorter == SubSeq(moved, 1, Len(s) - 1)
    <2>1. /\ moved \in Seq(Entries) /\ Len(moved) = Len(s)
          /\ \A k \in 1 .. Len(s) - 1 : moved[k] = s[IF k = i THEN Len(s) ELSE k]
      <3>1. counted[Len(s)] \in Entries
        BY <1>1, <1>2, <1>5
      <3>2. moved \in Seq(Entries) /\ Len(moved) = Len(s)
        BY <1>2, <1>5, <3>1
      <3>3. \A k \in 1 .. Len(s) - 1 : moved[k] = s[IF k = i THEN Len(s) ELSE k]
        BY <1>1, <1>2, <1>5
      <3> QED BY <3>2, <3>3
    <2> HIDE DEF moved
    <2>2. /\ shorter \in Seq(Entries) /\ Len(shorter) = Len(s) - 1
          /\ \A k \in 1 .. Len(s) - 1 : shorter[k] = moved[k]
      BY <1>1, <1>2, <2>1
    <2>3. deleteSleep(counted, i) = shorter
      BY <1>5, <2>1 DEF deleteSleep, Front, Last, moved
    <2> HIDE DEF shorter
    <2>4. step(r) = [list |-> shorter, j |-> i, woken |-> r.woken \cup {e.pid}]
      BY <1>4, <1>5, <1>7, <2>3 DEF step
    <2>5. e.pid \in Pids
      BY <1>3 DEF Entries
    <2>6. /\ step(r).list = shorter /\ step(r).j = i /\ step(r).woken = r.woken \cup {e.pid}
          /\ step(r) \in Scan
      BY <1>1, <2>2, <2>4, <2>5 DEF Scan
    <2> QED BY <1>1, <1>2, <1>3, <1>7, <2>1, <2>2, <2>6
  <1> QED BY <1>6, <1>7

\* The loop is a function, and it keeps what its iterations keep.
LEMMA LoopOfTick ==
    ASSUME NEW C \in SUBSET Scan, \A r \in C : r \notin atEnd => step(r) \in C,
           [list |-> sleepers, j |-> 1, woken |-> {}] \in C
    PROVE  timerTickLoop \in C /\ timerTickLoop \in atEnd
  <1> DEFINE r0 == [list |-> sleepers, j |-> 1, woken |-> {}]
             loop == CHOOSE f : f = [r \in Scan |->
                         IF r.j > Len(r.list) THEN r ELSE f[step(r)]]
  <1>1. timerTickLoop = loop[r0]
    BY DEF timerTickLoop
  <1>2. /\ iterate \in [Scan -> Scan] /\ atEnd \in SUBSET Scan
        /\ \A r \in Scan \ atEnd : iterate[r] = step(r)
    BY StepFacts DEF iterate, atEnd
  <1>3. ASSUME NEW r \in Scan PROVE Len(r.list) \in Nat /\ r.j \in Nat \ {0}
    BY DEF Scan
  <1>4. /\ remaining \in [Scan -> Nat]
        /\ \A r \in Scan : r \notin atEnd => remaining[iterate[r]] < remaining[r]
    <2>1. remaining \in [Scan -> Nat]
      BY <1>3 DEF remaining, atEnd
    <2>2. ASSUME NEW r \in Scan, r \notin atEnd PROVE remaining[iterate[r]] < remaining[r]
      <3>1. /\ step(r) \in Scan
            /\ \/ step(r).j = r.j + 1 /\ Len(step(r).list) = Len(r.list)
               \/ step(r).j = r.j /\ Len(step(r).list) = Len(r.list) - 1
        BY <2>2, StepFacts
      <3>4. Len(r.list) >= r.j
        BY <1>3, <2>2 DEF atEnd
      <3>2. remaining[r] = Len(r.list) - r.j + 1
        BY <2>2 DEF remaining
      <3>3. remaining[step(r)] = IF step(r) \in atEnd THEN 0 ELSE Len(step(r).list) - step(r).j + 1
        BY <3>1 DEF remaining
      <3>5. iterate[r] = step(r) /\ step(r) \in Scan
        BY <1>2, <2>2, <3>1
      <3>6. /\ Len(r.list) \in Nat /\ r.j \in Nat \ {0}
            /\ Len(step(r).list) \in Nat /\ step(r).j \in Nat \ {0}
        BY <1>3, <3>1
      <3>7. CASE step(r) \in atEnd
        <4>1. remaining[step(r)] = 0
          BY <3>3, <3>7
        <4>2. remaining[r] > 0
          BY <3>2, <3>4, <3>6
        <4> QED BY <3>5, <4>1, <4>2
      <3>8. CASE step(r) \notin atEnd
        <4>1. remaining[step(r)] = Len(step(r).list) - step(r).j + 1
          BY <3>3, <3>8
        <4>2. Len(step(r).list) - step(r).j + 1 < Len(r.list) - r.j + 1
          BY <3>1, <3>6, SMTT(30)
        <4> QED BY <3>2, <3>5, <4>1, <4>2
      <3> QED BY <3>7, <3>8
    <2> QED BY <2>1, <2>2
  <1>5. \A f : IsLoop(f, Scan, iterate, atEnd) <=>
                 f = [r \in Scan |-> IF r.j > Len(r.list) THEN r ELSE f[step(r)]]
    <2>1. ASSUME NEW f
          PROVE  [r \in Scan |-> IF r.j > Len(r.list) THEN r ELSE f[step(r)]] =
                 [r \in Scan |-> IF r \in atEnd THEN r ELSE f[iterate[r]]]
      BY <1>2 DEF atEnd
    <2> QED BY <2>1 DEF IsLoop
  <1>6. \E f : IsLoop(f, Scan, iterate, atEnd)
    BY <1>2, <1>4, LoopExists
  <1>7. IsLoop(loop, Scan, iterate, atEnd)
    <2>1. \E f : f = [r \in Scan |-> IF r.j > Len(r.list) THEN r ELSE f[step(r)]]
      BY <1>5, <1>6
    <2>2. loop = [r \in Scan |-> IF r.j > Len(r.list) THEN r ELSE loop[step(r)]]
      BY <2>1
    <2> HIDE DEF loop
    <2> QED BY <1>5, <2>2
  <1> HIDE DEF loop, r0
  <1>8. Closed(C, iterate, atEnd)
    BY <1>2 DEF Closed
  <1>9. r0 \in C
    BY DEF r0
  <1> QED BY <1>1, <1>2, <1>4, <1>7, <1>8, <1>9, LoopKeeps

\* What the loop keeps, for the list s, the index i and the woken processes W: in front
\* of i the entries are counted, from i on they are not yet; those that expired are gone
\* and their processes woken; and none is lost.
CountedOf(e, k) ==
    /\ e.pid = sleepers[k].pid /\ e.alarm = sleepers[k].alarm
    /\ e.counter = sleepers[k].counter + 1 /\ e.counter < e.alarm

Expired(k) == sleepers[k].counter + 1 = sleepers[k].alarm

ScanOK(s, i, W) ==
    /\ Len(s) =< Len(sleepers)
    /\ \A j, k \in 1 .. Len(s) : s[j].pid = s[k].pid => j = k
    /\ \A j \in 1 .. Len(s) : s[j].pid \notin W
    /\ \A j \in 1 .. Len(s) : j < i => \E k \in DOMAIN sleepers : CountedOf(s[j], k)
    /\ \A j \in 1 .. Len(s) : j >= i => \E k \in DOMAIN sleepers : s[j] = sleepers[k]
    /\ \A p \in W : \E k \in DOMAIN sleepers : sleepers[k].pid = p /\ Expired(k)
    /\ \A k \in DOMAIN sleepers :
          sleepers[k].pid \in W \/ \E j \in 1 .. Len(s) : s[j].pid = sleepers[k].pid

\* What is known of the table when the timer ticks.
LEMMA TableFacts ==
    ASSUME SleepInv
    PROVE  /\ sleepers \in Seq(Entries) /\ Len(sleepers) \in Nat
           /\ Len(sleepers) =< MAX_LISTENERS
           /\ \A k \in DOMAIN sleepers :
                 /\ sleepers[k] \in Entries
                 /\ sleepers[k].counter \in Nat /\ sleepers[k].alarm \in Nat
                 /\ sleepers[k].pid \in Pids
                 /\ sleepers[k].counter < sleepers[k].alarm
           /\ \A j, k \in DOMAIN sleepers : sleepers[j].pid = sleepers[k].pid => j = k
  <1>1. /\ sleepers \in Seq(Entries) /\ Len(sleepers) \in Nat
        /\ Len(sleepers) =< MAX_LISTENERS
        /\ \A k \in DOMAIN sleepers : sleepers[k] \in Entries
    BY DEF SleepInv, TypeOK
  <1> QED BY <1>1, SleepAssumption DEF SleepInv, EntriesExpire, EntriesMatch, Entries

\* An entry is counted and stays.
LEMMA ScanCounts ==
    ASSUME SleepInv, NEW s \in Seq(Entries), NEW i \in 1 .. Len(s), NEW W \in SUBSET Pids,
           ScanOK(s, i, W), s[i].counter + 1 # s[i].alarm,
           NEW u \in Seq(Entries), Len(u) = Len(s),
           \A k \in 1 .. Len(s) : k # i => u[k] = s[k],
           u[i] = [s[i] EXCEPT !.counter = @ + 1]
    PROVE  ScanOK(u, i + 1, W)
  <1>1. PICK k0 \in DOMAIN sleepers : s[i] = sleepers[k0]
    BY DEF ScanOK
  <1>2. CountedOf(u[i], k0) /\ u[i].pid = s[i].pid
    BY <1>1, TableFacts DEF CountedOf, Entries
  <1>3. \A k \in 1 .. Len(s) : u[k].pid = s[k].pid
    BY <1>2
  <1>4. \A j \in 1 .. Len(u) : j < i + 1 => \E k \in DOMAIN sleepers : CountedOf(u[j], k)
    <2> TAKE j \in 1 .. Len(u)
    <2> HAVE j < i + 1
    <2>1. CASE j = i
      BY <1>2, <2>1
    <2>2. CASE j # i
      BY <2>2 DEF ScanOK
    <2> QED BY <2>1, <2>2
  <1>5. \A j \in 1 .. Len(u) : j >= i + 1 => \E k \in DOMAIN sleepers : u[j] = sleepers[k]
    <2>1. \A j \in 1 .. Len(s) : j >= i => \E k \in DOMAIN sleepers : s[j] = sleepers[k]
      BY DEF ScanOK
    <2> TAKE j \in 1 .. Len(u)
    <2> HAVE j >= i + 1
    <2>2. j \in 1 .. Len(s) /\ j >= i /\ u[j] = s[j]
      OBVIOUS
    <2>3. PICK k \in DOMAIN sleepers : s[j] = sleepers[k]
      BY <2>1, <2>2
    <2> QED BY <2>2, <2>3
  <1>6. /\ Len(u) =< Len(sleepers)
        /\ \A j, k \in 1 .. Len(u) : u[j].pid = u[k].pid => j = k
        /\ \A j \in 1 .. Len(u) : u[j].pid \notin W
        /\ \A k \in DOMAIN sleepers :
              sleepers[k].pid \in W \/ \E j \in 1 .. Len(u) : u[j].pid = sleepers[k].pid
    BY <1>3, SMTT(30) DEF ScanOK
  <1>7. \A p \in W : \E k \in DOMAIN sleepers : sleepers[k].pid = p /\ Expired(k)
    BY DEF ScanOK
  <1> QED BY <1>4, <1>5, <1>6, <1>7 DEF ScanOK

\* An entry expires: its process is woken, and the last entry takes its place.
LEMMA ScanExpires ==
    ASSUME SleepInv, NEW s \in Seq(Entries), NEW i \in 1 .. Len(s), NEW W \in SUBSET Pids,
           ScanOK(s, i, W), s[i].counter + 1 = s[i].alarm,
           NEW u \in Seq(Entries), Len(u) = Len(s) - 1,
           \A k \in 1 .. Len(s) - 1 : u[k] = s[IF k = i THEN Len(s) ELSE k]
    PROVE  ScanOK(u, i, W \cup {s[i].pid})
  <1> DEFINE V == W \cup {s[i].pid}
             n == Len(s)
  <1>1. PICK k0 \in DOMAIN sleepers : s[i] = sleepers[k0]
    BY DEF ScanOK
  <1>2. n \in Nat /\ i \in 1 .. n /\ Len(u) = n - 1
    OBVIOUS
  <1>3. \A j \in 1 .. n - 1 : \E x \in 1 .. n :
            /\ u[j] = s[x] /\ x # i
            /\ j < i => x = j
            /\ j >= i => x >= i
            /\ IF j = i THEN x = n ELSE x = j
    <2> TAKE j \in 1 .. n - 1
    <2>1. CASE j = i
      <3>1. u[j] = s[n] /\ n \in 1 .. n /\ n # i /\ n >= i
        BY <1>2, <2>1
      <3> QED BY <1>2, <2>1, <3>1
    <2>2. CASE j # i
      <3>1. u[j] = s[j] /\ j \in 1 .. n
        BY <1>2, <2>2
      <3> QED BY <2>2, <3>1
    <2> QED BY <2>1, <2>2
  <1>4. n =< Len(sleepers) /\ Len(sleepers) \in Nat
    BY TableFacts DEF ScanOK
  <1>5. \A j, k \in 1 .. n : s[j].pid = s[k].pid => j = k
    BY DEF ScanOK
  <1>6. \A j, k \in 1 .. n - 1 : u[j].pid = u[k].pid => j = k
    <2> TAKE j, k \in 1 .. n - 1
    <2> HAVE u[j].pid = u[k].pid
    <2>1. PICK x \in 1 .. n : u[j] = s[x] /\ IF j = i THEN x = n ELSE x = j
      BY <1>3
    <2>2. PICK y \in 1 .. n : u[k] = s[y] /\ IF k = i THEN y = n ELSE y = k
      BY <1>3
    <2>3. x = y
      BY <1>5, <2>1, <2>2
    <2> QED BY <1>2, <2>1, <2>2, <2>3
  <1>7. \A j \in 1 .. n - 1 : u[j].pid \notin V
    BY <1>3, <1>5, SMTT(30) DEF ScanOK
  <1>8. \A j \in 1 .. n - 1 : j < i => \E k \in DOMAIN sleepers : CountedOf(u[j], k)
    BY <1>3 DEF ScanOK
  <1>9. \A j \in 1 .. n - 1 : j >= i => \E k \in DOMAIN sleepers : u[j] = sleepers[k]
    <2>1. \A j \in 1 .. n : j >= i => \E k \in DOMAIN sleepers : s[j] = sleepers[k]
      BY DEF ScanOK
    <2> TAKE j \in 1 .. n - 1
    <2> HAVE j >= i
    <2>2. PICK x \in 1 .. n : u[j] = s[x] /\ x >= i
      BY <1>3
    <2>3. PICK k \in DOMAIN sleepers : s[x] = sleepers[k]
      BY <2>1, <2>2
    <2> QED BY <2>2, <2>3
  <1>10. \A p \in V : \E k \in DOMAIN sleepers : sleepers[k].pid = p /\ Expired(k)
    BY <1>1 DEF ScanOK, Expired
  <1>11. \A k \in DOMAIN sleepers :
            sleepers[k].pid \in V \/ \E j \in 1 .. n - 1 : u[j].pid = sleepers[k].pid
    <2> TAKE k \in DOMAIN sleepers
    <2>1. CASE sleepers[k].pid \in V
      BY <2>1
    <2>2. CASE sleepers[k].pid \notin V
      <3>1. PICK x \in 1 .. n : s[x].pid = sleepers[k].pid /\ x # i
        BY <2>2 DEF ScanOK
      <3>2. CASE x = n
        <4>1. i \in 1 .. n - 1
          BY <1>2, <3>1, <3>2
        <4>2. u[i] = s[n]
          BY <4>1
        <4> QED BY <3>1, <3>2, <4>1, <4>2
      <3>3. CASE x # n
        <4>1. x \in 1 .. n - 1
          BY <1>2, <3>3
        <4>2. u[x] = s[x]
          BY <3>1, <4>1
        <4> QED BY <3>1, <4>1, <4>2
      <3> QED BY <3>2, <3>3
    <2> QED BY <2>1, <2>2
  <1>12. Len(u) =< Len(sleepers)
    BY <1>2, <1>4
  <1> HIDE DEF V, n
  <1> QED BY <1>2, <1>6, <1>7, <1>8, <1>9, <1>10, <1>11, <1>12 DEF ScanOK, V

\* What the loop of a tick leaves: entries counted once, one of each process that is
\* not woken, and woken exactly the processes whose entry expired.
LEMMA TickFacts ==
    ASSUME SleepInv
    PROVE  /\ timerTickLoop.list \in Seq(Entries) /\ timerTickLoop.woken \in SUBSET Pids
           /\ Len(timerTickLoop.list) =< MAX_LISTENERS
           /\ \A j, k \in DOMAIN timerTickLoop.list :
                 timerTickLoop.list[j].pid = timerTickLoop.list[k].pid => j = k
           /\ \A j \in DOMAIN timerTickLoop.list :
                 /\ timerTickLoop.list[j].pid \notin timerTickLoop.woken
                 /\ \E k \in DOMAIN sleepers : CountedOf(timerTickLoop.list[j], k)
           /\ \A p \in timerTickLoop.woken :
                 \E k \in DOMAIN sleepers : sleepers[k].pid = p /\ Expired(k)
           /\ \A k \in DOMAIN sleepers :
                 \/ sleepers[k].pid \in timerTickLoop.woken
                 \/ \E j \in DOMAIN timerTickLoop.list :
                       timerTickLoop.list[j].pid = sleepers[k].pid
  <1> DEFINE C == {r \in Scan : ScanOK(r.list, r.j, r.woken)}
             r0 == [list |-> sleepers, j |-> 1, woken |-> {}]
  <1>1. ASSUME NEW r \in C, r \notin atEnd PROVE step(r) \in C
    <2>1. r \in Scan /\ ScanOK(r.list, r.j, r.woken)
      OBVIOUS
    <2>2. /\ r.list \in Seq(Entries) /\ r.j \in 1 .. Len(r.list) /\ r.woken \in SUBSET Pids
      BY <1>1, <2>1 DEF Scan, atEnd
    <2>3. step(r) \in Scan
      BY <1>1, <2>1, StepFacts
    <2>4. CASE r.list[r.j].counter + 1 # r.list[r.j].alarm
      <3>1. /\ step(r).j = r.j + 1 /\ step(r).woken = r.woken
            /\ step(r).list \in Seq(Entries) /\ Len(step(r).list) = Len(r.list)
            /\ \A k \in 1 .. Len(r.list) : k # r.j => step(r).list[k] = r.list[k]
            /\ step(r).list[r.j] = [r.list[r.j] EXCEPT !.counter = @ + 1]
        BY <1>1, <2>1, <2>2, <2>4, StepFacts
      <3>2. ScanOK(step(r).list, r.j + 1, r.woken)
        BY <2>1, <2>2, <2>4, <3>1, ScanCounts
      <3> QED BY <2>3, <3>1, <3>2
    <2>5. CASE r.list[r.j].counter + 1 = r.list[r.j].alarm
      <3>1. /\ step(r).j = r.j /\ step(r).woken = r.woken \cup {r.list[r.j].pid}
            /\ step(r).list \in Seq(Entries) /\ Len(step(r).list) = Len(r.list) - 1
            /\ \A k \in 1 .. Len(r.list) - 1 :
                  step(r).list[k] = r.list[IF k = r.j THEN Len(r.list) ELSE k]
        BY <1>1, <2>1, <2>2, <2>5, StepFacts
      <3>2. ScanOK(step(r).list, r.j, r.woken \cup {r.list[r.j].pid})
        BY <2>1, <2>2, <2>5, <3>1, ScanExpires
      <3> QED BY <2>3, <3>1, <3>2
    <2> QED BY <2>4, <2>5
  <1>2. r0 \in C
    <2>1. ScanOK(sleepers, 1, {})
      BY TableFacts DEF ScanOK
    <2>2. r0 \in Scan
      BY TableFacts DEF Scan
    <2> QED BY <2>1, <2>2
  <1>3. timerTickLoop \in C /\ timerTickLoop \in atEnd
    <2>1. C \in SUBSET Scan /\ \A r \in C : r \notin atEnd => step(r) \in C
      BY <1>1
    <2> HIDE DEF C
    <2> QED BY <1>2, <2>1, LoopOfTick
  <1> DEFINE list == timerTickLoop.list
             W == timerTickLoop.woken
  <1>4. /\ list \in Seq(Entries) /\ W \in SUBSET Pids /\ timerTickLoop.j > Len(list)
        /\ timerTickLoop.j \in Nat /\ ScanOK(list, timerTickLoop.j, W)
    BY <1>3 DEF Scan, atEnd
  <1> HIDE DEF list, W
  <1>5. Len(list) \in Nat /\ DOMAIN list = 1 .. Len(list)
    BY <1>4
  <1>6. /\ Len(list) =< Len(sleepers)
        /\ \A j, k \in 1 .. Len(list) : list[j].pid = list[k].pid => j = k
        /\ \A j \in 1 .. Len(list) : list[j].pid \notin W
        /\ \A j \in 1 .. Len(list) :
              j < timerTickLoop.j => \E k \in DOMAIN sleepers : CountedOf(list[j], k)
        /\ \A p \in W : \E k \in DOMAIN sleepers : sleepers[k].pid = p /\ Expired(k)
        /\ \A k \in DOMAIN sleepers :
              sleepers[k].pid \in W \/ \E j \in 1 .. Len(list) : list[j].pid = sleepers[k].pid
    BY <1>4 DEF ScanOK
  <1>7. Len(list) =< MAX_LISTENERS
    BY <1>5, <1>6, TableFacts, SleepAssumption
  <1>8. \A j \in 1 .. Len(list) : j < timerTickLoop.j
    BY <1>4, <1>5
  <1> QED BY <1>4, <1>5, <1>6, <1>7, <1>8 DEF list, W

-----------------------------------------------------------------------------
(* Each action keeps SleepInv.                                              *)

\* What schedule(st) leaves of the table of processes, for the states st of a handler.
LEMMA Scheduled ==
    ASSUME SleepInv, NEW st \in [Pids -> States], schedule(st),
           \A p \in Pids : st[p] = "RUNNING" => procState[p] = "RUNNING",
           st[InitPid] \in {"READY", "RUNNING"}
    PROVE  /\ PTTypeOK' /\ InitSchedulable' /\ OneRunning'
           /\ Alive(procState') = Alive(st)
           /\ \A p \in Pids : procState'[p] = "SLEEPING" <=> st[p] = "SLEEPING"
           /\ \A p \in Pids : procState'[p] = "UNBORN" <=> st[p] = "UNBORN"
  <1>1. current \in Pids /\ \A p \in Pids : st[p] = "RUNNING" => p = current
    BY DEF SleepInv, TypeOK, PTTypeOK, OneRunning
  <1>2. /\ procState' \in [Pids -> States] /\ current' \in Pids
        /\ OneRunning' /\ InitSchedulable'
        /\ \A p \in Pids, s \in {"UNBORN", "BLOCKED", "SLEEPING", "REMOVED"} :
               procState'[p] = s <=> st[p] = s
    BY <1>1, ScheduleFacts
  <1>3. Alive(procState') = Alive(st)
    BY <1>2 DEF Alive
  <1> QED BY <1>2, <1>3 DEF PTTypeOK

\* The caller of a system call lives, is not init and has no entry.
LEMMA SleepCaller ==
    ASSUME SleepInv, Calling
    PROVE  /\ current \in Pids /\ current # InitPid /\ procState[current] = "RUNNING"
           /\ current \in Alive(procState)
           /\ \A j \in DOMAIN sleepers : sleepers[j].pid # current
  BY DEF SleepInv, TypeOK, PTTypeOK, Calling, Alive, EntriesMatch

\* sleep: the caller, which had no entry, gets one with its whole interval, or is
\* recorded as dropped when the table is full; either way it is SLEEPING.
LEMMA sleepInv ==
    ASSUME SleepInv, NEW t \in Intervals, sleep(t)
    PROVE  SleepInv'
  <1> DEFINE c == current
             st == changeProcessState(procState, c, "SLEEPING")
             e == [pid |-> c, alarm |-> t, counter |-> 0]
             full == Len(sleepers) >= MAX_LISTENERS
  <1>1. /\ c \in Pids /\ c # InitPid /\ procState[c] = "RUNNING" /\ c \in Alive(procState)
        /\ \A j \in DOMAIN sleepers : sleepers[j].pid # c
    BY SleepCaller DEF sleep
  <1>2. /\ sleepers' = (IF full THEN sleepers ELSE Append(sleepers, e))
        /\ due' = [due EXCEPT ![c] = t]
        /\ dropped' = (IF full THEN dropped \cup {c} ELSE dropped)
        /\ schedule(st)
    BY TableFacts, SleepAssumption DEF sleep, addSleep
  <1>3. t \in Nat /\ t > 0
    BY SleepAssumption
  <1>4. procState \in [Pids -> States] /\ due \in [Pids -> Nat] /\ dropped \in SUBSET Pids
    BY DEF SleepInv, TypeOK, PTTypeOK
  <1>5. /\ st \in [Pids -> States] /\ st[c] = "SLEEPING"
        /\ \A p \in Pids : p # c => st[p] = procState[p]
    BY <1>1, <1>4 DEF changeProcessState, States
  <1> HIDE DEF st
  <1>6. /\ PTTypeOK' /\ InitSchedulable' /\ OneRunning'
        /\ Alive(procState') = Alive(st)
        /\ \A p \in Pids : procState'[p] = "SLEEPING" <=> st[p] = "SLEEPING"
        /\ \A p \in Pids : procState'[p] = "UNBORN" <=> st[p] = "UNBORN"
    <2>1. \A p \in Pids : st[p] = "RUNNING" => procState[p] = "RUNNING"
      BY <1>5
    <2>2. st[InitPid] \in {"READY", "RUNNING"}
      BY <1>1, <1>5, PidAssumption DEF SleepInv, InitSchedulable
    <2> QED BY <1>2, <1>5, <2>1, <2>2, Scheduled
  <1>7. Alive(st) = Alive(procState)
    BY <1>1, <1>5 DEF Alive
  <1>8. /\ due' \in [Pids -> Nat] /\ due'[c] = t /\ dropped' \in SUBSET Pids
        /\ dropped \subseteq dropped' /\ \A p \in Pids : p # c => due'[p] = due[p]
        /\ c \in dropped' \/ ~full
    BY <1>1, <1>2, <1>3, <1>4
  <1>9. e \in Entries /\ e.pid = c /\ e.alarm = t /\ e.counter = 0
    BY <1>1 DEF Entries
  <1> HIDE DEF e
  <1>10. /\ sleepers' \in Seq(Entries) /\ Len(sleepers') =< MAX_LISTENERS
         /\ \A j \in DOMAIN sleepers' :
               \/ j \in DOMAIN sleepers /\ sleepers'[j] = sleepers[j]
               \/ j = Len(sleepers) + 1 /\ sleepers'[j] = e
         /\ \A j \in DOMAIN sleepers : j \in DOMAIN sleepers' /\ sleepers'[j] = sleepers[j]
         /\ ~full => Len(sleepers) + 1 \in DOMAIN sleepers' /\ sleepers'[Len(sleepers) + 1] = e
    <2>1. sleepers \in Seq(Entries) /\ Len(sleepers) \in Nat /\ Len(sleepers) =< MAX_LISTENERS
      BY TableFacts
    <2>2. CASE full
      BY <1>2, <2>1, <2>2
    <2>3. CASE ~full
      <3>1. sleepers' = Append(sleepers, e)
        BY <1>2, <2>3
      <3> QED BY <1>9, <2>1, <2>3, <3>1, SleepAssumption
    <2> QED BY <2>2, <2>3
  <1> HIDE DEF full
  <1>11. TypeOK'
    BY <1>6, <1>8, <1>10 DEF TypeOK
  <1>12. EntriesExpire'
    <2> SUFFICES ASSUME NEW j \in DOMAIN sleepers'
                 PROVE  sleepers'[j].counter < sleepers'[j].alarm
      BY DEF EntriesExpire
    <2>1. CASE j \in DOMAIN sleepers /\ sleepers'[j] = sleepers[j]
      BY <2>1 DEF SleepInv, EntriesExpire
    <2>2. CASE sleepers'[j] = e
      BY <1>3, <1>9, <2>2
    <2> QED BY <1>10, <2>1, <2>2
  <1>13. EntriesMatch'
    <2>1. \A j, k \in DOMAIN sleepers' : sleepers'[j].pid = sleepers'[k].pid => j = k
      BY <1>1, <1>9, <1>10, TableFacts
    <2>2. ASSUME NEW j \in DOMAIN sleepers'
          PROVE  /\ procState'[sleepers'[j].pid] # "UNBORN"
                 /\ sleepers'[j].pid \in Alive(procState') =>
                      /\ procState'[sleepers'[j].pid] = "SLEEPING"
                      /\ due'[sleepers'[j].pid] = sleepers'[j].alarm - sleepers'[j].counter
      <3>1. CASE j \in DOMAIN sleepers /\ sleepers'[j] = sleepers[j]
        <4>1. sleepers[j].pid \in Pids /\ sleepers[j].pid # c
          BY <1>1, <3>1, TableFacts
        <4>2. /\ procState[sleepers[j].pid] # "UNBORN"
              /\ sleepers[j].pid \in Alive(procState) =>
                   /\ procState[sleepers[j].pid] = "SLEEPING"
                   /\ due[sleepers[j].pid] = sleepers[j].alarm - sleepers[j].counter
          BY <3>1 DEF SleepInv, EntriesMatch
        <4> QED BY <1>5, <1>6, <1>7, <1>8, <3>1, <4>1, <4>2
      <3>2. CASE sleepers'[j] = e
        BY <1>1, <1>3, <1>5, <1>6, <1>8, <1>9, <3>2
      <3> QED BY <1>10, <3>1, <3>2
    <2> QED BY <2>1, <2>2 DEF EntriesMatch
  <1>14. SleepersHaveEntry'
    <2> SUFFICES ASSUME NEW p \in Pids \ dropped', procState'[p] = "SLEEPING"
                 PROVE  \E j \in DOMAIN sleepers' : sleepers'[j].pid = p
      BY DEF SleepersHaveEntry
    <2>1. CASE p = c
      BY <1>8, <1>9, <1>10, <2>1
    <2>2. CASE p # c
      <3>1. p \in Pids \ dropped /\ procState[p] = "SLEEPING"
        BY <1>5, <1>6, <1>8, <2>2
      <3>2. PICK j \in DOMAIN sleepers : sleepers[j].pid = p
        BY <3>1 DEF SleepInv, SleepersHaveEntry
      <3> QED BY <1>10, <3>2
    <2> QED BY <2>1, <2>2
  <1>15. UnbornNotDue'
    BY <1>1, <1>5, <1>6, <1>8 DEF SleepInv, UnbornNotDue
  <1>16. Punctual'
    <2> SUFFICES ASSUME NEW p \in Alive(procState') \ dropped'
                 PROVE  procState'[p] = "SLEEPING" <=> due'[p] > 0
      BY DEF Punctual
    <2>1. p \in Alive(procState) \ dropped /\ p \in Pids
      BY <1>6, <1>7, <1>8 DEF Alive
    <2>2. CASE p = c
      BY <1>3, <1>5, <1>6, <1>8, <2>1, <2>2
    <2>3. CASE p # c
      BY <1>5, <1>6, <1>8, <2>1, <2>3 DEF SleepInv, Punctual
    <2> QED BY <2>2, <2>3
  <1> QED BY <1>6, <1>11, <1>12, <1>13, <1>14, <1>15, <1>16 DEF SleepInv

\* The states a tick hands to schedule(): the processes woken by the loop that still
\* live are READY; they were SLEEPING and at the last tick of their interval.
awakened ==
    [p \in Pids |-> IF p \in timerTickLoop.woken \cap Alive(procState)
                    THEN "READY" ELSE procState[p]]

\* A tick wakes, of the living processes, SLEEPING ones with one tick left, and those
\* that go on sleeping have more.
LEMMA WokenAreDue ==
    ASSUME SleepInv
    PROVE  /\ \A p \in timerTickLoop.woken \cap Alive(procState) :
                 procState[p] = "SLEEPING" /\ due[p] = 1
           /\ \A j \in DOMAIN timerTickLoop.list :
                 LET e == timerTickLoop.list[j]
                 IN /\ e.pid \in Pids /\ procState[e.pid] # "UNBORN" /\ e.counter < e.alarm
                    /\ e.pid \in Alive(procState) =>
                         /\ procState[e.pid] = "SLEEPING"
                         /\ due[e.pid] = e.alarm - e.counter + 1
  <1>1. ASSUME NEW p \in timerTickLoop.woken \cap Alive(procState)
        PROVE  procState[p] = "SLEEPING" /\ due[p] = 1
    <2>1. PICK k \in DOMAIN sleepers : sleepers[k].pid = p /\ Expired(k)
      BY TickFacts
    <2>2. procState[p] = "SLEEPING" /\ due[p] = sleepers[k].alarm - sleepers[k].counter
      BY <2>1 DEF SleepInv, EntriesMatch
    <2> QED BY <2>1, <2>2, TableFacts DEF Expired
  <1>2. ASSUME NEW j \in DOMAIN timerTickLoop.list, NEW e, e = timerTickLoop.list[j]
        PROVE  /\ e.pid \in Pids /\ procState[e.pid] # "UNBORN" /\ e.counter < e.alarm
               /\ e.pid \in Alive(procState) =>
                    /\ procState[e.pid] = "SLEEPING"
                    /\ due[e.pid] = e.alarm - e.counter + 1
    <2>1. PICK k \in DOMAIN sleepers : CountedOf(e, k)
      BY <1>2, TickFacts
    <2>2. /\ sleepers[k].pid \in Pids /\ sleepers[k].alarm \in Nat /\ sleepers[k].counter \in Nat
      BY TableFacts
    <2>3. /\ procState[sleepers[k].pid] # "UNBORN"
          /\ sleepers[k].pid \in Alive(procState) =>
               /\ procState[sleepers[k].pid] = "SLEEPING"
               /\ due[sleepers[k].pid] = sleepers[k].alarm - sleepers[k].counter
      BY DEF SleepInv, EntriesMatch
    <2> QED BY <2>1, <2>2, <2>3 DEF CountedOf
  <1> QED BY <1>1, <1>2

\* The tick: entries are counted as their processes' due is, so who is due wakes now.
LEMMA timerTickInv ==
    ASSUME SleepInv, timerTick
    PROVE  SleepInv'
  <1> DEFINE list == timerTickLoop.list
             W == timerTickLoop.woken \cap Alive(procState)
  <1>1. /\ sleepers' = list /\ schedule(awakened) /\ dropped' = dropped
        /\ due' = [p \in Pids |-> IF due[p] > 0 THEN due[p] - 1 ELSE 0]
    BY DEF timerTick, awakened
  <1>2. procState \in [Pids -> States] /\ due \in [Pids -> Nat] /\ dropped \in SUBSET Pids
    BY DEF SleepInv, TypeOK, PTTypeOK
  <1>3. /\ awakened \in [Pids -> States]
        /\ \A p \in Pids : awakened[p] = IF p \in W THEN "READY" ELSE procState[p]
    BY <1>2 DEF awakened, States
  <1>4. /\ \A p \in W : procState[p] = "SLEEPING" /\ due[p] = 1 /\ p \in Pids
        /\ W = timerTickLoop.woken \cap Alive(procState)
    BY WokenAreDue DEF Alive
  <1>5. /\ list \in Seq(Entries) /\ Len(list) =< MAX_LISTENERS
        /\ \A j, k \in DOMAIN list : list[j].pid = list[k].pid => j = k
        /\ \A j \in DOMAIN list : list[j].pid \notin timerTickLoop.woken
    BY TickFacts
  <1>6. \A j \in DOMAIN list :
            /\ list[j].pid \in Pids /\ procState[list[j].pid] # "UNBORN"
            /\ list[j].counter < list[j].alarm
            /\ list[j].counter \in Nat /\ list[j].alarm \in Nat
            /\ list[j].pid \in Alive(procState) =>
                 /\ procState[list[j].pid] = "SLEEPING"
                 /\ due[list[j].pid] = list[j].alarm - list[j].counter + 1
    <2>1. \A j \in DOMAIN list : list[j].counter \in Nat /\ list[j].alarm \in Nat
      <3>1. \A j \in DOMAIN list : list[j] \in Entries
        BY <1>5
      <3> QED BY <3>1, SleepAssumption DEF Entries
    <2> QED BY <2>1, WokenAreDue
  <1>7. ASSUME NEW p \in Pids \ W, procState[p] = "SLEEPING", p \notin dropped
        PROVE  \E j \in DOMAIN list : list[j].pid = p
    <2>1. PICK k \in DOMAIN sleepers : sleepers[k].pid = p
      BY <1>7 DEF SleepInv, SleepersHaveEntry
    <2>2. p \notin timerTickLoop.woken
      BY <1>7 DEF Alive
    <2> QED BY <2>1, <2>2, TickFacts
  <1> HIDE DEF list, W
  <1>8. /\ PTTypeOK' /\ InitSchedulable' /\ OneRunning'
        /\ Alive(procState') = Alive(awakened)
        /\ \A p \in Pids : procState'[p] = "SLEEPING" <=> awakened[p] = "SLEEPING"
        /\ \A p \in Pids : procState'[p] = "UNBORN" <=> awakened[p] = "UNBORN"
    <2>1. \A p \in Pids : awakened[p] = "RUNNING" => procState[p] = "RUNNING"
      BY <1>3
    <2>2. awakened[InitPid] \in {"READY", "RUNNING"}
      BY <1>3, PidAssumption DEF SleepInv, InitSchedulable
    <2> QED BY <1>1, <1>3, <2>1, <2>2, Scheduled
  <1>9. Alive(awakened) = Alive(procState)
    BY <1>3, <1>4 DEF Alive
  <1>10. /\ due' \in [Pids -> Nat]
         /\ \A p \in Pids : due'[p] = IF due[p] > 0 THEN due[p] - 1 ELSE 0
    BY <1>1, <1>2
  <1>11. TypeOK'
    BY <1>1, <1>2, <1>5, <1>8, <1>10 DEF TypeOK
  <1>12. EntriesExpire'
    BY <1>1, <1>6 DEF EntriesExpire
  <1>13. EntriesMatch'
    <2>1. ASSUME NEW j \in DOMAIN list
          PROVE  /\ procState'[list[j].pid] # "UNBORN"
                 /\ list[j].pid \in Alive(procState') =>
                      /\ procState'[list[j].pid] = "SLEEPING"
                      /\ due'[list[j].pid] = list[j].alarm - list[j].counter
      <3>1. list[j].pid \in Pids \ W
        BY <1>4, <1>5, <1>6
      <3>2. awakened[list[j].pid] = procState[list[j].pid]
        BY <1>3, <3>1
      <3>3. procState'[list[j].pid] # "UNBORN"
        BY <1>6, <1>8, <3>1, <3>2
      <3>4. ASSUME list[j].pid \in Alive(procState')
            PROVE  /\ procState'[list[j].pid] = "SLEEPING"
                   /\ due'[list[j].pid] = list[j].alarm - list[j].counter
        <4>1. /\ procState[list[j].pid] = "SLEEPING"
              /\ due[list[j].pid] = list[j].alarm - list[j].counter + 1
          BY <1>6, <1>8, <1>9, <3>4
        <4>2. due[list[j].pid] > 0
          BY <1>6, <4>1
        <4>3. due'[list[j].pid] = due[list[j].pid] - 1
          BY <1>10, <3>1, <4>2
        <4>4. list[j].alarm \in Nat /\ list[j].counter \in Nat
          BY <1>6
        <4>5. due'[list[j].pid] = list[j].alarm - list[j].counter
          BY <4>1, <4>3, <4>4
        <4>6. procState'[list[j].pid] = "SLEEPING"
          BY <1>8, <3>1, <3>2, <4>1
        <4> QED BY <4>5, <4>6
      <3> QED BY <3>3, <3>4
    <2> QED BY <1>1, <1>5, <2>1 DEF EntriesMatch
  <1>14. SleepersHaveEntry'
    <2> SUFFICES ASSUME NEW p \in Pids \ dropped', procState'[p] = "SLEEPING"
                 PROVE  \E j \in DOMAIN sleepers' : sleepers'[j].pid = p
      BY DEF SleepersHaveEntry
    <2>1. p \notin W /\ procState[p] = "SLEEPING" /\ p \notin dropped
      BY <1>1, <1>3, <1>8
    <2> QED BY <1>1, <1>7, <2>1
  <1>15. UnbornNotDue'
    <2> SUFFICES ASSUME NEW p \in Pids, procState'[p] = "UNBORN" PROVE due'[p] = 0
      BY DEF UnbornNotDue
    <2>1. procState[p] = "UNBORN"
      BY <1>3, <1>8
    <2>2. due[p] = 0
      BY <2>1 DEF SleepInv, UnbornNotDue
    <2> QED BY <1>10, <2>2
  <1>16. Punctual'
    <2> SUFFICES ASSUME NEW p \in Alive(procState') \ dropped'
                 PROVE  procState'[p] = "SLEEPING" <=> due'[p] > 0
      BY DEF Punctual
    <2>1. p \in Alive(procState) /\ p \notin dropped /\ p \in Pids /\ due[p] \in Nat
      BY <1>1, <1>2, <1>8, <1>9 DEF Alive
    <2>2. CASE p \in W
      <3>1. procState'[p] # "SLEEPING"
        BY <1>3, <1>8, <2>1, <2>2
      <3>2. due[p] = 1
        BY <1>4, <2>2
      <3>3. due'[p] = 0
        BY <1>10, <2>1, <3>2
      <3> QED BY <3>1, <3>3
    <2>3. CASE p \notin W /\ procState[p] = "SLEEPING"
      <3>1. PICK j \in DOMAIN list : list[j].pid = p
        BY <1>7, <2>1, <2>3
      <3>2. due[p] = list[j].alarm - list[j].counter + 1
        BY <1>6, <2>1, <3>1
      <3>3. due[p] > 1
        BY <1>6, <3>2
      <3>4. due'[p] > 0
        BY <1>10, <2>1, <3>3
      <3> QED BY <1>3, <1>8, <2>1, <2>3, <3>4
    <2>4. CASE p \notin W /\ procState[p] # "SLEEPING"
      <3>1. ~(due[p] > 0)
        BY <2>1, <2>4 DEF SleepInv, Punctual
      <3>2. due'[p] = 0
        BY <1>10, <2>1, <3>1
      <3> QED BY <1>3, <1>8, <2>1, <2>4, <3>2
    <2> QED BY <2>2, <2>3, <2>4
  <1> QED BY <1>8, <1>11, <1>12, <1>13, <1>14, <1>15, <1>16 DEF SleepInv

\* createProcess: a pid that no entry bears.
LEMMA createInv ==
    ASSUME SleepInv, NEW p \in Pids, createProcess(p)
    PROVE  SleepInv'
  <1>1. /\ procState[p] = "UNBORN" /\ procState' = [procState EXCEPT ![p] = "READY"]
        /\ current' = current /\ sleepers' = sleepers /\ due' = due /\ dropped' = dropped
    BY DEF createProcess
  <1>2. procState \in [Pids -> States] /\ current \in Pids
    BY DEF SleepInv, TypeOK, PTTypeOK
  <1>3. /\ procState' \in [Pids -> States] /\ procState'[p] = "READY"
        /\ \A q \in Pids : q # p => procState'[q] = procState[q]
    BY <1>1, <1>2 DEF States
  <1>4. /\ p \in Alive(procState') /\ p \notin Alive(procState)
        /\ \A q \in Pids : q # p => (q \in Alive(procState') <=> q \in Alive(procState))
    BY <1>1, <1>3 DEF Alive
  <1>5. due[p] = 0
    BY <1>1 DEF SleepInv, UnbornNotDue
  <1>6. \A j \in DOMAIN sleepers : sleepers[j].pid \in Pids /\ sleepers[j].pid # p
    BY <1>1, TableFacts DEF SleepInv, EntriesMatch
  <1>7. TypeOK' /\ EntriesExpire'
    BY <1>1, <1>2, <1>3 DEF SleepInv, TypeOK, PTTypeOK, EntriesExpire
  <1>8. InitSchedulable' /\ OneRunning'
    BY <1>1, <1>2, <1>3, PidAssumption DEF SleepInv, InitSchedulable, OneRunning
  <1>9. EntriesMatch'
    BY <1>1, <1>3, <1>4, <1>6 DEF SleepInv, EntriesMatch
  <1>10. SleepersHaveEntry' /\ UnbornNotDue'
    BY <1>1, <1>3 DEF SleepInv, SleepersHaveEntry, UnbornNotDue
  <1>11. Punctual'
    <2> SUFFICES ASSUME NEW q \in Alive(procState') \ dropped'
                 PROVE  procState'[q] = "SLEEPING" <=> due'[q] > 0
      BY DEF Punctual
    <2>1. q \in Pids
      BY DEF Alive
    <2>2. CASE q = p
      BY <1>1, <1>3, <1>5, <2>2
    <2>3. CASE q # p
      <3>1. procState[q] = "SLEEPING" <=> due[q] > 0
        BY <1>1, <1>4, <2>1, <2>3 DEF SleepInv, Punctual
      <3> QED BY <1>1, <1>3, <2>1, <2>3, <3>1
    <2> QED BY <2>2, <2>3
  <1> QED BY <1>7, <1>8, <1>9, <1>10, <1>11 DEF SleepInv

\* removeProcess: the entry of a sleeper that is killed stays, of no living process.
LEMMA killInv ==
    ASSUME SleepInv, NEW p \in Mortal, kill(p)
    PROVE  SleepInv'
  <1> DEFINE st == Removed(procState, p)
  <1>1. /\ p \in Pids /\ p # InitPid /\ p \in Alive(procState)
        /\ due' = [due EXCEPT ![p] = 0] /\ sleepers' = sleepers /\ dropped' = dropped
        /\ \/ p = current /\ schedule(st)
           \/ p # current /\ procState' = st /\ current' = current
    BY SleepAssumption DEF kill
  <1>2. procState \in [Pids -> States] /\ current \in Pids /\ due \in [Pids -> Nat]
    BY DEF SleepInv, TypeOK, PTTypeOK
  <1>3. /\ st \in [Pids -> States] /\ st[p] = "REMOVED"
        /\ \A q \in Pids : q # p => st[q] = procState[q]
    BY <1>1, <1>2 DEF Removed, changeProcessState, States
  <1> HIDE DEF st
  <1>4. /\ PTTypeOK' /\ InitSchedulable' /\ OneRunning'
        /\ Alive(procState') = Alive(st)
        /\ \A q \in Pids : procState'[q] = "SLEEPING" <=> st[q] = "SLEEPING"
        /\ \A q \in Pids : procState'[q] = "UNBORN" <=> st[q] = "UNBORN"
    <2>1. \A q \in Pids : st[q] = "RUNNING" => procState[q] = "RUNNING"
      BY <1>3
    <2>2. st[InitPid] \in {"READY", "RUNNING"}
      BY <1>1, <1>3, PidAssumption DEF SleepInv, InitSchedulable
    <2>3. CASE schedule(st)
      BY <1>3, <2>1, <2>2, <2>3, Scheduled
    <2>4. CASE p # current /\ procState' = st /\ current' = current
      BY <1>2, <1>3, <2>2, <2>4 DEF SleepInv, PTTypeOK, InitSchedulable, OneRunning
    <2> QED BY <1>1, <2>3, <2>4
  <1>5. /\ p \notin Alive(st)
        /\ \A q \in Pids : q # p => (q \in Alive(st) <=> q \in Alive(procState))
    BY <1>3 DEF Alive
  <1>6. due' \in [Pids -> Nat] /\ due'[p] = 0 /\ \A q \in Pids : q # p => due'[q] = due[q]
    BY <1>1, <1>2
  <1>7. TypeOK' /\ EntriesExpire'
    BY <1>1, <1>4, <1>6 DEF SleepInv, TypeOK, EntriesExpire
  <1>8. EntriesMatch'
    <2>1. ASSUME NEW j \in DOMAIN sleepers
          PROVE  /\ procState'[sleepers[j].pid] # "UNBORN"
                 /\ sleepers[j].pid \in Alive(procState') =>
                      /\ procState'[sleepers[j].pid] = "SLEEPING"
                      /\ due'[sleepers[j].pid] = sleepers[j].alarm - sleepers[j].counter
      <3>1. sleepers[j].pid \in Pids
        BY TableFacts
      <3>2. CASE sleepers[j].pid = p
        BY <1>3, <1>4, <1>5, <3>1, <3>2
      <3>3. CASE sleepers[j].pid # p
        <4>1. /\ procState[sleepers[j].pid] # "UNBORN"
              /\ sleepers[j].pid \in Alive(procState) =>
                   /\ procState[sleepers[j].pid] = "SLEEPING"
                   /\ due[sleepers[j].pid] = sleepers[j].alarm - sleepers[j].counter
          BY DEF SleepInv, EntriesMatch
        <4> QED BY <1>3, <1>4, <1>5, <1>6, <3>1, <3>3, <4>1
      <3> QED BY <3>2, <3>3
    <2>2. \A j, k \in DOMAIN sleepers : sleepers[j].pid = sleepers[k].pid => j = k
      BY TableFacts
    <2> QED BY <1>1, <2>1, <2>2 DEF EntriesMatch
  <1>9. SleepersHaveEntry'
    <2> SUFFICES ASSUME NEW q \in Pids \ dropped', procState'[q] = "SLEEPING"
                 PROVE  \E j \in DOMAIN sleepers' : sleepers'[j].pid = q
      BY DEF SleepersHaveEntry
    <2>1. q # p /\ procState[q] = "SLEEPING" /\ q \notin dropped
      BY <1>1, <1>3, <1>4
    <2> QED BY <1>1, <2>1 DEF SleepInv, SleepersHaveEntry
  <1>10. UnbornNotDue'
    BY <1>3, <1>4, <1>6 DEF SleepInv, UnbornNotDue
  <1>11. Punctual'
    <2> SUFFICES ASSUME NEW q \in Alive(procState') \ dropped'
                 PROVE  procState'[q] = "SLEEPING" <=> due'[q] > 0
      BY DEF Punctual
    <2>1. q \in Pids /\ q # p /\ q \in Alive(procState) /\ q \notin dropped
      BY <1>1, <1>4, <1>5 DEF Alive
    <2>2. procState[q] = "SLEEPING" <=> due[q] > 0
      BY <2>1 DEF SleepInv, Punctual
    <2> QED BY <1>3, <1>4, <1>6, <2>1, <2>2
  <1> QED BY <1>4, <1>7, <1>8, <1>9, <1>10, <1>11 DEF SleepInv

-----------------------------------------------------------------------------
\* At boot nobody sleeps.
LEMMA SleepInitInv == Init => SleepInv
  <1> SUFFICES ASSUME Init PROVE SleepInv
    OBVIOUS
  <1>1. sleepers = <<>> /\ due = [p \in Pids |-> 0] /\ dropped = {} /\ PTInit
    BY DEF Init
  <1>2. PTTypeOK /\ InitSchedulable /\ OneRunning /\ \A p \in Pids : procState[p] # "SLEEPING"
    BY <1>1, PidAssumption DEF PTInit, PTTypeOK, InitSchedulable, OneRunning, States
  <1>3. sleepers \in Seq(Entries) /\ Len(sleepers) = 0 /\ DOMAIN sleepers = {}
    BY <1>1
  <1>4. TypeOK
    BY <1>1, <1>2, <1>3, SleepAssumption DEF TypeOK
  <1>5. EntriesExpire /\ EntriesMatch /\ SleepersHaveEntry
    BY <1>2, <1>3 DEF EntriesExpire, EntriesMatch, SleepersHaveEntry
  <1>6. UnbornNotDue /\ Punctual
    BY <1>1, <1>2 DEF UnbornNotDue, Punctual, Alive
  <1> QED BY <1>2, <1>4, <1>5, <1>6 DEF SleepInv

\* Every step of the processes and of the timer keeps SleepInv.
LEMMA SleepNextInv == SleepInv /\ [Next]_vars => SleepInv'
  <1> SUFFICES ASSUME SleepInv, [Next]_vars PROVE SleepInv'
    OBVIOUS
  <1>1. CASE UNCHANGED vars
    BY <1>1 DEF vars, SleepInv, TypeOK, PTTypeOK, InitSchedulable, OneRunning, Alive,
                EntriesExpire, EntriesMatch, SleepersHaveEntry, UnbornNotDue, Punctual
  <1>2. CASE \E t \in Intervals : sleep(t)
    BY <1>2, sleepInv
  <1>3. CASE timerTick
    BY <1>3, timerTickInv
  <1>4. CASE \E p \in Pids : createProcess(p)
    BY <1>4, createInv
  <1>5. CASE \E p \in Mortal : kill(p)
    BY <1>5, killInv
  <1> QED BY <1>1, <1>2, <1>3, <1>4, <1>5 DEF Next

\* The invariant of the table of sleepers holds whatever the processes, the length of
\* the table and the intervals: through sleep(), the loop of the timer, creations and kills.
THEOREM SleepInvariant == Spec => []SleepInv
  BY SleepInitInv, SleepNextInv, PTL DEF Spec

\* timerTickHandlerC wakes a sleeper the table had room for at the tick its interval
\* ends, although deleteSleep moves the last entry while the loop is under way.
THEOREM SleepPunctual == Spec => []Punctual
  <1>1. SleepInv => Punctual
    BY DEF SleepInv
  <1> QED BY <1>1, SleepInvariant, PTL

\* Every variable of the sleeping module has its type: an entry holds a slot and a count.
THEOREM SleepTypes == Spec => []TypeOK
  <1>1. SleepInv => TypeOK
    BY DEF SleepInv
  <1> QED BY <1>1, SleepInvariant, PTL

\* No entry, of a living or of a killed process, passes its alarm: the equality test of
\* timerTickHandlerC never misses it.
THEOREM SleepEntriesExpire == Spec => []EntriesExpire
  <1>1. SleepInv => EntriesExpire
    BY DEF SleepInv
  <1> QED BY <1>1, SleepInvariant, PTL

\* A SLEEPING process that addSleep had room for is in the table once, with the time
\* it has left.
THEOREM SleepListed == Spec => []SleeperListed
  <1>1. ASSUME SleepInv PROVE SleeperListed
    <2> SUFFICES ASSUME NEW p \in Pids \ dropped, procState[p] = "SLEEPING"
                 PROVE  /\ Cardinality({j \in DOMAIN sleepers : sleepers[j].pid = p}) = 1
                        /\ \A j \in DOMAIN sleepers : sleepers[j].pid = p =>
                              sleepers[j].alarm - sleepers[j].counter = due[p]
      BY DEF SleeperListed
    <2>1. p \in Alive(procState)
      BY DEF Alive
    <2>2. PICK k \in DOMAIN sleepers : sleepers[k].pid = p
      BY <1>1 DEF SleepInv, SleepersHaveEntry
    <2>3. {j \in DOMAIN sleepers : sleepers[j].pid = p} = {k}
      BY <1>1, <2>2 DEF SleepInv, EntriesMatch
    <2>4. Cardinality({k}) = 1
      BY FS_Singleton
    <2>5. \A j \in DOMAIN sleepers : sleepers[j].pid = p =>
             sleepers[j].alarm - sleepers[j].counter = due[p]
      BY <1>1, <2>1 DEF SleepInv, EntriesMatch
    <2> QED BY <2>3, <2>4, <2>5
  <1> QED BY <1>1, SleepInvariant, PTL

-----------------------------------------------------------------------------
\* A step of the sleepers is a step of the table of processes: sleep() suspends the
\* caller, a tick wakes SLEEPING processes only, a kill removes.
LEMMA SleepStepImplements == SleepInv /\ [Next]_vars => [PTNext]_ptVars
  <1> SUFFICES ASSUME SleepInv, [Next]_vars PROVE [PTNext]_ptVars
    OBVIOUS
  <1>0. procState \in [Pids -> States] /\ current \in Pids
    BY DEF SleepInv, TypeOK, PTTypeOK
  <1>1. CASE UNCHANGED vars
    BY <1>1 DEF vars, ptVars
  <1>2. ASSUME NEW t \in Intervals, sleep(t) PROVE PTSuspend
    <2>1. Calling /\ schedule(changeProcessState(procState, current, "SLEEPING"))
      BY <1>2 DEF sleep
    <2>2. changeProcessState(procState, current, "SLEEPING") =
            [p \in Pids |-> IF p = current THEN "SLEEPING"
                            ELSE IF p = NoPid THEN "READY" ELSE procState[p]]
      BY <1>2, SleepCaller, PidAssumption DEF sleep, changeProcessState
    <2>3. schedule([p \in Pids |-> IF p = current THEN "SLEEPING"
                                   ELSE IF p = NoPid THEN "READY" ELSE procState[p]])
      BY <2>1, <2>2
    <2> QED BY <2>1, <2>3 DEF PTSuspend
  <1>3. ASSUME timerTick PROVE PTTick
    <2> DEFINE W == timerTickLoop.woken \cap Alive(procState)
    <2>1. W \in SUBSET {p \in Pids : procState[p] = "SLEEPING"}
      BY WokenAreDue DEF Alive
    <2>2. schedule([p \in Pids |-> IF p \in W THEN "READY" ELSE procState[p]])
      BY <1>3 DEF timerTick
    <2> HIDE DEF W
    <2> QED BY <2>1, <2>2, Zenon DEF PTTick
  <1>4. ASSUME NEW p \in Pids, createProcess(p) PROVE PTCreate
    BY <1>4 DEF createProcess, PTCreate
  <1>5. ASSUME NEW p \in Mortal, kill(p) PROVE PTExit \/ PTKill
    <2>1. p \in Alive(procState) \ {InitPid} /\ Calling
      BY <1>5, SleepAssumption DEF kill
    <2>2. CASE p = current
      BY <1>5, <2>1, <2>2 DEF kill, PTExit
    <2>3. CASE p # current
      BY <1>5, <2>1, <2>3 DEF kill, PTKill
    <2> QED BY <2>2, <2>3
  <1> QED BY <1>1, <1>2, <1>3, <1>4, <1>5 DEF Next, PTNext

\* sleep() and the timer implement the table of processes: nobody is made READY that
\* did not sleep, and only the caller is put to sleep.
THEOREM SleepImplementsTable == Spec => ImplementsTable
  <1>1. Init => PTInit
    BY DEF Init
  <1> QED BY <1>1, SleepInvariant, SleepStepImplements, PTL DEF Spec, ImplementsTable, PTSpec
=============================================================================
