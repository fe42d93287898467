------------------------------- MODULE Sleep --------------------------------
(***************************************************************************)
(* The sleepers of Kernel/interrupts.c: sleep() appends the caller to a    *)
(* table and suspends it; every timer tick counts each entry up and wakes  *)
(* those whose counter reaches the alarm.  An expired entry is overwritten *)
(* by the last one while the loop over the table is under way.  Killing a  *)
(* process leaves its entry in the table.                                  *)
(***************************************************************************)
EXTENDS ProcessTable, Integers, FiniteSets, Sequences, SequencesExt

CONSTANTS
    MAX_LISTENERS,  \* length of the table
    Intervals,      \* the times the processes sleep; 0 and less never expire
    Mortal          \* the processes that may be killed

ASSUME SleepAssumption ==
    /\ MAX_LISTENERS \in Nat \ {0}
    /\ IsFiniteSet(Pids)
    /\ Intervals \subseteq Nat \ {0}
    /\ Mortal \subseteq Pids \ {InitPid}

VARIABLES
    sleepers,  \* the first sleepListeners entries of sleepPIDS, alarmSleep, sleepCounter
    due,       \* history: the ticks a process still has to sleep
    dropped    \* history: the processes whose sleep found the table full

vars == <<procState, current, sleepers, due, dropped>>

Entries == [pid : Pids, alarm : Intervals, counter : Nat]

TypeOK ==
    /\ PTTypeOK
    /\ sleepers \in Seq(Entries) /\ Len(sleepers) =< MAX_LISTENERS
    /\ due \in [Pids -> Nat]
    /\ dropped \subseteq Pids

Init ==
    /\ PTInit
    /\ sleepers = <<>>
    /\ due = [p \in Pids |-> 0]
    /\ dropped = {}

-----------------------------------------------------------------------------
\* Mutant of addSleep: the bound is off by one.
addSleepPastEnd(pid, interval) ==
    IF Len(sleepers) > MAX_LISTENERS THEN sleepers
    ELSE Append(sleepers, [pid |-> pid, alarm |-> interval, counter |-> 0])

\* addSleep: with the table full the process is not recorded.
addSleep(pid, interval) ==
    IF Len(sleepers) >= MAX_LISTENERS THEN sleepers
    ELSE Append(sleepers, [pid |-> pid, alarm |-> interval, counter |-> 0])

\* Mutant of sleep: the caller keeps the CPU until the next tick.
sleepNoYield(interval) ==
    /\ Calling
    /\ sleepers' = addSleep(current, interval)
    /\ due' = [due EXCEPT ![current] = interval]
    /\ dropped' = IF Len(sleepers) < MAX_LISTENERS THEN dropped ELSE dropped \cup {current}
    /\ procState' = changeProcessState(procState, current, "SLEEPING")
    /\ UNCHANGED current

\* sleep
sleep(interval) ==
    /\ Calling
    /\ sleepers' = addSleep(current, interval)
    /\ due' = [due EXCEPT ![current] = interval]
    /\ dropped' = IF Len(sleepers) < MAX_LISTENERS THEN dropped ELSE dropped \cup {current}
    /\ schedule(changeProcessState(procState, current, "SLEEPING"))

\* Mutant of deleteSleep: the entry is dropped and the last one is not moved.
deleteSleepLast(list, j) == Front(list)

\* deleteSleep: the last entry takes the place of entry j.
deleteSleep(list, j) == Front([list EXCEPT ![j] = Last(list)])

\* Mutant of step: the entry moved into the place of an expired one is not examined.
stepSkip(r) ==
    LET counted == [r.list EXCEPT ![r.j].counter = @ + 1]
    IN IF counted[r.j].counter = counted[r.j].alarm
       THEN [list |-> deleteSleep(counted, r.j), j |-> r.j + 1,
             woken |-> r.woken \cup {counted[r.j].pid}]
       ELSE [r EXCEPT !.list = counted, !.j = @ + 1]

\* Mutant of step: the entry is deleted first, and its place read afterwards.
stepStale(r) ==
    LET counted == [r.list EXCEPT ![r.j].counter = @ + 1]
    IN IF counted[r.j].counter = counted[r.j].alarm
       THEN [list |-> deleteSleep(counted, r.j), j |-> r.j,
             woken |-> r.woken \cup {Last(counted).pid}]
       ELSE [r EXCEPT !.list = counted, !.j = @ + 1]

\* One iteration of the loop of timerTickHandlerC at entry j: an expired entry
\* wakes its process, is deleted, and its place is examined again.
step(r) ==
    LET counted == [r.list EXCEPT ![r.j].counter = @ + 1]
    IN IF counted[r.j].counter = counted[r.j].alarm
       THEN [list |-> deleteSleep(counted, r.j), j |-> r.j,
             woken |-> r.woken \cup {counted[r.j].pid}]
       ELSE [r EXCEPT !.list = counted, !.j = @ + 1]

Scan == [list : Seq(Entries), j : Nat \ {0}, woken : SUBSET Pids]

\* Mutant of timerTickLoop: the loop stops at the first entry that expires.
timerTickLoopBreak ==
    LET loop[r \in Scan] ==
          IF r.j > Len(r.list) \/ r.woken # {} THEN r ELSE loop[step(r)]
    IN loop[[list |-> sleepers, j |-> 1, woken |-> {}]]

\* The whole loop; the length of the table is read again at every iteration.
timerTickLoop ==
    LET loop[r \in Scan] == IF r.j > Len(r.list) THEN r ELSE loop[step(r)]
    IN loop[[list |-> sleepers, j |-> 1, woken |-> {}]]

\* timerTickHandler: the loop, then switchKernelToUser.
timerTick ==
    /\ due' = [p \in Pids |-> IF due[p] > 0 THEN due[p] - 1 ELSE 0]
    /\ LET tick == timerTickLoop
       IN /\ sleepers' = tick.list
          /\ schedule([p \in Pids |-> IF p \in tick.woken \cap Alive(procState)
                                      THEN "READY" ELSE procState[p]])
    /\ UNCHANGED dropped

\* createProcess
createProcess(p) ==
    /\ Calling
    /\ procState[p] = "UNBORN"
    /\ procState' = [procState EXCEPT ![p] = "READY"]
    /\ UNCHANGED <<current, sleepers, due, dropped>>

\* removeProcess by kill or a fault: the table of sleepers is not told.
kill(p) ==
    /\ Calling
    /\ p \in Alive(procState)
    /\ due' = [due EXCEPT ![p] = 0]
    /\ IF p = current THEN schedule(Removed(procState, p))
       ELSE procState' = Removed(procState, p) /\ UNCHANGED current
    /\ UNCHANGED <<sleepers, dropped>>

Next ==
    \/ \E t \in Intervals : sleep(t)
    \/ timerTick
    \/ \E p \in Pids : createProcess(p)
    \/ \E p \in Mortal : kill(p)

Spec == Init /\ [][Next]_vars

-----------------------------------------------------------------------------
\* A sleeper the table had room for is woken at the tick its interval ends, not
\* later and not earlier, whichever entries expire, move and are deleted meanwhile.
Punctual ==
    \A p \in Alive(procState) \ dropped : procState[p] = "SLEEPING" <=> due[p] > 0

\* A SLEEPING process is in the table exactly once, with what is left of its time,
\* unless the table was full when it went to sleep.
SleeperListed ==
    \A p \in Pids \ dropped : procState[p] = "SLEEPING" =>
        /\ Cardinality({j \in DOMAIN sleepers : sleepers[j].pid = p}) = 1
        /\ \A j \in DOMAIN sleepers : sleepers[j].pid = p =>
              sleepers[j].alarm - sleepers[j].counter = due[p]

\* An entry left behind by a killed process disappears: it is never past its alarm.
EntriesExpire == \A j \in DOMAIN sleepers : sleepers[j].counter < sleepers[j].alarm

ImplementsTable == PTSpec

\* Fairness: the timer keeps interrupting, and a process that is READY again and
\* again runs again and again, which the ring guarantees (ReadyRuns of Scheduler).
Fairness ==
    /\ WF_vars(timerTick)
    /\ \A p \in Pids : []<>(procState[p] = "READY") => []<>(procState[p] = "RUNNING")

FairSpec == Spec /\ Fairness

\* Who sleeps runs again, unless it is killed or the table was full.
SleeperRuns ==
    \A p \in Pids :
        (procState[p] = "SLEEPING" /\ p \notin dropped) ~> (procState[p] \in {"RUNNING", "REMOVED"})

-----------------------------------------------------------------------------
(* The parts of the inductive invariant behind the properties above.        *)

\* A process has one entry at most, and while it lives it is SLEEPING for what is left
\* of the alarm; the others are of processes that were killed.
EntriesMatch ==
    /\ \A j, k \in DOMAIN sleepers : sleepers[j].pid = sleepers[k].pid => j = k
    /\ \A j \in DOMAIN sleepers :
          /\ procState[sleepers[j].pid] # "UNBORN"
          /\ sleepers[j].pid \in Alive(procState) =>
                /\ procState[sleepers[j].pid] = "SLEEPING"
                /\ due[sleepers[j].pid] = sleepers[j].alarm - sleepers[j].counter

\* A SLEEPING process has an entry, unless the table was full.
SleepersHaveEntry ==
    \A p \in Pids \ dropped :
        procState[p] = "SLEEPING" => \E j \in DOMAIN sleepers : sleepers[j].pid = p

UnbornNotDue == \A p \in Pids : procState[p] = "UNBORN" => due[p] = 0

SleepInv ==
    /\ TypeOK /\ InitSchedulable /\ OneRunning
    /\ EntriesExpire /\ EntriesMatch /\ SleepersHaveEntry /\ UnbornNotDue /\ Punctual
=============================================================================
