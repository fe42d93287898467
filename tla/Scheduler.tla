----------------------------- MODULE Scheduler ------------------------------
(***************************************************************************)
(* Kernel/scheduler.c at the level of its pointers: a circular list of     *)
(* slots (next), the current slot and the counter cardinal_processes that  *)
(* bounds every walk of the list.  System calls and interrupt handlers run *)
(* with interrupts off and are one action each.  A process that returns    *)
(* from its main function (callProcess, terminateThread, removeProcess)    *)
(* runs the list surgery in its own context with interrupts ON, so its     *)
(* steps interleave with the timer and with what the processes dispatched  *)
(* by it do.                                                               *)
(***************************************************************************)
EXTENDS Integers, FiniteSets

CONSTANTS
    Pids, InitPid, ShellPid, NoPid,
    Returning  \* the processes that may return from their main function

ASSUME SchedulerAssumption ==
    /\ IsFiniteSet(Pids)
    /\ InitPid \in Pids
    /\ ShellPid \in Pids \ {InitPid}
    /\ NoPid \notin Pids
    /\ Returning \subseteq Pids \ {InitPid}

VARIABLES
    state,              \* Process.state of every slot, meaningful once next is set
    next,               \* ProcessSlot.next; NoPid while the slot is not allocated
    current,            \* the slot current points to
    cardinal_processes,
    exit,               \* the locals of removeProcess in a returning process
    ended               \* history: the processes whose removal was requested, or that
                        \* were cut out of the list

vars == <<state, next, current, cardinal_processes, exit, ended>>

\* Where a returning process is: still in user code, at the condition of the search
\* loop of removeProcess, in its body, at the test after it, before the load of
\* slotToRemove->next and the store to prevSlot->next, before the load and the store
\* of cardinal_processes--, before the _yield of removeProcess, before the _yield
\* of callProcess, past it.
Points == {"user", "search", "advance", "check", "follow", "unlink", "load", "store",
           "yield", "callProcess", "past"}

\* The locals of removeProcess, and the registers link and reg of its two load-stores.
UserCode == [pc |-> "user", prevSlot |-> NoPid, slotToRemove |-> NoPid, link |-> NoPid,
             i |-> 0, reg |-> 0]

TypeOK ==
    /\ state \in [Pids -> {"READY", "RUNNING", "BLOCKED", "SLEEPING"}]
    /\ next \in [Pids -> Pids \cup {NoPid}]
    /\ current \in Pids /\ next[current] # NoPid
    /\ cardinal_processes \in 0 .. Cardinality(Pids)
    /\ exit \in [Pids -> [pc : Points, prevSlot : Pids \cup {NoPid},
                          slotToRemove : Pids \cup {NoPid}, link : Pids \cup {NoPid},
                          i : 0 .. Cardinality(Pids), reg : 0 .. Cardinality(Pids)]]
    /\ ended \subseteq Pids \ {InitPid}

-----------------------------------------------------------------------------
Hops == 0 .. Cardinality(Pids) + 1

\* walk(nx, s)[i] is the slot reached from s after following next i times.
walk(nx, s) == LET w[i \in Hops] == IF i = 0 THEN s ELSE nx[w[i - 1]] IN w

\* The slots a loop over cardinal_processes entries, starting at current, visits.
Visited == {walk(next, current)[i] : i \in 0 .. cardinal_processes - 1}

changeProcessState(st, pid, s) ==
    IF pid \in Visited THEN [st EXCEPT ![pid] = s] ELSE st

\* Mutant of schedule: the search always starts at init.
scheduleFromInit(nx, st) ==
    LET d == IF st[current] = "RUNNING" THEN [st EXCEPT ![current] = "READY"] ELSE st
        w == walk(nx, InitPid)
    IN \E j \in Hops \ {0} :
         /\ d[w[j]] = "READY"
         /\ \A k \in 1 .. j - 1 : d[w[k]] # "READY"
         /\ current' = w[j]
         /\ state' = [d EXCEPT ![w[j]] = "RUNNING"]

\* schedule(): with the links nx and the states st, the first READY slot after
\* current runs next.
schedule(nx, st) ==
    LET d == IF st[current] = "RUNNING" THEN [st EXCEPT ![current] = "READY"] ELSE st
        w == walk(nx, current)
    IN \E j \in Hops \ {0} :
         /\ d[w[j]] = "READY"
         /\ \A k \in 1 .. j - 1 : d[w[k]] # "READY"
         /\ current' = w[j]
         /\ state' = [d EXCEPT ![w[j]] = "RUNNING"]

\* Mutant of addProcess: the new slot is linked back to current.
addProcessBack(nx, p) == [nx EXCEPT ![p] = current, ![current] = p]

\* addProcess: the new slot goes right after current.
addProcess(nx, p) == [nx EXCEPT ![p] = nx[current], ![current] = p]

\* The search of removeProcess for pid in links nx with counter card: the number
\* of iterations, card when pid is not found, none at all when card is negative.
SearchLength(nx, card, pid) ==
    LET w == walk(nx, current)
        found == {i \in 0 .. card - 1 : w[i + 1] = pid}
    IN CASE found # {} -> CHOOSE i \in found : \A j \in found : i =< j
         [] found = {} /\ card < 0  -> 0
         [] found = {} /\ card >= 0 -> card

\* Mutant of removeProcess: the counter is decremented twice.
removeProcessTwice(ring, pid) ==
    LET i == SearchLength(ring.nx, ring.card, pid)
        w == walk(ring.nx, current)
    IN IF i = ring.card THEN ring
       ELSE [nx |-> [ring.nx EXCEPT ![w[i]] = ring.nx[w[i + 1]]],
             card |-> ring.card - 2, cut |-> ring.cut \cup {w[i + 1]}]

\* The links and the counter of ring, and the slots cut out so far, after removeProcess
\* of a pid other than 0, run with interrupts off.
removeProcess(ring, pid) ==
    LET i == SearchLength(ring.nx, ring.card, pid)
        w == walk(ring.nx, current)
    IN IF i = ring.card THEN ring
       ELSE [nx |-> [ring.nx EXCEPT ![w[i]] = ring.nx[w[i + 1]]],
             card |-> ring.card - 1, cut |-> ring.cut \cup {w[i + 1]}]

Ring == [nx |-> next, card |-> cardinal_processes, cut |-> {}]

\* killAllExceptCurrent: aux runs over the list once, from current->next back to
\* current, removing everyone but init.
killAllExceptCurrent(ring) ==
    LET w == walk(ring.nx, current)
        r[i \in Hops] ==
            IF i = 0 \/ \E k \in 1 .. i : w[k] = current
            THEN IF i = 0 THEN ring ELSE r[i - 1]
            ELSE IF w[i] = InitPid THEN r[i - 1] ELSE removeProcess(r[i - 1], w[i])
    IN r[Cardinality(Pids) + 1]

Born == {p \in Pids : next[p] # NoPid}

-----------------------------------------------------------------------------
\* main(): init is added to the empty list, the shell after it.
Init ==
    /\ state = [p \in Pids |-> "READY"]
    /\ next = [p \in Pids |-> CASE p = InitPid  -> ShellPid
                                [] p = ShellPid -> InitPid
                                [] OTHER        -> NoPid]
    /\ current = InitPid
    /\ cardinal_processes = 2
    /\ exit = [p \in Pids |-> UserCode]
    /\ ended = {}

\* A process other than init is in user code and may call the kernel.
Calling == current # InitPid /\ exit[current].pc = "user"

\* removeProcess empties a list whose only slot is to be removed: current becomes NULL, and
\* the next schedule() has no slot to look at.
Alone == next[current] = current

\* sys_call_createProcess
createProcess(p) ==
    /\ Calling
    /\ p \in Pids \ Born
    /\ next' = addProcess(next, p)
    /\ cardinal_processes' = cardinal_processes + 1
    /\ UNCHANGED <<state, current, exit, ended>>

\* timerTickHandler: the sleepers W whose alarm expired become READY, then
\* switchKernelToUser reschedules.
timerTickHandler ==
    /\ \E st \in {[p \in Pids |-> IF p \in W THEN "READY" ELSE state[p]] :
                   W \in SUBSET {p \in Visited : state[p] = "SLEEPING"}} :
         schedule(next, st)
    /\ UNCHANGED <<next, cardinal_processes, exit, ended>>

\* A system call that suspends its caller: changeProcessState on itself, _yield.
Suspend(s) ==
    /\ Calling
    /\ schedule(next, changeProcessState(state, current, s))
    /\ UNCHANGED <<next, cardinal_processes, exit, ended>>

\* A system call that wakes a blocked process, which changeProcessState finds.
Wake(p) ==
    /\ Calling
    /\ p \in Visited /\ state[p] = "BLOCKED"
    /\ state' = changeProcessState(state, p, "READY")
    /\ UNCHANGED <<next, current, cardinal_processes, exit, ended>>

\* Mutant of kill: pid 0 is not special.
killAnyone(pid) ==
    /\ Calling
    /\ pid \in Born
    /\ LET ring == removeProcess(Ring, pid)
       IN /\ next' = ring.nx
          /\ cardinal_processes' = ring.card
          /\ ended' = ended \cup {pid} \cup ring.cut
          /\ IF current \in ring.cut
             THEN schedule(ring.nx, state)
             ELSE UNCHANGED <<state, current>>
    /\ UNCHANGED exit

\* sys_call_kill; a general protection fault is the case pid = current.
\* removeProcess(0) only yields.
kill(pid) ==
    /\ Calling
    /\ pid \in Born /\ ~(pid = current /\ Alone)
    /\ IF pid = InitPid
       THEN /\ schedule(next, state)
            /\ UNCHANGED <<next, cardinal_processes, ended>>
       ELSE LET ring == removeProcess(Ring, pid)
            IN /\ next' = ring.nx
               /\ cardinal_processes' = ring.card
               /\ ended' = ended \cup {pid} \cup ring.cut
               /\ IF current \in ring.cut
                  THEN schedule(ring.nx, state)
                  ELSE UNCHANGED <<state, current>>
    /\ UNCHANGED exit

\* sys_call_runC creates the program's process and removes the caller, when the search
\* finds it; with interrupts off the removed slot's own next still leads into the list.
\* The removal of those in asked is requested.
ReplaceCurrent(ring, p, asked) ==
    LET grown == [nx |-> addProcess(ring.nx, p), card |-> ring.card + 1, cut |-> ring.cut]
        after == IF current = InitPid THEN grown ELSE removeProcess(grown, current)
    IN /\ next' = after.nx
       /\ cardinal_processes' = after.card
       /\ ended' = ended \cup (asked \ {InitPid}) \cup after.cut
       /\ IF current = InitPid \/ current \in after.cut
          THEN schedule(after.nx, state)
          ELSE UNCHANGED <<state, current>>
       /\ UNCHANGED exit

sys_call_runC(p) ==
    /\ Calling
    /\ p \in Pids \ Born
    /\ ReplaceCurrent(Ring, p, {current})

\* restartSHELL, from the keyboard interrupt, whoever is current.  When current has
\* unlinked itself the loop of killAllExceptCurrent never comes back to it: the
\* kernel hangs with interrupts off, and there is no next state.
restartSHELL(p) ==
    /\ \E i \in Hops \ {0} : walk(next, current)[i] = current
    /\ p \in Pids \ Born
    /\ ReplaceCurrent(killAllExceptCurrent(Ring), p, Born)

-----------------------------------------------------------------------------
(* A return from main, in the context of the returning process with        *)
(* interrupts on: the timer may take the CPU away between any two steps.   *)

at(pc) == exit[current].pc = pc

\* callProcess gets the CPU back from the program; removeProcess sets its locals.
exitStart ==
    /\ Calling
    /\ current \in Returning /\ ~Alone
    /\ exit' = [exit EXCEPT ![current] = [UserCode EXCEPT
                    !.pc = "search", !.prevSlot = current, !.slotToRemove = next[current]]]
    /\ ended' = ended \cup {current}
    /\ UNCHANGED <<state, next, current, cardinal_processes>>

\* The while condition: pid is not found yet, and there are slots left.
exitSearch ==
    /\ at("search")
    /\ LET e == exit[current]
           found == e.slotToRemove = current
       IN exit' = [exit EXCEPT ![current].pc =
             IF ~found /\ e.i < cardinal_processes THEN "advance" ELSE "check"]
    /\ UNCHANGED <<state, next, current, cardinal_processes, ended>>

\* One iteration of the loop.
exitAdvance ==
    /\ at("advance")
    /\ LET e == exit[current]
       IN exit' = [exit EXCEPT ![current] =
             [e EXCEPT !.pc = "search", !.prevSlot = e.slotToRemove,
                       !.slotToRemove = next[e.slotToRemove], !.i = e.i + 1]]
    /\ UNCHANGED <<state, next, current, cardinal_processes, ended>>

\* i == cardinal_processes is read as "not found".
exitCheck ==
    /\ at("check")
    /\ exit' = [exit EXCEPT ![current].pc =
          IF exit[current].i = cardinal_processes THEN "callProcess" ELSE "follow"]
    /\ UNCHANGED <<state, next, current, cardinal_processes, ended>>

\* prevSlot->next = slotToRemove->next is a load and a store.
exitFollow ==
    /\ at("follow")
    /\ exit' = [exit EXCEPT ![current].link = next[exit[current].slotToRemove],
                            ![current].pc = "unlink"]
    /\ UNCHANGED <<state, next, current, cardinal_processes, ended>>

\* Mutant of exitUnlink: the removed slot is closed on itself.
exitUnlinkSelf ==
    /\ at("unlink")
    /\ next' = [next EXCEPT ![exit[current].prevSlot] = exit[current].link,
                            ![current] = current]
    /\ exit' = [exit EXCEPT ![current].pc = "load"]
    /\ ended' = ended \cup {exit[current].slotToRemove}
    /\ UNCHANGED <<state, current, cardinal_processes>>

exitUnlink ==
    /\ at("unlink")
    /\ next' = [next EXCEPT ![exit[current].prevSlot] = exit[current].link]
    /\ exit' = [exit EXCEPT ![current].pc = "load"]
    /\ ended' = ended \cup {exit[current].slotToRemove}
    /\ UNCHANGED <<state, current, cardinal_processes>>

\* cardinal_processes-- is a load, a decrement and a store.
exitLoad ==
    /\ at("load")
    /\ exit' = [exit EXCEPT ![current].reg = cardinal_processes, ![current].pc = "store"]
    /\ UNCHANGED <<state, next, current, cardinal_processes, ended>>

exitStore ==
    /\ at("store")
    /\ cardinal_processes' = exit[current].reg - 1
    /\ exit' = [exit EXCEPT ![current].pc =
          IF exit[current].slotToRemove = current THEN "yield" ELSE "callProcess"]
    /\ UNCHANGED <<state, next, current, ended>>

\* The _yield of removeProcess, and, should the process ever run again, the one
\* of callProcess.
exitYield ==
    /\ at("yield") \/ at("callProcess")
    /\ exit' = [exit EXCEPT ![current].pc = IF at("yield") THEN "callProcess" ELSE "past"]
    /\ schedule(next, state)
    /\ UNCHANGED <<next, cardinal_processes, ended>>

-----------------------------------------------------------------------------
Next ==
    \/ \E p \in Pids : createProcess(p) \/ kill(p) \/ Wake(p)
    \/ \E p \in Pids : sys_call_runC(p) \/ restartSHELL(p)
    \/ \E s \in {"BLOCKED", "SLEEPING"} : Suspend(s)
    \/ timerTickHandler
    \/ exitStart \/ exitSearch \/ exitAdvance \/ exitCheck \/ exitFollow \/ exitUnlink
    \/ exitLoad \/ exitStore \/ exitYield

Spec == Init /\ [][Next]_vars

\* The timer keeps interrupting: interrupts are on in all user code.
FairSpec == Spec /\ WF_vars(timerTickHandler)

-----------------------------------------------------------------------------
Linked == {walk(next, InitPid)[i] : i \in Hops}

Exiting == {p \in Pids : exit[p].pc # "user"}

\* getCurrentProcesses, which ps prints, and every search of the kernel walk
\* cardinal_processes slots from current: they meet each live process exactly
\* once, and nobody else but processes in the middle of their exit.
PsListsAll ==
    Calling => /\ Visited \ Exiting = Born \ ended
               /\ Cardinality(Visited) = cardinal_processes

\* From every slot next leads to init, so that the loop of schedule() meets it.
InitReachable == \A p \in Born : \E i \in Hops : walk(next, p)[i] = InitPid

\* The loop of schedule() ends: wherever the links have been left by creations,
\* removals and half-done exits, following next from any slot leads to init, and
\* init can run, unless init itself was cut out.
ScheduleTerminates ==
    /\ InitPid \notin ended => InitReachable
    /\ state[InitPid] \in {"READY", "RUNNING"}

\* Round robin is fair: a READY process is dispatched, unless it is removed first.
ReadyRuns ==
    \A p \in Pids : (p \in Born /\ state[p] = "READY") ~> (state[p] = "RUNNING" \/ p \in ended)

\* The list implements the process table: a process is in the table while it is
\* linked into the list of init.
abstractState ==
    [p \in Pids |-> CASE p \notin Born   -> "UNBORN"
                      [] p \in Linked    -> state[p]
                      [] OTHER           -> "REMOVED"]

Table == INSTANCE ProcessTable WITH procState <- abstractState

ImplementsTable == Table!PTSpec

-----------------------------------------------------------------------------
\* In an order given by rank, the link of every slot but that of init leads down.
Descends(rank, nx) ==
    \A p \in Pids \ {InitPid} : nx[p] # NoPid => rank[nx[p]] < rank[p]

\* A returning process that looks for its slot has gone down too, and the link it is
\* about to store leads down, unless it is the one of init.
ExitsDescend(rank) ==
    \A p \in Pids : LET e == exit[p] IN
        /\ e.pc \in {"search", "advance", "check", "follow"} =>
             (e.prevSlot # InitPid => rank[e.slotToRemove] < rank[e.prevSlot])
        /\ e.pc = "unlink" =>
             (e.prevSlot # InitPid /\ e.slotToRemove # InitPid => rank[e.link] < rank[e.prevSlot])

\* cardinal_processes may be too large, but not larger than the number of slots.
CountBounded ==
    /\ cardinal_processes =< Cardinality(Born)
    /\ \A p \in Pids : exit[p].reg =< Cardinality(Born)

ProcessStates == {"READY", "RUNNING", "BLOCKED", "SLEEPING"}

SlotsTyped ==
    /\ state \in [Pids -> ProcessStates]
    /\ next \in [Pids -> Pids \cup {NoPid}]
    /\ current \in Born /\ InitPid \in Born
    /\ cardinal_processes \in Int
    /\ exit \in [Pids -> [pc : Points, prevSlot : Pids \cup {NoPid},
                          slotToRemove : Pids \cup {NoPid}, link : Pids \cup {NoPid},
                          i : Nat, reg : Int]]

\* Links and the locals of returning processes lead to slots.
LinksKnown ==
    /\ \A p \in Born : next[p] \in Born
    /\ \A p \in Pids : LET e == exit[p] IN
         /\ e.pc \in {"search", "advance", "check", "follow", "unlink"} =>
              e.prevSlot \in Born /\ e.slotToRemove \in Born
         /\ e.pc = "unlink" => e.link \in Born

\* The invariant behind ScheduleTerminates, whoever returns from main.
LinksInv ==
    /\ SlotsTyped
    /\ LinksKnown
    /\ CountBounded
    /\ state[InitPid] \in {"READY", "RUNNING"}
    /\ InitPid \notin ended =>
         \E rank \in [Pids -> Nat] : Descends(rank, next) /\ ExitsDescend(rank)

\* r lists the slots S in the order of the links nx, which lead from the last to the
\* first.
RingFrom(r, n, nx, S) ==
    /\ r \in [0 .. n - 1 -> S]
    /\ \A p \in S : \E i \in 0 .. n - 1 : r[i] = p
    /\ \A i, j \in 0 .. n - 1 : r[i] = r[j] => i = j
    /\ \A i \in 0 .. n - 1 : nx[r[i]] = r[IF i = n - 1 THEN 0 ELSE i + 1]

\* The links of S form one circle of n slots.
IsRing(n, nx, S) == n \in Nat \ {0} /\ \E r \in [0 .. n - 1 -> S] : RingFrom(r, n, nx, S)

\* The invariant behind PsListsAll, when nobody returns from main.
RingInv ==
    /\ SlotsTyped
    /\ exit = [p \in Pids |-> UserCode]
    /\ ended \subseteq Born \ {InitPid} /\ current \notin ended
    /\ IsRing(cardinal_processes, next, Born \ ended)
    /\ \A p \in Pids \ Born : state[p] = "READY"
    /\ state[InitPid] \in {"READY", "RUNNING"}
    /\ state[current] = "RUNNING" \/ current = InitPid
=============================================================================
