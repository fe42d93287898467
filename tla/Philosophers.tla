---------------------------- MODULE Philosophers ----------------------------
(***************************************************************************)
(* philosophers of Userland/dummy/dummy.c: five processes, the states in a *)
(* shared array, the mutex mutexp around every test, and one semaphore     *)
(* each to wait for the forks.  The array of pointers to semaphores is     *)
(* handed over as an array of int: philosophers 1 and 3 read the upper     *)
(* half of a pointer, 0, and share the semaphore in slot 0; the others     *)
(* read the lower half of one, which is no semaphore, and their wait and   *)
(* signal return at once.                                                  *)
(***************************************************************************)
EXTENDS CountingSemaphore, FiniteSets

CONSTANTS
    mutexp,   \* the mutex "mutexp", seen as a semaphore of one token
    Garbage   \* what dPhilosphers may find on its stack, as states

DEFAULTP == 5
Table == 0 .. DEFAULTP - 1

\* Philosopher v is the process createThreads made for it.
pid(v) == v + 1

ASSUME PhilosophersAssumption ==
    /\ \A v \in Table : pid(v) \in Processes
    /\ {0, mutexp} \subseteq Semaphores /\ mutexp # 0
    /\ Garbage \subseteq {"THINKING", "HUNGRY", "EATING"}

VARIABLES
    state,  \* state[], on the stack of dPhilosphers
    at      \* where a philosopher is in its loop

phVars == <<state, at>>

Places == {"fresh", "sit", "take", "hungry", "signalOwn", "release", "wait", "put", "thinking",
           "signalLeft", "testRight", "signalRight", "leave"}

PhilosophersTypeOK ==
    /\ state \in [Table -> {"THINKING", "HUNGRY", "EATING"}]
    /\ at \in [Table -> Places]

\* dPhilosphers: state is not initialised.  The semaphores of startSemaphores have
\* no token, mutexp is free.
dPhilosphers ==
    /\ value = [s \in Semaphores |-> IF s = mutexp THEN 1 ELSE 0]
    /\ state \in [Table -> Garbage]
    /\ at = [v \in Table |-> "fresh"]

-----------------------------------------------------------------------------
left(v) == (v + 4) % DEFAULTP
right(v) == (v + 1) % DEFAULTP

\* *(sems + v) is 0 for these; for the others it is the address of a malloc block,
\* which isValidSemaphore rejects: their wait and signal do nothing.
HasSemaphore(v) == v % 2 = 1

\* Mutant of MayEat: the neighbour on the left is not looked at.
MayEatRight(v, st) == st[v] = "HUNGRY" /\ st[right(v)] # "EATING"

\* The condition of testP, on the states st.
MayEat(v, st) == st[v] = "HUNGRY" /\ st[left(v)] # "EATING" /\ st[right(v)] # "EATING"

Moves(v, from, to) ==
    /\ at[v] = from /\ \A s \in Semaphores : pid(v) \notin waiting[s]
    /\ at' = [at EXCEPT ![v] = to]

\* testP(u) by v on the states st: u eats and is to be signalled, or nothing.
testP(v, u, st, from, signalled, otherwise) ==
    /\ Moves(v, from, IF MayEat(u, st) /\ HasSemaphore(u) THEN signalled ELSE otherwise)
    /\ state' = IF MayEat(u, st) THEN [st EXCEPT ![u] = "EATING"] ELSE st
    /\ UNCHANGED csVars

\* The sleep and the signal of a testP that succeeded, mutexp still held.
signalP(v, from, to) == Moves(v, from, to) /\ Signal(0) /\ UNCHANGED state

lockMutexp(v, from, to) == Moves(v, from, to) /\ Wait(mutexp, pid(v)) /\ UNCHANGED state

\* Mutant of freeMutexp: take_fork keeps it while it waits for the forks.
freeMutexpLate(v, from, to) ==
    /\ Moves(v, from, to)
    /\ IF from = "leave" THEN Signal(mutexp) ELSE UNCHANGED csVars
    /\ UNCHANGED state

freeMutexp(v, from, to) == Moves(v, from, to) /\ Signal(mutexp) /\ UNCHANGED state

\* take_fork
take_fork(v) ==
    \/ lockMutexp(v, "fresh", "sit") \/ lockMutexp(v, "take", "hungry")
    \/ \E from \in {"sit", "hungry"} :
         testP(v, v, [state EXCEPT ![v] = "HUNGRY"], from, "signalOwn", "release")
    \/ signalP(v, "signalOwn", "release")
    \/ freeMutexp(v, "release", IF HasSemaphore(v) THEN "wait" ELSE "put")
    \/ Moves(v, "wait", "put") /\ Wait(0, pid(v)) /\ UNCHANGED state

\* put_fork
put_fork(v) ==
    \/ lockMutexp(v, "put", "thinking")
    \/ testP(v, left(v), [state EXCEPT ![v] = "THINKING"], "thinking", "signalLeft", "testRight")
    \/ signalP(v, "signalLeft", "testRight")
    \/ testP(v, right(v), state, "testRight", "signalRight", "leave")
    \/ signalP(v, "signalRight", "leave")
    \/ freeMutexp(v, "leave", "take")

philospher(v) == take_fork(v) \/ put_fork(v)

PhilosophersNext == \E v \in Table : philospher(v)

-----------------------------------------------------------------------------
\* Two neighbours never eat at the same time, whatever the semaphores do: the
\* states change under mutexp only, and a test sees both sides.  Two that have not
\* been hungry yet may both have an EATING that was left on the stack.
NeighboursExclude ==
    /\ PhilosophersTypeOK
    /\ \A v \in Table : state[v] = "EATING" /\ state[right(v)] = "EATING" =>
          {at[v], at[right(v)]} \subseteq {"fresh", "sit"}

\* Nobody is locked out for good: when both clients of the shared semaphore sleep
\* in it, one of them is HUNGRY and its neighbours will test it, or a test has
\* succeeded and the signal is on its way; and somebody who does not sleep is left
\* to do so.
SleepersAreTested ==
    /\ \E v \in Table : \A s \in Semaphores : pid(v) \notin waiting[s]
    /\ {pid(1), pid(3)} \subseteq waiting[0] =>
         \/ "HUNGRY" \in {state[1], state[3]}
         \/ \E v \in Table : at[v] \in {"signalOwn", "signalLeft", "signalRight"}

-----------------------------------------------------------------------------
(* The parts of the inductive invariant behind the properties above.        *)

Critical == Places \ {"fresh", "take", "wait", "put"}

\* v is between the return of lockMutex(mutexp) and freeMutex(mutexp).
Tests(v) == at[v] \in Critical /\ pid(v) \notin waiting[mutexp]

\* One philosopher at a time tests, and a taken mutexp has a holder.
OneTests ==
    /\ value[mutexp] \in {0, 1}
    /\ \A u, v \in Table : Tests(u) /\ Tests(v) => u = v
    /\ value[mutexp] = 0 <=> \E v \in Table : Tests(v)
    /\ waiting[mutexp] # {} => value[mutexp] = 0

\* Who is queued in mutexp is about to test, who is queued in the shared semaphore is
\* about to eat, and nobody is queued elsewhere.
QueuedByPlace ==
    /\ \A s \in Semaphores : \A p \in waiting[s] : \E v \in Table :
          /\ p = pid(v)
          /\ \/ s = mutexp /\ at[v] \in {"sit", "hungry", "thinking"}
             \/ s = 0 /\ at[v] = "put" /\ HasSemaphore(v)
    /\ \A v \in Table : at[v] = "wait" => HasSemaphore(v)

\* A test has given v its forks, and its wait has not returned yet.
Granted(v) ==
    /\ state[v] = "EATING"
    /\ \/ at[v] \in {"signalOwn", "release", "wait"}
       \/ at[v] = "put" /\ pid(v) \in waiting[0]

\* The two clients of the shared semaphore take one another's tokens, but not both can
\* be without one while both were given their forks.
GrantsSignalled ==
    /\ waiting[0] # {} => value[0] = 0
    /\ Granted(1) /\ Granted(3) =>
          value[0] > 0 \/ \E v \in Table : at[v] \in {"signalOwn", "signalLeft", "signalRight"}
    /\ \A v \in Table :
          at[v] \in {"signalOwn", "release", "wait", "put", "thinking"} => state[v] # "THINKING"

PhilosophersInv ==
    /\ CSTypeOK /\ \A s \in Semaphores : open[s]
    /\ NeighboursExclude /\ OneTests /\ QueuedByPlace /\ GrantsSignalled
=============================================================================
