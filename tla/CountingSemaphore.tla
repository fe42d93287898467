------------------------- MODULE CountingSemaphore --------------------------
(***************************************************************************)
(* What a semaphore promises its clients: wait takes a token or queues the *)
(* caller, signal wakes one queued process or leaves a token.  A process   *)
(* that was killed in the queue stays there and takes the signal meant for *)
(* it.  Modules Semaphore and Mutex implement this one (a mutex is a       *)
(* semaphore of one token); the programs of Userland/dummy are written     *)
(* against it.                                                             *)
(***************************************************************************)
EXTENDS Integers

CONSTANTS Semaphores, Processes

VARIABLES
    open,     \* the semaphore exists
    value,    \* its free tokens
    waiting   \* the processes in its queue

csVars == <<open, value, waiting>>

CSTypeOK ==
    /\ open \in [Semaphores -> BOOLEAN]
    /\ value \in [Semaphores -> Nat]
    /\ waiting \in [Semaphores -> SUBSET Processes]

CSInit ==
    /\ open \in [Semaphores -> BOOLEAN]
    /\ value \in [Semaphores -> Nat]
    /\ waiting = [s \in Semaphores |-> {}]

\* A semaphore nobody waits for appears with some value, or is closed.
Create(s) ==
    /\ ~open[s] /\ waiting[s] = {}
    /\ open' = [open EXCEPT ![s] = TRUE]
    /\ value'[s] \in Nat
    /\ value' = [value EXCEPT ![s] = value'[s]]
    /\ UNCHANGED waiting

Close(s) ==
    /\ open[s] /\ waiting[s] = {}
    /\ open' = [open EXCEPT ![s] = FALSE]
    /\ UNCHANGED <<value, waiting>>

Wait(s, p) ==
    /\ open[s] /\ p \notin waiting[s]
    /\ IF value[s] > 0
       THEN value' = [value EXCEPT ![s] = @ - 1] /\ UNCHANGED waiting
       ELSE waiting' = [waiting EXCEPT ![s] = @ \cup {p}] /\ UNCHANGED value
    /\ UNCHANGED open

Signal(s) ==
    /\ open[s]
    /\ IF waiting[s] = {}
       THEN value' = [value EXCEPT ![s] = @ + 1] /\ UNCHANGED waiting
       ELSE /\ \E p \in waiting[s] : waiting' = [waiting EXCEPT ![s] = @ \ {p}]
            /\ UNCHANGED value
    /\ UNCHANGED open

CSNext ==
    \E s \in Semaphores :
        Create(s) \/ Close(s) \/ Signal(s) \/ \E p \in Processes : Wait(s, p)

CSSpec == CSInit /\ [][CSNext]_csVars
=============================================================================
