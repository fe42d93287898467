------------------------------- MODULE Dummy --------------------------------
(***************************************************************************)
(* Userland/dummy: main runs the program it is called with.                *)
(***************************************************************************)
EXTENDS ProducerConsumer, Philosophers

VARIABLE program

dummyVars == <<program, csVars, pcVars, phVars>>

\* main: PROD_CONS or PHILOSOPHERS; the variables of the other one are of no account.
main ==
    /\ open = [s \in Semaphores |-> TRUE]
    /\ waiting = [s \in Semaphores |-> {}]
    /\ \/ /\ program = "PROD_CONS"
          /\ prodCons
          /\ state = [v \in Table |-> "THINKING"] /\ at = [v \in Table |-> "fresh"]
       \/ /\ program = "PHILOSOPHERS"
          /\ dPhilosphers
          /\ kind = [p \in Workers |-> "none"] /\ alive = {}
          /\ step = [p \in Workers |-> "produce"] /\ item = [p \in Workers |-> 0]
          /\ i = 0 /\ r = 0 /\ w = 0 /\ buffer = [x \in Ring |-> 0]
          /\ workers = [k \in Kinds |-> 0]
          /\ pidOf = [k \in Kinds |-> [x \in -1 .. MAX_WORKERS - 1 |-> 0]]
          /\ end = FALSE /\ removed = 0 /\ content = <<>>

\* A worker of the program that runs makes a step.
workerStep(p) == program = "PROD_CONS" /\ Work(p) /\ UNCHANGED <<program, phVars>>

philosopherStep(v) ==
    program = "PHILOSOPHERS" /\ philospher(v) /\ UNCHANGED <<program, pcVars>>

DummyNext ==
    \/ program = "PROD_CONS" /\ control /\ UNCHANGED <<program, phVars>>
    \/ \E p \in Workers : workerStep(p)
    \/ \E v \in Table : philosopherStep(v)

\* The scheduler runs every process that is not queued (ReadyRuns of Scheduler);
\* nobody has to press a key.
DummySpec ==
    /\ main /\ [][DummyNext]_dummyVars
    /\ \A p \in Workers : WF_dummyVars(workerStep(p))

\* KeepsConsuming, of the program it is about.
ConsumptionGoesOn == program = "PROD_CONS" => KeepsConsuming
=============================================================================
