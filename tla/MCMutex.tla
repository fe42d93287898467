------------------------------ MODULE MCMutex -------------------------------
(* Bounded instances of Mutex; the cfg files choose the clients, the size of  *)
(* the queues, who may be killed and how mutexes are closed.                  *)
EXTENDS Mutex
=============================================================================
