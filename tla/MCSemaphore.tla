----------------------------- MODULE MCSemaphore ----------------------------
(* Bounded instances of Semaphore; the cfg files choose the clients, whether   *)
(* they lock the mutex behind a semaphore, and who may be killed.              *)
EXTENDS Semaphore
=============================================================================
