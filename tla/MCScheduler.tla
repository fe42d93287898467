---------------------------- MODULE MCScheduler -----------------------------
(* Bounded instances of Scheduler; the cfg files choose the processes and    *)
(* which of them return from main.  No symmetry is used: the refinement and   *)
(* the liveness run need the pids apart.                                      *)
EXTENDS Scheduler
=============================================================================
