------------------------------ MODULE MCSleep -------------------------------
(* Bounded instances of Sleep; the cfg files choose the length of the table,  *)
(* the intervals and who may be killed.                                       *)
EXTENDS Sleep
=============================================================================
