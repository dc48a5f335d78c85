------------------------------ MODULE MCSched ------------------------------
(* Sched on small instances, for TLC. *)
EXTENDS Sched
=============================================================================
