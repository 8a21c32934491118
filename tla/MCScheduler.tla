---------------------------- MODULE MCScheduler ----------------------------
(***************************************************************************)
(* Instances of Scheduler for TLC: a one-time and a recurring task under   *)
(* a cap of one, the operator at the session of one of them.               *)
(***************************************************************************)
EXTENDS Scheduler
=============================================================================
