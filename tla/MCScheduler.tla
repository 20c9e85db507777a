----------------------------- MODULE MCScheduler -----------------------------
(* A small instance of Scheduler: the dispatcher and one other thread add  *)
(* and stop events; ids wrap around.                                       *)
EXTENDS Scheduler
=============================================================================
