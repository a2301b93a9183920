---------------------------- MODULE MCScheduler ----------------------------
(* Scheduler for TLC.  The sizes are in the .cfg files. *)
EXTENDS Scheduler
=============================================================================
