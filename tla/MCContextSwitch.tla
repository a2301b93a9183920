-------------------------- MODULE MCContextSwitch --------------------------
(* ContextSwitch for TLC.  The sizes are in the .cfg files. *)
EXTENDS ContextSwitch
=============================================================================
