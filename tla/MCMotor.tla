------------------------------ MODULE MCMotor ------------------------------
(* Motor for TLC.  The sizes are in the .cfg files. *)
EXTENDS Motor
=============================================================================
