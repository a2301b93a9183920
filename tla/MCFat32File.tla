---------------------------- MODULE MCFat32File ----------------------------
(* Fat32File for TLC.  The sizes are in the .cfg files. *)
EXTENDS Fat32File
=============================================================================
