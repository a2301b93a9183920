------------------------------ MODULE MCUartRx ------------------------------
(* UartRx for TLC.  The sizes are in the .cfg files. *)
EXTENDS UartRx
=============================================================================
