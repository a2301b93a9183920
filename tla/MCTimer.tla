------------------------------ MODULE MCTimer ------------------------------
(* Timer with a counter of three bits; see MCTimer.cfg.                     *)
EXTENDS Timer
=============================================================================
