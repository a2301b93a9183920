----------------------------- MODULE MCStartup -----------------------------
(* Startup with the lines of the ports and of timer 2; see MCStartup.cfg.   *)
EXTENDS Startup
=============================================================================
