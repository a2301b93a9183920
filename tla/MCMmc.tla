------------------------------- MODULE MCMmc -------------------------------
(* Mmc with two sectors; see MCMmc.cfg.                                     *)
EXTENDS Mmc
=============================================================================
