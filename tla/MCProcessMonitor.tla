-------------------------- MODULE MCProcessMonitor --------------------------
(* ProcessMonitor for TLC: the constants are numbers, given in the .cfg.   *)
EXTENDS ProcessMonitor
=============================================================================
