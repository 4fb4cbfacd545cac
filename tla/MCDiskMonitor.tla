--------------------------- MODULE MCDiskMonitor ---------------------------
(* DiskMonitor for TLC: the constant is a number, given in the .cfg.       *)
EXTENDS DiskMonitor
=============================================================================
