--------------------------- MODULE MCRemoteTasks ---------------------------
(* RemoteTasks for TLC.                                                    *)
EXTENDS RemoteTasks
=============================================================================
