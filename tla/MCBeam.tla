------------------------------- MODULE MCBeam -------------------------------
(* TLC instances of Beam: which commands the clients call.                 *)
EXTENDS Beam

Every == BeamCommands
EveryButFault == BeamCommands \ {"GoToFault"}
=============================================================================
