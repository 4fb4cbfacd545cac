---------------------------- MODULE MCBeamPower ----------------------------
(* BeamPower for TLC: two of the four sub-devices, or one.                 *)
EXTENDS BeamPower

MCOrder == <<"recv", "dsp">>
MCOne == <<"recv">>
=============================================================================
