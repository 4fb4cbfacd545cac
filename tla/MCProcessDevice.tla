-------------------------- MODULE MCProcessDevice --------------------------
(* ProcessDevice for TLC, which also evaluates the claims of Resources, on *)
(* which the configuration of a beam rests, for some channels of LOW and   *)
(* of MID; they are proved in ProcessDeviceProofs.                         *)
EXTENDS ProcessDevice, Resources

MCKinds == {"RECV", "SMRB"}
MCConfigurations == {"c1", "c2"}

MCBeams == {0, 1, 2, 15, 16, 17, 255}
MCSuffixes == {DataKeySuffix, WeightsKeySuffix}
MCRequests == Requests({24, 48, 185, 370}, {1, 2}, {4, 16, 32}, {4, 32})

ASSUME KeysAssumption ==
  /\ \A b \in MCBeams : KeysAgree(b)
  /\ \A b1, b2 \in MCBeams, s1, s2 \in Subbands, x1, x2 \in MCSuffixes : KeysApart(b1, s1, x1, b2, s2, x2)

ASSUME SizesAssumption ==
  \A r \in MCRequests : RateFillsBuffer(r) /\ \A p \in 1 .. 15 : HoldsPackets(r, p)
=============================================================================
