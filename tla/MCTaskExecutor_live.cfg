SPECIFICATION FairSpec
CONSTANTS
  J = J  J1 = J1  J2 = J2  J2a = J2a  J2b = J2b  J3 = J3
  K = K  K1 = K1  K2 = K2  K3 = K3
  NoTask = NoTask
  Tasks <- MixedTasks
  Kind <- MixedKind
  Children <- MixedChildren
  Parent <- MCParent
  Workers = {w1, w2}
  Devices = {"a", "b"}
  Device <- MCDevice
  SubscribeMayFail = FALSE
  FailureParses = {FALSE}
  MayStop = FALSE
CHECK_DEADLOCK FALSE
PROPERTY JobReturns
