SPECIFICATION FairSpec
CONSTANTS
  MaxScans = 1
  MayFault = FALSE
  Disturbed = {0, 1}
PROPERTY StopReturns
CHECK_DEADLOCK FALSE
