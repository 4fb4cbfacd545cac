SPECIFICATION FairSpec
CONSTANTS
  MaxScans = 2
  MayFault = FALSE
  Disturbed = {0, 1, 2}
INVARIANT MonitoringOnlyInScan
CHECK_DEADLOCK FALSE
