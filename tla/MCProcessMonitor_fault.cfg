SPECIFICATION FairSpec
CONSTANTS
  MaxScans = 2
  MayFault = TRUE
  Disturbed = {0, 1, 2}
PROPERTY MonitorStarts
CHECK_DEADLOCK FALSE
