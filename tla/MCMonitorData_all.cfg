SPECIFICATION DataFairSpec
CONSTANTS
  NumBands = 2
  Cap = 1
  MaxAmount = 1
  Devices <- MCDevices
  Monitors <- MCMonitors
  MonitorsOf <- MCMonitorsOf
INVARIANTS StoreIsPublished StoppedShowsNothing
PROPERTIES StopEnds DiskCatchesUp
CHECK_DEADLOCK FALSE
