SPECIFICATION DataFairSpec
CONSTANTS
  NumBands = 1
  Cap = 1
  MaxAmount = 1
  Devices <- GrpcOnly
  Monitors <- MCMonitors
  MonitorsOf <- MCMonitorsOf
INVARIANT StoppedStaysEmpty
CHECK_DEADLOCK FALSE
