SPECIFICATION DataFairSpec
CONSTANTS
  NumBands = 1
  Cap = 1
  MaxAmount = 1
  Devices <- DspOnly
  Monitors <- MCMonitors
  MonitorsOf <- MCMonitorsOf
INVARIANT DspStoppedShowsNothing
CHECK_DEADLOCK FALSE
