SPECIFICATION DataFairSpec
CONSTANTS
  NumBands = 1
  Cap = 1
  MaxAmount = 1
  Devices <- DspOnly
  Monitors <- MCMonitors
  MonitorsOf <- MCMonitorsOf
PROPERTY FullIsShown
CHECK_DEADLOCK FALSE
