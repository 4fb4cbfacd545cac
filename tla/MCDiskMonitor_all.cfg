SPECIFICATION FairSpec
CONSTANT MaxMonitors = 3
INVARIANTS UntoldIsCurrent QuietOnceShut
PROPERTIES DroppedMonitorsGo DisconnectReturns
CHECK_DEADLOCK FALSE
