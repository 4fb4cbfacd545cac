SPECIFICATION FairSpec
CONSTANT
  Tasks <- MCTasks
INVARIANT CompletedIsQuiet
PROPERTIES CompletedAreReaped StopReturns
CHECK_DEADLOCK FALSE
