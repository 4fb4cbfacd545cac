SPECIFICATION FairSpec
CONSTANTS
  N = 2
  MaxEvents = 2
INVARIANTS TypeOK CompletedMeansAll ReportsAddUp
PROPERTIES NobodyWaitsForEver
CHECK_DEADLOCK FALSE
