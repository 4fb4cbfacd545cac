SPECIFICATION FairSpec
CONSTANTS
  MaxScans = 3
  MayFault = TRUE
  Disturbed = {2}
INVARIANTS TypeOK EveryStreamCanBeStopped
PROPERTY ToldStreamsClose
CHECK_DEADLOCK FALSE
