SPECIFICATION FairSpec
CONSTANTS
  Order <- MCOne
  MaxEvents = 4
  MaxChanges = 0
PROPERTIES DroppedIsCleanedUp
CHECK_DEADLOCK FALSE
