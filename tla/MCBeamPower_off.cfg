SPECIFICATION FairSpec
CONSTANTS
  Order <- MCOrder
  MaxEvents = 4
  MaxChanges = 0
INVARIANTS OffIsOff
CHECK_DEADLOCK FALSE
