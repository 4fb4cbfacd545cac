SPECIFICATION FairSpec
CONSTANTS
  Order <- MCOrder
  MaxEvents = 5
  MaxChanges = 0
INVARIANTS OnIsAlwaysSubscribed
CHECK_DEADLOCK FALSE
