SPECIFICATION FairSpec
CONSTANTS
  Order <- MCOrder
  MaxEvents = 4
  MaxChanges = 2
INVARIANTS TypeOK PowerAgrees OnIsSubscribed
PROPERTIES FaultsAreSeen ThreadsGoOn
CHECK_DEADLOCK FALSE
