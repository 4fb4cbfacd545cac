SPECIFICATION Spec
CONSTANTS
  MaxEvents = 2
  Callable <- EveryButFault
INVARIANT AbortedEverywhere
CHECK_DEADLOCK FALSE
