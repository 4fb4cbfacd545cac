SPECIFICATION Spec
CONSTANTS
  MaxEvents = 4
  Callable <- Every
INVARIANTS TypeOK Settled RingBuffersOutliveClients
PROPERTY FaultNotHidden
CHECK_DEADLOCK FALSE
