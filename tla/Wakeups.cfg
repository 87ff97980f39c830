CONSTANTS
  MaxOps = 2
  MaxIncoming = 1
SPECIFICATION WakeupsSpec
INVARIANTS NoLostWakeup
PROPERTIES ExpiryIsServiced RecvReturns WorkersStop
CHECK_DEADLOCK FALSE
