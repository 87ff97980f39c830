CONSTANTS
  t1 = t1
  t2 = t2
  t3 = t3
  Threads <- MCThreads
  Side = "Client"
  MaxSessions = 2
  MaxSeals = 3
SPECIFICATION Spec
SYMMETRY MCSymmetry
INVARIANTS WriteIsBound NoStaleFrame
CHECK_DEADLOCK FALSE
