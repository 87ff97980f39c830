CONSTANTS
  t1 = t1
  t2 = t2
  t3 = t3
  Threads <- MCPair
  Side = "Server"
  MaxSessions = 2
  MaxSeals = 3
SPECIFICATION FairSpec
INVARIANTS WireInSealOrder
PROPERTIES ReplacementUntouched CallsReturn
CHECK_DEADLOCK FALSE
