CONSTANTS
  ServerClosers = {c1, c2}
  MaxServerSessions = 3
  MaxPolicies = 1
SPECIFICATION ServerFairSpec
INVARIANTS NewestIsAlone CloseLeavesNothing PolicyIsApplied
PROPERTIES AcceptReturns ReaderStops
CHECK_DEADLOCK FALSE
