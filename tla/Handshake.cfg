CONSTANTS
  MaxAttempts = 3
  MaxMessages = 2
  MaxFaults = 2
SPECIFICATION FairSpec
INVARIANTS SharedSessionIsClean LostSessionIsTold
PROPERTIES StreamRecovers
CHECK_DEADLOCK FALSE
