CONSTANTS
  Byte = {0, 1}
  Capacity = 2
  MaxChunk = 2
  MaxBytes = 3
SPECIFICATION PipeFairSpec
INVARIANTS FlushTellsTheTruth DeliveredInOrder NoSleeperForgotten
PROPERTIES BlockedCallsReturn
CHECK_DEADLOCK FALSE
