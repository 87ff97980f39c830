CONSTANTS
  MaxFrame = 2
  MaxSends = 3
  MaxLeftover = 4
SPECIFICATION FramingSpec
INVARIANTS ReaderMatchesStream SuccessArrives SignalArrives
CHECK_DEADLOCK FALSE
