CONSTANTS
  c1 = c1
  c2 = c2
  c3 = c3
  Closers <- ThreeClosers
  MaxBytes = 2
SPECIFICATION StreamSpec
INVARIANTS ReturnedMeansQuiet
PROPERTIES NoCallAfterClosing CloseReturns
CHECK_DEADLOCK FALSE
