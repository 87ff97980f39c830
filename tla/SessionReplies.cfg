CONSTANTS
  Side = "Server"
  MaxId = 3
  MaxOps = 2
  MaxRequests = 1
  InboundIds = {1, 2, 3}
  Sizes = {2}
  Limits <- LoweredLimits
  DefaultLimits <- SmallLimits
SPECIFICATION Spec
CONSTRAINT Charging
INVARIANTS OneHolderPerRequest WithinLimits RetainedBytesExact
CHECK_DEADLOCK FALSE
