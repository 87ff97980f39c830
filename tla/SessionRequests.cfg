CONSTANTS
  Side = "Client"
  MaxId = 3
  MaxOps = 3
  MaxRequests = 3
  InboundIds = {1, 3}
  Sizes = {2}
  Limits <- LoweredLimits
  DefaultLimits <- SmallLimits
SPECIFICATION Spec
INVARIANTS PendingHasOperation RoutesMatchRequests
PROPERTIES KeepsContract ResultIsFinal OnlyPendingIsSent
CHECK_DEADLOCK FALSE
