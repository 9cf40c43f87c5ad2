CONSTANTS
  Requests <- FewRequests
  Second = 2
  HalfRange = 16
  Configured <- MCConfigured
  MaxCalls = 3
SPECIFICATION FairSpec
PROPERTIES SetIntervalReturns
CHECK_DEADLOCK FALSE
