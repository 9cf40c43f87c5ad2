CONSTANTS
  Requests <- MCRequests
  Second = 2
  HalfRange = 16
  Configured <- MCConfigured
  MaxCalls = 3
SPECIFICATION FairSpec
INVARIANTS TypeOK NewestWins TickersNeverPanic
PROPERTIES UpdateIsApplied LoopsRunUntilCancelled BlockedForGood ImplementsRegister
CHECK_DEADLOCK FALSE
