CONSTANTS
  MaxCalls = 3
  MaxWrites = 2
SPECIFICATION FairSpec
INVARIANTS TypeOK NothingLeftBehind VerdictMatchesExit
PROPERTIES EndsUnlessHeld
CHECK_DEADLOCK FALSE
