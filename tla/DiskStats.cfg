CONSTANTS
  Width = 16
  MaxClock = 2
  MaxIO = 2
  MaxCalls = 3
SPECIFICATION Spec
INVARIANTS TypeOK BaselinesChain ExactWithoutOverlap
CHECK_DEADLOCK FALSE
