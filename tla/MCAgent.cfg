SPECIFICATION FairSpec
CONSTANTS
  Commands <- MCCommands
  PowerCommands <- MCPowerCommands
  PendingLimit = 1
  GivesUp = TRUE
  MaxFaults = 2
  MaxCopies = 6
INVARIANTS TypeOK NothingRunsTwice AnswersAreTrue EveryRepeatHasAFault
PROPERTIES EventuallyAnswered ShutdownEnds ImplementsDelivery
CHECK_DEADLOCK FALSE
