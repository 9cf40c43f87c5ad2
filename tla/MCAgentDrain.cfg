SPECIFICATION FairSpec
CONSTANTS
  Commands = {"other"}
  PowerCommands = {}
  PendingLimit = 1
  GivesUp = FALSE
  MaxFaults = 1
  MaxCopies = 2
PROPERTIES DrainedBeforeExit
CHECK_DEADLOCK FALSE
