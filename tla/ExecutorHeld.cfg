CONSTANTS
  MaxCalls = 1
  MaxWrites = 1
SPECIFICATION FairSpec
PROPERTIES EndsAfterDeadline
CHECK_DEADLOCK FALSE
