CONSTANTS
  Stems <- OneStem
  Units <- OneUnit
  Calls <- AllCalls
  MaxCalls = 1
  MaxJobs = 1
SPECIFICATION FairSpec
PROPERTIES ReturnsWhileConnected
CHECK_DEADLOCK FALSE
