CONSTANTS
  Stems <- OneStem
  Units <- OneUnit
  Calls <- AllCalls
  MaxCalls = 1
  MaxJobs = 1
SPECIFICATION FairSpec
PROPERTIES ReturnsAfterItsJob
CHECK_DEADLOCK FALSE
