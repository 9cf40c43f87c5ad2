CONSTANTS
  Stems <- OneStem
  Units <- OneUnit
  Calls <- AllCalls
  MaxCalls = 2
  MaxJobs = 2
SPECIFICATION FairSpec
INVARIANTS TypeOK JobReported NoLostWakeup EnabledAsAsked
PROPERTIES ReturnsWithItsJob
CHECK_DEADLOCK FALSE
