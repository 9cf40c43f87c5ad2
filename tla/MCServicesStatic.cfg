CONSTANTS
  Stems <- OneStem
  Units <- OneUnit
  Calls <- AllCalls
  MaxCalls = 1
  MaxJobs = 1
SPECIFICATION Spec
INVARIANTS EnableEnables
CHECK_DEADLOCK FALSE
