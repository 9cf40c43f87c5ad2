SPECIFICATION FairSpec
CONSTANTS
  Settings <- MCSettings
  Drives <- MCDrives
  Registered <- MCRegistered
  MaxChanges = 4
INVARIANTS
  TypeOK
  IdentityOfOneDrive
PROPERTIES
  EventuallyRuns
CHECK_DEADLOCK FALSE
