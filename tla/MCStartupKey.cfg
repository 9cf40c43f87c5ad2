SPECIFICATION Spec
CONSTANTS
  Settings <- MCSettings
  Drives <- MCDrives
  Registered <- MCRegistered
  MaxChanges = 1
INVARIANTS
  KeyFallsBack
CHECK_DEADLOCK FALSE
