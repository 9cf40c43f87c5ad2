SPECIFICATION Spec
CONSTANTS
  Settings <- MCSettings
  Drives <- MCDrives
  Registered <- MCRegistered
  MaxChanges = 1
INVARIANTS
  OnlyAllowedAnnounced
CHECK_DEADLOCK FALSE
