SPECIFICATION Spec
CONSTANTS
  Settings <- MCSettings
  Drives <- MCDrives
  Registered <- MCRegistered
  MaxChanges = 1
INVARIANTS
  YamlTakesPrecedence
CHECK_DEADLOCK FALSE
