CONSTANTS
  Messages <- AllMessages
  AllowedOperations <- MCOperations
  AllowedCommands <- MCCommands
  PendingLimit = 1
  MaxDeliveries = 1
SPECIFICATION Spec
INVARIANTS CompletedMeansSuccess
CHECK_DEADLOCK FALSE
