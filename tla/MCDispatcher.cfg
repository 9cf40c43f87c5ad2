CONSTANTS
  Messages <- AllMessages
  AllowedOperations <- MCOperations
  AllowedCommands <- MCCommands
  PendingLimit = 2
  MaxDeliveries = 3
SPECIFICATION FairSpec
INVARIANTS
  TypeOK OneAnswerPerCommand RejectedForCause GateHolds EffectsInOrder
  NothingLeftRunning StatusMatchesEffects
PROPERTIES AllAnswered ImplementsService ImplementsHandler
CHECK_DEADLOCK FALSE
