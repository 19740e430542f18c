CONSTANTS
  MaxTasks = 3
  CallbackMayThrow = FALSE
  SessionMayStall = TRUE
SPECIFICATION FairSpec
PROPERTY QueueMovesOn
CHECK_DEADLOCK FALSE
