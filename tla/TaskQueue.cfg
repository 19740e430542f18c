CONSTANTS
  MaxTasks = 4
  CallbackMayThrow = TRUE
  SessionMayStall = TRUE
SPECIFICATION FairSpec
INVARIANTS TypeOK OnlyHeadRuns NoLostWakeup TimerDiscipline
PROPERTIES NothingAfterTimeout ImplementsExecutor EveryTaskSettles TimedTaskSettles
CHECK_DEADLOCK FALSE
