CONSTANTS
  Object = {s1, s2}
  MaxCalls = 3
  MaxFds = 2
SPECIFICATION FairSpec
INVARIANTS TypeOK OwnData AnsweredOnce LeftByFailures
PROPERTIES CallsAnswered
CHECK_DEADLOCK FALSE
