CONSTANTS
  MaxChildren = 2
  MaxOutput = 2
  MaxRounds = 2
  MayFail = {1}
SPECIFICATION FairSpec
INVARIANTS TypeOK NoneForgotten OutputInOrder
PROPERTIES ImplementsExecutor ExitAfterOutput SpawnExits
CHECK_DEADLOCK FALSE
