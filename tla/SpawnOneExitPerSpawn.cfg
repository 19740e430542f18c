CONSTANTS
  MaxChildren = 2
  MaxOutput = 1
  MaxRounds = 2
  MayFail = {}
SPECIFICATION Spec
INVARIANT OneExitPerSpawn
CHECK_DEADLOCK FALSE
