CONSTANTS
  MaxChildren = 2
  MaxOutput = 1
  MaxRounds = 2
  MayFail = {}
SPECIFICATION Spec
PROPERTY ChildSeesItsOutput
CHECK_DEADLOCK FALSE
