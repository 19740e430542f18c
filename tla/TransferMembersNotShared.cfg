CONSTANTS
  ChunkSize = 2
  MaxFile = 3
  MaxTransfers = 1
SPECIFICATION Spec
PROPERTY MembersNotShared
CHECK_DEADLOCK FALSE
