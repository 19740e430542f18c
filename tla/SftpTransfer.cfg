CONSTANTS
  ChunkSize = 2
  MaxFile = 5
  MaxTransfers = 2
SPECIFICATION FairSpec
INVARIANTS TypeOK WriteWhole ReadWhole HandleDiscipline LoopKeptAlive
PROPERTIES ImplementsFileTransfer TransferEnds
CHECK_DEADLOCK FALSE
