CONSTANTS
  BufferSize = 2
  SizeRange = 8
  MaxWrite = 1
  MaxData = 3
  MaxCalls = 4
SPECIFICATION FairSpec
INVARIANTS TypeOK DataInOrder ChannelDiscipline
PROPERTY DataDelivered
CHECK_DEADLOCK FALSE
