CONSTANTS
  MaxCalls = 3
  MaxConnects = 2
SPECIFICATION FairSpec
INVARIANTS TypeOK SftpOfThisSession ConnectUsesLastKeys
PROPERTIES ConnectTold KeysAnswered
CHECK_DEADLOCK FALSE
