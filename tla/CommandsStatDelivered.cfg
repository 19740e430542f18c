CONSTANTS
  Names = {n1, n2}
  NoName = NoName
  Ids = {1}
  GivenModes <- OneMode
  Kinds = {"stat", "listDir", "chmod", "unlink"}
  MaxCalls = 3
SPECIFICATION Spec
PROPERTY StatDelivered
