CONSTANTS
  Names = {n1, n2}
  NoName = NoName
  Ids = {1}
  GivenModes <- OneMode
  Kinds = {"mkdir", "rename", "chmod", "chown", "stat", "unlink", "rmdir", "listDir"}
  MaxCalls = 3
SYMMETRY NameSymmetry
SPECIFICATION Spec
INVARIANTS TypeOK AttributesReachable
PROPERTIES ToldMeansDone StatIsTheServers ListingIsTheDirectory
