SPECIFICATION Spec
CONSTANTS
  Requests = {one}
  Varied = {"backend.kind", "listen"}
  StartingFiles <- MCFiles
  CommandLines <- MCFlags
  Platform = "linux"
  MaxApplies = 3
  MaxCrashes = 0
  MaxFailures = 0
INVARIANTS GatewayIsWhereItListens
CHECK_DEADLOCK FALSE
