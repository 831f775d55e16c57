SPECIFICATION FairSpec
CONSTANTS
  Joins = {j1, j2}
  Owners = {o1}
  MaxSlots = 1
  LateFunding = FALSE
  MaxTenants = 2
  MaxEnds = 1
  MaxKills = 1
  MaxStops = 1
  MaxReboots = 1
INVARIANTS TypeOK APlaceIsFound NothingHeldIsArchived  GatewayIsTheTenants
 
CHECK_DEADLOCK FALSE
