SPECIFICATION Spec
CONSTANTS
  p1 = p1
  p2 = p2
  p3 = p3
  user1 = user1
  user2 = user2
  Procs = {p1, p2}
  Sock <- OneUser
  ClaimRounds = 8
  ClearProbes = TRUE
  MaxStops = 2
  MaxCrashes = 1
INVARIANT
  RescueSparesOwners
PROPERTIES
  StartIsDecided
  DebrisIsCleared
CHECK_DEADLOCK FALSE
