SPECIFICATION Spec
CONSTANTS
  p1 = p1
  p2 = p2
  p3 = p3
  user1 = user1
  user2 = user2
  Procs = {p1, p2, p3}
  Sock <- TwoUsers
  ClaimRounds = 8
  ClearProbes = TRUE
  MaxStops = 0
  MaxCrashes = 0
INVARIANT
  OneDaemon
CHECK_DEADLOCK FALSE
