CONSTANTS
  w1 = w1
  w2 = w2
  crashed = crashed
  Workers = {w1, w2}
  Cadence = 1
  Tolerance = 0
  Grace = 1
  VerifyAttempts = 1
  ClaimsPerWorker = 1
  SelfStamped = TRUE
  Reasons = {crashed}
  Reqs = {}
  HitlTypes = {}
  Local = {w1}
  CrashReason = crashed
  Cap = 2
  MaxFaults = 1
SPECIFICATION SweepSpec
INVARIANT SweepTypeOK
INVARIANT RequeuesAreCounted
PROPERTY LocalIsSpared
PROPERTY ParkIsNotLifted
PROPERTY StrandedIsReleased
