\* Two claimants, claims not stamped by the caller, liveness.
CONSTANTS
  w1 = w1
  w2 = w2
  Workers = {w1, w2}
  Cadence = 1
  Tolerance = 1
  Grace = 1
  VerifyAttempts = 3
  ClaimsPerWorker = 1
  SelfStamped = FALSE
SPECIFICATION Spec
PROPERTY ClaimIsDecided
