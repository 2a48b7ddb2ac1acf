CONSTANTS
  w1 = w1
  w2 = w2
  w3 = w3
  Workers = {w1, w2, w3}
  Cadence = 1
  Tolerance = 1
  Grace = 1
  VerifyAttempts = 1
  ClaimsPerWorker = 1
  SelfStamped = TRUE
SPECIFICATION Spec
SYMMETRY WorkerSymmetry
INVARIANT TypeOK
INVARIANT MutualExclusion
INVARIANT SoleClaimantNeverLoses
INVARIANT NoMutualLoss
PROPERTY NeverRobbed
