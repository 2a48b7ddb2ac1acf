\* The same identity may claim the issue twice.
CONSTANTS
  w1 = w1
  w2 = w2
  w3 = w3
  Workers = {w1, w2, w3}
  Cadence = 1
  Tolerance = 0
  Grace = 1
  VerifyAttempts = 1
  ClaimsPerWorker = 2
  SelfStamped = TRUE
SPECIFICATION Spec
SYMMETRY WorkerSymmetry
PROPERTY NoQueueJump
