SPECIFICATION Spec
CONSTANTS
  r1 = r1
  r2 = r2
  heavy = heavy
  Requests = {r1, r2}
  Resource <- MCResource
  TTL = 2
  WaitTimeout = 2
  MaxFaults = 2
INVARIANTS
  OneLeasePerResource
  OneBeliever
PROPERTIES
  NotEvicted
  AcquireIsAnswered
