SPECIFICATION Spec
CONSTANTS
  a1 = a1
  q1 = q1
  Reasons = {}
  Reqs = {q1}
  HitlTypes = {}
  Actors = {a1}
  Assumed <- MCAssumed
  HumanLabels <- MCHumanLabels
  RecheckLimit = 2
  MaxFaults = 1
INVARIANT
  TypeOK
PROPERTIES
  QuarantineIsLeft
  ClosedStaysStripped
