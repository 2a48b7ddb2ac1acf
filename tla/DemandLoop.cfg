SPECIFICATION Spec
CONSTANTS
  p1 = p1
  p2 = p2
  w1 = w1
  w2 = w2
  w3 = w3
  Labels <- OneProject
  Prompted = {}
  Workers = {w1, w2, w3}
  Target = 2
  MaxDepth = 2
  Ceiling = 3
  Reserved = 0
  Streak = 2
  MaxTurns = 1
  MaxFaults = 1
  MaxCommands = 1
INVARIANTS
  TypeOK
  TargetIsKept
PROPERTIES
  SoleProbe
SYMMETRY WorkerSymmetry
