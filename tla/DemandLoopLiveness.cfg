SPECIFICATION Spec
CONSTANTS
  p1 = p1
  p2 = p2
  w1 = w1
  w2 = w2
  w3 = w3
  Labels <- TwoProjects
  Prompted = {p2}
  Workers = {w1}
  Target = 1
  MaxDepth = 1
  Ceiling = 1
  Reserved = 0
  Streak = 1
  MaxTurns = 1
  MaxFaults = 0
  MaxCommands = 1
PROPERTIES
  ProbeIsResolved
  QueueIsServed
