SPECIFICATION Spec
CONSTANTS
  pr1 = pr1
  pr2 = pr2
  t1 = t1
  t2 = t2
  c1 = c1
  c2 = c2
  PRs = {pr1}
  Tickets = {t1, t2}
  Commits = {c1, c2}
  Retention = 0
  MaxFaults = 2
  MaxMoves = 2
INVARIANTS
  TypeOK
PROPERTIES
  ObligationsAreKept
  IntentIsRestored
  EndIsRecorded
