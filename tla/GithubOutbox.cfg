SPECIFICATION Spec
CONSTANTS
  push = push
  pull = pull
  other = other
  move = move
  Requests = {push, pull, other, move}
  KeyOf <- MCKeyOf
  Kind <- MCKind
  Hidden = {}
  Retention = 1
  MaxFaults = 2
INVARIANTS
  TypeOK
  TransitionsAreWhole
PROPERTIES
  WrittenOnce
  ObligationsAreKept
