CONSTANTS
  x = x
  y = y
  nil = nil
  Elem = {x, y}
  NewSizes <- MCSizes
  Index <- MCIndex
  MaxArray = 6
SPECIFICATION Spec
INVARIANTS TypeOK AppendingBodySeesAll
PROPERTY DequeSpec
CHECK_DEADLOCK FALSE
