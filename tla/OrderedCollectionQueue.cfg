CONSTANTS
  x = x
  y = y
  nil = nil
  Elem = {x, y}
  NewSizes <- DefaultSize
  Index <- MCIndex
  MaxArray = 5
SPECIFICATION Spec
INVARIANT MakesRoomForQueues
CHECK_DEADLOCK FALSE
