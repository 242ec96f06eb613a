CONSTANTS
  x = x
  a = a
  self = self
  stateful_self = stateful_self
  Name = {x}
  Slot = {a}
  Self = self
  Stateful = stateful_self
  MaxScopes = 3
SPECIFICATION Spec
INVARIANT BlocksInMethodsMayReturn
CHECK_DEADLOCK FALSE
