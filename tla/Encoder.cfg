CONSTANTS
  name1 = name1
  slot1 = slot1
  self = self
  stateful_self = stateful_self
  Name = {name1}
  Slot = {slot1}
  Self = self
  Stateful = stateful_self
  MaxScopes = 4
  Bits = 4
  Quarter = 4
  Names <- MCNames
  Methods <- MCMethods
  Levels = 6
  Variables = {"x"}
  MaxSends = 3
  MaxTests = 2
SPECIFICATION EncoderSpec
INVARIANTS FreeVariablesReachable StateVectorsFit NonLocalReturnsHome EveryBlockEncoded CodeAgrees CompilesAsC NoInternalError
CHECK_DEADLOCK FALSE
