CONSTANTS
  x1 = x1
  x2 = x2
  x3 = x3
  x4 = x4
  Nil = Nil
  Element = {x1, x2, x3, x4}
  Hash <- MCHash
  Sizes <- MCSizes

  Bits = 8
  Quarter = 64
  Nibble = 4
  SmallDigits = 2
  Operands <- MCOperands
  MaxOps = 1

  Item = {i1, i2}
  Blank = Blank
  Given <- MCGiven
  Moves <- MCMoves
  LeastGrowth = 2
  MostGrowth = 3
  MaxArray = 4

  Name = {1, 2, 3, 4, 5}
  Vacant = Vacant
  FirstRoom = 2

  TreeKey = {1, 2, 3, 4}
  MaxItems = 5

  SlotKey = {k1, k2, k3}
  SlotValue = {v1, v2}
  NilSlot = NilSlot
  MaxSlots = 4

  Link = {n1, n2, n3}
  List = {l1, l2}
  NilLink = NilLink

  Dict = {d1, d2}
  DictKey = {x1, x2, x4}
  DictValue = {v1, v2}
  MaxAssociations = 3

  Grammars <- MCGrammars
  Inputs <- MCInputs
  MaxActions = 12
SPECIFICATION LibrarySpec
INVARIANTS
  LibraryTypeOK
  ScansArrive
  GivenOnce
  AnswersExact
  OneSelector
  NearlyBalanced
  StayersGiven
PROPERTIES
  Implements
  TapeSpec
  OrderedSpec
  ActsAsMap
  SequencesSpec
  MapsSpec
  Recognises
CHECK_DEADLOCK FALSE
