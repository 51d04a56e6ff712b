CONSTANTS
  a = a
  b = b
  c = c
  harness = harness
  Key = {a, b, c}
  Value <- MCValue
  Limit <- MCLimit
  Capacity = 3
  MaxWrite = 4
  MaxCache = 3
  CountModulus = 8
SPECIFICATION ConfSpec
INVARIANTS
  AssertMatchesModel
  MarkFollowsQueue
  ConfInv
PROPERTIES
  FlushReturnsQueue
SYMMETRY MCSymmetry
