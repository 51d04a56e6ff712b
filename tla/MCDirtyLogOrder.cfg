CONSTANTS
  w1 = w1
  w2 = w2
  f1 = f1
  f2 = f2
  o1 = o1
  Writer = {w1, w2}
  Flusher = {f1}
  Observer = {}
  Limit <- PositiveLimit
  MaxWrite = 2
  CountModulus = 8
SPECIFICATION Spec
INVARIANTS
  DrainsInWriteOrder
