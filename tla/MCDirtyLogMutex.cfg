CONSTANTS
  w1 = w1
  w2 = w2
  f1 = f1
  f2 = f2
  Writer = {w1, w2}
  Flusher = {f1, f2}
  Limit <- MCLimit
  MaxWrite = 4
SPECIFICATION Spec
INVARIANTS
  IInv
PROPERTIES
  MarkRetiresWhatWasHeld
  ImplementsOrderedLog
