CONSTANTS
  w1 = w1
  w2 = w2
  f1 = f1
  f2 = f2
  o1 = o1
  Writer = {w1, w2}
  Flusher = {f1, f2}
  Observer = {o1}
  Limit <- MCLimit
  MaxWrite = 3
  CountModulus = 8
SPECIFICATION FairSpec
INVARIANTS
  PendingLenAccounts
  EachIdOnce
  ProgramOrder
  QuietLenExact
  IInv
PROPERTIES
  EventuallyRetired
  MarkRetiresWhatWasHeld
  ImplementsOrderedLog
