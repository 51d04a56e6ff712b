CONSTANTS
  t1 = t1
  t2 = t2
  t3 = t3
  a = a
  b = b
  c = c
  Thread = {t1, t2}
  Key = {a, b}
  WriteKeys <- WriterKeys
  Calls <- WriterFlusherCalls
  Limit <- MCLimit
  Capacity = 1
  MaxWrite = 1
  MaxCache = 0
  CountModulus = 8
SPECIFICATION Spec
INVARIANTS
  VisibleDirtyQueued
