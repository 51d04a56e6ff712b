CONSTANTS
  t1 = t1
  t2 = t2
  t3 = t3
  a = a
  b = b
  c = c
  Thread = {t1, t2, t3}
  Key = {a, b}
  WriteKeys <- SharedKeys
  Calls <- FlusherCalls
  Limit <- MCLimit
  Capacity = 1
  MaxWrite = 2
  MaxCache = 0
  CountModulus = 8
SPECIFICATION Spec
INVARIANTS
  QueuedWritesReadable
