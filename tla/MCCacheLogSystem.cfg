CONSTANTS
  t1 = t1
  t2 = t2
  f = f
  a = a
  b = b
  Thread = {t1, t2, f}
  Key = {a, b}
  WriteKeys <- OwnKeys
  Calls <- LoopCalls
  Limit <- MCLimit
  Capacity = 1
  MaxWrite = 3
  MaxCache = 2
  CountModulus = 8
SPECIFICATION SysSpec
SYMMETRY Exchange
INVARIANTS
  SysInv
  CompletedWritesReadable
  StoreFollowsLog
PROPERTIES
  ReadsNeverGoBack
