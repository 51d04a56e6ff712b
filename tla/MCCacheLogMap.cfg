CONSTANTS
  t1 = t1
  t2 = t2
  t3 = t3
  a = a
  b = b
  c = c
  Thread = {t1, t2}
  Key = {a, b}
  WriteKeys <- MixKeys
  Calls <- MixCalls
  Limit <- MCLimit
  Capacity = 1
  MaxWrite = 2
  MaxCache = 3
  CountModulus = 8
SPECIFICATION FairSpec
INVARIANTS
  CleanCountAccounts
  CleanCacheBounded
  IInv
PROPERTIES
  DirtyEntryStays
  CleanEntryStays
  EnqueueReturns
