CONSTANTS
  t1 = t1
  t2 = t2
  a = a
  b = b
  c = c
  Thread = {t1, t2}
  Key = {a, b, c}
  WriteKeys <- ScanKeys
  Calls <- ScanCalls
  Limit <- MCLimit
  Capacity = 1
  MaxWrite = 2
  MaxCache = 1
  CountModulus = 8
  Matching <- MCMatching
  ScanLimit <- MCScanLimit
SPECIFICATION ScanSpec
INVARIANTS
  ScanWithinLimit
  ScanFindsQueuedWrites
  ScanReportsFresh
  ReadableUntilRetired
  OneWriterInv
  ScanInv
