CONSTANTS
  t1 = t1
  t2 = t2
  t3 = t3
  a = a
  b = b
  c = c
  Thread = {t1}
  Key = {a, b}
  WriteKeys <- NoKeys
  Calls <- FillCleanupCalls
  Limit <- MCLimit
  Capacity = 1
  MaxWrite = 0
  MaxCache = 1
  CountModulus = 8
SPECIFICATION Spec
INVARIANTS
  CleanCountMatches
\* Without a flusher, and with the bounds on the calls reached, nothing is
\* left to do.
CHECK_DEADLOCK FALSE
