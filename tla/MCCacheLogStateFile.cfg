CONSTANTS
  k1 = k1
  k2 = k2
  v1 = v1
  none = none
  Key = {k1, k2}
  Value = {v1}
  NoValue = none
  MaxWrite = 1
  MaxCache = 1
SPECIFICATION FileSpec
INVARIANT StepsPreserveReport
CHECK_DEADLOCK FALSE
