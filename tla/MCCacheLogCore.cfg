CONSTANTS
  k1 = k1
  k2 = k2
  v1 = v1
  v2 = v2
  none = none
  Key <- MCKey
  Value <- MCValue
  NoValue <- none
  MaxWrite = 4
  MaxCache = 2
SPECIFICATION Spec
INVARIANTS
  InvariantReportOk
  ReadThroughCoherent
  LogIsWriteOrder
  IInv
  ComparisonIsExact
  ReplaysAgree
PROPERTIES
  DurableNeverRegresses
  ImplementsWriteBehind
\* A crash ends the run: the code has no step that leaves the crashed state.
CHECK_DEADLOCK FALSE
