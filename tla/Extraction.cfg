SPECIFICATION Spec
CONSTANTS
  Path <- MCPath
  Size <- MCSize
  Limit <- MCLimit
  MaxInt = 7
INVARIANTS
  LimitsHold
  DestinationIsWhole
  ReturnIsClean
CHECK_DEADLOCK FALSE
