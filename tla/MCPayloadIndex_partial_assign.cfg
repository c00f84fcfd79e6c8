CONSTANTS
  a = a
  b = b
  Pts <- MCPts
  Keys <- MCTwoKeys
  Types <- MCOneType
  NullVal = NullVal
  None = None
  Drained = Drained
  Faults = {}
  MaxFaults = 0
  MaxReopens = 1
SPECIFICATION Spec
INVARIANT QueryPointsCorrect
CHECK_DEADLOCK FALSE
