CONSTANTS
  a = a
  b = b
  Pts <- MCPts
  Keys <- MCTwoKeys
  Types <- MCTwoTypes
  NullVal = NullVal
  None = None
  Drained = Drained
  Faults = {"config", "build", "index", "storage"}
  MaxFaults = 1
  MaxReopens = 1
SPECIFICATION Spec
INVARIANT TypeOK
INVARIANT IndexHoldsOnlyMatching
