CONSTANTS
  p1 = p1  p2 = p2  v1 = v1  v2 = v2  k1 = k1
  Points <- MCPoints
  Vals <- MCVals
  PayKeys <- MCPayKeys
  OpKinds <- MCOpKindsNoDelete
  NoId = NoId
  None = None
  MaxOps = 3
  Faults = {"vector", "link", "payload"}
  MaxFaults = 2
  MaxRestarts = 1
SPECIFICATION FairSpec
INVARIANT TypeOK
INVARIANT HealthyStateMatchesWal
\* The bounded model stops once MaxOps operations are handled; the update
\* worker then waits for the next request.
CHECK_DEADLOCK FALSE
