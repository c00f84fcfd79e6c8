\* The latch run with deletes among the operations: a delete of a point
\* the segment does not hold returns Ok(false) before the error latch is
\* consulted (segment.rs:692).
CONSTANTS
  p1 = p1  p2 = p2  v1 = v1  v2 = v2  k1 = k1
  Points <- MCPoints
  Vals <- MCVals
  PayKeys <- MCPayKeys
  OpKinds <- MCOpKindsAll
  NoId = NoId
  None = None
  MaxOps = 3
  Faults = {"vector", "link", "payload"}
  MaxFaults = 2
  MaxRestarts = 1
SPECIFICATION Spec
INVARIANT HealthyStateMatchesWal
CHECK_DEADLOCK FALSE
