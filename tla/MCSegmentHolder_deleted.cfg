\* Upserts and deletes of two points, an optimization, a failing
\* remove_dir_all and a crash at any step.
CONSTANTS
  p1 = p1  p2 = p2  v1 = v1  v2 = v2  d1 = d1  d2 = d2
  Points <- MCPoints
  Vals <- MCVals
  Dirs <- MCDirs
  First = d1
  None = None
  MaxOps = 3
  MaxCrashes = 1
  MaxRemoveErrors = 1
SPECIFICATION Spec
INVARIANT DeletedPointsStayDeleted
\* The bounded model stops once MaxOps operations are applied and the
\* optimizer has no fresh directory left; a real shard then idles.
CHECK_DEADLOCK FALSE
