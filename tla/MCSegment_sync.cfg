\* Synchronous flushes (load, replay) and background flushes (the flush
\* worker) interleaved with updates, and a crash at any step.
CONSTANTS
  p1 = p1  p2 = p2  v1 = v1  v2 = v2  k1 = k1
  Points <- MCPoints
  Vals <- MCVals
  PayKeys <- MCPayKeys
  OpKinds <- MCOpKinds
  NoId = NoId
  None = None
  MaxOps = 3
  MaxCrashes = 1
  AsyncFlush = TRUE
SPECIFICATION FairSpec
INVARIANT TypeOK
INVARIANT PersistedVersionMeansFlushed
PROPERTY ImplementsDurableShard
\* The bounded model stops once MaxOps operations are applied and flushed;
\* a real shard with no incoming requests idles the same way.
CHECK_DEADLOCK FALSE
