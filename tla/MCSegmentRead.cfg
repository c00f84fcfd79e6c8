\* Two segments of two internal ids each over three external ids; every
\* offset and limit, with and without a filter, in every state.
CONSTANTS
  Ids <- MCIds
  Offs <- MCOffs
  Segs <- MCSegs
  NoId = NoId
  None = None
  VectorNames = 2
  WrongVector = WrongVector
  ServiceError = ServiceError
SPECIFICATION Spec
INVARIANT ReadFilteredIsScroll
INVARIANT EstimateBoundsRead
INVARIANT ShardInfoMatchesReads
INVARIANT SearchReturnsHits
INVARIANT SearchBatchIsSearches
