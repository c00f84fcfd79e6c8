----------------------------- MODULE SegmentRead -----------------------------
(***************************************************************************)
(* The scroll read path: Segment::read_filtered with its two strategies,   *)
(* filtered_read_by_index and filtered_read_by_id_stream, read_range and   *)
(* estimate_points_count (lib/segment/src/segment.rs), and LocalShard's    *)
(* read_filtered and estimate_cardinality over the segments               *)
(* (lib/collection/src/shards/local_shard.rs).                             *)
(*                                                                         *)
(* Reads hold the segment's borrows and the holder's read guard, so each  *)
(* read is one atomic evaluation: the variables are the state reads see,  *)
(* Init is every such state of small segments, and nothing changes it.    *)
(* The filter is abstracted to the set of internal ids it matches in each *)
(* segment; query_points yields that set (see QueryPointsCorrect in        *)
(* PayloadIndex), and may name offsets whose point was unlinked.          *)
(***************************************************************************)
EXTENDS Naturals, FiniteSets, SequencesExt

CONSTANTS
  Ids,      \* external point ids, ordered as numbers
  Offs,     \* internal ids of a segment
  Segs,     \* segment ids of the holder
  NoId,     \* no internal id
  None,     \* Option::None
  VectorNames, \* vector_data.len(): named vectors per point
  WrongVector,  \* the Err(OperationError::WrongVector) of a search
  ServiceError  \* the service error of a search over a corrupt id tracker

ASSUME Ids \subseteq Nat /\ VectorNames \in Nat \ {0}

SegTypes == {"plain", "indexed", "special"}

VARIABLES
  idMap,    \* segment -> external id -> internal id or NoId (id tracker)
  match,    \* segment -> internal ids whose payload satisfies the filter
  est       \* segment -> the payload index's estimate [min, exp, max]

vars == <<idMap, match, est>>

\* Id tracker mappings: a partial injection from external to internal ids.
Trackers ==
  {m \in [Ids -> Offs \cup {NoId}] :
     \A p, q \in Ids : p # q /\ m[p] # NoId => m[p] # m[q]}

Linked(s) == {p \in Ids : idMap[s][p] # NoId}

ExternalId(s, o) ==
  IF \E p \in Ids : idMap[s][p] = o THEN CHOOSE p \in Ids : idMap[s][p] = o ELSE None

\* A point belongs to at most one segment (deduplicate_points at load).
Init ==
  /\ idMap \in [Segs -> Trackers]
  /\ \A s, t \in Segs : s # t => Linked(s) \cap Linked(t) = {}
  /\ match \in [Segs -> SUBSET Offs]
  /\ est \in {e \in [Segs -> [min : 0..Cardinality(Offs), exp : 0..Cardinality(Offs),
                              max : 0..Cardinality(Offs)]] :
                \A s \in Segs : e[s].min <= Cardinality(match[s])
                                /\ e[s].min <= e[s].exp /\ e[s].exp <= e[s].max
                                /\ Cardinality(match[s]) <= e[s].max}

Next == UNCHANGED vars

Spec == Init /\ [][Next]_vars

----------------------------------------
\* Reads of one segment

Sorted(S) == SetToSortSeq(S, <)

\* The first k elements of a sequence; k = None takes all (usize::MAX).
Take(sq, k) == IF k = None \/ k >= Len(sq) THEN sq ELSE SubSeq(sq, 1, k)

AtOrAfter(p, offset) == offset = None \/ p >= offset

\* id_tracker.iter_from(offset): linked external ids from offset on, in order.
iter_from(s, offset) == Sorted({p \in Linked(s) : AtOrAfter(p, offset)})

\* peek_top_smallest_iterable: the k smallest elements.
TopSmallest(S, k) == {x \in S : Cardinality({y \in S : y < x}) < k}

\* Mutant: the offset itself is skipped.
filtered_read_by_index_after_offset(s, offset, limit) ==
  LET ids == {ExternalId(s, o) : o \in match[s]} \ {None}
      kept == {p \in ids : offset = None \/ p > offset}
      page == IF limit = None THEN kept ELSE TopSmallest(kept, limit)
  IN Sorted(page)

\* Walk the offsets query_points yields, keep the linked ids at or after
\* offset, take the limit smallest and sort them.
filtered_read_by_index(s, offset, limit) ==
  LET ids == {ExternalId(s, o) : o \in match[s]} \ {None}
      kept == {p \in ids : AtOrAfter(p, offset)}
      page == IF limit = None THEN kept ELSE TopSmallest(kept, limit)
  IN Sorted(page)

\* Walk the ids from offset in order, keep those the filter context
\* accepts, up to limit.
filtered_read_by_id_stream(s, offset, limit) ==
  Take(SelectSeq(iter_from(s, offset), LAMBDA p : idMap[s][p] \in match[s]), limit)

points_count(s) == Cardinality(Linked(s))

\* The strategy heuristic: with total = points_count + 1 and
\* check_probability = (exp + 1) / total, the index is used when
\* floor(limit_or_total / check_probability) > max, that is when
\* limit_or_total * total >= (max + 1) * (exp + 1).
UseIndex(s, limit) ==
  LET total == points_count(s) + 1
      l == IF limit = None THEN total ELSE limit
  IN l * total >= (est[s].max + 1) * (est[s].exp + 1)

read_filtered(s, offset, limit, filtered) ==
  CASE ~filtered          -> Take(iter_from(s, offset), limit)
    [] UseIndex(s, limit) -> filtered_read_by_index(s, offset, limit)
    [] OTHER              -> filtered_read_by_id_stream(s, offset, limit)

estimate_points_count(s, filtered) ==
  IF filtered THEN est[s]
  ELSE [min |-> points_count(s), exp |-> points_count(s), max |-> points_count(s)]

----------------------------------------
\* Reads of the shard

\* LocalShard::read_filtered: the union of every segment's unpaged read.
shard_read_filtered(filtered) ==
  UNION {ToSet(read_filtered(s, None, None, filtered)) : s \in Segs}

\* Mutant: the max bound adds each segment's min.
estimate_cardinality_max_of_min(filtered) ==
  LET E == [s \in Segs |-> estimate_points_count(s, filtered)]
      Sum(f) == FoldFunction(+, 0, f)
  IN [min |-> Sum([s \in Segs |-> E[s].min]), exp |-> Sum([s \in Segs |-> E[s].exp]),
      max |-> Sum([s \in Segs |-> E[s].min])]

\* LocalShard::estimate_cardinality: the estimates summed, exact(0) when
\* there is no segment.
estimate_cardinality(filtered) ==
  LET E == [s \in Segs |-> estimate_points_count(s, filtered)]
      Sum(f) == FoldFunction(+, 0, f)
  IN [min |-> Sum([s \in Segs |-> E[s].min]), exp |-> Sum([s \in Segs |-> E[s].exp]),
      max |-> Sum([s \in Segs |-> E[s].max])]

\* Segment::info of segment s of type ty: the schema of indexed fields is
\* left out.
info(s, ty) ==
  [segment_type |-> ty, num_points |-> points_count(s),
   num_vectors |-> points_count(s) * VectorNames]

\* The sum of a count over the segments.
SumOver(f) == FoldFunction(+, 0, f)

\* Mutant: the vectors of a segment are added to points_count.
local_shard_info_points_as_vectors(ty, failedOp, optErr) ==
  [status |-> CASE failedOp \/ optErr                -> "red"
               [] \E s \in Segs : ty[s] = "special" -> "yellow"
               [] OTHER                              -> "green",
   vectors_count |-> SumOver([s \in Segs |-> info(s, ty[s]).num_vectors]),
   indexed_vectors_count |->
     SumOver([s \in Segs |-> IF ty[s] = "indexed" THEN info(s, ty[s]).num_vectors ELSE 0]),
   points_count |-> SumOver([s \in Segs |-> info(s, ty[s]).num_vectors]),
   segments_count |-> Cardinality(Segs)]

\* LocalShard::local_shard_info over Original segments of types ty (proxy
\* segments exist only during an optimization, which is not modelled):
\* counts summed, indexed vectors of Indexed segments, status Yellow with a
\* Special segment and Red, overriding it, when the holder has a failed
\* operation or an optimizer error.
local_shard_info(ty, failedOp, optErr) ==
  [status |-> CASE failedOp \/ optErr                -> "red"
               [] \E s \in Segs : ty[s] = "special" -> "yellow"
               [] OTHER                              -> "green",
   vectors_count |-> SumOver([s \in Segs |-> info(s, ty[s]).num_vectors]),
   indexed_vectors_count |->
     SumOver([s \in Segs |-> IF ty[s] = "indexed" THEN info(s, ty[s]).num_vectors ELSE 0]),
   points_count |-> SumOver([s \in Segs |-> info(s, ty[s]).num_points]),
   segments_count |-> Cardinality(Segs)]

----------------------------------------
\* Search of one segment.  Scores are a function from internal ids to a
\* small ordered set; payloads and vectors are data the properties do not
\* tell apart and are left out.

\* VectorIndexEnum::search dispatches to the Plain or an HNSW index, whose
\* code is not under src/.  Their contract: distinct offsets the filter
\* accepts (any stored offset without one), at most top, best first.  HNSW
\* is approximate, so any such list is a possible answer.
IndexResults(s, sc, filtered, top) ==
  LET cand == IF filtered THEN match[s] ELSE Offs
  IN {r \in UNION {[1..n -> cand] : n \in 0..top} :
        IsInjective(r) /\ \A i \in 1..(Len(r) - 1) : sc[r[i]] >= sc[r[i + 1]]}

\* Mutant: the version is looked up before unlinked offsets are skipped.
process_search_result_version_first(s, sc, ver, res) ==
  LET kept == SelectSeq(res, LAMBDA o : ExternalId(s, o) # None)
  IN IF \E i \in DOMAIN res : res[i] \notin ver THEN ServiceError
     ELSE [i \in 1..Len(kept) |-> [id |-> ExternalId(s, kept[i]), score |-> sc[kept[i]]]]

\* Each offset is resolved through the id tracker; one without an external
\* id is skipped with a warning.  The others need internal_version: one
\* without (ver is the set of offsets that have one) fails the whole
\* collect with a service error; otherwise they become ScoredPoints in
\* order.  The search is without payload and vectors, whose lookups are
\* further `?` on storages this module leaves out.
process_search_result(s, sc, ver, res) ==
  LET kept == SelectSeq(res, LAMBDA o : ExternalId(s, o) # None)
  IN IF \E i \in DOMAIN kept : kept[i] \notin ver THEN ServiceError
     ELSE [i \in 1..Len(kept) |-> [id |-> ExternalId(s, kept[i]), score |-> sc[kept[i]]]]

\* check_vector_name and the dimension check, then one index search.  name
\* is a vector name (1..VectorNames are the segment's), dimOk whether the
\* query has the storage's vector_dim, res the index's answer, ver the
\* offsets the id tracker has a version for.
search(s, sc, ver, name, dimOk, res) ==
  IF name \notin 1..VectorNames \/ ~dimOk THEN WrongVector
  ELSE process_search_result(s, sc, ver, res)

\* The first error of a sequence of answers, or the answers (the collect of
\* Results into a Result).
CollectResults(rs) ==
  IF \E i \in DOMAIN rs : rs[i] = ServiceError THEN ServiceError ELSE rs

\* Mutant: only the first query vector's dimension is checked.
search_batch_first_dim(s, sc, ver, name, dimsOk, results) ==
  IF name \notin 1..VectorNames \/ ~dimsOk[1] THEN WrongVector
  ELSE CollectResults([i \in DOMAIN results |-> process_search_result(s, sc, ver, results[i])])

\* search_batch: every query vector's dimension is checked before the one
\* batched index search; each answer is then processed alone and the
\* first failure fails the batch.
search_batch(s, sc, ver, name, dimsOk, results) ==
  IF name \notin 1..VectorNames \/ \E i \in DOMAIN dimsOk : ~dimsOk[i] THEN WrongVector
  ELSE CollectResults([i \in DOMAIN results |-> process_search_result(s, sc, ver, results[i])])

----------------------------------------
\* Properties

Offsets == {None} \cup Ids
Limits == {None} \cup 0..(Cardinality(Ids) + 1)

\* The points a scroll of one segment must return: linked, at or after the
\* offset, accepted by the filter when there is one.
Hits(s, offset, filtered) ==
  {p \in Linked(s) : AtOrAfter(p, offset) /\ (filtered => idMap[s][p] \in match[s])}

\* Whichever strategy the cardinality heuristic picks, Segment::read_filtered
\* returns the `limit` smallest hits in increasing order: both
\* filtered_read_by_index (which walks the payload index, drops unlinked
\* offsets, keeps the smallest and sorts) and filtered_read_by_id_stream
\* (which walks the id tracker in order) give the same page.
ReadFilteredIsScroll ==
  \A s \in Segs, o \in Offsets, l \in Limits, f \in BOOLEAN :
    LET r == read_filtered(s, o, l, f)
        H == Hits(s, o, f)
    IN /\ \A i \in 1..(Len(r) - 1) : r[i] < r[i + 1]
       /\ ToSet(r) \subseteq H
       /\ Len(r) = IF l = None THEN Cardinality(H) ELSE Min({l, Cardinality(H)})
       /\ \A p \in H \ ToSet(r), i \in 1..Len(r) : r[i] < p

\* LocalShard::estimate_cardinality bounds what LocalShard::read_filtered
\* returns: exactly without a filter (points_count of each segment), and
\* from above with one.  A lower bound is not claimed: the payload index may
\* count offsets whose point was unlinked.
EstimateBoundsRead ==
  \A f \in BOOLEAN :
    LET e == estimate_cardinality(f)
        n == Cardinality(shard_read_filtered(f))
    IN /\ n <= e.max
       /\ ~f => e.min = n /\ e.exp = n /\ e.max = n

\* The collection info of LocalShard::local_shard_info agrees with what the
\* shard's reads return: its points_count is the number of points a full
\* scroll sees and the exact unfiltered estimate, every point has
\* VectorNames vectors, indexed vectors are among them, and the status is
\* Red exactly when the holder records a failure.
ShardInfoMatchesReads ==
  LET n == Cardinality(shard_read_filtered(FALSE))
      e == estimate_cardinality(FALSE)
  IN \A ty \in [Segs -> SegTypes], fo \in BOOLEAN, oe \in BOOLEAN :
       LET i == local_shard_info(ty, fo, oe)
       IN /\ i.points_count = n /\ i.points_count = e.exp
          /\ i.vectors_count = i.points_count * VectorNames
          /\ i.indexed_vectors_count <= i.vectors_count
          /\ (i.status = "red") = (fo \/ oe)

Scores == [Offs -> 0..1]
MaxTop == Cardinality(Offs)

\* Search reads neither est nor anything est constrains, so the search
\* properties are checked in one state per id mapping and filter.
OneEstimate ==
  est = [s \in Segs |-> [min |-> 0, exp |-> 0, max |-> Cardinality(match[s])]]

\* Segment::search returns, best first and each once, only points the
\* segment still holds and the filter accepts, at most top of them, and
\* loses no point of the index's answer but those whose offset the id
\* tracker no longer maps (process_search_result skips them, so an answer
\* may be shorter than top while more points match).  It fails instead
\* exactly when a point of the answer the tracker still maps has no
\* version, as after a crash between the id mapping's and the versions'
\* flush; an unlinked offset without a version fails nothing.
SearchReturnsHits ==
  OneEstimate =>
  \A s \in Segs, sc \in Scores, f \in BOOLEAN, ver \in SUBSET Offs :
    \A r \in IndexResults(s, sc, f, MaxTop), top \in 0..MaxTop :
      Len(r) <= top =>
      LET out == search(s, sc, ver, 1, TRUE, r)
          ids == {out[i].id : i \in DOMAIN out}
      IN IF \E o \in ToSet(r) : ExternalId(s, o) # None /\ o \notin ver
         THEN out = ServiceError
         ELSE /\ out # ServiceError
              /\ IsInjective([i \in DOMAIN out |-> out[i].id])
              /\ ids \subseteq Hits(s, None, f)
              /\ \A i \in 1..(Len(out) - 1) : out[i].score >= out[i + 1].score
              /\ Len(out) <= top
              /\ ids = {ExternalId(s, o) : o \in ToSet(r)} \ {None}

\* Segment::search_batch answers a batch as the searches of its vectors
\* would one by one, and fails when any of them would fail: with
\* WrongVector before searching when any vector has the wrong dimension,
\* otherwise with the failure of a search.
SearchBatchIsSearches ==
  OneEstimate =>
  \A s \in Segs, name \in {1, VectorNames + 1}, d \in [1..2 -> BOOLEAN], ver \in SUBSET Offs :
    LET sc == [o \in Offs |-> 0] IN
    \A r1, r2 \in IndexResults(s, sc, TRUE, 1) :
      LET rs == <<r1, r2>>
          one == [i \in 1..2 |-> search(s, sc, ver, name, d[i], rs[i])]
          b == search_batch(s, sc, ver, name, d, rs)
      IN CASE \E i \in 1..2 : one[i] = WrongVector -> b = WrongVector
           [] \E i \in 1..2 : one[i] = ServiceError -> b = ServiceError
           [] OTHER -> \A i \in 1..2 : b[i] = one[i]

========================================
