----------------------------- MODULE SegmentOps -----------------------------
(***************************************************************************)
(* The in-memory state of one appendable segment (lib/segment/src/        *)
(* segment.rs) and its point operations, each wrapped, as in the code, by  *)
(* handle_version_and_failure and handle_version.  No variables: the       *)
(* operators map a segment to a result [s, r], where r is "ok", "skipped"  *)
(* (stale op_num), "user" (a point-id error), "svc" (a service error) or   *)
(* "rejected" (refused while error_status is set, also a service error).   *)
(*                                                                         *)
(* An operation is a sequence of leaf writes, and each can fail with a     *)
(* service error after the earlier ones took effect.  The parameter f      *)
(* names the leaf write that fails, or "none":                             *)
(*   "vector"  vector storage insert_vector    "link"    id tracker set_link *)
(*   "payload" payload index write              "unlink"  id tracker drop    *)
(*   "version" id tracker set_internal_version                             *)
(***************************************************************************)
EXTENDS Naturals, FiniteSets, SequencesExt

CONSTANTS
  Points,       \* external point ids
  Vals,         \* vector values
  PayKeys,      \* payload keys
  NoId,         \* Option<PointOffsetType>::None
  None,         \* no vector stored; Option::None elsewhere
  MaxOps,       \* bound on op_num
  OpKinds       \* the operation kinds a model enumerates

ASSUME MaxOps \in Nat \ {0}

PS == INSTANCE PointStore

Offsets == 0..(MaxOps - 1)
Seqs == 0..MaxOps
Leaves == {"vector", "link", "payload", "unlink", "version"}

\* error_status: None, or the failed op_num and the external id of the point.
ErrStates == {None} \cup [ver : Seqs, pt : Points \cup {None}]

SegmentStates ==
  [idMap : [Points -> Offsets \cup {NoId}], size : 0..MaxOps,
   versions : [Offsets -> Seqs], vecs : [Offsets -> Vals \cup {None}],
   pay : [Offsets -> SUBSET PayKeys], version : Seqs, err : ErrStates]

\* build_segment: a new segment with no points and version None.
EmptySegment ==
  [idMap |-> [p \in Points |-> NoId], size |-> 0,
   versions |-> [o \in Offsets |-> 0], vecs |-> [o \in Offsets |-> None],
   pay |-> [o \in Offsets |-> {}], version |-> 0, err |-> None]

\* What a reader of the segment sees for every point.
View(s) ==
  [p \in Points |->
     IF s.idMap[p] = NoId THEN PS!Absent
     ELSE [present |-> TRUE, vec |-> s.vecs[s.idMap[p]], pay |-> s.pay[s.idMap[p]]]]

\* id_tracker.external_id(offset), None for NoId or an unlinked offset.
ExternalId(s, off) ==
  IF off # NoId /\ \E p \in Points : s.idMap[p] = off
  THEN CHOOSE p \in Points : s.idMap[p] = off
  ELSE None

\* handle_version's skip test: with a point offset the point's version is
\* compared, without one the segment version.
IsStale(s, n, off) ==
  IF off = NoId THEN s.version > n ELSE s.versions[off] > n

\* handle_version: skip a stale operation; otherwise run it (o is the result
\* of the operation's closure on s: a segment, a result and an offset), and when it
\* succeeds bump the segment version, then record op_num as the version of
\* the offset it returned -- a write that can itself fail (`?`).
handle_version(s, n, off, o, f) ==
  IF IsStale(s, n, off) THEN [s |-> s, r |-> "skipped"]
  ELSE
    LET t == [o.s EXCEPT !.version = Max({n, s.version})]
    IN CASE o.r # "ok"                 -> [s |-> o.s, r |-> o.r]
         [] o.off = NoId              -> [s |-> t, r |-> "ok"]
         [] f = "version"             -> [s |-> t, r |-> "svc"]
         [] OTHER -> [s |-> [t EXCEPT !.versions[o.off] = n], r |-> "ok"]

\* handle_version_and_failure: refuse an op newer than a failed one; after
\* the operation, a service error latches error_status with the point id
\* of the op's offset as it is now; any other outcome clears error_status
\* when that point id equals the latched one.
handle_version_and_failure(s, n, off, o, f) ==
  IF s.err # None /\ s.err.ver < n THEN [s |-> s, r |-> "rejected"]
  ELSE
    LET h == handle_version(s, n, off, o, f)
        pid == ExternalId(h.s, off)
    IN CASE h.r = "svc" -> [h EXCEPT !.s.err = [ver |-> n, pt |-> pid]]
         [] h.s.err # None /\ h.s.err.pt = pid -> [h EXCEPT !.s.err = None]
         [] OTHER -> h

\* A leaf write that fails: what was written before stays.
Failed(t) == [s |-> t, r |-> "svc", off |-> NoId]

\* Mutant: a new point gets internal id internal_size + 1.
upsert_vector_skip_index(s, n, p, v, f) ==
  LET stored == s.idMap[p]
      k == s.size + 1
      Run(t) ==
        CASE f = "vector" -> Failed(t)
          [] stored # NoId -> [s |-> [t EXCEPT !.vecs[stored] = v], r |-> "ok", off |-> stored]
          [] f = "link"    -> Failed([t EXCEPT !.vecs[k] = v])
          [] OTHER -> [s |-> [t EXCEPT !.vecs[k] = v, !.idMap[p] = k, !.size = k + 1],
                       r |-> "ok", off |-> k]
  IN handle_version_and_failure(s, n, stored, Run(s), f)

\* upsert_vector: an existing point is updated in place (update_vector); a
\* new point gets internal id internal_size, its vector, then its link.  A
\* new point has no offset yet, so it is judged by the segment version.
upsert_vector(s, n, p, v, f) ==
  LET stored == s.idMap[p]
      k == s.size
      Run(t) ==
        CASE f = "vector" -> Failed(t)
          [] stored # NoId -> [s |-> [t EXCEPT !.vecs[stored] = v], r |-> "ok", off |-> stored]
          [] f = "link"    -> Failed([t EXCEPT !.vecs[k] = v])
          [] OTHER -> [s |-> [t EXCEPT !.vecs[k] = v, !.idMap[p] = k, !.size = k + 1],
                       r |-> "ok", off |-> k]
  IN handle_version_and_failure(s, n, stored, Run(s), f)

\* delete_point: an absent point is Ok(false) outside the error handling;
\* otherwise the payload is dropped, then the id unlinked.
delete_point(s, n, p, f) ==
  LET off == s.idMap[p]
      Run(t) ==
        CASE f = "payload" -> Failed(t)
          [] f = "unlink"  -> Failed([t EXCEPT !.pay[off] = {}])
          [] OTHER -> [s |-> [t EXCEPT !.pay[off] = {}, !.idMap[p] = NoId],
                       r |-> "ok", off |-> off]
  IN IF off = NoId THEN [s |-> s, r |-> "ok"]
     ELSE handle_version_and_failure(s, n, off, Run(s), f)

\* set_payload, set_full_payload, delete_payload, clear_payload: one write
\* to the payload index at the point's offset; an absent point is a
\* PointIdError.
update_payload(s, n, op, f) ==
  LET off == s.idMap[op.point]
      Run(t) ==
        CASE off = NoId    -> [s |-> t, r |-> "user", off |-> NoId]
          [] f = "payload" -> Failed(t)
          [] OTHER -> [s |-> [t EXCEPT !.pay[off] = PS!NewPayload(@, op)],
                       r |-> "ok", off |-> off]
  IN handle_version_and_failure(s, n, off, Run(s), f)

\* The segment call made for WAL operation number n, with leaf fault f.
ApplyToSegment(s, n, op, f) ==
  CASE op.kind = "upsert" -> upsert_vector(s, n, op.point, op.val, f)
    [] op.kind = "delete" -> delete_point(s, n, op.point, f)
    [] OTHER              -> update_payload(s, n, op, f)

=============================================================================
