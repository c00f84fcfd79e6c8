---------------------------- MODULE PayloadIndex ----------------------------
(***************************************************************************)
(* The payload index of a segment (StructPayloadIndex, lib/segment/src/   *)
(* index/struct_payload_index.rs) over its payload storage, and the        *)
(* segment calls that create a field index (segment.rs).                   *)
(*                                                                         *)
(* Data abstraction.  Points are internal offsets Pts, all of them live.   *)
(* A payload value is abstracted to its type: a value of one of Types, or  *)
(* NullVal; a key a payload does not hold is None, and a point with no     *)
(* entry in the payload storage has payload None.  A field's Vec of field  *)
(* indexes holds at most one index (index_selector is not under src/), an  *)
(* index being its schema and the points it holds; Drained is the empty    *)
(* Vec that wipe can leave.  Field indexes are not under src/; from the    *)
(* spec (4.4) the model takes: add_point replaces the point's entry (the   *)
(* point is held iff its new value has the index's type), remove_point     *)
(* drops it, an index answers and estimates exactly the conditions on its  *)
(* own type.                                                               *)
(*                                                                         *)
(* A failing write (the `?` of a storage, config or index call) returns a  *)
(* service error; the segment's error latch then admits only the same      *)
(* operation again, which `pending` models.                                *)
(***************************************************************************)
EXTENDS Naturals, FiniteSets, FiniteSetsExt

CONSTANTS
  Pts,          \* internal point offsets
  Keys,         \* payload keys
  Types,        \* value types, and so field-index schemas
  NullVal,      \* the JSON null value
  None,         \* Option::None; a key or a payload that is absent
  Drained,      \* a field whose Vec of field indexes is empty
  Faults,       \* failing writes: "config", "build", "index", "storage"
  MaxFaults,    \* bound on the number of failing writes
  MaxReopens    \* bound on the number of reopenings

ASSUME MaxFaults \in Nat /\ MaxReopens \in Nat

VARIABLES
  payload,      \* payload storage: offset -> None | [Keys -> value | None]
  config,       \* config.indexed_fields: key -> schema | None
  saved,        \* the config file
  fieldIdx,     \* field_indexes: key -> None | Drained | [schema, pts]
  pending,      \* the operation that failed and must be re-tried, or None
  faults,
  reopens

vars == <<payload, config, saved, fieldIdx, pending, faults, reopens>>

Values == Types \cup {NullVal}
Payloads == [Keys -> Values \cup {None}]
NoPayload == [k \in Keys |-> None]
\* A Payload argument of assign: some keys, each with a value.
PartialPayloads == UNION {[K -> Values] : K \in SUBSET Keys \ {{}}}
IndexRecs == [schema : Types, pts : SUBSET Pts]
Schemas == [Keys -> Types \cup {None}]

Ops ==
  [kind : {"create"}, key : Keys, schema : Types \cup {None}]
  \cup [kind : {"drop_index"}, key : Keys]
  \cup [kind : {"assign"}, pt : Pts, pl : PartialPayloads]
  \cup [kind : {"delete"}, pt : Pts, key : Keys]
  \cup [kind : {"drop"}, pt : Pts, by : {"clear_payload", "delete_point"}]
  \cup [kind : {"wipe"}]

\* The value of key k in the payload of p; None when p has no entry.
ValueOf(p, k) == IF payload[p] = None THEN None ELSE payload[p][k]

\* The fields that have a field index.
Indexed == {k \in Keys : fieldIdx[k] \in IndexRecs}

\* build_field_indexes: a fresh index of schema t, with add_point for every
\* entry of the payload storage.
Build(st, k, t) ==
  [schema |-> t, pts |-> {p \in Pts : st[p] # None /\ st[p][k] = t}]

\* load_all_fields (load_from_db): an index for every configured field.
LoadAllFields(st, cfg) ==
  [k \in Keys |-> IF cfg[k] = None THEN None ELSE Build(st, k, cfg[k])]

\* add_point and remove_point of a field index.
AddPoint(ix, p, v) ==
  [ix EXCEPT !.pts = IF v = ix.schema THEN @ \cup {p} ELSE @ \ {p}]
RemovePoint(ix, p) == [ix EXCEPT !.pts = @ \ {p}]

\* Mutant: a null value is taken as a schema.
infer_payload_type_keeps_null(k) ==
  LET stored == {p \in Pts : payload[p] # None} IN
  IF stored = {} THEN None
  ELSE IF ValueOf(Min(stored), k) \in Values THEN ValueOf(Min(stored), k) ELSE None

\* infer_payload_type: the payload storage is iterated in offset order and
\* the callback returns Ok(false) after the first entry, so the schema is
\* the type of that entry's value, None when it has none or it is null.
infer_payload_type(k) ==
  LET stored == {p \in Pts : payload[p] # None} IN
  IF stored = {} THEN None
  ELSE IF ValueOf(Min(stored), k) \in Types THEN ValueOf(Min(stored), k) ELSE None

\* The write failures an operation may still meet.
FaultChoices(fs) == {"none"} \cup (IF faults < MaxFaults THEN fs \cap Faults ELSE {})

\* An operation is allowed when nothing failed or it re-tries the failed one;
\* a failure leaves it pending.
Allowed(op) == pending \in {None, op}
Outcome(op, f, ok) ==
  /\ pending' = IF ok THEN None ELSE op
  /\ faults' = IF f = "none" THEN faults ELSE faults + 1

Init ==
  /\ payload = [p \in Pts |-> None]
  /\ config = [k \in Keys |-> None]
  /\ saved = config
  /\ fieldIdx = [k \in Keys |-> None]
  /\ pending = None
  /\ faults = 0
  /\ reopens = 0

\* set_indexed: a field new to the config is saved, then built; a field
\* already in the config only gets its schema replaced in memory.
set_indexed(k, t, f) ==
  LET cfg == [config EXCEPT ![k] = t] IN
  CASE config[k] # None -> [cfg |-> cfg, saved |-> saved, idx |-> fieldIdx, ok |-> TRUE]
    [] f = "config"     -> [cfg |-> cfg, saved |-> saved, idx |-> fieldIdx, ok |-> FALSE]
    [] f = "build"      -> [cfg |-> cfg, saved |-> cfg, idx |-> fieldIdx, ok |-> FALSE]
    [] OTHER -> [cfg |-> cfg, saved |-> cfg, ok |-> TRUE,
                 idx |-> [fieldIdx EXCEPT ![k] = Build(payload, k, t)]]

\* Segment::create_field_index: with no schema given, the schema is inferred
\* from the stored payloads, and a TypeInference error (a user error) is
\* returned when there is none.
CreateFieldIndex ==
  \E k \in Keys, s \in Types \cup {None}, f \in FaultChoices({"config", "build"}) :
    LET op == [kind |-> "create", key |-> k, schema |-> s]
        t == IF s = None THEN infer_payload_type(k) ELSE s
        r == set_indexed(k, t, f)
    IN /\ Allowed(op)
       /\ f = "none" \/ (t # None /\ config[k] = None)
       /\ IF t = None
          THEN pending' = None /\ UNCHANGED <<config, saved, fieldIdx, faults>>
          ELSE /\ config' = r.cfg /\ saved' = r.saved /\ fieldIdx' = r.idx
               /\ Outcome(op, f, r.ok)
       /\ UNCHANGED <<payload, reopens>>

\* drop_index: the field leaves the config, the config is saved (`?`), then
\* the field's indexes are removed.
DropIndex ==
  \E k \in Keys, f \in FaultChoices({"config"}) :
    LET op == [kind |-> "drop_index", key |-> k]
        cfg == [config EXCEPT ![k] = None]
    IN /\ Allowed(op)
       /\ config' = cfg
       /\ saved' = IF f = "none" THEN cfg ELSE saved
       /\ fieldIdx' = IF f = "none" THEN [fieldIdx EXCEPT ![k] = None] ELSE fieldIdx
       /\ Outcome(op, f, f = "none")
       /\ UNCHANGED <<payload, reopens>>

\* The fields a loop over field_indexes reaches: all of them, or, when a
\* write fails, those before the failing one in the HashMap's order.
Reached(f) == IF f = "index" THEN SUBSET Indexed \ {Indexed} ELSE {Indexed}

\* assign (set_payload): every field index gets add_point with the value the
\* new payload has for its field, then the storage merges the payload in.
Assign ==
  \E p \in Pts, pl \in PartialPayloads, f \in FaultChoices({"index", "storage"}) :
    LET op == [kind |-> "assign", pt |-> p, pl |-> pl]
        v(k) == IF k \in DOMAIN pl THEN pl[k] ELSE None
        old == IF payload[p] = None THEN NoPayload ELSE payload[p]
    IN /\ Allowed(op)
       /\ \E done \in Reached(f) :
            fieldIdx' = [k \in Keys |->
                           IF k \in done THEN AddPoint(fieldIdx[k], p, v(k)) ELSE fieldIdx[k]]
       /\ payload' = IF f = "none"
                     THEN [payload EXCEPT ![p] =
                             [k \in Keys |-> IF k \in DOMAIN pl THEN pl[k] ELSE old[k]]]
                     ELSE payload
       /\ Outcome(op, f, f = "none")
       /\ UNCHANGED <<config, saved, reopens>>

\* delete (delete_payload): remove_point from the key's indexes, then the key
\* from the stored payload.
Delete ==
  \E p \in Pts, k \in Keys, f \in FaultChoices({"index", "storage"}) :
    LET op == [kind |-> "delete", pt |-> p, key |-> k] IN
    /\ Allowed(op)
    /\ f = "index" => k \in Indexed
    /\ fieldIdx' = IF k \in Indexed /\ f # "index"
                   THEN [fieldIdx EXCEPT ![k] = RemovePoint(@, p)] ELSE fieldIdx
    /\ payload' = IF f = "none" /\ payload[p] # None
                  THEN [payload EXCEPT ![p][k] = None] ELSE payload
    /\ Outcome(op, f, f = "none")
    /\ UNCHANGED <<config, saved, reopens>>

\* Mutant: the storage entry is removed and the field indexes are not.
drop_skips_indexes ==
  \E p \in Pts, by \in {"clear_payload", "delete_point"},
     f \in FaultChoices({"index", "storage"}) :
    LET op == [kind |-> "drop", pt |-> p, by |-> by] IN
    /\ Allowed(op)
    /\ payload' = IF f = "none" THEN [payload EXCEPT ![p] = None] ELSE payload
    /\ Outcome(op, f, f = "none" /\ (by = "clear_payload" \/ pending = None))
    /\ UNCHANGED <<fieldIdx, config, saved, reopens>>

\* drop, called by clear_payload and by delete_point: remove_point from
\* every field index, then the storage entry.  delete_point then unlinks the
\* point, so a re-try of it that succeeds finds no external id for the
\* offset and leaves the latch set (segment.rs 152-161); clear_payload keeps
\* the point linked and clears it.
Drop ==
  \E p \in Pts, by \in {"clear_payload", "delete_point"},
     f \in FaultChoices({"index", "storage"}) :
    LET op == [kind |-> "drop", pt |-> p, by |-> by] IN
    /\ Allowed(op)
    /\ \E done \in Reached(f) :
         fieldIdx' = [k \in Keys |-> IF k \in done THEN RemovePoint(fieldIdx[k], p) ELSE fieldIdx[k]]
    /\ payload' = IF f = "none" THEN [payload EXCEPT ![p] = None] ELSE payload
    /\ Outcome(op, f, f = "none" /\ (by = "clear_payload" \/ pending = None))
    /\ UNCHANGED <<config, saved, reopens>>

\* wipe: the storage is wiped (`?`); each field's Vec is drained and every
\* index cleared, and a failing clear returns with its field drained and
\* the fields not reached untouched; load_all_fields (`?`) ends it.
Wipe ==
  \E f \in FaultChoices({"storage", "index", "build"}) :
    LET op == [kind |-> "wipe"]
        empty == [p \in Pts |-> None]
    IN /\ Allowed(op)
       /\ f = "index" => Indexed # {}
       /\ payload' = IF f = "storage" THEN payload ELSE empty
       /\ CASE f = "storage" -> fieldIdx' = fieldIdx
            [] f = "index" ->
                 \E D \in SUBSET Indexed \ {{}} :
                   fieldIdx' = [k \in Keys |-> IF k \in D THEN Drained ELSE fieldIdx[k]]
            [] f = "build" ->
                 fieldIdx' = [k \in Keys |-> IF fieldIdx[k] = None THEN None ELSE Drained]
            [] OTHER -> fieldIdx' = LoadAllFields(empty, config)
       /\ Outcome(op, f, f = "none")
       /\ UNCHANGED <<config, saved, reopens>>

\* load_from_db of one configured field: the field index's own load()
\* finds the column it has written to since it was built, and only a field
\* with no such index of the configured schema is built from the payload.
LoadFromDb(k, t) ==
  IF fieldIdx[k] \in IndexRecs /\ fieldIdx[k].schema = t THEN fieldIdx[k]
  ELSE Build(payload, k, t)

\* open, when the segment is loaded again: the saved config is read and
\* load_all_fields loads or builds every configured field.
Reopen ==
  /\ reopens < MaxReopens
  /\ config' = saved
  /\ fieldIdx' = [k \in Keys |-> IF saved[k] = None THEN None ELSE LoadFromDb(k, saved[k])]
  /\ reopens' = reopens + 1
  /\ UNCHANGED <<payload, saved, pending, faults>>

Next ==
  CreateFieldIndex \/ DropIndex \/ Assign \/ Delete \/ Drop \/ Wipe \/ Reopen

Spec == Init /\ [][Next]_vars

----------------------------------------
\* Queries

Conditions ==
  [kind : {"field"}, key : Keys, val : Types]
  \cup [kind : {"is_empty", "is_null"}, key : Keys]
  \cup [kind : {"has_id"}, ids : SUBSET Pts]

\* struct_filtered_context's check of a condition against the stored payload.
Check(c, p) ==
  CASE c.kind = "field"    -> ValueOf(p, c.key) = c.val
    [] c.kind = "is_empty" -> ValueOf(p, c.key) \in {None, NullVal}
    [] c.kind = "is_null"  -> ValueOf(p, c.key) = NullVal
    [] c.kind = "has_id"   -> p \in c.ids

Matching(c) == {p \in Pts : Check(c, p)}

total_points == Cardinality(Pts)

\* estimate_field_condition: an index of the condition's type answers it.
Answers(c) ==
  c.kind = "field" /\ fieldIdx[c.key] \in IndexRecs /\ fieldIdx[c.key].schema = c.val

\* count_indexed_points, the largest over the field's indexes.
IndexedCount(k) == IF fieldIdx[k] \in IndexRecs THEN Cardinality(fieldIdx[k].pts) ELSE 0

SaturatingSub(a, b) == IF a > b THEN a - b ELSE 0

\* A CardinalityEstimation; `primary` says whether it has primary clauses.
Estimation(prim, mn, ex, mx) == [primary |-> prim, min |-> mn, exp |-> ex, max |-> mx]

\* condition_cardinality: IsEmpty and IsNull on a field with an entry in
\* field_indexes expect total - indexed points (saturating), otherwise half
\* of the points; HasId counts the mapped ids; a field condition uses the
\* index's estimate, or CardinalityEstimation::unknown without primary
\* clauses.
condition_cardinality(c) ==
  CASE c.kind \in {"is_empty", "is_null"} /\ fieldIdx[c.key] # None ->
         LET n == SaturatingSub(total_points, IndexedCount(c.key)) IN Estimation(TRUE, 0, n, n)
    [] c.kind \in {"is_empty", "is_null"} -> Estimation(TRUE, 0, total_points \div 2, total_points)
    [] c.kind = "has_id" -> LET n == Cardinality(c.ids) IN Estimation(TRUE, n, n, n)
    [] Answers(c) -> LET n == IndexedCount(c.key) IN Estimation(TRUE, n, n, n)
    [] OTHER -> Estimation(FALSE, 0, total_points \div 2, total_points)

\* query_points: without primary clauses, a full scan checked against the
\* payload; otherwise the points the clauses enumerate (the field's index,
\* the ids, or all ids for IsEmpty and IsNull), deduplicated by the
\* visited list, and checked.
query_points(c) ==
  LET cand == CASE c.kind = "has_id" -> c.ids
                [] Answers(c) -> fieldIdx[c.key].pts
                [] OTHER -> Pts
  IN IF condition_cardinality(c).primary THEN {p \in cand : Check(c, p)} ELSE Matching(c)

----------------------------------------
\* Properties

TypeOK ==
  /\ payload \in [Pts -> {None} \cup Payloads]
  /\ config \in Schemas /\ saved \in Schemas
  /\ fieldIdx \in [Keys -> {None, Drained} \cup IndexRecs]
  /\ pending \in {None} \cup Ops
  /\ faults \in 0..MaxFaults /\ reopens \in 0..MaxReopens

\* Whatever writes failed on the way, once the failed operation has been
\* re-tried, query_points returns for every condition exactly the points
\* whose stored payload satisfies it: no field index lacks a point its
\* condition matches.
QueryPointsCorrect ==
  pending = None => \A c \in Conditions : query_points(c) = Matching(c)

\* Whatever writes failed on the way, once the failed operation has been
\* re-tried, no field index holds a point whose stored value of the field is
\* not of the index's schema: every write path (assign with a partial
\* payload, delete, clear_payload, wipe failing between its fields, reopen)
\* takes the point out of the indexes it no longer matches.
IndexHoldsOnlyMatching ==
  pending = None =>
    \A k \in Indexed : \A p \in fieldIdx[k].pts : ValueOf(p, k) = fieldIdx[k].schema

========================================
