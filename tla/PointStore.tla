----------------------------- MODULE PointStore -----------------------------
(***************************************************************************)
(* The abstract promise of a local shard: its visible point data is the    *)
(* result of applying the update operations of the write-ahead log, in     *)
(* their sequence-number order, to an empty store.  Each point is absent,  *)
(* or present with one vector and a payload, abstracted to the set of its  *)
(* keys.                                                                   *)
(*                                                                         *)
(* An operation is a record [kind, point, val]:                            *)
(*   "upsert"            sets the vector; a new point starts with an empty *)
(*                       payload, an existing point keeps its payload;     *)
(*   "set_payload"       adds the keys val to the payload;                 *)
(*   "overwrite_payload" replaces the payload by val;                      *)
(*   "delete_payload"    removes the key val;                              *)
(*   "clear_payload"     empties the payload;                              *)
(*   "delete"            removes the point.                                *)
(* A payload operation on an absent point does nothing (the point-id error *)
(* of the code).  OpKinds selects the kinds a model enumerates.            *)
(***************************************************************************)
EXTENDS Naturals, Sequences, SequencesExt

CONSTANTS Points, Vals, PayKeys, None, OpKinds

Kinds == {"upsert", "set_payload", "overwrite_payload", "delete_payload",
          "clear_payload", "delete"}

ASSUME OpKinds \subseteq Kinds

\* The argument each kind of operation carries.
OpArgs(k) ==
  CASE k = "upsert"            -> Vals
    [] k = "set_payload"       -> SUBSET PayKeys \ {{}}
    [] k = "overwrite_payload" -> SUBSET PayKeys
    [] k = "delete_payload"    -> PayKeys
    [] OTHER                   -> {None}

Ops == UNION {[kind : {k}, point : Points, val : OpArgs(k)] : k \in OpKinds}

Absent == [present |-> FALSE, vec |-> None, pay |-> {}]

Entries == {Absent} \cup [present : {TRUE}, vec : Vals, pay : SUBSET PayKeys]

EmptyStore == [p \in Points |-> Absent]

\* The payload after a payload operation.
NewPayload(pay, op) ==
  CASE op.kind = "set_payload"       -> pay \cup op.val
    [] op.kind = "overwrite_payload" -> op.val
    [] op.kind = "delete_payload"    -> pay \ {op.val}
    [] op.kind = "clear_payload"     -> {}

\* The effect of one operation on the abstract store.
ApplyOp(st, op) ==
  LET e == st[op.point] IN
  CASE op.kind = "upsert" ->
         [st EXCEPT ![op.point] = [present |-> TRUE, vec |-> op.val, pay |-> e.pay]]
    [] op.kind = "delete" ->
         [st EXCEPT ![op.point] = Absent]
    [] OTHER ->
         IF e.present THEN [st EXCEPT ![op.point].pay = NewPayload(e.pay, op)] ELSE st

\* The store after the first n operations of the log.
StoreAfter(log, n) == FoldLeft(ApplyOp, EmptyStore, SubSeq(log, 1, n))

=============================================================================
