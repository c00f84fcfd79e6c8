---------------------------- MODULE DurableShard ----------------------------
(***************************************************************************)
(* What a local shard promises about its points across crashes, with no    *)
(* segments, files or flushes: a write-ahead log of operations, a count of *)
(* the ones applied, and the set of points a reader sees.  While the shard *)
(* serves, the points are those the first `applied` operations leave       *)
(* present, and only the next operation of the log changes them.  A crash *)
(* takes the shard down; it comes back with every logged operation        *)
(* applied, and it does come back.                                         *)
(*                                                                         *)
(* Segment is shown to implement this specification (Segment.tla,          *)
(* ImplementsDurableShard).  The abstract state keeps presence only: the   *)
(* vectors do not survive a background flush and a crash (run              *)
(* segment_lost_update), so the code promises no more.                     *)
(***************************************************************************)
EXTENDS PointStore

CONSTANT MaxOps

VARIABLES
  log,       \* the operations written to the WAL, in op_num order
  applied,   \* how many of them the shard has applied
  serving,   \* whether the shard is up
  present    \* the points a reader sees

vars == <<log, applied, serving, present>>

\* The points the first n operations of the log leave present.
PresentAfter(n) == {p \in Points : StoreAfter(log, n)[p].present}

Init ==
  /\ log = <<>>
  /\ applied = 0
  /\ serving = TRUE
  /\ present = {}

Write ==
  /\ serving
  /\ Len(log) < MaxOps
  /\ \E op \in Ops : log' = Append(log, op)
  /\ UNCHANGED <<applied, serving, present>>

Apply ==
  /\ serving
  /\ applied < Len(log)
  /\ applied' = applied + 1
  /\ present' = PresentAfter(applied + 1)
  /\ UNCHANGED <<log, serving>>

Crash ==
  /\ serving
  /\ serving' = FALSE
  /\ applied' = 0
  /\ present' = {}
  /\ UNCHANGED log

Recover ==
  /\ ~serving
  /\ serving' = TRUE
  /\ applied' = Len(log)
  /\ present' = PresentAfter(Len(log))
  /\ UNCHANGED log

Next == Write \/ Apply \/ Crash \/ Recover

Spec == Init /\ [][Next]_vars

\* Only recovery is promised to happen; clients and crashes are not.
FairSpec == Spec /\ WF_vars(Recover)

=============================================================================
