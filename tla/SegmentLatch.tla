---------------------------- MODULE SegmentLatch ----------------------------
(***************************************************************************)
(* The error latch of a segment (handle_version_and_failure in            *)
(* lib/segment/src/segment.rs) under storage failures, with what the spec *)
(* says of the code around it, which is not under src/: the update worker *)
(* applies every WAL operation in order, logs an error and goes on; a      *)
(* restart of the shard builds the segment again by replaying the WAL and  *)
(* panics on a service error (LocalShard::load_from_wal).  The failed      *)
(* operation is re-tried, as the comment at segment.rs:139-145 expects, by *)
(* re-applying the WAL record error_status names.  Persistence is left to  *)
(* the Segment module: here a restart replays the whole WAL.               *)
(*                                                                         *)
(* A leaf write fails at most MaxFaults times in all; the leaf writes that *)
(* may fail are Faults.                                                    *)
(***************************************************************************)
EXTENDS SegmentOps

CONSTANTS
  Faults,       \* the leaf writes that may fail (a subset of Leaves)
  MaxFaults,    \* bound on the number of injected failures
  MaxRestarts   \* bound on the number of shard restarts

ASSUME Faults \subseteq Leaves /\ MaxFaults \in Nat /\ MaxRestarts \in Nat

VARIABLES
  log,        \* the WAL; index = op_num
  applied,    \* last op_num handed to the segment (by the worker or the replay)
  seg,        \* the segment, with error_status as seg.err
  failed,     \* op_nums whose last application ended in a transient error
  faults,     \* failures injected so far
  mode,       \* "up", "replay" (LocalShard::load) or "down" (panicked)
  restarts

vars == <<log, applied, seg, failed, faults, mode, restarts>>

\* A service error, or a refusal while error_status is set, is transient.
Transient(r) == r \in {"svc", "rejected"}

\* The leaf failures that may still be injected.
FaultChoices == {"none"} \cup (IF faults < MaxFaults THEN Faults ELSE {})

\* Apply WAL operation n with leaf fault f, and remember whether it ended
\* in a transient error.
Update(n, f) ==
  LET res == ApplyToSegment(seg, n, log[n], f) IN
  /\ seg' = res.s
  /\ failed' = IF Transient(res.r) THEN failed \cup {n} ELSE failed \ {n}
  /\ faults' = IF res.r = "svc" /\ f # "none" THEN faults + 1 ELSE faults

Init ==
  /\ log = <<>>
  /\ applied = 0
  /\ seg = EmptySegment
  /\ failed = {}
  /\ faults = 0
  /\ mode = "up"
  /\ restarts = 0

\* A client operation is written to the WAL and gets the next op_num.
WriteWal ==
  /\ mode = "up"
  /\ Len(log) < MaxOps
  /\ \E op \in PS!Ops : log' = Append(log, op)
  /\ UNCHANGED <<applied, seg, failed, faults, mode, restarts>>

\* The update worker applies the next operation, logs an error and goes on.
ApplyUpdate ==
  /\ mode = "up"
  /\ applied < Len(log)
  /\ \E f \in FaultChoices : Update(applied + 1, f)
  /\ applied' = applied + 1
  /\ UNCHANGED <<log, mode, restarts>>

\* The failed operation is re-tried: the WAL record error_status names is
\* applied again.
Retry ==
  /\ mode = "up"
  /\ seg.err # None
  /\ \E f \in FaultChoices : Update(seg.err.ver, f)
  /\ UNCHANGED <<log, applied, mode, restarts>>

\* The shard is restarted: memory is lost and LocalShard::load starts again.
Restart ==
  /\ restarts < MaxRestarts
  /\ seg' = EmptySegment
  /\ applied' = 0
  /\ failed' = {}
  /\ mode' = "replay"
  /\ restarts' = restarts + 1
  /\ UNCHANGED <<log, faults>>

\* Mutant: the replay logs a service error and goes on.
ReplayWalContinues ==
  /\ mode = "replay"
  /\ applied < Len(log)
  /\ \E f \in FaultChoices :
       LET res == ApplyToSegment(seg, applied + 1, log[applied + 1], f) IN
       /\ seg' = res.s
       /\ faults' = IF res.r = "svc" /\ f # "none" THEN faults + 1 ELSE faults
       /\ mode' = "replay"
  /\ applied' = applied + 1
  /\ UNCHANGED <<log, failed, restarts>>

\* load_from_wal: apply the next record; a service error panics the load.
ReplayWal ==
  /\ mode = "replay"
  /\ applied < Len(log)
  /\ \E f \in FaultChoices :
       LET res == ApplyToSegment(seg, applied + 1, log[applied + 1], f) IN
       /\ seg' = res.s
       /\ faults' = IF res.r = "svc" /\ f # "none" THEN faults + 1 ELSE faults
       /\ mode' = IF Transient(res.r) THEN "down" ELSE "replay"
  /\ applied' = applied + 1
  /\ UNCHANGED <<log, failed, restarts>>

\* The replay reached the end of the WAL; the shard serves.
FinishReplay ==
  /\ mode = "replay"
  /\ applied = Len(log)
  /\ mode' = "up"
  /\ UNCHANGED <<log, applied, seg, failed, faults, restarts>>

Next == WriteWal \/ ApplyUpdate \/ Retry \/ Restart \/ ReplayWal \/ FinishReplay

Spec == Init /\ [][Next]_vars

\* The update worker drains its queue, a load runs to its end, and a
\* failed operation keeps being re-tried: these are weakly fair.  Clients
\* and restarts are not.
FairSpec ==
  /\ Spec
  /\ WF_vars(ApplyUpdate) /\ WF_vars(Retry)
  /\ WF_vars(ReplayWal) /\ WF_vars(FinishReplay)

----------------------------------------
\* Properties

TypeOK ==
  /\ log \in Seq(PS!Ops) /\ Len(log) <= MaxOps
  /\ applied \in 0..Len(log)
  /\ seg \in SegmentStates
  /\ failed \subseteq 1..applied
  /\ faults \in 0..MaxFaults
  /\ mode \in {"up", "replay", "down"}
  /\ restarts \in 0..MaxRestarts

\* Partial writes of a failed operation, its re-try, and the replay after a
\* restart leave no trace: whenever the shard serves and no operation handed
\* to the segment is left failed, the segment shows exactly what those WAL
\* operations, applied once each in order, would give.
HealthyStateMatchesWal ==
  (mode = "up" /\ failed = {}) => View(seg) = PS!StoreAfter(log, applied)


=============================================================================
