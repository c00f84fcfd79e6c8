------------------------------ MODULE Segment ------------------------------
(***************************************************************************)
(* One segment of a local shard (lib/segment/src/segment.rs) together with *)
(* the write-ahead log that feeds it, its flush protocol, a crash of the   *)
(* process at any step, and the recovery of lib/collection/src/shards/     *)
(* local_shard.rs: load the segment from disk, repair it, replay the WAL,  *)
(* flush everything.                                                       *)
(*                                                                         *)
(* The segment's state and point operations come from SegmentOps, run     *)
(* here without leaf faults.  Sequence numbers start at 1, so the version  *)
(* 0 stands for Option::None (the code reads it as unwrap_or(0)).          *)
(***************************************************************************)
EXTENDS SegmentOps

CONSTANTS
  MaxCrashes,   \* bound on the number of process crashes
  AsyncFlush    \* whether the flush worker (flush(false) and wal.ack) runs

ASSUME MaxCrashes \in Nat /\ AsyncFlush \in BOOLEAN

VARIABLES
  log,        \* every operation written to the WAL; index = op_num
  walFirst,   \* first op_num still kept by the WAL (earlier ones are acked)
  applied,    \* last op_num applied to the in-memory segment
  seg,        \* in-memory segment: id tracker, storages, version
  disk,       \* what the segment's files hold
  persisted,  \* Segment.persisted_version
  fl,         \* the flush in progress (flush_op), phase 0 when none
  mode,       \* "up", "down" (crashed) or "replay" (LocalShard::load)
  crashes,
  fw          \* the flush worker's flush(false): the persisted version it read

vars == <<log, walFirst, applied, seg, disk, persisted, fl, mode, crashes, fw>>

----------------------------------------
\* The segment's files

\* The files: id mapping, vector storage, payload storage, the per-point
\* versions (stored by external id) and segment.json's version.
DiskStates ==
  [idMap : [Points -> Offsets \cup {NoId}], vecs : [Offsets -> Vals \cup {None}],
   pay : [Offsets -> SUBSET PayKeys], versions : [Points -> Seqs],
   state : Seqs]

EmptyDisk ==
  [idMap |-> [p \in Points |-> NoId], vecs |-> [o \in Offsets |-> None],
   pay |-> [o \in Offsets |-> {}], versions |-> [p \in Points |-> 0],
   state |-> 0]

Idle == [phase |-> 0, ver |-> 0, sync |-> FALSE]

WorkerIdle == [pc |-> "idle", cur |-> 0]

----------------------------------------
\* Loading a segment from its files

\* The id tracker's internal_size after load: one past the largest linked
\* internal id.
LoadedSize(d) ==
  LET linked == {d.idMap[p] : p \in {q \in Points : d.idMap[q] # NoId}}
  IN IF linked = {} THEN 0 ELSE Max(linked) + 1

\* Versions are stored by external id, so an offset gets the version of the
\* point linked to it, and versions of unlinked points are ignored.
LoadedVersions(d) ==
  [o \in Offsets |->
     IF \E p \in Points : d.idMap[p] = o
     THEN d.versions[CHOOSE p \in Points : d.idMap[p] = o]
     ELSE 0]

\* load_segment / create_segment: the segment as its files describe it.
load_segment(d) ==
  [idMap |-> d.idMap, size |-> LoadedSize(d), versions |-> LoadedVersions(d),
   vecs |-> d.vecs, pay |-> d.pay, version |-> d.state, err |-> None]

\* Internal ids iterated by iter_ids that have no external id.
Dangling(s) == {o \in 0..(s.size - 1) : \A p \in Points : s.idMap[p] # o}

\* check_consistency_and_repair, in memory: drop the payload of those ids.
Repaired(s) == [s EXCEPT !.pay = [o \in Offsets |-> IF o \in Dangling(s) THEN {} ELSE @[o]]]

----------------------------------------
\* Actions

Init ==
  /\ log = <<>>
  /\ walFirst = 1
  /\ applied = 0
  /\ seg = EmptySegment
  /\ disk = EmptyDisk
  /\ persisted = 0
  /\ fl = Idle
  /\ mode = "up"
  /\ crashes = 0
  /\ fw = WorkerIdle

SyncFlushRunning == fl.phase # 0 /\ fl.sync

\* A client operation is written to the WAL and gets the next op_num.
WriteWal ==
  /\ mode = "up"
  /\ Len(log) < MaxOps
  /\ \E op \in PS!Ops : log' = Append(log, op)
  /\ UNCHANGED <<walFirst, applied, seg, disk, persisted, fl, mode, crashes, fw>>

\* The update worker applies the next WAL operation to the segment.  It
\* needs the segment write lock, which a synchronous flush holds for reading.
ApplyUpdate ==
  /\ mode = "up"
  /\ applied < Len(log)
  /\ ~SyncFlushRunning
  /\ seg' = ApplyToSegment(seg, applied + 1, log[applied + 1], "none").s
  /\ applied' = applied + 1
  /\ UNCHANGED <<log, walFirst, disk, persisted, fl, mode, crashes, fw>>

\* Segment::flush(true), as take_snapshot calls it.  lock_flushing waits for
\* a background flush to finish; an empty or already persisted segment
\* returns at once; otherwise the segment version is captured in `state`
\* and flush_op runs in the caller's thread.
FlushNeeded(s, pv) == s.version # 0 /\ s.version # pv

flush ==
  /\ mode = "up"
  /\ fl.phase = 0
  /\ FlushNeeded(seg, persisted)
  /\ fl' = [phase |-> 1, ver |-> seg.version, sync |-> TRUE]
  /\ UNCHANGED <<log, walFirst, applied, seg, disk, persisted, mode, crashes, fw>>

\* What the k-th flusher of flush_op writes: the id mapping, the vector
\* storages, the payload index, the id versions (by external id; a point no
\* longer linked keeps its old entry), then segment.json with version ver.
\* Each flusher writes the component's content at the time it runs.
FlushWrite(d, s, k, ver) ==
  CASE k = 1 -> [d EXCEPT !.idMap = s.idMap]
    [] k = 2 -> [d EXCEPT !.vecs = s.vecs]
    [] k = 3 -> [d EXCEPT !.pay = s.pay]
    [] k = 4 -> [d EXCEPT !.versions =
                   [p \in Points |-> IF s.idMap[p] # NoId
                                     THEN s.versions[s.idMap[p]] ELSE @[p]]]
    [] k = 5 -> [d EXCEPT !.state = ver]

\* Mutant: the id versions flushed before the vector storages.
FlushStepVersionsEarly ==
  /\ fl.phase # 0
  /\ disk' = FlushWrite(disk, seg, <<1, 4, 3, 2, 5>>[fl.phase], fl.ver)
  /\ persisted' = IF fl.phase = 5 THEN fl.ver ELSE persisted
  /\ fl' = IF fl.phase = 5 THEN Idle ELSE [fl EXCEPT !.phase = @ + 1]
  /\ UNCHANGED <<log, walFirst, applied, seg, mode, crashes, fw>>

\* Mutant: persisted_version set to the segment's version when the flush
\* ends, not to the version flush_op captured.
FlushStepPersistsCurrent ==
  /\ fl.phase # 0
  /\ disk' = FlushWrite(disk, seg, fl.phase, fl.ver)
  /\ persisted' = IF fl.phase = 5 THEN seg.version ELSE persisted
  /\ fl' = IF fl.phase = 5 THEN Idle ELSE [fl EXCEPT !.phase = @ + 1]
  /\ UNCHANGED <<log, walFirst, applied, seg, mode, crashes, fw>>

\* One step of flush_op, in its fixed order; after the last one
\* persisted_version becomes the captured version.
FlushStep ==
  /\ fl.phase # 0
  /\ disk' = FlushWrite(disk, seg, fl.phase, fl.ver)
  /\ persisted' = IF fl.phase = 5 THEN fl.ver ELSE persisted
  /\ fl' = IF fl.phase = 5 THEN Idle ELSE [fl EXCEPT !.phase = @ + 1]
  /\ UNCHANGED <<log, walFirst, applied, seg, mode, crashes, fw>>

\* A flusher returns an error: flush_op stops, persisted_version unchanged.
FlushError ==
  /\ fl.phase # 0
  /\ fl' = Idle
  /\ UNCHANGED <<log, walFirst, applied, seg, disk, persisted, mode, crashes, fw>>

\* The flush worker (spec 4.10) calls flush_all(false), then acknowledges
\* the WAL up to the version it returned.  Segment::flush first reads
\* persisted_version; lock_flushing may then join a background flush that
\* finished in between, so the value compared and returned can be stale.
FlushWorkerRead ==
  /\ mode = "up"
  /\ AsyncFlush
  /\ fw.pc = "idle"
  /\ fw' = [pc |-> "read", cur |-> persisted]
  /\ UNCHANGED <<log, walFirst, applied, seg, disk, persisted, fl, mode, crashes>>

\* wal.ack(n): the records up to n may be removed.
Ack(n) == IF n + 1 > walFirst THEN n + 1 ELSE walFirst

\* Mutant: a background flush reported as done with the version it was
\* started for, before flush_op saved anything.
FlushWorkerRunAcksVersion ==
  /\ fw.pc = "read"
  /\ ~SyncFlushRunning
  /\ LET start == fl.phase = 0 /\ FlushNeeded(seg, fw.cur) IN
       /\ fl' = IF start THEN [phase |-> 1, ver |-> seg.version, sync |-> FALSE] ELSE fl
       /\ walFirst' = Ack(IF start THEN seg.version ELSE fw.cur)
  /\ fw' = WorkerIdle
  /\ UNCHANGED <<log, applied, seg, disk, persisted, mode, crashes>>

\* The rest of flush(false) and the acknowledgement.  A running background
\* flush makes it return at once; a synchronous one holds the flush lock.
\* Otherwise the early returns compare the segment version with the value
\* read, and a new background flush_op starts.  Every path returns the
\* value read, and the WAL is acknowledged up to it.
FlushWorkerRun ==
  /\ fw.pc = "read"
  /\ ~SyncFlushRunning
  /\ fl' = IF fl.phase = 0 /\ FlushNeeded(seg, fw.cur)
           THEN [phase |-> 1, ver |-> seg.version, sync |-> FALSE]
           ELSE fl
  /\ walFirst' = Ack(fw.cur)
  /\ fw' = WorkerIdle
  /\ UNCHANGED <<log, applied, seg, disk, persisted, mode, crashes>>

\* The process dies: memory and the running flush are lost, files remain.
Crash ==
  /\ mode # "down"
  /\ crashes < MaxCrashes
  /\ mode' = "down"
  /\ crashes' = crashes + 1
  /\ seg' = EmptySegment
  /\ fl' = Idle
  /\ persisted' = 0
  /\ applied' = 0
  /\ fw' = WorkerIdle
  /\ UNCHANGED <<log, walFirst, disk>>

\* LocalShard::load: load_segment, check_consistency_and_repair (which
\* flushes synchronously when it dropped something), then start the replay
\* of every operation the WAL holds.
load ==
  /\ mode = "down"
  /\ LET s == load_segment(disk) IN
       /\ seg' = Repaired(s)
       /\ fl' = IF Dangling(s) # {} /\ FlushNeeded(s, disk.state)
                THEN [phase |-> 1, ver |-> s.version, sync |-> TRUE]
                ELSE Idle
  /\ persisted' = disk.state
  /\ applied' = walFirst - 1
  /\ mode' = "replay"
  /\ UNCHANGED <<log, walFirst, disk, crashes, fw>>

\* Mutant: the replay loop stops before the last WAL record.
ReplayWalStopsEarly ==
  /\ mode = "replay"
  /\ fl.phase = 0
  /\ applied < Len(log) - 1
  /\ seg' = ApplyToSegment(seg, applied + 1, log[applied + 1], "none").s
  /\ applied' = applied + 1
  /\ UNCHANGED <<log, walFirst, disk, persisted, fl, mode, crashes, fw>>

\* load_from_wal: apply the next WAL record.
ReplayWal ==
  /\ mode = "replay"
  /\ fl.phase = 0
  /\ applied < Len(log)
  /\ seg' = ApplyToSegment(seg, applied + 1, log[applied + 1], "none").s
  /\ applied' = applied + 1
  /\ UNCHANGED <<log, walFirst, disk, persisted, fl, mode, crashes, fw>>

\* load_from_wal ends with flush_all(true); the shard then serves.
FinishReplay ==
  /\ mode = "replay"
  /\ fl.phase = 0
  /\ applied = Len(log)
  /\ fl' = IF FlushNeeded(seg, persisted)
           THEN [phase |-> 1, ver |-> seg.version, sync |-> TRUE]
           ELSE Idle
  /\ mode' = "up"
  /\ UNCHANGED <<log, walFirst, applied, seg, disk, persisted, crashes, fw>>

Next ==
  \/ WriteWal
  \/ ApplyUpdate
  \/ flush
  \/ FlushStep
  \/ FlushError
  \/ FlushWorkerRead
  \/ FlushWorkerRun
  \/ Crash
  \/ load
  \/ ReplayWal
  \/ FinishReplay

Spec == Init /\ [][Next]_vars

\* LocalShard::load runs load, the replay loop and the final flush in one
\* thread, and a started flush_op runs to its end or to an error: those
\* steps are weakly fair.  Clients, the flush worker and crashes are not.
FairSpec ==
  /\ Spec
  /\ WF_vars(load) /\ WF_vars(ReplayWal) /\ WF_vars(FinishReplay)
  /\ WF_vars(FlushStep)

----------------------------------------
\* Properties

TypeOK ==
  /\ log \in Seq(PS!Ops) /\ Len(log) <= MaxOps
  /\ walFirst \in 1..(MaxOps + 1)
  /\ applied \in Seqs
  /\ seg \in SegmentStates
  /\ disk \in DiskStates
  /\ persisted \in Seqs
  /\ fl \in [phase : 0..5, ver : Seqs, sync : BOOLEAN]
  /\ mode \in {"up", "down", "replay"}
  /\ crashes \in 0..MaxCrashes

\* Crash consistency of the flush order and of the WAL replay: whenever the
\* shard serves, every point reads as the WAL operations applied so far, in
\* order, would leave it -- also after a crash at any step of a flush and a
\* recovery that replays the WAL over the partially flushed files.
RecoveredStateMatchesWal ==
  mode = "up" => View(seg) = PS!StoreAfter(log, applied)

\* The part of that promise the flush order is designed for: whenever the
\* shard serves, the set of points and the vector of each one are those the
\* WAL operations applied so far would give.  A crash between two flushers,
\* or during the replay, must not lose an upsert or a delete, nor revive a
\* deleted point.
PointsAndVectorsMatchWal ==
  mode = "up" =>
    \A p \in Points :
      LET want == PS!StoreAfter(log, applied)[p] IN
      /\ View(seg)[p].present = want.present
      /\ View(seg)[p].vec = want.vec

\* The early return of Segment::flush is sound: while the shard serves and
\* no flush_op runs, a segment whose version equals persisted_version has
\* files that load into the points it serves.  take_snapshot relies on it
\* when it archives the files after flush(true) returned at once; it can
\* fail when an update lands between flush_op's capture of the version and
\* its last flusher.
PersistedVersionMeansFlushed ==
  (mode = "up" /\ fl.phase = 0 /\ ~FlushNeeded(seg, persisted))
    => View(load_segment(disk)) = View(seg)

----------------------------------------
\* Refinement of DurableShard.  While the shard serves, the abstract shard
\* has applied what the update worker applied and shows the points linked
\* in the id tracker; while it is down or replaying, it is down with nothing
\* applied.  load, the replay records, flush steps and WAL acknowledgements
\* are stuttering steps; FinishReplay is the abstract Recover.

Abs == INSTANCE DurableShard WITH
  serving <- mode = "up",
  applied <- IF mode = "up" THEN applied ELSE 0,
  present <- IF mode = "up" THEN {p \in Points : View(seg)[p].present} ELSE {}

\* The segment, its flush protocol (synchronous and background), crashes at
\* any flusher step and LocalShard::load implement the abstract shard: every
\* step while serving applies the next WAL operation or leaves the points
\* alone, and every recovery comes back, with the whole WAL applied.
ImplementsDurableShard == Abs!FairSpec

=============================================================================
