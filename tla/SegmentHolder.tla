---------------------------- MODULE SegmentHolder ----------------------------
(***************************************************************************)
(* The segment directories of a local shard and what happens to them: an  *)
(* optimizer builds a new segment (build_segment, segment_constructor_     *)
(* base.rs), moves the points of an old one into it and drops the old one *)
(* (Segment::drop_data: rename to <uuid>.deleted, then remove), the       *)
(* process may crash at any step, and LocalShard::load (local_shard.rs)   *)
(* reads the directories back, deduplicates the points and replays the     *)
(* WAL.                                                                    *)
(*                                                                         *)
(* A segment is abstracted to the points it holds, each with its version  *)
(* and vector, and its storages are taken as persisted when written: the  *)
(* flush protocol of one segment is the subject of Segment.tla.  The       *)
(* optimizer and SegmentHolder are not under src/ and follow spec 4.8 and  *)
(* 4.11: the optimizer holds the holder's write lock from the swap until   *)
(* the old segment is dropped.                                             *)
(***************************************************************************)
EXTENDS Naturals, Sequences, FiniteSets

CONSTANTS
  Points, Vals, None,
  Dirs,            \* segment directory ids (uuids)
  First,           \* the directory of the segment LocalShard::build creates
  MaxOps,          \* bound on op_num
  MaxCrashes,      \* bound on process crashes
  MaxRemoveErrors  \* bound on failures of remove_dir_all in drop_data

ASSUME First \in Dirs /\ MaxOps \in Nat \ {0}

VARIABLES
  log, walFirst, applied,  \* the WAL, its first kept record, the last applied
  dir,      \* each directory: its name, files and the points its segment holds
  holder,   \* the directories whose segments the SegmentHolder holds
  opt,      \* the optimizer: phase, the segment it replaces, the new one
  mode,     \* "up", "down", "replay", or "failed" (load returned an error)
  crashes, rmErrs

vars == <<log, walFirst, applied, dir, holder, opt, mode, crashes, rmErrs>>

Seqs == 0..MaxOps
Ops == [kind : {"upsert"}, point : Points, val : Vals] \cup
       [kind : {"delete"}, point : Points, val : {None}]
\* "none": not created yet; "removed": deleted from disk.
Names == {"none", "uuid", "uuid.deleted", "removed"}
\* A directory with no points in its storages.
EmptyDir(name, files) ==
  [name |-> name, files |-> files,
   ver |-> [p \in Points |-> 0], val |-> [p \in Points |-> None]]
DirStates == [name : Names, files : SUBSET {"state", "version"},
              ver : [Points -> Seqs], val : [Points -> Vals \cup {None}]]
OptIdle == [pc |-> "idle", src |-> First, dst |-> First, k |-> 0]

\* The optimizer holds the holder's write lock: updates and flushes wait.
HolderLocked == opt.pc \in {"swapped", "renamed"}

----------------------------------------
\* Points and segments

\* The segments of the holder that hold point p.
Owners(p) == {s \in holder : dir[s].val[p] # None}

\* One point operation on segment s, after handle_version: a point version
\* newer than op_num n skips it.
ApplyToSegmentPoint(d, n, op) ==
  IF d.ver[op.point] > n THEN d
  ELSE IF op.kind = "upsert"
       THEN [d EXCEPT !.ver[op.point] = n, !.val[op.point] = op.val]
       ELSE [d EXCEPT !.ver[op.point] = 0, !.val[op.point] = None]

\* Mutant: an upsert goes to the chosen segment even when another holds
\* the point.
ApplyToHolderAnySegment(n, op, t) ==
  [s \in Dirs |->
     IF s = t \/ (s \in Owners(op.point) /\ op.kind = "delete")
     THEN ApplyToSegmentPoint(dir[s], n, op) ELSE dir[s]]

\* apply_points: the operation goes to every segment holding the point; an
\* upsert of a point no segment holds goes to the appendable segment t.
ApplyToHolder(n, op, t) ==
  LET targets == IF Owners(op.point) = {} /\ op.kind = "upsert"
                 THEN {t} ELSE Owners(op.point)
  IN [s \in Dirs |-> IF s \in targets THEN ApplyToSegmentPoint(dir[s], n, op) ELSE dir[s]]

\* Mutant: deduplication keeps a copy with the lowest version.
deduplicate_points_keeps_oldest(ds, loaded) ==
  LET copies(p) == {s \in loaded : ds[s].val[p] # None}
      keep(p) == CHOOSE s \in copies(p) : \A t \in copies(p) : ds[s].ver[p] <= ds[t].ver[p]
  IN [s \in Dirs |->
        [ds[s] EXCEPT
           !.val = [p \in Points |-> IF s \in copies(p) /\ s # keep(p) THEN None ELSE @[p]],
           !.ver = [p \in Points |-> IF s \in copies(p) /\ s # keep(p) THEN 0 ELSE @[p]]]]

\* deduplicate_points: of the copies of a point in several segments, only
\* one with the highest version stays.
deduplicate_points(ds, loaded) ==
  LET copies(p) == {s \in loaded : ds[s].val[p] # None}
      keep(p) == CHOOSE s \in copies(p) : \A t \in copies(p) : ds[t].ver[p] <= ds[s].ver[p]
  IN [s \in Dirs |->
        [ds[s] EXCEPT
           !.val = [p \in Points |-> IF s \in copies(p) /\ s # keep(p) THEN None ELSE @[p]],
           !.ver = [p \in Points |-> IF s \in copies(p) /\ s # keep(p) THEN 0 ELSE @[p]]]]

----------------------------------------
\* Directories

\* Mutant: the version file saved before segment.json.
BuildOrderVersionFirst == <<"version", "state">>

\* build_segment writes segment.json, then the version file last: a
\* directory without the version file is skipped by load_segment.
BuildOrder == <<"state", "version">>

\* Path::ends_with compares whole path components: only a directory named
\* exactly "deleted" matches, not <uuid>.deleted.
EndsWithDeleted(name) == name = "deleted"

\* load_segment: no version file, skip; a version file but no segment.json,
\* load_state fails; otherwise the segment.
Loadable(d) == "version" \in d.files
LoadFails(d) == Loadable(d) /\ "state" \notin d.files

OnDisk == {s \in Dirs : dir[s].name \in {"uuid", "uuid.deleted"}}

----------------------------------------
\* Actions

Init ==
  /\ log = <<>>
  /\ walFirst = 1
  /\ applied = 0
  /\ dir = [s \in Dirs |->
             IF s = First THEN EmptyDir("uuid", {"state", "version"})
             ELSE EmptyDir("none", {})]
  /\ holder = {First}
  /\ opt = OptIdle
  /\ mode = "up"
  /\ crashes = 0
  /\ rmErrs = 0

WriteWal ==
  /\ mode = "up"
  /\ Len(log) < MaxOps
  /\ \E op \in Ops : log' = Append(log, op)
  /\ UNCHANGED <<walFirst, applied, dir, holder, opt, mode, crashes, rmErrs>>

\* The update worker applies the next WAL record to the holder.
ApplyUpdate ==
  /\ mode = "up"
  /\ applied < Len(log)
  /\ ~HolderLocked
  /\ \E t \in holder : dir' = ApplyToHolder(applied + 1, log[applied + 1], t)
  /\ applied' = applied + 1
  /\ UNCHANGED <<log, walFirst, holder, opt, mode, crashes, rmErrs>>

\* Mutant: the acknowledgement one record too far.
AckWalPastApplied ==
  /\ mode = "up"
  /\ ~HolderLocked
  /\ applied + 1 > walFirst
  /\ walFirst' = applied + 2
  /\ UNCHANGED <<log, applied, dir, holder, opt, mode, crashes, rmErrs>>

\* The flush worker: flush_all, then wal.ack of the applied records.
AckWal ==
  /\ mode = "up"
  /\ ~HolderLocked
  /\ applied + 1 > walFirst
  /\ walFirst' = applied + 1
  /\ UNCHANGED <<log, applied, dir, holder, opt, mode, crashes, rmErrs>>

\* build_segment: create_dir_all of a new <uuid> directory for the
\* optimized copy of segment src.
OptBuildDir ==
  /\ mode = "up"
  /\ opt.pc = "idle"
  /\ \E src \in holder, dst \in Dirs :
       /\ dir[dst].name = "none"
       /\ dir' = [dir EXCEPT ![dst].name = "uuid"]
       /\ opt' = [pc |-> "dir", src |-> src, dst |-> dst, k |-> 1]
  /\ UNCHANGED <<log, walFirst, applied, holder, mode, crashes, rmErrs>>

\* build_segment saves the next of its files.
OptSaveFile ==
  /\ opt.pc = "dir"
  /\ dir' = [dir EXCEPT ![opt.dst].files = @ \cup {BuildOrder[opt.k]}]
  /\ opt' = IF opt.k = Len(BuildOrder) THEN [opt EXCEPT !.pc = "built"]
            ELSE [opt EXCEPT !.k = @ + 1]
  /\ UNCHANGED <<log, walFirst, applied, holder, mode, crashes, rmErrs>>

\* Under the holder's write lock the points of src are moved into the new
\* segment and the holder swaps one for the other.
OptSwap ==
  /\ opt.pc = "built"
  /\ dir' = [dir EXCEPT ![opt.dst].ver = dir[opt.src].ver,
                         ![opt.dst].val = dir[opt.src].val]
  /\ holder' = (holder \ {opt.src}) \cup {opt.dst}
  /\ opt' = [opt EXCEPT !.pc = "swapped"]
  /\ UNCHANGED <<log, walFirst, applied, mode, crashes, rmErrs>>

\* drop_data: drop joins a background flush, then the directory is
\* renamed to <uuid>.deleted.
DropRename ==
  /\ opt.pc = "swapped"
  /\ dir' = [dir EXCEPT ![opt.src].name = "uuid.deleted"]
  /\ opt' = [opt EXCEPT !.pc = "renamed"]
  /\ UNCHANGED <<log, walFirst, applied, holder, mode, crashes, rmErrs>>

\* drop_data: remove_dir_all of the renamed directory removes its files one
\* at a time, in the order read_dir lists them (which is unspecified), and
\* the directory once it is empty.  A crash may come between two removals.
\* The storages' own files are abstracted to the points, which stay
\* readable while the directory exists.
DropRemoveFile ==
  /\ opt.pc = "renamed"
  /\ \E f \in dir[opt.src].files :
       dir' = [dir EXCEPT ![opt.src].files = @ \ {f}]
  /\ UNCHANGED <<log, walFirst, applied, holder, opt, mode, crashes, rmErrs>>

DropRemove ==
  /\ opt.pc = "renamed"
  /\ dir[opt.src].files = {}
  /\ dir' = [dir EXCEPT ![opt.src] = EmptyDir("removed", {})]
  /\ opt' = OptIdle
  /\ UNCHANGED <<log, walFirst, applied, holder, mode, crashes, rmErrs>>

\* remove_dir_all fails, leaving removed what it removed so far: drop_data
\* returns the error, the optimizer records it and the shard goes on (spec
\* 4.11).
DropRemoveFails ==
  /\ opt.pc = "renamed"
  /\ rmErrs < MaxRemoveErrors
  /\ rmErrs' = rmErrs + 1
  /\ opt' = OptIdle
  /\ UNCHANGED <<log, walFirst, applied, dir, holder, mode, crashes>>

\* The process dies: the holder, the optimizer and the applied count are
\* lost; directories and files remain.
Crash ==
  /\ mode \in {"up", "replay"}
  /\ crashes < MaxCrashes
  /\ crashes' = crashes + 1
  /\ mode' = "down"
  /\ holder' = {}
  /\ opt' = OptIdle
  /\ applied' = 0
  /\ UNCHANGED <<log, walFirst, dir, rmErrs>>

\* LocalShard::load: remove the directories ending with "deleted", load
\* every other one with load_segment (an error fails the whole load),
\* deduplicate_points, then start load_from_wal at the first kept record.
load ==
  /\ mode = "down"
  /\ LET removed == {s \in OnDisk : EndsWithDeleted(dir[s].name)}
          loaded == {s \in OnDisk \ removed : Loadable(dir[s])}
          cleared == [s \in Dirs |-> IF s \in removed
                                     THEN EmptyDir("removed", {})
                                     ELSE dir[s]]
      IN IF \E s \in loaded : LoadFails(dir[s])
         THEN /\ mode' = "failed"
              /\ dir' = cleared
              /\ UNCHANGED <<holder, applied>>
         ELSE /\ mode' = "replay"
              /\ holder' = loaded
              /\ dir' = deduplicate_points(cleared, loaded)
              /\ applied' = walFirst - 1
  /\ UNCHANGED <<log, walFirst, opt, crashes, rmErrs>>

\* load_from_wal: apply the next WAL record.
ReplayWal ==
  /\ mode = "replay"
  /\ applied < Len(log)
  /\ \E t \in holder : dir' = ApplyToHolder(applied + 1, log[applied + 1], t)
  /\ applied' = applied + 1
  /\ UNCHANGED <<log, walFirst, holder, opt, mode, crashes, rmErrs>>

FinishReplay ==
  /\ mode = "replay"
  /\ applied = Len(log)
  /\ mode' = "up"
  /\ UNCHANGED <<log, walFirst, applied, dir, holder, opt, crashes, rmErrs>>

Next ==
  \/ WriteWal \/ ApplyUpdate \/ AckWal
  \/ OptBuildDir \/ OptSaveFile \/ OptSwap
  \/ DropRename \/ DropRemoveFile \/ DropRemove \/ DropRemoveFails
  \/ Crash \/ load \/ ReplayWal \/ FinishReplay

Spec == Init /\ [][Next]_vars

----------------------------------------
\* Properties

TypeOK ==
  /\ log \in Seq(Ops) /\ Len(log) <= MaxOps
  /\ walFirst \in 1..(MaxOps + 1) /\ applied \in Seqs
  /\ dir \in [Dirs -> DirStates]
  /\ holder \subseteq Dirs
  /\ opt \in [pc : {"idle", "dir", "built", "swapped", "renamed"}, src : Dirs,
              dst : Dirs, k : 0..Len(BuildOrder)]
  /\ mode \in {"up", "down", "replay", "failed"}
  /\ crashes \in 0..MaxCrashes /\ rmErrs \in 0..MaxRemoveErrors

\* The vector the applied WAL records leave point p with, None if the last
\* of them deleted it or none touched it.
LastVal(p) ==
  LET idx == {i \in 1..applied : log[i].point = p}
  IN IF idx = {} THEN None
     ELSE log[CHOOSE i \in idx : \A j \in idx : j <= i].val

\* The vectors the shard serves for p: one per segment of the holder.
Served(p) == {dir[s].val[p] : s \in Owners(p)}

\* Deduplication at load and the optimizer's moves: whenever the shard
\* serves, a point the WAL leaves upserted is served with its latest
\* vector and no other, also when a crash left an older copy in a second
\* directory that load read back.
UpsertedPointsServeLatest ==
  mode = "up" => \A p \in Points : LastVal(p) # None => Served(p) = {LastVal(p)}

\* A deleted point stays deleted: whenever the shard serves, a point the
\* WAL leaves deleted is in no segment -- also when a dropped segment's
\* directory <uuid>.deleted survived until load (spec 4.7: "a crash between
\* rename and removal is cleaned up on next load").
DeletedPointsStayDeleted ==
  mode = "up" => \A p \in Points : LastVal(p) = None => Served(p) = {}

\* Spec I3: whenever the shard serves, every point is in at most one
\* segment: apply_points routes an operation to the segment holding the
\* point, and deduplicate_points removes the copies a crash during an
\* optimization left.
OneCopyPerPoint ==
  mode = "up" => \A p \in Points : Cardinality(Owners(p)) <= 1

\* LocalShard::load fails only on a directory drop_data was removing: a
\* crash while build_segment writes its files never leaves a directory
\* load_segment cannot read, because the version file is saved last; the
\* <uuid>.deleted directory a crash or failure left half-removed, which
\* load reads as a segment, is the only one it can fail on.
LoadFailsOnlyOnDropped ==
  mode = "failed" =>
    \A s \in OnDisk : LoadFails(dir[s]) => dir[s].name = "uuid.deleted"

========================================
