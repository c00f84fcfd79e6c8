# TLA+ models of qdrant's shard storage

These modules model the storage core of a qdrant local shard:
- the segment (`lib/segment/src/segment.rs`) with its point operations, per-point versions and flush protocol;
- the segment constructor (`segment_constructor/segment_constructor_base.rs`);
- the recovery of a shard from its files and its write-ahead log (`lib/collection/src/shards/local_shard.rs`), for one segment and for a holder of several segments rewritten by an optimizer;
- the error latch of a segment under storage failures, with restarts and WAL replay;
- the payload index (`lib/segment/src/index/struct_payload_index.rs`);
- the update channel of a shard: clients, optimizer reconfiguration, `before_drop` and the snapshot Plunger;
- the scroll and search read paths of a segment and of a shard, and the shard's collection info;
- `load_segment`'s migration of an older storage version.

They check what a shard promises, stated once as an abstract specification (`DurableShard`) that the segment model is shown to implement: after any crash, and after the WAL replay, the shard shows the points that the WAL's operations, applied in order, would give; a failed operation does not block the segment for good; the payload index answers queries as a scan would; no accepted operation is lost across a channel swap; both scroll strategies return the same page.

## The system

**Inventory.** The parts, their state and their operations:

| Part | Source | State | Operations |
|---|---|---|---|
| Segment | `segment.rs` | id tracker (external id ↔ offset, per-offset versions), vector storage, payload index, segment `version`, `persisted_version`, `error_status`, background flush handle | `upsert_vector`, `delete_point`, `set_payload`, `set_full_payload`, `delete_payload`, `clear_payload`, `flush`, `check_consistency_and_repair`, `create/delete_field_index`, `take_snapshot`, `drop_data`; reads: `search`, `read_filtered`, `estimate_points_count` |
| Segment constructor | `segment_constructor_base.rs` | files on disk: storages, `segment.json`, version file | `build_segment` (the version file is written last), `load_segment` (a directory without a version file is skipped) |
| LocalShard | `local_shard.rs` | segment holder, WAL, update channel and workers, optimizers | `load` (removes `*.deleted`, loads and repairs segments, deduplicates, replays the WAL, `flush_all(true)`), `on_optimizer_config_update`, `before_drop`, `create_snapshot` (uses a Plunger when the WAL is not saved), `snapshot_empty_wal`, `estimate_cardinality`, `read_filtered` |
| StructPayloadIndex | `index/struct_payload_index.rs` | config of indexed fields, field indexes, payload storage | `set_indexed`, `drop_index`, `assign`, `delete`, `drop`, `wipe`, `condition_cardinality`, `query_points` |
| WAL, SegmentHolder, UpdateHandler, IdTracker | not under `src/` | WAL records and truncation point; the update queue; the flush worker | modelled from `spec.md` |

**How the parts interact.** A client operation is written to the WAL and gets an op number. The update worker applies it to the segment through `handle_version_and_failure`, which skips an operation older than the point's version, or older than the segment's version when the point is new.

Every flush interval the flush worker calls `flush(false)`. That captures the segment version and runs `flush_op` in a background thread, concurrently with further updates. The five flushers of `flush_op` run in this order:
1. id mapping;
2. vectors;
3. payload index;
4. id versions;
5. `segment.json`, after which `persisted_version` is set.

The WAL is then acknowledged up to `persisted_version`.

After a crash, `LocalShard::load` does the following:
- loads the segment files;
- drops the payload of internal ids that have no external id, and flushes;
- replays every WAL record still kept;
- ends with a synchronous `flush_all(true)`.

**What is hard.**
- The files after a crash mix several moments of the segment.
- The background flush interleaves with updates.
- A flusher can fail half-way.
- The replay re-runs operations whose effect may or may not be on disk, and it relies on per-point versions to tell the two apart.

The update channel connects clients to the update worker. `on_optimizer_config_update` swaps it under the `update_handler` mutex: it creates a channel, swaps `update_sender`, sends `Stop` on the old channel, waits for the old workers, starts workers on the new receiver and sends `Nop`. `before_drop` takes `&mut self`, so it starts only when no other call on the shard is in flight; it sends `Stop` on the channel it loads, then waits for the workers. `create_snapshot` without the WAL sends a `Plunger` and waits for its answer before copying the segments. Every `send` awaits room in the bounded channel and fails once the receiver is dropped. Clients, the reconfiguration, `before_drop` and the snapshot are separate tokio tasks on a multi-threaded runtime, so each await is a point where the others can run.

**What makes it correct.**
- The segment implements `DurableShard`: while serving, the points present are those of the WAL's applied prefix, and after a crash the shard comes back with the whole WAL applied (`ImplementsDurableShard`). The full point data, payloads and vectors included, is compared by `RecoveredStateMatchesWal` and `PointsAndVectorsMatchWal`.
- With several segments, a recovered holder serves each upserted point's latest value from exactly one segment (`UpsertedPointsServeLatest`, `OneCopyPerPoint`), keeps deleted points deleted (`DeletedPointsStayDeleted`), and its load fails only on a directory `drop_data` left half-removed (`LoadFailsOnlyOnDropped`).
- A serving shard without failed operations shows the WAL (`HealthyStateMatchesWal`).
- No field index holds a point whose stored value is not of the index's schema (`IndexHoldsOnlyMatching`); that it holds every matching point (`QueryPointsCorrect`) is what a partial `set_payload` breaks.
- An operation whose send returned Ok before `before_drop` began is applied (`AcceptedOperationsApplied`), a snapshot holds what its Plunger waited for (`PlungerCoversOlderChannels`), its empty WAL starts past what its segments hold (`SnapshotWalCoversSegments`), and `before_drop` returns (`BeforeDropCompletes`).
- Reads agree with a reference scroll (`ReadFilteredIsScroll`), and the shard's estimate and info agree with its reads (`EstimateBoundsRead`, `ShardInfoMatchesReads`), and a search returns only held, filter-accepted points, best first, or fails exactly when a linked point of the answer has no version (`SearchReturnsHits`, `SearchBatchIsSearches`).
- A segment whose `persisted_version` says nothing needs flushing loads back as it is in memory (`PersistedVersionMeansFlushed`).

## Modules

| Module | Models |
|---|---|
| `PointStore.tla` | The abstract promise: a store `Points -> {absent} ∪ [vec, pay]`. `ApplyOp` is one operation's effect, and `StoreAfter(log, n)` is a `FoldLeft` of the first `n` WAL operations. |
| `DurableShard.tla` | The abstract shard: a WAL, how many of its operations are applied, whether the shard serves, and the points present. `Write`, `Apply`, `Crash`, `Recover`; only `Recover` is fair. |
| `Segment.tla` | One appendable segment, its files, the WAL, the flush worker, crashes and `LocalShard::load`. It uses `PointStore` as the reference the recovered state is compared with, and maps itself onto `DurableShard` with `INSTANCE ... WITH`. |
| `SegmentHolder.tla` | Several segment directories, each a version file, a state file and a point map; an optimizer that builds a new segment, swaps it in and drops the old one; crashes; `LocalShard::load` over the directories with `deduplicate_points` and replay. |
| `MCSegment.tla` | Model values for two points, two vectors and one payload value. |
| `SegmentOps.tla` | The segment's point operations as operators from a segment to `[s, r]`: `upsert_vector`, `delete_point`, `update_payload` (the four payload calls), each wrapped as in the code by `handle_version_and_failure` and `handle_version`, with a parameter naming the leaf write that fails. `Segment` and `SegmentLatch` extend it. |
| `SegmentLatch.tla` | The error latch under injected service errors: the update worker logs and goes on, the failed op number is re-tried, a restart replays the WAL and panics on a service error. |
| `PayloadIndex.tla` | `StructPayloadIndex` over its payload storage, with the segment's `create_field_index` and the latch as `pending`. |
| `UpdateChannel.tla` | The update channel and the tasks using it. |
| `SegmentLoad.tla` | `load_segment` on one directory: the version check, the 0.3 state conversion, the version file rewrite, `load_state`, and restarts between them. |
| `SegmentRead.tla` | `read_filtered` with both strategies, `estimate_points_count`, `info`, `search`, `search_batch`; `LocalShard::read_filtered`, `estimate_cardinality`, `local_shard_info`. |
| `MCSegmentHolder.tla`, `MCSegmentLatch.tla`, `MCPayloadIndex.tla`, `MCUpdateChannel.tla`, `MCSegmentRead.tla` | Model values and small sets for TLC. |

State of `Segment`, and where each part lives in the code:

| Variable | In the code |
|---|---|
| `seg` | The in-memory segment: `idMap` and `size` are the id tracker's mapping and `internal_size`; `versions` are the per-offset internal versions; `vecs` and `pay` are the storages; `version` is `Segment.version`, where 0 means `None`. |
| `disk` | The files. Versions are kept by external id, as the comment in `check_consistency_and_repair` (segment.rs:533-538) describes. |
| `persisted` | `persisted_version`. |
| `fl` | The running `flush_op`: its phase (0 means no flush running), its captured version, and whether it runs in the caller's thread. |
| `fw` | The flush worker between reading `persisted_version` and starting its flush. |
| `log`, `walFirst`, `applied` | The WAL and its truncation point, and the last op number applied. |
| `mode` | `"up"`, `"down"` or `"replay"`. |

Actions:

| Action | Code it models |
|---|---|
| `WriteWal` | A client operation appended to the WAL |
| `ApplyUpdate` | The update worker applying the next record; blocked while a synchronous flush holds the segment |
| `flush` | `Segment::flush(true)` as called by load and replay: the join on `lock_flushing`, the early returns, capturing `state` |
| `FlushWorkerRead` | The flush worker reading `persisted_version` (segment.rs:953-957) |
| `FlushWorkerRun` | The flush worker's `flush(false)`: it starts a background `flush_op` when one is needed and none runs, and acknowledges the WAL up to the version it read |
| `FlushStep` | One flusher, through `FlushWrite`. Each flusher writes its component's content at the time it runs, which is how the storage flushers behave. |
| `FlushError` | A flusher's `?` |
| `Crash` | The process dies: memory lost, files kept |
| `load` | `load_segment`, `LoadedVersions`, `check_consistency_and_repair` (which starts a sync flush when it dropped something) |
| `ReplayWal` / `FinishReplay` | `load_from_wal` and its final `flush_all(true)` |

## Runs

| Run | Config | Checks | Result |
|---|---|---|---|
| `segment_recovery` | `MCSegment_sync.cfg`, the flush worker's background flushes interleaved with updates, `FairSpec` | `TypeOK`, `PersistedVersionMeansFlushed`, `ImplementsDurableShard` | pass, 950,654 states |
| `segment_payload` | `MCSegment_payload.cfg`, synchronous | `RecoveredStateMatchesWal` | violation |
| `segment_lost_update` | `MCSegment_lost_update.cfg`, background | `PointsAndVectorsMatchWal` | violation |

The two violations are findings.

1. **Replay revives a failed `set_payload`** (`segment_payload`). Steps of the trace:
   1. `set_payload(p1)` fails while p1 is absent, and stays in the WAL.
   2. `upsert(p1)`.
   3. A synchronous flush writes the id mapping.
   4. The process dies before the versions are flushed.

   On load, p1 is linked with no version, so the replay assigns the payload it refused the first time. `spec.md` §4.7 says WAL replay corrects everything after a crash between the flushers.

2. **Lost upsert with a background flush** (`segment_lost_update`). Steps of the trace:
   1. A background flush saves the vectors.
   2. An upsert of the same point is applied.
   3. The flush saves the versions, which now include that upsert.
   4. The process dies before `segment.json`, so the WAL is not acknowledged.

   The replay skips the upsert because the stored version is newer, and the old vector stays. This contradicts the comment at segment.rs:1046-1051, "once versions are saved - points are considered persisted".

Presence of points is safe. `segment_recovery` checks it as a refinement: the mapping sends `serving` to `mode = "up"`, `applied` to the op number applied while up (0 otherwise), and `present` to the points the segment's view shows while up (none otherwise). Load and replay are stuttering steps of the abstract spec, and `FinishReplay` is its `Recover`, which the abstract `FairSpec` requires eventually. The flush worker reads `persisted_version` before it calls `flush(false)` and acknowledges the WAL at what it read; the mutant that acknowledges the segment's current version instead loses an operation that is in no file yet, and the refinement fails.

`PersistedVersionMeansFlushed` is what `take_snapshot` relies on when it calls `flush(true)`: `flush` returns early when `persisted_version` equals the segment's version (segment.rs:966), so that equality must mean the files, loaded, give the segment as it is in memory. It compares the view of `load_segment(disk)` with the in-memory view whenever no flush is running and none is needed. The mutant that sets `persisted_version` to the segment's version at the time `segment.json` is written, rather than to the version `flush` captured before the first flusher, breaks it: an update applied while the background flush ran is then taken as persisted.

**Bounds.**
- `MaxOps = 3` WAL operations. This is the smallest bound at which an operation, a second one on the same point, and a third one overlap a flush.
- `MaxCrashes = 1`.
- Two points, so that offsets are reused and points get distinct internal ids.
- Two vector values, so that a lost update is visible.
- One payload value.

Each finding needs exactly three operations and one crash. Symmetry is not used, because the runs finish in seconds.

**Fairness.** `FairSpec` assumes weak fairness only for `load`, `ReplayWal`, `FinishReplay` and `FlushStep`:
- `LocalShard::load` runs loading, replay and the final flush in one thread;
- a started `flush_op` runs to its end or to an error.

Clients, the flush worker and crashes get no fairness.

**Deadlock.** The runs set `CHECK_DEADLOCK FALSE`. Once the op bound is reached and everything is flushed, no step is enabled, just as a shard with no incoming requests stays idle. That recovery does not get stuck is part of `ImplementsDurableShard`: the abstract `FairSpec` requires `Recover`.

## SegmentHolder: several segments, the optimizer and `*.deleted`

A segment directory is abstracted to its name (`none` before it exists, `uuid`, `uuid.deleted` after `drop_data`'s rename, `removed`), its files (the state file and the version file) and the value each point has in the segment, with the op number that wrote it.

| Variable | In the code |
|---|---|
| `log`, `walFirst`, `applied` | the WAL, its first kept record, the last op number applied |
| `dir` | each directory of `segments/` |
| `holder` | the directories whose segments the `SegmentHolder` holds |
| `opt` | the optimizer: building, saved, swapped, renamed; its source and new segment |
| `mode` | `"up"`, `"down"`, `"replay"`, or `"failed"` when `load` returned an error |
| `crashes`, `rmErrs` | crashes and failed `remove_dir_all` calls so far |

Actions:
- `WriteWal`, `ApplyUpdate` (`apply_points`: to every held segment holding the point, a new point to the appendable segment; not while the optimizer swaps), `AckWal`;
- the optimizer: `OptBuildDir` and `OptSaveFile` (`build_segment`: the directory, then the state file, then the version file, segment_constructor_base.rs:235-248), `OptSwap` (the holder swaps the old segment for the new one);
- `drop_data` of the old segment: `DropRename` to `<uuid>.deleted`, then `DropRemoveFile` (one file at a time, in an unspecified order, possibly with a crash in between), `DropRemove` (the empty directory) or `DropRemoveFails` (what was removed stays removed);
- `Crash`; `load` (local_shard.rs:145-216: skip paths ending in `deleted`, load every directory with a version file, fail on one without a state file, `deduplicate_points`, start the replay at `walFirst`); `ReplayWal`; `FinishReplay`.

| Run | Config | Checks | Result |
|---|---|---|---|
| `holder` | 2 points, 2 values, 2 directories, 3 operations, 1 crash, 1 failed removal; `Spec` | `TypeOK`, `UpsertedPointsServeLatest`, `OneCopyPerPoint`, `LoadFailsOnlyOnDropped` | pass, 237,021 states |
| `holder_deleted_dir` | the same, `Spec` | `DeletedPointsStayDeleted` | violation |

**Finding (`holder_deleted_dir`).** `load` skips a directory when `segment_path.ends_with("deleted")` (local_shard.rs:177). `Path::ends_with` compares whole path components, so it matches a directory named `deleted` and never `<uuid>.deleted`. If `remove_dir_all` fails after `drop_data` renamed the old segment, or the process dies in between, the next `load` loads the old segment again. `deduplicate_points` keeps the newer copy of a point both segments hold, but a point deleted after the optimization is still in the old segment and comes back. With the check matched against the `.deleted` suffix the property holds under the same configuration.

The same directory can also stop the shard for good. `remove_dir_all` removes files one by one, so a crash or failure can leave `version.info` without `segment.json`. `load` then reads `<uuid>.deleted` as a segment, `load_state` fails, and every later load fails the same way. `holder` reaches this state (drop, removal of `segment.json`, crash, load). `LoadFailsOnlyOnDropped` confirms such a directory is the only cause of a failed load.

`BuildOrder` is the order in which `build_segment` writes the state file and the version file. The version file is the commit marker: `load_segment` skips a directory without it, so a crash half-way through a build leaves a directory that `load` ignores. The mutant that writes the version file first reaches a fresh `<uuid>` directory with no state, `load` fails on it, and `LoadFailsOnlyOnDropped` is violated.

**Fairness.** None: the properties are invariants. That load eventually succeeds does not hold, as the half-removed directory above shows.

## SegmentLatch: the error latch

`handle_version_and_failure` (segment.rs:108-184) refuses an operation newer than a failed one. After the closure, a service error latches `error_status` with the op number and `external_id(op_point_offset)`. Any other outcome clears it when the point id matches. The code around it is not under `src/`; from `spec.md` §7 and `LocalShard::load_from_wal` the model takes:
- the update worker logs an error and goes on;
- the record named by `error_status` is re-tried, as the comment at segment.rs:139-145 expects;
- a restart rebuilds the segment from the WAL and panics on a service error.

| Variable | In the code |
|---|---|
| `log`, `applied` | the WAL and the last op number handed to the segment |
| `seg` | the segment of `SegmentOps`, with `error_status` as `seg.err` |
| `failed` | op numbers whose last application ended in a transient error |
| `faults`, `restarts` | failures injected and restarts so far |
| `mode` | `"up"`, `"replay"` (`load_from_wal`) or `"down"` (panicked) |

Actions: `WriteWal`, `ApplyUpdate`, `Retry`, `Restart`, `ReplayWal`, `FinishReplay`.

| Run | Config | Checks | Result |
|---|---|---|---|
| `latch` | upserts and payload calls; faults in vector, link and payload writes, at most 2; one restart; `FairSpec` | `TypeOK`, `HealthyStateMatchesWal` | pass, 133,059 states |
| `latch_delete` | the same with deletes (`MCSegmentLatch_delete.cfg`) | `HealthyStateMatchesWal` | violation |

**Finding (`latch_delete`).** `delete_point` of a point the segment does not hold returns `Ok(false)` before `handle_version_and_failure` (segment.rs:692), so it is not refused while `error_status` is set. The trace: an upsert of p1 fails and latches the segment; a delete of p1 returns Ok and the WAL moves on; the re-try of the upsert links p1. The WAL's operations leave p1 deleted, and the segment serves it. Spec I6 says any operation with an op number at or past the failed one is rejected until the re-try succeeds.

**Hazard (not a run).** For a new point `upsert_vector` passes no offset, so a failing `set_internal_version` latches `error_status` with point id `None`. The re-try finds the point linked and passes its offset, so `Some(p) != None` and the latch is never cleared, although the re-try succeeded, if `set_internal_version` can fail after the point is linked. Every newer operation on the segment is then refused. The same happens with `delete_point` (segment.rs:694): its re-try unlinks the point, so `external_id` is `None`, and the latch stays set for good (`PayloadIndex` models this in its `Drop`). The passing run leaves deletes and `set_internal_version` faults out, since with deletes `HealthyStateMatchesWal` fails as in `latch_delete`; whether that write can fail with a service error in practice depends on the id tracker, which is not under `src/`.

**Fairness.** Weak fairness for `ApplyUpdate`, `Retry`, `ReplayWal` and `FinishReplay`: the update worker drains its queue, and a load runs to its end. Clients and restarts get none.

## PayloadIndex: StructPayloadIndex

Payload values are abstracted to their type (`Types`, or `NullVal`), points to offsets `Pts`, and a field's `Vec` of indexes to at most one index or `Drained` (the empty `Vec` that `wipe` can leave).

| Variable | In the code |
|---|---|
| `payload` | the payload storage |
| `config`, `saved` | `config.indexed_fields` and the config file |
| `fieldIdx` | `field_indexes` |
| `pending` | the latched operation the segment admits again |

Actions: `CreateFieldIndex` (with `set_indexed` and `infer_payload_type`), `DropIndex`, `Assign`, `Delete`, `Drop` (called by `clear_payload` and by `delete_point`; a `delete_point` re-try that succeeds leaves the latch set, since the point it names is unlinked), `Wipe`, `Reopen` (`open`, `load_all_fields`; `LoadFromDb` loads a field's existing index of the configured schema and builds only when there is none). Every write may fail with `?` at the failing call, leaving the earlier writes in place. `query_points` and `condition_cardinality` are operators checked against a scan (`Matching`).

| Run | Config | Checks | Result |
|---|---|---|---|
| `payload_index` | two keys, two types, two points, partial payloads, all four fault kinds (at most 1), one reopen | `TypeOK`, `IndexHoldsOnlyMatching` | pass, 5,309,290 states, about 2.5 minutes |
| `payload_partial_assign` | `MCPayloadIndex_partial_assign.cfg`: two keys, one type, no faults | `QueryPointsCorrect` | violation |

Two keys are needed: with one key every payload `assign` receives holds the indexed key. The run allows one fault so that it finishes in minutes. With two faults the same check also passes, over 19,211,166 states in 8 minutes.

**Finding (`payload_partial_assign`).** `assign` calls `add_point` on every indexed field with `payload.get_value(field)` (struct_payload_index.rs:455), also for a field the new payload does not hold. The payload storage then merges the new payload in, keeping that field's old value. With `add_point` replacing the point's entry (spec 4.4; the field indexes are not under `src/`), the point leaves the field's index while its stored value still matches. The trace: index `a` as int, `set_payload {a: int}` on point 0, then `set_payload {b: int}`. `query_points` for `a = int` now returns nothing, although spec 4.5 says it returns the points the filter matches.

Kept as hazard notes rather than runs:
- `infer_payload_type` looks at the first stored payload only (struct_payload_index.rs:528).
- `set_indexed` on an already indexed field with another schema changes `config.indexed_fields` only (struct_payload_index.rs:331-335). `indexed_fields` then reports the new schema while queries use the old index, and a restart brings the old schema back. A run would fail this in two steps.

## UpdateChannel: reconfiguration, before_drop and the Plunger

Channels are numbered in creation order, at most `1 + MaxReconfigs`. The update worker (from spec §4.10) applies an operation, answers a Plunger, ignores a Nop, and on Stop applies what is still queued and exits, which drops the receiver.

| Variable | In the code |
|---|---|
| `queue`, `worker` | each channel's queued signals and its receiver's worker |
| `current` | the channel `update_sender` points to |
| `handlerCh` | the channel of the workers `UpdateHandler` runs |
| `lock` | the `update_handler` mutex |
| `applied`, `accepted` | operations applied, and operations whose send returned Ok |
| `cl`, `rc`, `dr`, `sn` | program counters of clients, `on_optimizer_config_update`, `before_drop`, `create_snapshot` |

Each await of the code is one step:
- clients: `ClientLoad`, `ClientSend`;
- `on_optimizer_config_update`: `ReconfigLock`, `ReconfigSwap`, `ReconfigSendStop` (with the `?` error path `ReconfigFails`), `ReconfigWait`, `ReconfigStart`, `ReconfigNop`;
- `before_drop`: `DropLoad`, `DropSendStop`, `DropStopFlush`, `DropLock`, `DropWait`;
- `create_snapshot`: `SnapLoad`, `SnapSend` (with the `rx.await?`, which cannot fail without a panicking worker), `SnapCopy` (`snapshot_all_segments`), `SnapWal` (`snapshot_empty_wal`, which reads the WAL's `last_index` after the copy);
- the worker: `WorkerStep`, `WorkerExit`.

| Run | Config | Checks | Result |
|---|---|---|---|
| `update_reconfig` | 2 clients, 2 reconfigurations, queue size 2, one `before_drop`, a snapshot; `FairSpec`; deadlock checked | `TypeOK`, `PlungerCoversOlderChannels`, `SnapshotWalCoversSegments`, `AcceptedOperationsApplied`, `BeforeDropCompletes` | pass, 59,835 states |

`before_drop` takes `&mut self` (local_shard.rs:445), so the borrow checker lets it start only when no client send, reconfiguration or snapshot of the shard is in flight (`Quiescent`), and nothing of the shard starts after it. `DropLoad` therefore never runs between a reconfiguration's swap and its Stop, and `BeforeDropCompletes` holds. The mutant `DropLoadShared` lets the drop start while they run, and the Stop then goes to a channel the reconfiguration has already replaced.

`ReconfigWait` joins the old workers with `?` (local_shard.rs:429). The join fails only for a panicking worker, which the model's workers never are, so that error path is left out.

`AcceptedOperationsApplied` holds for every accepted operation.

`SnapshotWalCoversSegments` says every operation the copied segments hold is below the start of the snapshot's empty WAL, so a restored shard never gives a new operation an op number its segments already passed. It depends on `last_index` being read after `snapshot_all_segments`; the mutant that takes the WAL's index as of the Plunger's send breaks it.

`PlungerCoversOlderChannels` is weaker than the comment at local_shard.rs:500-502 ("all submitted by this point updates"). A snapshot that loaded the sender before a swap is answered on the old channel. An operation accepted meanwhile on the new channel is not waited for.

**Fairness.** Tokio runs every task that can run. So a started task keeps going (weak fairness on every step after the first), and a worker with queued signals takes the next one. Whether a client, a reconfiguration, a drop or a snapshot starts at all is up to the callers, so their first steps get no fairness. `Terminating` lets a finished system stutter, so deadlock is checked.

## SegmentLoad: migrating an older segment

`load_segment` (segment_constructor_base.rs:180-222) reads the version file. It skips a directory without one, refuses a version newer than its own or older than 0.3, and then:
- for 0.3, converts `segment.json` from the 0.3 format (`load_segment_state_v3`) and saves it in the current one;
- for any older version, writes the current version to the version file;
- loads the state and opens the segment.

A directory is abstracted to the version its version file names and the format of its state file. `Init` is every directory a release leaves (`Written`).

| Variable | In the code |
|---|---|
| `files` | the version file and the format of `segment.json` |
| `origin` | the directory as its release left it |
| `mode`, `pc` | where `load_segment` is, or how it ended |
| `crashes` | restarts so far |

Actions: `CheckVersion`, `ConvertV3`, `SaveVersion`, `LoadState`, `Restart`.

| Run | Config | Checks | Result |
|---|---|---|---|
| `segment_migration` | `SegmentLoad_migration.cfg`, one restart | `MigrationSurvivesCrash` | violation |

**Finding (`segment_migration`).** The migration of a 0.3 segment saves `segment.json` in the new format, then the version file (segment_constructor_base.rs:211-215). If the process dies between the two, the next start reads version 0.3 again and calls `load_segment_state_v3` on a state file that is already in the new format. That fails, and it fails on every later start: the segment can no longer be loaded. Writing the version file first would not help either, since the next start would then call `load_state` on the old format. The conversion has to be made idempotent, or be told apart by the state file's own format.

## SegmentRead: scroll, search and shard info

Reads hold the segment's borrows and the holder's read guard, so each read is one evaluation over a state. `Init` is every state of two segments with two internal ids over three external ids, with the filter abstracted to the set of internal ids it matches and any estimate within the index's bounds. `Next` changes nothing.

The properties quantify over every offset (`None`, 0..2), every limit (`None`, 0..4) and filter or none:
- `ReadFilteredIsScroll` compares `Segment::read_filtered` with a reference: the `limit` smallest hits in increasing order;
- `EstimateBoundsRead`: `estimate_cardinality` is exact without a filter and bounds the read from above with one;
- `ShardInfoMatchesReads`: `local_shard_info`'s points and vectors counts agree with the reads for every segment type and holder failure flag;
- `SearchReturnsHits`: for every score assignment and every answer the vector index may give, `Segment::search` returns distinct points, each held by the segment and accepted by the filter, best first. It drops exactly the index's offsets that the id tracker no longer maps, so a result can be shorter than `top` while more points match, as end-to-end scenario 2 of spec §8 expects. For every set of offsets with an internal version, it fails with a service error exactly when a point of the answer that the id tracker still maps has no version (segment.rs:416-421), as after a crash between the id mapping's and the versions' flush;
- `SearchBatchIsSearches`: `search_batch` fails with `WrongVector` when any of its vectors would, else with a search's service error, and otherwise answers each as `search` would.

Search reads neither the estimate nor anything it constrains, so the search properties are evaluated in one state per id mapping and filter (`OneEstimate`).

The vector indexes (Plain and HNSW) are not under `src/`. `IndexResults` is their contract: distinct offsets the filter accepts, at most `top`, best first. Since HNSW is approximate, any such list is a possible answer, and the properties hold for all of them. The search is taken without payload and vectors. These are data the properties do not tell apart, so their lookups and the `?` on them (segment.rs:422-448) are left out.

| Run | Config | Checks | Result |
|---|---|---|---|
| `segment_read` | `MCSegmentRead.cfg` | `ReadFilteredIsScroll`, `EstimateBoundsRead`, `ShardInfoMatchesReads`, `SearchReturnsHits`, `SearchBatchIsSearches` | pass, 57,232 states |

The strategy heuristic's floating-point test is modelled as the exact rational comparison. Both strategies must give the same page, so the choice at the rounding edge does not matter to the properties.

## Mutants

Each property of a passing run is shown to catch a plausible bug:

| Mutant | Bug | Property that catches it |
|---|---|---|
| `FlushWorkerRunAcksVersion` | the flush worker acknowledges the segment's version at flush time, not the persisted one it read | `ImplementsDurableShard` |
| `upsert_vector_skip_index` | a new internal id is off by one | `TypeOK` (Segment, SegmentLatch) |
| `ReplayWalContinues` | replay logs a service error and goes on | `HealthyStateMatchesWal` |
| `infer_payload_type_keeps_null` | inference returns the null type | `TypeOK` (PayloadIndex) |
| `drop_skips_indexes` | `drop` removes the storage entry and leaves the field indexes | `IndexHoldsOnlyMatching` |
| `ClientSendUnbounded` | a send that does not wait for room | `TypeOK` (UpdateChannel) |
| `ReconfigSendStopNoWait` | new workers started without waiting for the old ones | `PlungerCoversOlderChannels` |
| `WorkerStepStopExits` | Stop exits at once, dropping the queue | `AcceptedOperationsApplied` |
| `DropLoadShared` | `before_drop` starts while other calls are in flight | `BeforeDropCompletes` |
| `SnapWalStale` | the snapshot's WAL starts at the index of the Plunger's send | `SnapshotWalCoversSegments` |
| `filtered_read_by_index_after_offset` | `>` for `>=` at the offset | `ReadFilteredIsScroll` |
| `estimate_cardinality_max_of_min` | the max bound sums the mins | `EstimateBoundsRead` |
| `local_shard_info_points_as_vectors` | vectors added to `points_count` | `ShardInfoMatchesReads` |
| `AckWalPastApplied` | the WAL acknowledged one record past the applied one | `TypeOK` (SegmentHolder) |
| `deduplicate_points_keeps_oldest` | deduplication keeps the older copy | `UpsertedPointsServeLatest` |
| `ApplyToHolderAnySegment` | an upsert of a held point sent to another segment as well | `OneCopyPerPoint` |
| `BuildOrderVersionFirst` | `build_segment` writes the version file before the state | `LoadFailsOnlyOnDropped` |
| `FlushStepPersistsCurrent` | `persisted_version` set to the segment's version at the last flusher, not the captured one | `PersistedVersionMeansFlushed` |
| `process_search_result_version_first` | the version looked up before unlinked offsets are skipped | `SearchReturnsHits` |
| `search_batch_first_dim` | only the first query vector's dimension checked | `SearchBatchIsSearches` |

## Not modelled

- **The optimizers' proxy-segment protocol** (not under `src/`): `SegmentHolder` abstracts an optimization to build, atomic swap and drop. Writes that reach the old segment through a proxy during the build are not modelled, since spec §4.11 alone does not fix their locking order.
- **Segment snapshot** (`take_snapshot`, `restore_snapshot`): archive and file I/O. Of `snapshot_empty_wal` the model keeps only where the new WAL starts; the exact `+ 1` depends on the `Wal` crate's numbering, which is not under `src/`.
- **Which payload `infer_payload_type` looks at** (struct_payload_index.rs:528): the model lets it be any stored payload of the key, so `IndexHoldsOnlyMatching` covers an index built from a payload whose type differs from the others. Which payload is "first" is the storage's iteration order, not under `src/`, so whether the code matches spec §6 on mixed types is not checked.
- **`create_snapshot` with the WAL**: the model takes the Plunger path only.
- **The vector indexes and vector math**: HNSW and Plain search are not under `src/`; `search` is checked over every answer their contract allows. `plain_index.rs` is an older file that no module declares, so the build does not compile it.
- **`create_segment`, `build_segment`'s storage opening and segment snapshots**: file and archive I/O. Of `build_segment` the models keep the order of its two writes (`SegmentHolder`).
- **The migration's storage versions between 0.3 and the current one**: `SegmentLoad` has one such version, since the code treats them all alike.
- **HTTP handlers, settings, startup, error conversion, the gRPC build and the test fixtures**: I/O or data conversion.
