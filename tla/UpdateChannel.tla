---------------------------- MODULE UpdateChannel ----------------------------
(***************************************************************************)
(* The update channel of a local shard and the tasks that use it          *)
(* (lib/collection/src/shards/local_shard.rs): clients sending operations  *)
(* through update_sender, on_optimizer_config_update swapping the channel, *)
(* before_drop stopping the workers, and create_snapshot without WAL       *)
(* waiting on a Plunger.  Each await is a step, so the tasks interleave.   *)
(*                                                                         *)
(* The update worker is not under src/; from the spec (4.10) it applies an *)
(* Operation, signals a Plunger, ignores a Nop, and on Stop finishes the   *)
(* operations still queued and exits, which drops the receiver: a later    *)
(* send fails.  A channel holds at most QueueSize signals and a send waits *)
(* for room.  Each client sends one operation, named by the client.        *)
(*                                                                         *)
(* before_drop takes &mut self (local_shard.rs 445), the other tasks &self: *)
(* it begins only when no other call on the shard is in flight, and no     *)
(* call begins after it.  The spawned workers run on regardless.           *)
(***************************************************************************)
EXTENDS Naturals, Sequences, FiniteSets

CONSTANTS
  Clients,        \* tasks calling LocalShard's update path, one operation each
  QueueSize,      \* update_queue_size
  MaxReconfigs,   \* bound on on_optimizer_config_update calls
  MaxDrops,       \* 1 when before_drop may be called, else 0
  None

ASSUME QueueSize \in Nat \ {0} /\ MaxReconfigs \in Nat /\ MaxDrops \in {0, 1}

Chans == 1..(1 + MaxReconfigs)

Signals ==
  [kind : {"op"}, c : Clients] \cup [kind : {"stop", "nop", "plunger"}]

OpSignal(c) == [kind |-> "op", c |-> c]
Stop == [kind |-> "stop"]
Nop == [kind |-> "nop"]
Plunger == [kind |-> "plunger"]

VARIABLES
  queue,      \* channel -> queued signals
  worker,     \* channel -> "none" (receiver not yet run), "running",
              \*            "draining" (after Stop), "exited" (receiver dropped)
  current,    \* the channel update_sender points to
  created,    \* channels created so far
  handlerCh,  \* the channel of the workers UpdateHandler runs
  lock,       \* holder of the update_handler mutex: None, "reconfig", "drop"
  applied,    \* operations the worker applied
  accepted,   \* operations whose send returned Ok
  cl,         \* client -> [pc, ch]
  rc,         \* on_optimizer_config_update: [pc, old, new, n]
  dr,         \* before_drop: [pc, ch]
  sn          \* create_snapshot: [pc, ch, before, copied]

vars == <<queue, worker, current, created, handlerCh, lock, applied, accepted,
          cl, rc, dr, sn>>

Live(ch) == worker[ch] # "exited"
HasRoom(ch) == Len(queue[ch]) < QueueSize
Enqueue(ch, s) == queue' = [queue EXCEPT ![ch] = Append(@, s)]

\* LocalShard::new: one channel, its workers running.
Init ==
  /\ queue = [ch \in Chans |-> <<>>]
  /\ worker = [ch \in Chans |-> IF ch = 1 THEN "running" ELSE "none"]
  /\ current = 1 /\ created = 1 /\ handlerCh = 1
  /\ lock = None
  /\ applied = {} /\ accepted = {}
  /\ cl = [c \in Clients |-> [pc |-> "idle", ch |-> 0]]
  /\ rc = [pc |-> "idle", old |-> 0, new |-> 0, n |-> 0]
  /\ dr = [pc |-> "idle", ch |-> 0]
  /\ sn = [pc |-> "idle", ch |-> 0, before |-> {}, copied |-> {}, wal |-> {}]

----------------------------------------
\* The update worker of a channel (spec 4.10)

\* Mutant: on Stop the worker exits at once, dropping what is queued.
WorkerStepStopExits(ch) ==
  /\ worker[ch] \in {"running", "draining"}
  /\ queue[ch] # <<>>
  /\ LET s == Head(queue[ch]) IN
     /\ queue' = [queue EXCEPT ![ch] = Tail(@)]
     /\ applied' = IF s.kind = "op" THEN applied \cup {s.c} ELSE applied
     /\ worker' = IF s.kind = "stop" THEN [worker EXCEPT ![ch] = "exited"] ELSE worker
     /\ sn' = IF s.kind = "plunger" /\ sn.pc = "waiting" /\ sn.ch = ch
              THEN [sn EXCEPT !.pc = "acked"] ELSE sn
  /\ UNCHANGED <<current, created, handlerCh, lock, accepted, cl, rc, dr>>

\* Take the next signal: apply an Operation, answer a Plunger, and on Stop
\* go on only with what is still queued.
WorkerStep(ch) ==
  /\ worker[ch] \in {"running", "draining"}
  /\ queue[ch] # <<>>
  /\ LET s == Head(queue[ch]) IN
     /\ queue' = [queue EXCEPT ![ch] = Tail(@)]
     /\ applied' = IF s.kind = "op" THEN applied \cup {s.c} ELSE applied
     /\ worker' = IF s.kind = "stop" THEN [worker EXCEPT ![ch] = "draining"] ELSE worker
     /\ sn' = IF s.kind = "plunger" /\ sn.pc = "waiting" /\ sn.ch = ch
              THEN [sn EXCEPT !.pc = "acked"] ELSE sn
  /\ UNCHANGED <<current, created, handlerCh, lock, accepted, cl, rc, dr>>

\* After a Stop the worker exits once the queue is empty; its receiver is
\* dropped.
WorkerExit(ch) ==
  /\ worker[ch] = "draining" /\ queue[ch] = <<>>
  /\ worker' = [worker EXCEPT ![ch] = "exited"]
  /\ UNCHANGED <<queue, current, created, handlerCh, lock, applied, accepted, cl, rc, dr, sn>>

----------------------------------------
\* Clients: update_sender.load(), then send(...).await

ClientLoad(c) ==
  /\ cl[c].pc = "idle" /\ dr.pc = "idle"
  /\ cl' = [cl EXCEPT ![c] = [pc |-> "loaded", ch |-> current]]
  /\ UNCHANGED <<queue, worker, current, created, handlerCh, lock, applied, accepted, rc, dr, sn>>

\* Mutant: the send does not wait for room in the channel.
ClientSendUnbounded(c) ==
  /\ cl[c].pc = "loaded"
  /\ LET ch == cl[c].ch IN
     \/ /\ ~Live(ch)
        /\ cl' = [cl EXCEPT ![c].pc = "failed"]
        /\ UNCHANGED <<queue, accepted>>
     \/ /\ Live(ch)
        /\ Enqueue(ch, OpSignal(c))
        /\ accepted' = accepted \cup {c}
        /\ cl' = [cl EXCEPT ![c].pc = "sent"]
  /\ UNCHANGED <<worker, current, created, handlerCh, lock, applied, rc, dr, sn>>

\* The send fails once the receiver is dropped; otherwise it waits for room.
ClientSend(c) ==
  /\ cl[c].pc = "loaded"
  /\ LET ch == cl[c].ch IN
     \/ /\ ~Live(ch)
        /\ cl' = [cl EXCEPT ![c].pc = "failed"]
        /\ UNCHANGED <<queue, accepted>>
     \/ /\ Live(ch) /\ HasRoom(ch)
        /\ Enqueue(ch, OpSignal(c))
        /\ accepted' = accepted \cup {c}
        /\ cl' = [cl EXCEPT ![c].pc = "sent"]
  /\ UNCHANGED <<worker, current, created, handlerCh, lock, applied, rc, dr, sn>>

----------------------------------------
\* on_optimizer_config_update (local_shard.rs 418-443), with the
\* update_handler mutex held from the first step to the last.

\* Lock update_handler and create the new channel.
ReconfigLock ==
  /\ rc.pc = "idle" /\ rc.n < MaxReconfigs /\ dr.pc = "idle"
  /\ lock = None
  /\ lock' = "reconfig"
  /\ created' = created + 1
  /\ rc' = [pc |-> "swap", old |-> 0, new |-> created + 1, n |-> rc.n + 1]
  /\ UNCHANGED <<queue, worker, current, handlerCh, applied, accepted, cl, dr, sn>>

\* update_sender.swap: later loads see the new channel.
ReconfigSwap ==
  /\ rc.pc = "swap"
  /\ current' = rc.new
  /\ rc' = [rc EXCEPT !.pc = "send_stop", !.old = current]
  /\ UNCHANGED <<queue, worker, created, handlerCh, lock, applied, accepted, cl, dr, sn>>

\* The error path of a `?`: the call returns, the new receiver is dropped
\* without a worker, and the mutex guard is released.
ReconfigFails ==
  /\ worker' = [worker EXCEPT ![rc.new] = IF @ = "none" THEN "exited" ELSE @]
  /\ lock' = None
  /\ rc' = [rc EXCEPT !.pc = "idle"]

\* Mutant: the new workers are started without waiting for the old ones.
ReconfigSendStopNoWait ==
  /\ rc.pc = "send_stop"
  /\ \/ /\ ~Live(rc.old)
        /\ ReconfigFails
        /\ UNCHANGED queue
     \/ /\ Live(rc.old) /\ HasRoom(rc.old)
        /\ Enqueue(rc.old, Stop)
        /\ rc' = [rc EXCEPT !.pc = "start"]
        /\ UNCHANGED <<worker, lock>>
  /\ UNCHANGED <<current, created, handlerCh, applied, accepted, cl, dr, sn>>

\* old_sender.send(Stop).await?, then stop_flush_worker.
ReconfigSendStop ==
  /\ rc.pc = "send_stop"
  /\ \/ /\ ~Live(rc.old)
        /\ ReconfigFails
        /\ UNCHANGED queue
     \/ /\ Live(rc.old) /\ HasRoom(rc.old)
        /\ Enqueue(rc.old, Stop)
        /\ rc' = [rc EXCEPT !.pc = "wait"]
        /\ UNCHANGED <<worker, lock>>
  /\ UNCHANGED <<current, created, handlerCh, applied, accepted, cl, dr, sn>>

\* wait_workers_stops().await?: join the workers the handler runs.  The
\* join fails only for a worker that panicked; the model's workers do not
\* panic, so the `?` does not return here.
ReconfigWait ==
  /\ rc.pc = "wait"
  /\ worker[handlerCh] = "exited"
  /\ rc' = [rc EXCEPT !.pc = "start"]
  /\ UNCHANGED <<queue, worker, current, created, handlerCh, lock, applied, accepted, cl, dr, sn>>

\* build_optimizers, then run_workers(update_receiver).
ReconfigStart ==
  /\ rc.pc = "start"
  /\ worker' = [worker EXCEPT ![rc.new] = "running"]
  /\ handlerCh' = rc.new
  /\ rc' = [rc EXCEPT !.pc = "nop"]
  /\ UNCHANGED <<queue, current, created, lock, applied, accepted, cl, dr, sn>>

\* update_sender.load().send(Nop).await?, then the guard is released.
ReconfigNop ==
  /\ rc.pc = "nop"
  /\ \/ /\ ~Live(current)
        /\ UNCHANGED queue
     \/ /\ Live(current) /\ HasRoom(current)
        /\ Enqueue(current, Nop)
  /\ lock' = None
  /\ rc' = [rc EXCEPT !.pc = "idle"]
  /\ UNCHANGED <<worker, current, created, handlerCh, applied, accepted, cl, dr, sn>>

----------------------------------------
\* before_drop (local_shard.rs 445-458): not under the mutex while it
\* loads the sender and sends Stop.

\* No call borrowing the shard is between its first and its last step.
Quiescent ==
  /\ \A c \in Clients : cl[c].pc # "loaded"
  /\ rc.pc = "idle"
  /\ sn.pc \in {"idle", "done", "failed"}

\* Mutant: before_drop called through a shared reference, racing the
\* other calls.
DropLoadShared ==
  /\ dr.pc = "idle" /\ MaxDrops = 1
  /\ dr' = [pc |-> "send", ch |-> current]
  /\ UNCHANGED <<queue, worker, current, created, handlerCh, lock, applied, accepted, cl, rc, sn>>

\* The exclusive borrow: no other call is in flight.
DropLoad ==
  /\ dr.pc = "idle" /\ MaxDrops = 1
  /\ Quiescent
  /\ dr' = [pc |-> "send", ch |-> current]
  /\ UNCHANGED <<queue, worker, current, created, handlerCh, lock, applied, accepted, cl, rc, sn>>

\* A refused Stop is logged and the drop goes on.
DropSendStop ==
  /\ dr.pc = "send"
  /\ \/ /\ ~Live(dr.ch)
        /\ UNCHANGED queue
     \/ /\ Live(dr.ch) /\ HasRoom(dr.ch)
        /\ Enqueue(dr.ch, Stop)
  /\ dr' = [dr EXCEPT !.pc = "stop_flush"]
  /\ UNCHANGED <<worker, current, created, handlerCh, lock, applied, accepted, cl, rc, sn>>

\* stop_flush_worker: takes the mutex and releases it.
DropStopFlush ==
  /\ dr.pc = "stop_flush" /\ lock = None
  /\ dr' = [dr EXCEPT !.pc = "lock"]
  /\ UNCHANGED <<queue, worker, current, created, handlerCh, lock, applied, accepted, cl, rc, sn>>

\* wait_update_workers_stop: take the mutex ...
DropLock ==
  /\ dr.pc = "lock" /\ lock = None
  /\ lock' = "drop"
  /\ dr' = [dr EXCEPT !.pc = "wait"]
  /\ UNCHANGED <<queue, worker, current, created, handlerCh, applied, accepted, cl, rc, sn>>

\* ... and join the handler's workers; before_drop_called is set.
DropWait ==
  /\ dr.pc = "wait"
  /\ worker[handlerCh] = "exited"
  /\ lock' = None
  /\ dr' = [dr EXCEPT !.pc = "done"]
  /\ UNCHANGED <<queue, worker, current, created, handlerCh, applied, accepted, cl, rc, sn>>

----------------------------------------
\* create_snapshot without the WAL (local_shard.rs 484-507): a Plunger is
\* sent and answered before the segments are copied.

SnapLoad ==
  /\ sn.pc = "idle" /\ dr.pc = "idle"
  /\ sn' = [sn EXCEPT !.pc = "send", !.ch = current]
  /\ UNCHANGED <<queue, worker, current, created, handlerCh, lock, applied, accepted, cl, rc, dr>>

\* send(plunger).await?: before records the operations accepted so far.
\* The rx.await? that follows cannot fail here: a worker answers every
\* signal queued before it exits, and only a panicking worker, which the
\* model's are not, drops a Plunger unanswered.
SnapSend ==
  /\ sn.pc = "send"
  /\ \/ /\ ~Live(sn.ch)
        /\ sn' = [sn EXCEPT !.pc = "failed"]
        /\ UNCHANGED queue
     \/ /\ Live(sn.ch) /\ HasRoom(sn.ch)
        /\ Enqueue(sn.ch, Plunger)
        /\ sn' = [sn EXCEPT !.pc = "waiting", !.before = accepted]
  /\ UNCHANGED <<worker, current, created, handlerCh, lock, applied, accepted, cl, rc, dr>>

\* snapshot_all_segments, under the holder's read guard: copied records the
\* operations the segments contain.  It may fail (`?`).
SnapCopy ==
  /\ sn.pc = "acked"
  /\ \/ sn' = [sn EXCEPT !.pc = "copied", !.copied = applied]
     \/ sn' = [sn EXCEPT !.pc = "failed"]
  /\ UNCHANGED <<queue, worker, current, created, handlerCh, lock, applied, accepted, cl, rc, dr>>

\* Mutant: the empty WAL starts at the last_index seen when the Plunger
\* was sent.
SnapWalStale ==
  /\ sn.pc = "copied"
  /\ \/ sn' = [sn EXCEPT !.pc = "done", !.wal = sn.before]
     \/ sn' = [sn EXCEPT !.pc = "failed"]
  /\ UNCHANGED <<queue, worker, current, created, handlerCh, lock, applied, accepted, cl, rc, dr>>

\* snapshot_empty_wal reads the WAL's last_index and writes an empty WAL
\* starting there; the shard config is copied next.  Either may fail.  An
\* operation is in the WAL before it is sent to the channel, so wal, the
\* operations at or below that index, includes every accepted one.
SnapWal ==
  /\ sn.pc = "copied"
  /\ \/ sn' = [sn EXCEPT !.pc = "done", !.wal = accepted]
     \/ sn' = [sn EXCEPT !.pc = "failed"]
  /\ UNCHANGED <<queue, worker, current, created, handlerCh, lock, applied, accepted, cl, rc, dr>>

----------------------------------------

\* No call is in flight and every started worker has emptied its queue:
\* the shard waits for requests, or has been dropped.
Finished ==
  /\ Quiescent /\ dr.pc \in {"idle", "done"}
  /\ \A ch \in Chans : worker[ch] \in {"running", "draining"} => queue[ch] = <<>>

Terminating == Finished /\ UNCHANGED vars

Next ==
  \/ \E ch \in Chans : WorkerStep(ch) \/ WorkerExit(ch)
  \/ \E c \in Clients : ClientLoad(c) \/ ClientSend(c)
  \/ ReconfigLock \/ ReconfigSwap \/ ReconfigSendStop \/ ReconfigWait
  \/ ReconfigStart \/ ReconfigNop
  \/ DropLoad \/ DropSendStop \/ DropStopFlush \/ DropLock \/ DropWait
  \/ SnapLoad \/ SnapSend \/ SnapCopy \/ SnapWal
  \/ Terminating

Spec == Init /\ [][Next]_vars

\* Tokio runs every spawned task and worker it can: a task that has begun
\* keeps going, and a worker with queued signals takes the next one.
\* Whether a client, a reconfiguration, a drop or a snapshot begins at all
\* is up to the callers.
FairSpec ==
  /\ Spec
  /\ \A ch \in Chans : WF_vars(WorkerStep(ch)) /\ WF_vars(WorkerExit(ch))
  /\ \A c \in Clients : WF_vars(ClientSend(c))
  /\ WF_vars(ReconfigSwap) /\ WF_vars(ReconfigSendStop) /\ WF_vars(ReconfigWait)
  /\ WF_vars(ReconfigStart) /\ WF_vars(ReconfigNop)
  /\ WF_vars(DropSendStop) /\ WF_vars(DropStopFlush) /\ WF_vars(DropLock)
  /\ WF_vars(DropWait)
  /\ WF_vars(SnapSend) /\ WF_vars(SnapCopy)
  /\ WF_vars(SnapWal)

----------------------------------------
\* Properties

TypeOK ==
  /\ queue \in [Chans -> Seq(Signals)]
  /\ \A ch \in Chans : Len(queue[ch]) <= QueueSize
  /\ worker \in [Chans -> {"none", "running", "draining", "exited"}]
  /\ {current, handlerCh} \subseteq 1..created /\ created \in Chans
  /\ lock \in {None, "reconfig", "drop"}
  /\ applied \subseteq accepted /\ accepted \subseteq Clients

\* A snapshot without the WAL contains every operation accepted before its
\* Plunger was sent on the Plunger's channel or on an older one: the
\* Plunger is queued behind the first, and a reconfiguration starts the new
\* workers only after the old ones drained their channel.  (Operations
\* accepted meanwhile on a newer channel are not waited for.)
PlungerCoversOlderChannels ==
  sn.pc = "done" => {c \in sn.before : cl[c].ch <= sn.ch} \subseteq sn.copied

\* The restored shard never takes a new operation for stale: every
\* operation the snapshot's segments contain is at or below the index the
\* empty WAL starts at, because snapshot_empty_wal reads last_index after
\* snapshot_all_segments, and the WAL write precedes the send.
SnapshotWalCoversSegments == sn.pc = "done" => sn.copied \subseteq sn.wal

\* No accepted operation is lost: an operation whose send returned Ok is
\* eventually applied, across reconfigurations, a failed one, and
\* before_drop (spec 4.10): the worker applies what is queued ahead of a
\* Stop, and new workers start only after the old ones have drained.
AcceptedOperationsApplied ==
  \A c \in Clients : c \in accepted ~> c \in applied

\* before_drop returns: the Stop it sends on the current channel reaches
\* the workers the handler runs, which it then waits for, even after a
\* failed reconfiguration left update_sender on a dropped channel.
BeforeDropCompletes == dr.pc # "idle" ~> dr.pc = "done"

========================================
