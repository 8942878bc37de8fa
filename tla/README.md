# A TLA+ model of tiko's storage engine

tiko replaces PostgreSQL's storage manager by one that keeps relation data in
object storage. Pages live in *chunks* (runs of blocks of one relation fork)
that a shared-memory cache holds and that are flushed as immutable objects under
the prefix of the current checkpoint. This directory models the parts of tiko
where the order of steps decides whether data is found again.

## 1. The system

### 1.1 Components

| Component | Source | State | Operations |
|---|---|---|---|
| `AtomicRWLock` | `core/src/io/utils/rw_lock.rs` | one `AtomicI32` in shared memory | `read`, `write`, `try_write`, guard drops |
| Timeline store | `core/src/io/store.rs`, `timeline.rs` | `TimelineState` (head, redo and base checkpoint, active window, draft, pause flag, compaction counter) in shared memory; chunk objects, segment files and base manifests in object storage; the local `base_manifest.tikm` | `get_chunk`, `patch_chunk`, `get_meta`, `put_meta`, `run_commit_protocol` |
| Manifest | `core/src/manifest.rs` | sorted chunk and relation tables, a checkpoint in the header | `apply_segments`, `commit_applied`, `lookup` |
| Compaction | `store.rs`, `worker/src/tasks/compactor.rs`, `smgr/src/checkpoint.rs` | `compaction_paused`, `compaction_in_progress`, locals of a run | `run_compaction`, `run_compaction_through`, pause, drain, resume |
| Draft buffer | `core/src/io/draft.rs` | sharded sets of evicted chunks and relation updates, a spill file, `has_spilled` | `record_chunk`, `record_relfork`, `contains_chunk`, `get_relfork`, `spill_to_file`, `drain` |
| Restart | `store.rs` (`init`, `hydrate_timeline_state`) | what survives a crash: storage, `base_manifest.tikm`, `draft.spill`, PGDATA | hydrate, replay, shutdown compaction |
| Chunk cache, metadata cache | `core/src/io/cache/` | hash buckets, slots with pin count, dirty flag and I/O lock | lookup and pin, evict, insert, flush, truncate |
| I/O pipeline | `core/src/io/io_control.rs`, `smgr/src/pipeline.rs`, `worker/src/io_handler.rs` | request slots, submit queue, worker pid and generation | claim, submit, poll, complete, release |
| WAL receiver | `worker/src/tasks/wal_receiver.rs` | current segment, chunk uploads in flight, confirmed LSN | receive, upload, seal, flush tail, reconnect |
| Recovery window | `store.rs` (`archived_wal_run`, `recovery_window`) | none | pure functions of a listing |
| Relation operations | `core/src/ops.rs`, `smgr/` | none of their own | create, exists, read, write, extend, truncate, unlink |
| WAL restore | `cli/src/bin/tiko_restore.rs` | none | fetch one segment, sealed or from chunks |
| PITR, branches | `cli/src/bin/tiko_pitr.rs`, `tiko_branch.rs`, `core/src/pitr.rs` | backups, base manifests, PGDATA and a copy of it | backup, recover, roll back, branch |

### 1.2 How they interact

*Processes.* Backends, the checkpointer and a background worker (a thread pool
with a tokio runtime) share one memory segment. A backend's page access goes
through the relation operations to the caches; a miss or an eviction becomes a
request that is served by the backend itself or, through the I/O pipeline, by
the worker. Caches call the store's `get_chunk` and `patch_chunk`.

*The timeline lock.* One `AtomicRWLock` guards `TimelineState`: lookups and
flushes hold it for reading, a commit for all of its steps and a compaction for
one step for writing. It is the lock between "which prefix does this flush go
to" and "which intervals are committed".

*The checkpointer.* Every PostgreSQL checkpoint runs `run_commit_protocol`; a
base-backup checkpoint then compacts up to its own position, with the worker's
compactor paused and drained.

*Syncs.* A backend's `tiko_immedsync` runs the flush of both caches for one relation
fork, at the same time as the checkpointer's flush of everything and as other
backends' syncs.

*The worker's compactor* folds segments into a new base manifest every tick.

*The WAL receiver*, a task of the worker, streams WAL through a replication slot
into object storage. What it confirms moves the slot, and PostgreSQL recycles WAL
below the slot. A commit's generation makes it upload the tail of the current
segment. `tiko_restore` is the `restore_command` that reads the archive back. At a
server shutdown PostgreSQL ends the worker before the shutdown checkpoint
(`smgr/src/checkpoint.rs:25-27`), and the receiver goes with it.

*The tools.* `tiko_pitr` and `tiko_branch` work on a stopped instance, on storage
and on PGDATA. They choose a base manifest by its key; the restarted store finds
everything else from the local manifest's header and the segment files.

### 1.3 What is hard

- Readers, flushes, commits and two compactors interleave; `base_ckpt`, the
  segment files, the base manifest object and the local file change in separate
  steps, and some reads of them take no lock.
- Any storage call can fail, and most errors are returned with `?` in the middle
  of a multi-step update.
- Boundaries: inclusive or exclusive scan ranges, the oldest entry of a full
  window, the segment file that straddles the new base, intervals without data.
- Restarts: the store's memory is rebuilt from files that were written at
  different times, by a process that was killed or by a tool that was; a recovery
  starts positions again below those of the history it leaves.
- Two caches of the same design let evictions, flushes and hits race for a slot.
- Eventual progress: a writer among readers, a segment that must be confirmed, a drain that waits for a counter, a
  backend that waits for a worker which has gone.

`PROJECT.json` lists the hazards one by one, at the line where each bites.

### 1.4 What makes each component correct

| Component | Properties |
|---|---|
| lock | writers exclude everybody; no orphaned pending bit; writers are not starved by readers |
| store | a read finds the version flushed last, undisturbed or overlapping anything; no committed interval is lost |
| compaction | failing or racing at any step is harmless; a backup's anchor is the chunk map at its checkpoint; a pause ends |
| draft | everything recorded is drained exactly into the interval it belongs to; the filter never says no to a recorded chunk |
| restart, PITR, branches | a read finds the records of its own timeline, all of them and no others; a backup that has its manifest stays good while it is kept; a complete PGDATA always exists |
| caches | no lost update, no stale insert, no write-back after a truncate; a checkpoint has every change made before it began |
| pipeline | each request answered once, to the backend that asked; nobody waits for a worker that has gone |
| WAL | everything below the confirmed LSN can be restored; a sealed segment is whole; every finished segment is confirmed; what a tail flush has archived stays, and the recovery window ends there |

## 2. Modules

| Module | Models | Checked by |
|---|---|---|
| `RWLock` | `AtomicRWLock`, one action per atomic operation | run `lock` (`MCRWLock`) |
| `RWLockProofs` | type, exclusion and pending-bit theorems | tlapm |
| `TimelineStore` | store, active window, segments, manifests, commit, both compactors | runs `store_*` (`MCTimelineStore`) |
| `TimelineStoreProofs` | operator lemmas, type theorem; no committed interval is lost; backups are anchored; reads find the version flushed last | tlapm |
| `DraftContract` | what the store expects of the draft: a set and a map that only grow until they are drained | refined by `Draft` |
| `Draft` | `DraftBuffer`: tables, spills, spill file, lookups, drain | run `draft` (`MCDraft`) |
| `DraftProofs` | type theorem; `Draft` implements `DraftContract`; lookups are regular | tlapm |
| `ChunkCache` | the chunk cache: lookup, patch, eviction, insertion, flush, truncation | run `cache` (`MCChunkCache`) |
| `ChunkCacheProofs` | type theorem, with exact pin counts; coherence, reads and flushes | tlapm |
| `IoPipeline` | slots, submit queue, main loop, channel and tasks of the I/O pipeline | run `pipeline` (`MCIoPipeline`) |
| `IoPipelineProofs` | type theorem and the three safety properties | tlapm |
| `WalReceiver` | the WAL receiver, the walsender as it uses it, `tiko_restore`, the recovery window | runs `wal`, `wal_names` (`MCWalReceiver`) |
| `WalReceiverProofs` | type theorem; sealed segments are whole; what is confirmed, and what a tail flush has archived, can be restored; the recovery window | tlapm |
| `MetaCache` | the metadata cache under the relation operations, with flush and commit | run `meta` (`MCMetaCache`) |
| `MetaCacheProofs` | type theorem, with exact pin counts; coherence, what operations see, what checkpoints cover | tlapm |
| `Recovery` | restart, base backups, point-in-time recovery, branches | runs `recovery`, `recovery_outranked` (`MCRecovery`) |
| `RecoveryProofs` | type theorem, with references that are never dangling; reads and base backups of the first timeline; no recovery loses PGDATA | tlapm |

### 2.1 RWLock

`state` is the lock word; `pc[t]` is where thread `t` is in `read`, `write` or
`try_write`, `seen[t]` the value its last load returned. A compare-and-swap is an
action of its own, so a step of another thread fits between each load and its
exchange. With `WeakCas` true, `compare_exchange_weak` may also fail spuriously,
as the Rust documentation allows. A thread may call any operation at any time it
holds no guard; it may not nest them (the one place where the code does, a
partial `patch_chunk`, is reached only without a cache, by a single process).

### 2.2 TimelineStore

| Variable | Code |
|---|---|
| `obj[t][l]` | the chunk object of `t` under the prefix of checkpoint `l`: the number of the flush that wrote it, 0 if there is none |
| `segments` | the `SegmentCheckpoint`s in the segment files; `SegmentId` tells which file holds which |
| `bases[k]` | the base manifest stored under the key of checkpoint `k` |
| `tikm` | the local `base_manifest.tikm` |
| `head_ckpt`, `redo_ckpt`, `base_ckpt`, `active_window`, `draft`, `compaction_paused`, `compaction_in_progress` | fields of `TimelineState` |
| `cached[p]`, `target[p]` | a process's `Store.base_manifest`, and the local `target` of `base_manifest()` |
| `rd[b]` | the `get_chunk` or `patch_chunk` call of a backend |
| `cpc[c]`, `job[c]` | where a compactor is, and its locals |
| `writes`, `latest`, `log`, `failures` | history, used by properties and bounds only |

An action ends where another process can get in between: at the timeline lock,
at a storage call, at an atomic load or store of shared memory. A commit holds
the write lock from beginning to end and is one action, with a second action for
the error path after the drain. A compaction is ten actions and can fail at
every storage call. `ReadLocked` is the set of backends that hold the read lock;
the actions that need the write lock wait for it to be empty (what the lock
itself guarantees is `RWLock`'s subject).

Abstractions, each of them a choice to know of:

- A checkpoint is a number: on one PostgreSQL timeline `(timeline_id, lsn)` is
  ordered by `lsn`. A chunk's contents are the number of the flush that wrote it.
- Only the chunk half of an interval is modelled here. `Recovery` has both halves,
  with every operation of a running store as one step.
- Filters may answer yes wrongly: `GetProbe` takes an arbitrary set `fp` of
  prefixes for which the Bloom filter or the draft's spilled flag does. That they
  never answer no wrongly is assumed here. For the draft that is the subject of
  `Draft`: it holds for a lookup that starts between two spills
  (`LookupsRegular`) and does not hold during one (`NoFalseNegative`, section 3.2).
- `draft` is the set of recorded chunks; a failure to record is not modelled.
- A process has one logical thread with one cached manifest. In the code threads
  of a process share it; each compares the header before use, so sharing changes
  only who loads. `set_base` and the swap of the cached manifest are one step.
- A compactor lists and loads segment files in one step. A reader does not: its
  listing and its loads are separate, since a file can be deleted in between.
- The flush of dirty chunks at the start of `run_commit_protocol` happens before
  the write lock is taken and consists of `patch_chunk` calls: any backend's
  `PatchPut` and `PatchRecord`.
- A redo point `r` lies between the last positions and the checkpoint's own. A
  commit whose `DbMeta` update fails at the very end has already changed
  everything else and then ends without a base backup: `Commit(c, r, FALSE)`.

### 2.3 Draft and DraftContract

| Variable | Code |
|---|---|
| `shards[s]`, `relforks` | the tables of `ChunkZone` and `RelforkZone`; a relation fork's metadata is the number of the record that wrote it |
| `spill_file` | the frames in the file, merged in file order as `read_spill_file` does |
| `damaged` | the file has a length whose body was never written |
| `has_spilled`, `spill_lock` | the fields of the same name |
| `frame[b]` | the local `frame` of `spill_locked` |
| `call[b]` | the call of a backend, where it is and what it still has to insert |
| `drained` | the frame that `drain` returned to a commit in progress |
| `versions`, `failures` | history, used by bounds |

An action is what happens under one spinlock, one access to the flag or one
operation on the file: a spill empties shard after shard, then the relation
table, writes the length, writes the body and raises the flag, and records and
lookups of other backends fit in between. `record_*` is `RecordChunk` or
`RecordRelfork`, followed by a spill and, where the table was full, by `Retry`.
Callers hold the timeline's read lock and `drain` its write lock until the commit
has put the frame into its segment, so `Drain` waits until every call is over and
`Start` until `drained` has been taken. A file operation may fail where it is
made; its frame is then lost, which is what the code does with it. Linear probing
inside a table is abstracted to membership in a set.

`DraftContract` is the set and the map, with `RecordChunk`, `RecordRelfork`,
`Drain`, `Commit` and `Lose`. The refinement mapping puts an entry wherever it
is: on file, in the frame of the backend that spills, in a table, later places
winning (`contents <- Contents`).

### 2.4 ChunkCache

| Variable | Code |
|---|---|
| `tag[s]`, `dirty[s]`, `pin_count[s]` | the fields of a `ChunkSlot` |
| `data[s]` | the slot's part of the cache file: which chunk, and the version of each of its blocks |
| `linked` | the slots that a walk along the chain of their tag's bucket finds |
| `store[t]` | what `Store::get_chunk` returns and `Store::patch_chunk` writes; all versions 0 if absent |
| `call[b]` | a backend's `get_chunk` or `patch_chunk`, with the locals of `evict_and_pin` and `insert` |
| `flush[f]`, `trunc` | each flusher's `flush_dirty_chunks`, and `truncate_relfork` |
| `latest`, `stale`, `early`, `torn`, `writes`, `failures`, `truncates` | history, used by properties and bounds only |

An action is what happens under one bucket lock, under one hold of a slot's
`io_lock`, or one access to an atomic that takes neither: the pin of a flush, its
two looks at the dirty flag, the two checks of phase 3 of an eviction. Locks that
are held across actions (the bucket during phase 3 and while a truncation waits
for the `io_lock`; the `io_lock` around a PUT) are derived from where their
holders are: `BucketHeld`, `IoHeld`.

Abstractions:

- The clock sweep may try any unpinned slot at any time, in any order, and may
  give up at any time. This contains every order the clock hand can produce.
- `Flushers` are the checkpointer and any backends: each may flush a set of chunks
  of `Flushes` at any time it is not in a call, several of them at once, as
  `tiko_immedsync` and a checkpoint do.
- A chain is the set of the slots it leads to. Unlinking takes one slot out.
  Clearing a slot that is still in a chain cuts off those behind it; as the order
  is not modelled, `TruncateClear` may cut off any set of them (`Behind`). That
  needs a slot which was relinked between a truncation's check and its clear. What
  insertions do to such a chain afterwards is not modelled: `torn` takes the chunk
  that was cleared and, if nobody had the slot pinned, all chunks of its bucket out
  of the properties.
- `Broken`, which the properties except, is `stale`, `early` and `torn`: three races
  of section 3.2 that the code has, and nothing else sets them.
- `clear` and the write of the new chunk in `insert` are one action: in between,
  the slot is unlinked, clean and pinned.
- `data` of an empty slot is reset, so that states differ only in what can be
  read.
- `Reads` and `Patches` say who may access what. PostgreSQL lets one backend at a
  time write a block, hence the assumption that overlapping patches of a chunk
  are one backend's; a truncation has the relation to itself (`MayAccess` and the
  guard of `TruncateRelfork`).
- The store returns what was put last; what `TimelineStore` shows is assumed
  here.

### 2.5 IoPipeline

| Variable | Code |
|---|---|
| `slot[b]` | the `IoSlot` that backend `b` uses; `req` is its request fields, `result` its result fields: the number of the request whose result was written |
| `head`, `tail`, `entries` | `SubmitQueue` |
| `call[b]` | `submit_and_wait_raw`: where it is, its request, the `head` or `pos` that `push` has loaded, the first or the second attempt to push |
| `worker` | the main loop, with `head`, `tail` and the entry of `poll_submit_queue` |
| `channel` | the dispatcher's bounded channel |
| `tasks` | the running `process_io_request` |
| `requests`, `stops`, `attaches`, `dispatched`, `overrun` | history and bounds |

An action is one access to shared memory, or several that no other process can
tell from one: filling and publishing a slot is one, the three accesses of `push`
are three. Abstractions:

- A backend waits for each request before it makes the next, so it always claims
  the same slot of its four, and never waits for a free one.
- Latches are left out: every wait that is reached has a timeout (10 ms in `push`,
  1 s for a result and in the main loop), so a lost wake-up costs time only.
- Positions are unbounded. In the code they wrap at 2^32, a multiple of the queue
  size, so `%` and differences agree; a `tail` that has passed `head` makes the
  wrapped difference large, which `PushRoom` says explicitly.
- The worker ends at the top of its loop: on SIGTERM it clears its pid and its
  Tokio tasks go on until the process ends (`WorkerStop`, then `WorkerExit`); with
  a PostgreSQL error it just ends (`WorkerExit`). A crash makes PostgreSQL reset
  shared memory and is a new beginning.
- PostgreSQL starts a worker again after 60 seconds. Every waiting backend looks
  at the pid once a second, hence the guard of `WorkerStart` that none is waiting.
- The error path for a closed channel cannot be reached: the receiver lives as
  long as the process.

### 2.6 WalReceiver

| Variable | Code |
|---|---|
| `walEnd`, `slot`, `saved`, `wire` | PostgreSQL: the end of WAL, the slot's `restart_lsn` in memory and on disk, status updates under way |
| `sealed[s]`, `chunks[l]` | the objects of a segment, and of the chunk whose offset is at LSN `l`: which bytes of them are WAL |
| `pc`, `xlogpos`, `at`, `to`, `cur_seg`, `confirmed_lsn`, `due` | the locals of `run_streaming` and of `handle_xlogdata` |
| `chunk_tasks`, `failed` | the `JoinSet` of chunk PUTs |
| `strays`, `deletes` | PUTs that outlive their connection, deletions of the chunks of a sealed segment |
| `flushed` | history: how far a connection had received when it last flushed its tail |
| `origin`, `starts`, `faults`, `checkpoints` | history and bounds |

LSNs are byte positions, so that a segment of 3 bytes in chunks of 2 has a short
chunk at its end, and a message of any length may cross any boundary. An action
ends at every wait: for a message, for a task, for a PUT. `JoinSet::drop` aborts
tasks that have not begun; a blocking PUT that has goes on, and whether it has is
a free choice (`Disconnected`). `Restored` is what `tiko_restore` writes for a name
that PostgreSQL asks for; `WalContiguousRun` is what `archived_wal_run` finds in a
listing. `Crash` is the end of the worker's process with its tasks, by a crash or by
a shutdown of the server: the postmaster ends background workers before it takes the
shutdown checkpoint, and `shutdown_tokio_runtime` waits for nothing. `CopyDone` is a
stream that the walsender ends while the receiver is alive (its process is terminated
alone, say), after which the receiver connects again. The walsender, the slot and its
saving at checkpoints are modelled from how the receiver uses them. A PUT is atomic
(the simulated S3 is not: it truncates the file first), and authentication and framing are left out.

### 2.7 MetaCache

| Variable | Code |
|---|---|
| `tag[s]`, `meta[s]`, `dirty[s]`, `pin_count[s]`, `linked` | the fields of a `MetaSlot`, and the slots that their chains lead to |
| `draft`, `committed` | what `Store::put_meta` has recorded and what a commit has made durable |
| `call[b]` | a backend's operation, with the locals of the cache's functions |
| `flush[f]` | `flush_dirty_metas` of the checkpointer, with the commit, or of a backend's immedsync |
| `latest`, `stale`, `early`, `dropped`, `due` and `missed` of a flush | history: the version written last, and the races that the properties except |

Metadata are a version and whether the relation lives; a block count is told apart
from another by its version alone. Every backend may sync a relation while the
checkpoint and other backends do. Locks and the clock sweep are as in
`ChunkCache`. Relation operations are the `Begin` of a call, under the exclusion
that PostgreSQL's relation and extension locks give (`Exclusive`). The error path
of `try_flush_dirty_meta` cannot be reached: `put_meta` logs a failing record and
forgets it (`dropped`).

### 2.8 Recovery

| Variable | Code |
|---|---|
| `pg`, `db`, `pgdata`, `bak` | PostgreSQL's state, the database followed, PGDATA and the copy a recovery makes |
| `wal`, `line`, `ends` | the WAL records, which of them are on which timeline of which database, where each timeline ends |
| `ck`, `comp` | a checkpoint and a compaction under way |
| `cache`, `shm` | dirty items and `TimelineState` |
| `objs`, `segs`, `bases`, `backups` | storage |
| `tikm`, `spill` | `base_manifest.tikm` and `draft.spill` |
| `rec` | `tiko_pitr recover` and what it has saved |
| `gone`, `spoiled`, `abandoned`, `unanchored` | history: deleted segments, and what is known to go wrong |

An item is a chunk or a relation fork; its contents are the set of WAL records that
were applied to it, so that one comparison (`Latest`) shows a lost record as well
as one of an abandoned future. A checkpoint is `(timeline, lsn)`, in lexicographic
order; segment files, the window, the relation index with its cap and the ranking
in `apply_segments` are computed from it as in the code. Operations of a running
store are single steps: their interleavings are the subject of the other modules.
A crash may come between any two actions, that is between the phases of a
checkpoint (flush, commit, compaction, control file), between the PUT, the local
file, the advance and the deletion of a compaction, and between the steps of a
recovery. A compaction may fail before its PUT has put anything or at the local file
after it (`CompactFail`; failing to load the base manifest is the first of these);
the checkpoint of a base backup goes on, as in `run_basebackup_compaction`.

- `RecoverBegin` works on a stopped instance; `stop_pg` in the code is a shutdown
  before it. Its target is an LSN of the recovery window: `--time` and
  `--timeline` select one and change no state.
- Bloom filters are exact, deleted forks do not occur, and the WAL archive is
  complete (`WalReceiver` is about that).
- After `Branch` the model follows the branch; the parent's storage stays.
- `spoiled` names the items for which one of the defects of section 3.2 has
  happened; `Latest` and `AnchorsIntact` are about the others. Nothing else sets it.
- `unanchored` names the base backups whose compaction failed before it put a manifest.
  `AnchorsIntact` says that such a backup has nothing from after its checkpoint, and
  does not say that it has everything from before.

## 3. Runs

Every bound is a constant of the configuration.

| Run | Instance | Shows |
|---|---|---|
| `lock` | 3 threads, weak exchange, fairness | `MutualExclusion`, `PendingHasWriter` and `WriterEnters`. Three threads are two writers and a reader, or two readers and a writer: the interesting races need a reader that comes or goes while one writer waits and another holds the lock. |
| `store_reads` | 2 chunks, 2 backends, 3 checkpoints, 2 flushes, window of 1, 2 positions per segment file, worker compacting and failing at any step | `ReadLatest`, `ReadRegular`, `NoIntervalLost`. A window of 1 makes the second commit push the first out of it; 3 checkpoints with 2 positions per file give a file that straddles the new base and one that is deleted. |
| `store_backup` | 1 chunk, 1 backend, 3 checkpoints, 1 position per segment file, base backups | The two compactors race at every pair of steps: `NoIntervalLost` and `ReadLatest` hold, and `BackupAnchored` while the backup's own compaction runs. With one position per file, an interval between the old and the new base is in a file that is deleted. |
| `store_pause` | 1 chunk, base backups, one failing commit, fairness | `PauseEnds`. |
| `draft` | 2 backends, 3 chunks in 2 shards with room for 1, 2 forks in a table with room for 1, 2 metadata versions, 1 failing file operation | `KeepsContract`, `LookupsRegular`. Two chunks that share a shard and two forks fill every table, so blocking spills, spills at the watermark and spills that find the lock taken all occur; with 2 versions the second may overtake the first one in a frame or on file. |
| `cache` | 2 backends, 2 slots, 2 chunks of 2 blocks in buckets of their own, the checkpointer and 1 syncing backend as flushers, 2 patches, 1 failing PUT or file operation, 1 truncation | `Coherent`, `ReadsRight`, `FlushCovers`. Both slots are in use, so each miss evicts what the other backend may be using, a flush may be writing or the truncation clearing; the sync and the checkpoint's flush meet at every pair of steps. |
| `pipeline` | 2 backends, queue of 2, channel of 1, 3 requests of which 1 is invalid, the worker ends once, one proc number is given to a new backend, fairness | `AnswersRight`, `DispatchedOnce`, `BufferOwned`, `Answered`. Two requests fill the queue and overfill the channel; the third is made by a backend whose entry or task may have been left behind when the worker ended. |
| `wal` | segments of 3 bytes in chunks of 2, WAL up to 5, 2 faults (lost connections, failing PUTs, crashes or shutdowns of the server, ends of the stream), 1 checkpoint, fairness | `ConfirmedArchived`, `SealedWhole`, `TailArchived`, `TailWindow`, `Confirmed`. One whole segment and the beginning of another; two faults allow a connection that fails while tasks of the one before still run. |
| `meta` | 2 backends, 2 slots, 2 relations in one bucket, 2 changes, 2 events (checkpoints and immedsyncs, also both at once, and failing records or reads) | `Coherent`, `SeesCurrent`, `CheckpointCovers`. As in `cache`, every miss evicts. |
| `recovery` | 1 chunk, 1 relation, 2 records, 2 checkpoints after that of initdb, 1 recovery, 3 events (crashes of PostgreSQL or the tool, spills, failing compactions, recoveries, branches), window of 1, 2 positions per segment file | `Latest`, `AnchorsIntact`, `PgdataKept`. Enough for a backup, a change after it, a recovery that leaves it, and a crash, a failing compaction or a branch on top. |
| `wal_names` | 2 segments to a log id | violated: `ConfirmedArchived` |
| `recovery_outranked` | as `recovery` | violated: `LastWriteWins` |

Larger instances that were run once and pass: `WalReceiver` with segments of 4 in
chunks of 3 (0.3 million states), and with WAL up to 7 and 1 fault (1 million);
`Recovery` with 4 events (7.4 million), with 2 recoveries (1 record, 3 checkpoints, 4
events; 9 million), with 3 checkpoints or 3 records and 2 events (7.5 and 5.3 million),
and with a chunk that initdb made (2.9 million).

Nine more instances state what the documentation says and are violated (section
3.2). They are kept to be run by hand:

| Command | Violated |
|---|---|
| `tlc -config MCStoreRetry.cfg MCTimelineStore` | `CommitIdempotent` |
| `tlc -config MCDraftFilter.cfg MCDraft` | `NoFalseNegative` |
| `tlc -config MCCacheLostUpdate.cfg MCChunkCache` | `NoLostUpdate` |
| `tlc -config MCCacheTruncate.cfg MCChunkCache` | `TruncationSpares` |
| `tlc -config MCCacheFlush.cfg MCChunkCache` | `FlushComplete` |
| `tlc -config MCMetaFlush.cfg MCMetaCache` | `CheckpointComplete` |
| `tlc -config MCPipelineOverrun.cfg MCIoPipeline` | `Backpressure` |
| `tlc -config MCRecoveryOrphan.cfg MCRecovery` | `WindowCurrent` |
| `tlc -config MCRecoveryBackup.cfg MCRecovery` | `BackupsComplete` |

In `cache` every tag has a bucket of its own, so that a truncation can clear a slot
that has been given to a chunk of another bucket since it looked (`TruncationSpares`);
`torn` records the chunk. With two chunks in two slots the cleared slot never has
another behind it in its chain; that case is in the proofs only, which hold for every
number of slots and every hash function.

Deadlock is checked everywhere (a backend can always start another read, the
receiver always send a status) except in the runs of `Recovery`: a PGDATA that a killed recovery has
left half-written waits for its operator.

### 3.1 Fairness

- `RWLock`: every thread is scheduled (weak fairness per thread), and one whose
  exchange is attempted again and again eventually finds the word unchanged
  (strong fairness of its exchange). Nobody is obliged to call `read` or `write`;
  whoever holds a guard drops it. The property is that *some* waiting writer
  enters: the lock has no queue and promises no more.
- `TimelineStore`: the compactor and the checkpointer are running threads, a call
  that holds the read lock ends, and a compactor that waits for the write lock
  gets it however often the lock is read (strong fairness of `CompactSetBase`,
  which is what `WriterEnters` is about). Reads, flushes, checkpoints and ticks
  are never obligatory.
- `IoPipeline`: backends, the main loop and the Tokio threads are scheduled, and
  storage calls return (weak fairness of each). Nobody has to submit, to stop or
  to start anything.

- `WalReceiver`: `wal_receiver_task` reconnects for ever, with a backoff of at most
  a minute; Tokio runs its tasks; a status arrives unless its connection ends; the
  keepalive timeout ends every wait for a message (weak fairness of each). The
  walsender sends the WAL it has, however many keepalives there are in between
  (strong fairness of `Receive`). PostgreSQL is not obliged to write anything, and
  faults are bounded by the configuration.

### 3.2 Disagreements with the documentation

- `wal_names`: the receiver names segments `{timeline:08X}{seg_no:016X}`
  (`wal_receiver.rs:597`). PostgreSQL asks `tiko_restore` for
  `{tli:08X}{logid:08X}{logseg:08X}`, as `pgcontrol.rs:41` and its test say. The two
  agree for the first 256 segments; beyond 4 GB of WAL nothing is found.
- `recovery_outranked`: `store.rs:948` says that "last-write-wins is correct across
  timeline transitions". `apply_segments` ranks by the LSN of a chunk's prefix, and
  the first interval after a recovery or on a branch has the prefix (0, 0): in the
  first compaction after it its chunks lose to those of the base.

- `CommitIdempotent`: `checkpoint.rs:31` calls the checkpoint "naturally idempotent".
  The draft is drained, its spill file deleted, before the segment file is loaded
  and written. If that fails, the flushes of the interval are found as long as
  head stays (their prefix is still the head's, but the draft no longer names
  them) and by nobody once the next checkpoint succeeds.
- `NoFalseNegative`: `store.rs` says of the filters that "false negatives are
  impossible", and `contains_chunk` that they "would silently skip the head-prefix
  probe and lose data". A spill empties the shards first and raises the flag after
  the file is written. In between, `contains_chunk` denies a recorded chunk.
- `NoLostUpdate`: `chunk.rs:313` says that concurrent partial writes to one
  chunk "cannot lose each other's updates". That is so for a hit. On a miss the
  fetch, the merge and the insertion are separate; if another backend's patch of
  the chunk is inserted, written back and evicted in between, the chunk that is
  inserted lacks it, and is dirty.
- `TruncationSpares`: `chunk.rs:871` and `:81`. `truncate_relfork` checks the tag of
  a slot under the bucket lock, then waits for the `io_lock` with only that
  bucket locked. An eviction that was past phase 3 can meanwhile fill the slot and
  link it in another bucket; it is cleared there, its dirty data dropped and the
  chain behind it cut off.
- `FlushComplete`: `chunk.rs:795` says "Flush all dirty chunks in the cache". Every
  flush skips slots that are not dirty (`chunk.rs:806`), and a slot is not dirty from
  the moment an eviction or another process's flush has swapped its flag (`:768`). A
  checkpoint that passes the slot before that PUT has ended is complete without the
  chunk, and if the PUT then fails only the flag is restored. `FlushCovers` says that
  nothing else is left out.
- `CheckpointComplete`: `store.rs:1559` calls the write lock of the commit "the fence",
  which waits for concurrent evictions. It waits for those that have entered
  `put_meta`. An eviction, or a backend's `tiko_immedsync`, that has swapped the dirty
  flag (`meta.rs:708`) and not yet entered it (`:722`) is neither seen by the flush
  (`:745`) nor waited for; the comment at `meta.rs:688-698` speaks of concurrent
  flushers, for which it makes sure that nobody records twice. `CheckpointCovers` says
  that nothing else is left out.
- `BackupsComplete`: `store.rs:1022-1026` and `tiko_pitr.rs:307` say that a base backup
  has a complete manifest at its own checkpoint. If its compaction fails, the
  checkpointer logs a warning (`checkpoint.rs:121`), the checkpoint succeeds and
  `tiko_pitr backup` uploads the backup. A recovery to it starts from an older manifest,
  or finds none, and deletes the segments that had the rest (`tiko_pitr.rs:542`).
  `unanchored` records these backups.
- `WindowCurrent`: see the list at the end of this section.
- `Backpressure`: `io_control.rs:436` promises backpressure. `push` compares
  head and tail first and takes its position afterwards, so backends that look
  together take more positions than are free, and the entry of one is overwritten
  by another. Its request is never started and it waits as long as the worker
  lives. It takes more than 1024 processes in the queue at once.

Observed while modelling, without a run of their own: `checkpoint.rs:105` says of
the two compactions that they "can't run in parallel", but `compactor_task` reads
the pause flag and bumps the counter in two steps, and the pause and the drain
fit in between; with both running, a reader may find a listed segment file gone
(`store.rs:993`) and report an existing chunk as not found, which is why
`ReadRegular` is checked in `store_reads` only; `chunk.rs:560` says "No data loss
path remains", but phase 3 of an eviction looks at the pins, then at the dirty
flag, and a flush that pins the slot in between and swaps the flag makes a dirty
slot look clean: it leaves the chain while its PUT is in progress, a fetch then
finds an older chunk and a failing PUT leaves none (`early` in `ChunkCache`
records these chunks, and the properties except them); while the worker stops,
its pid is cleared and its tasks still run, so a read may still write into a
buffer that its backend has given back with an error: the generation is compared
after the I/O, not before (`io_handler.rs:77`), although `attach` speaks of "instead
of writing to recycled memory" (`BufferOwned` excepts the stopping worker);
`timeline.rs:425` states
`base_ckpt < redo_ckpt <= head_ckpt`, but a base backup's compaction sets the
base to the head, past redo, and a failed commit leaves redo past head;
`base_ckpt` may move back, because `run_compaction_through` names its base after
the manifest's header (`store.rs:1068`); `get_relfork` may return an older version,
or an error, while a second spill is in progress; a frame that was cut off makes every later drain, hence every
commit, fail;
`begin_compaction`'s comment speaks of both compactors, but the checkpointer
never calls it; a worker compaction that lost the race has already PUT a manifest
built on the newer base under its own, older key, which anchors earlier backups
from then on (`store.rs:1341`); `flush_dirty_chunks` stops at the first failing PUT.

Of the WAL archive: when the server shuts down, the receiver is killed before the
shutdown checkpoint is written, so that the WAL after the last tail flush is not
archived. The comments at `wal_receiver.rs:272` ("S3 has WAL up to the actual shutdown
point") and `:447` say otherwise; they describe a receiver that outlives the
walsender. What a shutdown does leave is what `TailArchived` and `TailWindow` are
about: everything up to the last checkpoint's tail flush. After a reconnect the
receiver starts at the slot's position and the tail is uploaded again from there; a
checkpoint in the meantime may replace a chunk by a shorter one until the rest has
been streamed again, which is why both properties begin anew with a connection. While
chunk PUTs are in flight, or after one has failed, the recovery window counts holes as
archived (`store.rs:87` says that the receiver "writes chunks contiguously"), and
`TailWindow` says nothing then. It may count a hole below `origin`, too: with a slot
that has no `restart_lsn`, a chunk in the middle of a segment whose PUT fails is not
sent again, the next connection starts anew, and if that is exactly at a segment
boundary nothing in the listing tells (the attempt to prove more found this); streaming
that enters a segment at two offsets leaves chunks of two layouts in it; a
checkpoint between `IDENTIFY_SYSTEM` and `CREATE_REPLICATION_SLOT` puts the slot
beyond the position where streaming starts (`wal_receiver.rs:187`); a slot without
`restart_lsn` starts anew at every reconnect; a checkpoint that falls into a
disconnection is not followed by a flush of the tail.

Of the metadata cache: a fetch that a change has overtaken may be inserted
(`stale`), an eviction may unlink a slot that a flush is recording (`early`), and a
record that fails is forgotten (`dropped`). Calls may end because the sweep found every slot in use (`meta.rs:607`), so that no
liveness is claimed for them.

Of restart and recovery, each told apart by `spoiled` or `abandoned` (and, for
`BackupsComplete`, by `unanchored`):

- a failed recovery brings PGDATA and the manifest back, but the segment files have
  been deleted (`tiko_pitr.rs:542`), so that these are not enough, and
  after a promotion segments of the undone timeline remain;
- objects under (0, 0) are reused after a recovery although older manifests,
  backups and branches refer to them, and after a spill a read takes an old one for
  the present one;
- a backup on the new timeline before any data are written anchors to an abandoned
  manifest of the old one, and so does a restart without a local manifest;
- a process that loads an older base between `commit_applied` and the advance of
  `base_ckpt` sets the local file back; after a crash the store starts from there,
  with the segments above it deleted;
- a compaction that is cut short between the advance of the base and the deletion of
  its segments (or whose deletion fails) leaves files below the base that no later one
  deletes. Once newer segments are folded and deleted, the next start fills the active
  window with the left-over ones, and reads find their old versions before they come
  to the base manifest (`WindowCurrent`; met when the proof of `Latest` was tried);
- the spill file survives a crash and a recovery: harmless on a plain restart, but
  after a recovery its entries are committed into the new timeline.

Without a variable: `compaction_in_progress` stays at 1 when the worker alone ends
during a compaction; a killed recovery leaves `.tiko_pitr_bak` and later ones refuse
to begin; restartpoints do not commit; a branch keeps its parent's timeline id.

## 4. Proofs

The theorems hold for all values of the constants that satisfy the named
assumptions: for the lock, a finite set of fewer than 2^30 threads
(`RWLockAssumption`); for the draft, at least one shard, tables with room for at
least one entry, and a lock owner `Free` that is no backend (`DraftAssumption`);
for the pipeline, finitely many backends, a queue and a channel with room for at
least one (`PipelineAssumption`); for the chunk cache, finitely many backends, at
least one slot and one block, and PostgreSQL's buffer discipline as described above
(`CacheAssumption`); for the metadata cache, finitely many backends and at least one
slot (`MetaAssumption`); for the WAL archive, positive segment and chunk sizes
(`WalAssumption`); for the store, positive window and segment sizes, natural
bounds, and backends distinct from the compactors (`StoreAssumption`); for recovery,
finitely many items, chunks that are not relation forks, positive window and segment
sizes and natural bounds (`RecoveryAssumption`).

Four theorems have a hypothesis of their own, since what they say is false
without it, and a run or section 3.2 shows how:

| Hypothesis | Of | Without it |
|---|---|---|
| `OneLogId`: the WAL stays below the 257th segment | `ConfirmedIsArchived`, `TailIsArchived` | run `wal_names` |
| `failures = 0`, inside the invariant: no commit has failed so far | `ReadsLatest`, `ReadsRegular` | `CommitIdempotent` |
| `~Basebackups` | `ReadsRegular` | a listed segment file may be gone (section 3.2) |

- `RWLockProofs`: `TypeCorrect`, `Exclusive`, `PendingOwned`. The inductive
  invariant says that the lock word counts the read guards exactly, that it is
  `EXCLUSIVE` exactly when somebody has the write guard, and that the pending bit
  has a writer between setting it and entering. Counting needs the cardinality
  lemmas for a set that gains or loses one element.

- `TimelineStoreProofs` has five theorems, each on an invariant that builds on
  the ones before.
  - `StoreTypeCorrect`. Beyond shapes, the type invariant needs that the compaction
    counter is 1 exactly while the worker is between `begin` and `end`, and that
    whatever is on file, in the window or being folded is a committed interval.
  - `CommittedIntervalsKept`. The obvious invariant, "the base manifest covers
    everything up to `base_ckpt`, and everything above is on file", is not inductive
    for two reasons. First, `base_ckpt` may move back, so a compactor's snapshot of it
    may be above the present one, and files between the two may be gone. What holds is
    that no interval in between has data (`NoData`): headers are always positions with
    data, and a base moves back only over none. Second, a compactor that compares
    `base_ckpt` for equality could be fooled by a base that moved away and came back.
    `NoABA` shows that it cannot be: only the checkpointer moves the base under the
    worker, to a position with data or down over none; only the worker moves it under
    the checkpointer, and upwards (`RaceInv`). The rest of `StoreInv` says that every
    manifest that exists anywhere (in storage, in the local file, cached, in a
    compactor's hands) is sound up to its header, those in storage up to their key as
    well (`ManifestInv`), that a deleted file held no data above the base
    (`SegmentInv`), and what a compactor's locals are worth at each step (`JobInv`,
    `UnracedInv`).
  - `BackupsAnchored`. `RefInv` is the converse of soundness: every reference in
    every manifest is to an interval that was committed with that chunk. With both,
    a manifest is the chunk map at a checkpoint as soon as no data lie between its key
    and that checkpoint. `AnchorInv` says that such a manifest exists from the backup's
    PUT on. It need not be the one the backup has just put: if an old segment file was
    left behind and a newer one deleted, the backup's own key may be below one that
    the worker has put.
  - `ReadsLatest`, from `PlaceInv`: intervals follow one another without overlap
    (`ChainInv`); the active window is the newest end of the log (`WindowInv`, with the
    cardinality argument for the ring in `PushNewest`); an object under a later prefix
    is a later version, and its prefix is named by the draft or by a committed
    interval, or its flush is about to record it (`ObjInv`); the version flushed last
    is in a recorded place (`LatestInv`). `LookupLatest` then follows the read path:
    whatever the filters add, nothing newer can be hit, and what a step of the path
    does not reach is in the next one.
  - `ReadsRegular`, from `ReadsInv`: what each stage of a read in progress still has to
    find is where it will look. While it holds the read lock neither base nor window
    move and the files it has listed stay, because the worker deletes behind the base
    it has set; afterwards the version it needs is behind the base, and the base only
    moves up.

  TLC has checked each of these invariants on the instances of `store_reads` and
  `store_backup`.

- `DraftProofs`: `DraftTypeCorrect`; `DraftKeepsContract`, the refinement theorem:
  every step of the draft is a step of `DraftContract` on `Contents`, or leaves it
  alone; and `DraftLookupsRegular`. The type invariant says that a tag is only in its
  own shard and that the spill lock belongs to the backend that spills. The mapping
  needs two more facts. `FrameInv`: a spill that is still at the shards has taken no
  metadata, and one that has only the flag left has handed its frame to the file, so
  giving up the lock takes nothing out of the mapping's sight. `VersionInv`: along
  file, frame and table a fork's versions do not decrease and none exceeds the number
  handed out, which is why "later places win" is "the last record wins". Lookups need
  that whatever is on file is announced, by the flag or by the spill that is about to
  raise it (`FlagInv`), and that a lookup that has passed the table will find the flag
  up and the file new enough (`PendingInv`).

- `ChunkCacheProofs`: `CacheTypeCorrect`, `CacheCoherent`, `CacheReadsRight`,
  `CacheFlushCovers`. `TypeOK` is more than shapes: a slot's pin count is exactly the
  number of calls and of flushes that are between taking and dropping it. The
  counting lemmas (`PinGain`, `PinLoss`, `PinKeep`, `FlushPinStep`) say what one
  process's step does to the set of users of a slot; every action is one of these.
  The data theorems come from `CacheInv`. `Linkage`: a chunk is linked once; a slot that
  is dirty or being written back is linked, held by a truncation, or its chunk is in
  `early` or `torn`. `CallsOk`: what
  each call's copy of a chunk is worth at each step; a copy that a change has
  overtaken cannot be inserted, because the chunk is then linked, or stored and
  fetched again. `ChunksOk`: a linked slot has the last version of every block, and a
  slot that is clean has nothing that the store has not. `ScanOk`, for each
  flusher: what is due is stored, or dirty ahead of the scan, or somebody is writing
  it, or has failed to. The exceptions of all three are the chunks of `Broken`.

- `MetaCacheProofs`: `MetaTypeCorrect`, `MetaCoherent`, `MetaSeesCurrent`,
  `MetaCheckpointCovers`. `Structure` has the exact pins, that a relation is linked
  once, and who may be at one slot at the same time (`Apart`); `Data` the versions: a
  linked slot has the last one, a relation that is not cached the store, and a clean
  slot nothing that the store has not; `CallData` what a call's metadata are worth.
  `ScanCovers` says of every flush what `ScanOk` says in `ChunkCache`. The three recorded
  races (`stale`, `early`, `dropped`) are the only exceptions, and for a checkpoint the
  records that others have under way at its commit (`missed`).

- `IoPipelineProofs`: `PipelineTypeCorrect`, `PipelineAnswers`, `PipelineDispatches`
  and `PipelineBuffers`, all from one invariant, `PipelineInv`. Its core is
  `HolderInv`: as long as the worker is not stopping, a request that has been
  taken is in exactly one place (with the main loop, in the channel or with a
  task), its slot is `InProgress` and its backend waits for it. Hence no task can
  complete a slot for a later request, although the generation is compared and
  the slot completed in two steps. While the worker stops, `HolderInv` fails
  (backends give up under the tasks), but no request is published until every
  backend has left and the process has ended. `RequestInv` relates slots, tasks
  and calls; `DispatchInv` says that a submitted request has not been dispatched,
  which makes entries left in the queue harmless; `QueueInv` orders `tail`,
  `worker.tail`, `worker.head` and `head`; `GenInv` bounds the generations. The
  proofs first state what each action does to the slot and the call it touches
  (`CallMoves`, `CallEnds`, `SlotTurns`, ...), then go through these effects once
  per part of the invariant.

- `WalReceiverProofs`: `WalTypeCorrect` and `SealedSegmentsWhole`, from `WalInv`. That
  the object sealed is a whole segment needs both ends: `StreamInv` says that the
  buffer ends exactly where the message has been consumed up to, at or before the
  end of its segment, and that a segment is sealed only when the next byte belongs to
  another; the arithmetic of segment numbers (`SegUnique`) then leaves only the
  segment's end (`SealedEnds`). Its beginning is what `PartialSeg` tests.
  `ConfirmedIsArchived` and `TailIsArchived` come from `Data`: a PUT, also one that
  outlives its connection, can only add to what its key holds, and chunks are only
  deleted behind a sealed object (`ObjectsOk`); slot, status updates and
  `confirmed_lsn` are in this order (`Positions`); everything up to `confirmed_lsn` is
  archived (`Secured`), and the rest of the buffer is, or is on its way, unless a task
  has failed (`Buffered`); so is everything up to the last tail flush (`Tailed`), which a
  later PUT under the same key only makes longer. `TailWindowRight` adds `Layout`: the
  keys of chunks are whole numbers of chunks past a position where streaming entered the
  segment.

- `RecoveryProofs`: `RecoveryTypeOK`, `FirstTimelineLatest`, `FirstTimelineAnchors` and
  `RecoveryKeepsPgdata`. The types need the
  positions of everything on all timelines. `TInv` has them: `Shape`, and `PosInv`, in
  which the LSNs of every timeline are bounded by the records and checkpoints spent
  (`Bound`), checkpoints, manifests, backups and control files lie on timelines that
  exist and below their ends (`SegPos`, `ManPos`, `BkPos`, `DirPos`), and each phase of
  the instance and of a recovery knows what is there (`Phase`, `RecPhase`); until a
  recovery promotes, nothing is on the timeline that it will use. References are
  `RefInv`: whatever a manifest, a checkpoint, the draft or the spill file refers to is
  in storage. A checkpoint's prefix is that of the head before it, so that one needs to
  know that the head is the newest checkpoint in the segments (`HeadInv`; the newest is
  never folded away, `CompHead`), and when the spill file still belongs to the head
  (`SpillLive`: not after a recovery, whose head is (0, 0) again).

  `FirstTimelineLatest` and `FirstTimelineAnchors` are about a database that has not been
  recovered or branched so far (`db = 0 /\ recovers = 0`), with its crashes, its restarts
  and all its writes, spills, checkpoints and compactions that end or fail. The hypothesis is a limit of
  the proof and not of the property: with recoveries, `Latest` and `AnchorsIntact` are
  model-checked. The inductive invariant (`FirstInv`) has two halves.
  - `StoreInv`, of the store as a whole: nothing is newer than the head (`Order`); a
    manifest whose key is ahead of its header skips only checkpoints that hold nothing
    (`Gaps`); a segment that held data and was deleted is at or below the base, and the
    window leaves out no segment on file that is newer than one of its own (`Base`); what a compaction under way has
    put is in storage, and the worker's is older than the one of a base backup's own
    checkpoint (`CompInv`); every backup has a manifest at or before its checkpoint
    and no data in between, unless its own compaction has failed (`Tails`).
  - `ItemInv`, of one item, compared with the records of the WAL. `Ever` is every segment
    committed, deleted or not. A checkpoint or manifest has only records up to its own
    LSN, and all that older ones have (`SegVal`, `ManVal`). The records up to the redo
    position that a crash would leave are in checkpoints at or before the one in the
    control file, so that replay has only to add the rest, and what was committed or left
    in the spill file since is replayed over (`DirVal`, `PendVal`). While the store runs,
    the newest of cache, draft, spill file and checkpoints has all records; a checkpoint
    under way has those before its redo position; and the window skips no segment of the
    item (`UpVal`).

  `LookupsFind` then follows the read path through draft, spill file, window, segment
  files and base manifest. TLC found no violation of `FirstInv` on two instances (1.2 and
  1.5 million states) before it was proved.

  For PGDATA, `CopyInv` says which of PGDATA and its copy each step relies on: PGDATA
  until the snapshot is complete, the copy from then on, both when the copy is about to
  be removed. A recovery that finds a copy left by one that was killed refuses to begin,
  so it never overwrites the only good one.

Only model-checked: `WriterEnters`, `PauseEnds`, `Answered` and `Confirmed` (liveness
under fairness is outside the prover's reach); `Latest` and `AnchorsIntact` of
`Recovery` from the first point-in-time recovery or branch on (they need an invariant
over the records, manifests and backups of all timelines at once, and over reused
prefixes).

## 5. Plan

What is left, in this order:

1. `AnchorsIntact` and `Latest` of `Recovery` as theorems for every timeline.
2. A worker that ends alone in the middle of a compaction, with shared memory kept.
3. The composition of both caches under one relation operation: extend and truncate
   change blocks and metadata in two steps.

## 6. Not modelled

- Storage backends: taken as an atomic key-value store. Of the key layout only the
  names of WAL segments are modelled.
- The wire protocol of the replication connection, the PostgreSQL bindings, the
  parsing of control and label files, the packing of a branch's tarball,
  configuration, statistics and log relay: they keep no state that the properties
  depend on.
- The viewers and legacy command-line tools: not part of the running system.
- Partial-chunk patches of the store, which need an instance without a cache, and the
  dropping of a deleted relation's chunks in `apply_segments`.
- Sizes in bytes and the encoding of manifests and segment files: a file is what was
  put into it.
