----------------------------- MODULE WalReceiver -----------------------------
(***************************************************************************)
(* The WAL archive: worker/src/tasks/wal_receiver.rs, which fills it,      *)
(* cli/src/bin/tiko_restore.rs, which reads it back, and the recovery      *)
(* window that core/src/io/store.rs derives from it.                       *)
(*                                                                         *)
(* The receiver streams WAL through a replication slot.  It cuts segments  *)
(* into chunks that parallel tasks PUT, writes a segment it has seen whole *)
(* as one sealed object, deletes its chunks in the background, and then    *)
(* confirms the segment: from there on PostgreSQL may recycle it.  A lost  *)
(* connection, a failed PUT or a crash sends it back to the position of    *)
(* the slot.                                                               *)
(*                                                                         *)
(* The receiver does not see the end of the WAL: when the server shuts     *)
(* down its worker is killed before the shutdown checkpoint, so what the   *)
(* archive has of the last segment is what a checkpoint made the receiver  *)
(* flush while it ran.                                                     *)
(*                                                                         *)
(* LSNs are byte positions.  What an object holds is described by the      *)
(* bytes of real WAL in it; an object never holds bytes of another         *)
(* position.  A PUT is atomic.  The walsender, its slot and the messages   *)
(* between them are PostgreSQL's.                                          *)
(***************************************************************************)
EXTENDS Integers, FiniteSets, FiniteSetsExt

CONSTANTS
  SegSize,        \* XLOG_SEG_SIZE
  ChunkBytes,     \* CHUNK_BYTES
  SegsPerLogId,   \* SEGS_PER_LOGID
  MaxLsn,         \* bound: the end of WAL
  StartLsn,       \* the end of WAL when the receiver first starts
  MaxFaults,      \* bound: connections that end, failed PUTs, crashes and shutdowns
  MaxCheckpoints  \* bound: commits

ASSUME WalAssumption ==
  /\ SegSize \in Nat \ {0}
  /\ ChunkBytes \in Nat \ {0}
  /\ SegsPerLogId \in Nat \ {0}
  /\ MaxLsn \in Nat /\ StartLsn \in 0..MaxLsn
  /\ MaxFaults \in Nat /\ MaxCheckpoints \in Nat

Lsn    == 0..MaxLsn
SegNo(l) == l \div SegSize
SegStart(s) == s * SegSize
SegNos == 0..SegNo(MaxLsn)
Absent == -2      \* there is no slot
Null   == -1      \* a slot whose restart_lsn is NULL

\* An object: the bytes [max(its position, from), to) of it are WAL.
Object   == [from : Lsn, to : Lsn]
NoObject == [from |-> 0, to |-> 0]

\* SegState: buf is [start of seg, to), zeros up to `from`, and up to
\* `uploaded` it is left to chunk tasks.
NoSeg == [seg |-> 0, from |-> 0, to |-> 0, uploaded |-> 0]
PartialSeg(cur) == cur.from > SegStart(cur.seg)

VARIABLES
  \* PostgreSQL
  walEnd,             \* end of WAL
  slot, saved,        \* restart_lsn, in memory and on disk
  wire,               \* StandbyStatusUpdates on their way
  \* object storage
  sealed,             \* by segment
  chunks,             \* by the LSN of their offset
  \* run_streaming
  pc,
  xlogpos,            \* of IDENTIFY_SYSTEM
  at, to,             \* what is left of an XLogData message
  cur_seg, confirmed_lsn,
  due,                \* generation # last_flushed_generation
  \* blocking tasks
  chunk_tasks,        \* PUTs of the current connection
  failed,             \* one of them has failed
  strays,             \* PUTs of earlier ones
  deletes,            \* segments whose chunks are being deleted
  \* history
  origin,             \* where the archive starts
  starts,             \* where streaming has started
  flushed,            \* where the last flush of the tail ended, 0 if it may be undone
  faults, checkpoints

server   == <<walEnd, slot, saved>>
archive  == <<sealed, chunks>>
receiver == <<pc, xlogpos, at, to, cur_seg, confirmed_lsn, due>>
tasks    == <<chunk_tasks, failed, strays, deletes>>
history  == <<origin, starts, flushed, faults, checkpoints>>
vars == <<server, wire, archive, receiver, tasks, history>>

Init ==
  /\ walEnd = StartLsn
  /\ slot \in {Absent, Null}
  /\ saved = slot
  /\ wire = {}
  /\ sealed = [s \in SegNos |-> NoObject]
  /\ chunks = [l \in Lsn |-> NoObject]
  /\ pc = "down"
  /\ xlogpos = 0 /\ at = 0 /\ to = 0
  /\ cur_seg = NoSeg /\ confirmed_lsn = 0
  /\ due = FALSE
  /\ chunk_tasks = {} /\ failed = FALSE /\ strays = {} /\ deletes = {}
  /\ origin = 0 /\ starts = {}
  /\ flushed = 0
  /\ faults = 0 /\ checkpoints = 0

-----------------------------------------------------------------------------
(* PostgreSQL *)

WriteWal ==
  /\ walEnd < MaxLsn
  /\ walEnd' = walEnd + 1
  /\ UNCHANGED <<slot, saved, wire, archive, receiver, tasks, history>>

\* A checkpoint writes the slot to disk; tiko's commit advances the generation.
Checkpoint ==
  /\ checkpoints < MaxCheckpoints
  /\ checkpoints' = checkpoints + 1
  /\ saved' = slot
  /\ due' = (pc \notin {"down", "identified"})
  /\ UNCHANGED <<walEnd, slot, wire, archive, pc, xlogpos, at, to, cur_seg, confirmed_lsn,
                 tasks, origin, starts, flushed, faults>>

\* The walsender takes a status and moves the slot; they arrive in order.
ServerStatus ==
  /\ wire # {}
  /\ slot' = Min(wire)
  /\ wire' = wire \ {Min(wire)}
  /\ UNCHANGED <<walEnd, saved, archive, receiver, tasks, history>>

-----------------------------------------------------------------------------
(* Storage tasks *)

PutChunk(l, obj) == chunks' = [chunks EXCEPT ![l] = obj]

\* A chunk task, in any order with the others.
ChunkPut ==
  /\ \E t \in chunk_tasks :
       /\ PutChunk(t.at, [from |-> t.from, to |-> t.to])
       /\ chunk_tasks' = chunk_tasks \ {t}
  /\ UNCHANGED <<server, wire, sealed, receiver, failed, strays, deletes, history>>

ChunkPutFail ==
  /\ faults < MaxFaults
  /\ \E t \in chunk_tasks : chunk_tasks' = chunk_tasks \ {t}
  /\ failed' = TRUE
  /\ faults' = faults + 1
  /\ UNCHANGED <<server, wire, archive, receiver, strays, deletes, origin, starts, flushed, checkpoints>>

\* A PUT that was running when its connection ended goes on.
StrayPut ==
  /\ \E t \in strays :
       /\ PutChunk(t.at, [from |-> t.from, to |-> t.to])
       /\ strays' = strays \ {t}
  /\ UNCHANGED <<server, wire, sealed, receiver, chunk_tasks, failed, deletes, history>>

\* storage_delete of a chunk prefix.
DeleteChunks ==
  /\ \E s \in deletes :
       /\ chunks' = [l \in Lsn |-> IF SegNo(l) = s THEN NoObject ELSE chunks[l]]
       /\ deletes' = deletes \ {s}
  /\ UNCHANGED <<server, wire, sealed, receiver, chunk_tasks, failed, strays, history>>

-----------------------------------------------------------------------------
(* Connecting *)

\* connect and IDENTIFY_SYSTEM.
Identify ==
  /\ pc = "down"
  /\ pc' = "identified"
  /\ xlogpos' = walEnd
  /\ UNCHANGED <<server, wire, archive, at, to, cur_seg, confirmed_lsn, due, tasks, history>>

\* READ_REPLICATION_SLOT, CREATE_REPLICATION_SLOT ... RESERVE_WAL if there is none,
\* START_REPLICATION.  A new slot is at the redo position of the last checkpoint,
\* which may be later than xlogpos; one with no restart_lsn keeps nothing, so the
\* archive starts anew.  What is streamed again replaces what was flushed before.
StartReplication ==
  LET start == IF slot \in Lsn THEN slot ELSE xlogpos
  IN /\ pc = "identified"
     /\ IF slot = Absent
          THEN \E redo \in 0..walEnd : slot' = redo /\ saved' = redo
          ELSE UNCHANGED <<slot, saved>>
     /\ xlogpos' = 0
     /\ pc' = "stream"
     /\ at' = start /\ to' = start
     /\ confirmed_lsn' = start
     /\ due' = FALSE
     /\ starts' = starts \cup {start}
     /\ origin' = IF slot \in Lsn THEN origin ELSE Max({start, slot'})
     /\ flushed' = 0
     /\ UNCHANGED <<walEnd, wire, archive, cur_seg, tasks, faults, checkpoints>>

\* With its connection end the chunks that a flush of the tail counts on.
FlushKept == flushed' = IF chunk_tasks = {} /\ ~failed THEN flushed ELSE 0

\* run_streaming returns; the JoinSet it drops aborts the tasks that do not run yet.
Disconnected(running) ==
  /\ pc' = "down"
  /\ at' = 0 /\ to' = 0
  /\ cur_seg' = NoSeg
  /\ confirmed_lsn' = 0
  /\ due' = FALSE
  /\ chunk_tasks' = {} /\ failed' = FALSE
  /\ strays' = strays \cup running
  /\ wire' = {}
  /\ xlogpos' = 0
  /\ FlushKept
  /\ UNCHANGED archive

\* The connection fails, or a PUT that run_streaming waits for.
ConnectionFail ==
  /\ pc # "down"
  /\ faults < MaxFaults
  /\ faults' = faults + 1
  /\ \E running \in SUBSET chunk_tasks : Disconnected(running)
  /\ UNCHANGED <<server, deletes, origin, starts, checkpoints>>

\* The worker ends, waiting for nothing, and takes its tasks with it; with the whole
\* server the slot is read from disk again.  A shutdown of the server is this too: the
\* worker is killed, and more WAL and the shutdown checkpoint follow without it.
Crash ==
  /\ faults < MaxFaults
  /\ faults' = faults + 1
  /\ pc' = "down"
  /\ at' = 0 /\ to' = 0 /\ cur_seg' = NoSeg /\ confirmed_lsn' = 0 /\ due' = FALSE
  /\ chunk_tasks' = {} /\ failed' = FALSE /\ strays' = {} /\ deletes' = {}
  /\ wire' = {}
  /\ xlogpos' = 0
  /\ slot' \in {slot, saved}
  /\ FlushKept
  /\ UNCHANGED <<walEnd, saved, archive, origin, starts, checkpoints>>

-----------------------------------------------------------------------------
(* Streaming *)

\* recv_copy_data: an XLogData message of any length.
Receive ==
  /\ pc = "stream" /\ at = to
  /\ \E end \in (to + 1)..walEnd : to' = end
  /\ UNCHANGED <<server, wire, archive, pc, xlogpos, at, cur_seg, confirmed_lsn, due, tasks, history>>

\* The segment state a piece goes to; `from` keeps the offset of a start amid a
\* segment.
SegFor(l) ==
  IF cur_seg # NoSeg THEN cur_seg
  ELSE [seg |-> SegNo(l), from |-> l, to |-> l, uploaded |-> l]

\* The windows of ChunkBytes that are complete.
Windows(cur) ==
  {[at |-> l, from |-> cur.from, to |-> l + ChunkBytes] :
     l \in {k \in Lsn : /\ k >= cur.uploaded
                        /\ (k - cur.uploaded) % ChunkBytes = 0
                        /\ k + ChunkBytes <= cur.to}}

Uploaded(cur) == cur.uploaded + ChunkBytes * ((cur.to - cur.uploaded) \div ChunkBytes)

\* handle_xlogdata for a piece that ends at l: append it, start the PUTs.  The
\* message done, the loop goes on to the checkpoint-triggered flush.
AppendPiece(l) ==
  LET cur == [SegFor(at) EXCEPT !.to = l]
  IN /\ pc = "stream" /\ at < to
     /\ cur_seg = NoSeg \/ cur_seg.seg = SegNo(at)
     /\ cur_seg' = [cur EXCEPT !.uploaded = Uploaded(cur)]
     /\ chunk_tasks' = chunk_tasks \cup Windows(cur)
     /\ at' = l
     /\ pc' = IF l = to THEN "tail" ELSE "stream"
     /\ UNCHANGED <<server, wire, archive, xlogpos, to, confirmed_lsn, due,
                    failed, strays, deletes, history>>

\* Mutant: a message belongs to the segment of its first byte.
HandleXLogDataUnsplit == AppendPiece(to)

\* Up to the end of the segment or of the message.
HandleXLogData == AppendPiece(Min({to, SegStart(SegNo(at) + 1)}))

\* A piece for another segment: seal_segment of the current one.
SealBegin ==
  /\ pc = "stream" /\ at < to
  /\ cur_seg # NoSeg /\ cur_seg.seg # SegNo(at)
  /\ pc' = "seal"
  /\ UNCHANGED <<server, wire, archive, xlogpos, at, to, cur_seg, confirmed_lsn, due, tasks, history>>

\* The buffered tail, under the key of its first byte, in place of what is there.
PutTail ==
  IF cur_seg.to > cur_seg.uploaded
    THEN PutChunk(cur_seg.uploaded, [from |-> cur_seg.from, to |-> cur_seg.to])
    ELSE UNCHANGED chunks

\* Mutant: the tail goes up, the chunk tasks are not waited for.
JoinChunksAndFlushTailUnjoined(from_pc, to_pc) ==
  /\ pc = from_pc
  /\ pc' = to_pc
  /\ PutTail
  /\ flushed' = at
  /\ UNCHANGED <<server, wire, sealed, xlogpos, at, to, cur_seg, confirmed_lsn, due, tasks,
                 origin, starts, faults, checkpoints>>

\* join_chunks_and_flush_tail.
JoinChunksAndFlushTail(from_pc, to_pc) ==
  /\ pc = from_pc
  /\ chunk_tasks = {} /\ ~failed
  /\ pc' = to_pc
  /\ PutTail
  /\ flushed' = at
  /\ UNCHANGED <<server, wire, sealed, xlogpos, at, to, cur_seg, confirmed_lsn, due, tasks,
                 origin, starts, faults, checkpoints>>

SealJoin == JoinChunksAndFlushTail("seal", "sealed")

\* The first failed task ends the connection.
JoinFailed ==
  /\ pc \in {"seal", "copy_done"}
  /\ failed
  /\ \E running \in SUBSET chunk_tasks : Disconnected(running)
  /\ UNCHANGED <<server, deletes, origin, starts, faults, checkpoints>>

\* The rest of seal_segment: the sealed object, the deletion of the chunks, the new
\* confirmed_lsn.
Seal(whole, confirmed) ==
  /\ pc = "sealed"
  /\ IF whole
       THEN /\ sealed' = [sealed EXCEPT ![cur_seg.seg] = [from |-> cur_seg.from, to |-> cur_seg.to]]
            /\ deletes' = deletes \cup {cur_seg.seg}
       ELSE UNCHANGED <<sealed, deletes>>
  /\ confirmed_lsn' = confirmed
  /\ wire' = wire \cup {confirmed_lsn'}
  /\ cur_seg' = NoSeg
  /\ pc' = "stream"
  /\ UNCHANGED <<server, chunks, xlogpos, at, to, due, chunk_tasks, failed, strays, history>>

\* Mutant: a segment whose start was never seen is sealed like any other.
SealSegmentPartial == Seal(TRUE, SegStart(cur_seg.seg + 1))

\* Mutant: the status says again what it said before.
SealSegmentUnconfirmed == Seal(~PartialSeg(cur_seg), confirmed_lsn)

\* A segment that streaming entered half-way stays in chunks.
SealSegment == Seal(~PartialSeg(cur_seg), SegStart(cur_seg.seg + 1))

\* A keepalive that asks for a reply, or KEEPALIVE_INTERVAL without a message.
SendStandbyStatus ==
  /\ pc = "stream" /\ at = to
  /\ pc' = "tail"
  /\ wire' = wire \cup {confirmed_lsn}
  /\ UNCHANGED <<server, archive, xlogpos, at, to, cur_seg, confirmed_lsn, due, tasks, history>>

\* maybe_flush_on_checkpoint after every message and timeout; the chunk tasks are not
\* waited for.
FlushOnCheckpoint(put) ==
  /\ pc = "tail"
  /\ pc' = "stream"
  /\ due' = FALSE
  /\ IF due THEN put /\ flushed' = at ELSE UNCHANGED <<chunks, flushed>>
  /\ UNCHANGED <<server, wire, sealed, xlogpos, at, to, cur_seg, confirmed_lsn, tasks,
                 origin, starts, faults, checkpoints>>

\* Mutant: only full chunks are worth a PUT.
MaybeFlushOnCheckpointSkipped == FlushOnCheckpoint(UNCHANGED chunks)

\* flush_tail_now.
MaybeFlushOnCheckpoint == FlushOnCheckpoint(PutTail)

\* CopyDone: the walsender ends the stream of its own accord.  (It does so when the
\* server shuts down; the receiver is not there any more to see it: Crash.)
CopyDone ==
  /\ pc = "stream" /\ at = to
  /\ faults < MaxFaults
  /\ faults' = faults + 1
  /\ pc' = "copy_done"
  /\ UNCHANGED <<server, wire, archive, xlogpos, at, to, cur_seg, confirmed_lsn, due, tasks,
                 origin, starts, flushed, checkpoints>>

FlushPartialTail == JoinChunksAndFlushTail("copy_done", "flushed")

\* run_streaming returns Ok.
StreamEnd ==
  /\ pc = "flushed"
  /\ Disconnected({})
  /\ UNCHANGED <<server, deletes, origin, starts, faults, checkpoints>>

StreamStep ==
  \/ Receive \/ HandleXLogData \/ SealBegin \/ SealJoin \/ JoinFailed \/ SealSegment
  \/ MaybeFlushOnCheckpoint \/ FlushPartialTail \/ StreamEnd

Next ==
  \/ WriteWal \/ Checkpoint \/ ServerStatus
  \/ ChunkPut \/ ChunkPutFail \/ StrayPut \/ DeleteChunks
  \/ Identify \/ StartReplication \/ ConnectionFail \/ Crash
  \/ StreamStep \/ SendStandbyStatus \/ CopyDone

\* wal_receiver_task reconnects for ever, with a backoff of at most a minute; Tokio
\* runs its tasks; a status that was sent arrives unless the connection ends; the
\* timeout of KEEPALIVE_INTERVAL ends every wait for a message.  Strong fairness of
\* Receive: the walsender sends the WAL it has, keepalives or not.
Fairness ==
  /\ WF_vars(Identify) /\ WF_vars(StartReplication)
  /\ WF_vars(StreamStep) /\ SF_vars(Receive)
  /\ WF_vars(ChunkPut)
  /\ WF_vars(ServerStatus)
  /\ WF_vars(SendStandbyStatus)

Spec     == Init /\ [][Next]_vars
FairSpec == Spec /\ Fairness

-----------------------------------------------------------------------------
(* Reading the archive *)

\* wal_seg_name: the segment number in sixteen hex digits, as two words.
WalSegName(s) == <<0, s>>

\* xlog_file_name: how PostgreSQL names a segment in restore_command.
XlogFileName(s) == <<s \div SegsPerLogId, s % SegsPerLogId>>

ChunkKeys(s) == {l \in Lsn : SegNo(l) = s /\ chunks[l] # NoObject}

\* The bytes of WAL in a chunk and in a sealed object.
ChunkBytesOf(l) == Max({l, chunks[l].from})..(chunks[l].to - 1)
SealedBytesOf(s) == sealed[s].from..(sealed[s].to - 1)

\* restore of tiko_restore: what the file that PostgreSQL asks for holds.  A chunk
\* that exceeds the segment is an error.
Restored(s) ==
  LET archived == {k \in SegNos : WalSegName(k) = XlogFileName(s)}
  IN UNION {IF sealed[k] # NoObject THEN SealedBytesOf(k)
            ELSE IF \E l \in ChunkKeys(k) : chunks[l].to > SegStart(k + 1) THEN {}
            ELSE UNION {ChunkBytesOf(l) : l \in ChunkKeys(k)} : k \in archived}

RestoredByte(b) == b \in Restored(SegNo(b))

\* archived_wal_run: the coverage of a segment, from its lowest chunk to the end of
\* its highest.
Archived   == {s \in SegNos : sealed[s] # NoObject \/ ChunkKeys(s) # {}}
SegLo(s) == IF sealed[s] # NoObject THEN SegStart(s) ELSE Min(ChunkKeys(s))
\* Mutant: the length of the last chunk is not added.
SegHiWithoutLength(s) ==
  IF sealed[s] # NoObject THEN SegStart(s + 1) ELSE Max(ChunkKeys(s))

SegHi(s) == IF sealed[s] # NoObject THEN SegStart(s + 1) ELSE chunks[Max(ChunkKeys(s))].to

\* wal_contiguous_run: from the highest segment down, as long as one follows the
\* other without a gap.
Follows(s) ==
  /\ {s - 1, s} \subseteq Archived
  /\ SegLo(s) = SegStart(s)
  /\ SegHi(s - 1) = SegLo(s)
WalContiguousRun ==
  LET top    == Max(Archived)
      bottom == Min({s \in Archived : \A k \in (s + 1)..top : Follows(k)})
  IN [lo |-> SegLo(bottom), hi |-> SegHi(top)]

-----------------------------------------------------------------------------
(* Properties *)

Segs  == [seg : SegNos, from : Lsn, to : Lsn, uploaded : Lsn]
Puts  == [at : Lsn, from : Lsn, to : Lsn]

\* Shapes; a buffer never leaves its segment.
TypeOK ==
  /\ walEnd \in Lsn
  /\ slot \in Lsn \cup {Absent, Null} /\ saved \in Lsn \cup {Absent, Null}
  /\ wire \subseteq Lsn
  /\ sealed \in [SegNos -> Object] /\ chunks \in [Lsn -> Object]
  /\ pc \in {"down", "identified", "stream", "seal", "sealed", "tail", "copy_done", "flushed"}
  /\ xlogpos \in Lsn /\ at \in Lsn /\ to \in Lsn
  /\ cur_seg \in Segs /\ confirmed_lsn \in Lsn
  /\ due \in BOOLEAN
  /\ chunk_tasks \subseteq Puts /\ failed \in BOOLEAN /\ strays \subseteq Puts
  /\ deletes \subseteq SegNos
  /\ origin \in Lsn /\ starts \subseteq Lsn /\ flushed \in Lsn
  /\ faults \in 0..MaxFaults /\ checkpoints \in 0..MaxCheckpoints
  /\ cur_seg # NoSeg => cur_seg.to <= SegStart(cur_seg.seg + 1)

\* PostgreSQL recycles WAL below the slot: all of it, from where the archive starts,
\* is restored by tiko_restore, whatever order chunks were uploaded in, whatever
\* still runs from an earlier connection and wherever a crash hit.
ConfirmedArchived == slot \in Lsn => \A b \in origin..(slot - 1) : RestoredByte(b)

\* A sealed object has no placeholder in it: it is preferred to chunks and taken
\* for a complete segment by restore and by the recovery window.
SealedWhole ==
  \A s \in SegNos :
    sealed[s] # NoObject => sealed[s] = [from |-> SegStart(s), to |-> SegStart(s + 1)]

\* Unless one of its PUTs has failed, a connection that has flushed its tail, at a
\* checkpoint, at the end of a segment or of the stream, has archived all it had received
\* once the chunk tasks are done: also after more WAL under the same keys, and, the
\* connection gone, for as long as the receiver is down.  That is what the archive has of
\* the last segment when the server has shut down.
TailArchived ==
  chunk_tasks = {} /\ ~failed => \A b \in origin..(flushed - 1) : RestoredByte(b)

\* ... and if nothing later is archived the recovery window says so: it ends there and
\* reaches back to where the archive starts, and no further if nothing was received from
\* before.  Not so if streaming has entered a segment at two offsets, which leaves it with
\* chunks of two layouts: every start but the earliest has to be the start of a segment.
TailWindow ==
  /\ chunk_tasks = {} /\ ~failed /\ flushed > origin
  /\ \A s \in Archived : SegHi(s) <= flushed
  /\ \A a, b \in starts : a < b => b = SegStart(SegNo(b))
  => /\ Archived # {}
     /\ WalContiguousRun.hi = flushed
     /\ WalContiguousRun.lo <= origin
     /\ (\A a \in starts : origin <= a) => WalContiguousRun.lo = origin

\* A segment that PostgreSQL has finished is confirmed in the end, so that it can
\* be recycled.
Confirmed ==
  \A s \in SegNos : walEnd > SegStart(s + 1) ~> slot >= SegStart(s + 1)
=============================================================================
