-------------------------------- MODULE Draft --------------------------------
(***************************************************************************)
(* The draft buffer (core/src/io/draft.rs): the chunks flushed and the     *)
(* relation metadata written since the last commit.                        *)
(*                                                                         *)
(* Backends record into a sharded set of chunk tags and a table of         *)
(* relation forks in shared memory, each behind a spinlock.  A table that  *)
(* fills up is spilled: all of them are emptied into a frame, which is     *)
(* appended to a file, and has_spilled is raised.  Readers look at the     *)
(* tables, the flag and the file.  A commit drains tables and file.        *)
(*                                                                         *)
(* Every call is made under the timeline's read lock, the drain under its  *)
(* write lock: a drain meets no other call.  Metadata is abstracted to the *)
(* number of the record that wrote it.                                     *)
(***************************************************************************)
EXTENDS Naturals, FiniteSets

CONSTANTS
  Backends,
  Chunks,
  Forks,
  NumShards,    \* CHUNK_NUM_SHARDS
  ShardOf,      \* the shard of each chunk: its hash modulo NumShards
  ShardCap,     \* CHUNK_SHARD_CAP
  RelforkCap,   \* RELFORK_ZONE_CAP
  MaxRecords,   \* bound: metadata versions ever recorded
  MaxFailures,  \* bound: file operations that fail
  Free          \* the spill lock when nobody holds it

Shards == 0..(NumShards - 1)

ASSUME DraftAssumption ==
  /\ NumShards \in Nat \ {0}
  /\ ShardOf \in [Chunks -> Shards]
  /\ ShardCap \in Nat \ {0}
  /\ RelforkCap \in Nat \ {0}
  /\ MaxRecords \in Nat
  /\ MaxFailures \in Nat
  /\ Free \notin Backends

VARIABLES
  shards,       \* ChunkZone: the tags in each shard
  relforks,     \* RelforkZone: fork -> version, 0 if absent
  spill_file,   \* the frames on file, merged in file order
  damaged,      \* the file has a frame that was cut off
  has_spilled,
  spill_lock,   \* who spills, or Free
  frame,        \* each backend's frame under construction
  call,         \* each backend's call
  drained,      \* the frame a drain has returned to the commit in progress
  versions,     \* metadata versions handed out
  failures      \* spills that failed

memory  == <<shards, relforks>>
file    == <<spill_file, damaged>>
history == <<drained, versions, failures>>
vars == <<memory, file, has_spilled, spill_lock, frame, call, history>>

EmptyFrame  == [chunks |-> {}, relforks |-> [f \in Forks |-> 0]]
EmptyShards == [s \in Shards |-> {}]
NoRelforks  == [f \in Forks |-> 0]
Idle        == [pc |-> "idle"]

\* What a record call will insert after its spill, if anything.
NoItem == [key |-> Free]

\* merge_frame: the later frame wins.
MergeFrame(a, b) ==
  [chunks   |-> a.chunks \cup b.chunks,
   relforks |-> [f \in Forks |-> IF b.relforks[f] # 0 THEN b.relforks[f] ELSE a.relforks[f]]]

\* The tables as a frame.
Tables == [chunks |-> UNION {shards[s] : s \in Shards}, relforks |-> relforks]

\* DRAFT_SPILL_WATERMARK_PCT
Watermark(cap) == (cap * 75) \div 100

Init ==
  /\ shards = EmptyShards
  /\ relforks = NoRelforks
  /\ spill_file = EmptyFrame
  /\ damaged = FALSE
  /\ has_spilled = FALSE
  /\ spill_lock = Free
  /\ frame = [b \in Backends |-> EmptyFrame]
  /\ call = [b \in Backends |-> Idle]
  /\ drained = EmptyFrame
  /\ versions = 0
  /\ failures = 0

-----------------------------------------------------------------------------
(* record_chunk and record_relfork *)

\* A call takes the timeline's read lock, which a commit holds for writing from
\* the drain until it has put the frame into its segment.
Start(b) == call[b].pc = "idle" /\ drained = EmptyFrame

\* The outcome of an insert that leaves `len` entries in a table.
Inserted(b, len, cap) ==
  call' = [call EXCEPT ![b] = IF len >= Watermark(cap) THEN [pc |-> "try_spill"] ELSE Idle]

\* ChunkShard::insert.  A tag that is there already needs no room.
InsertChunk(b, t) ==
  LET shard == shards[ShardOf[t]]
  IN /\ \/ /\ t \in shard
           /\ call' = [call EXCEPT ![b] = Idle]
           /\ UNCHANGED shards
        \/ /\ t \notin shard /\ Cardinality(shard) < ShardCap
           /\ shards' = [shards EXCEPT ![ShardOf[t]] = @ \cup {t}]
           /\ Inserted(b, Cardinality(shard) + 1, ShardCap)
        \/ /\ t \notin shard /\ Cardinality(shard) >= ShardCap
           /\ call' = [call EXCEPT ![b] = [pc |-> "spill", item |-> [zone |-> "chunks", key |-> t]]]
           /\ UNCHANGED shards
     /\ UNCHANGED <<relforks, file, has_spilled, spill_lock, frame, history>>

\* RelforkZone::insert.  A fork that is there already is overwritten.
InsertRelfork(b, f) ==
  LET len == Cardinality({g \in Forks : relforks[g] # 0})
  IN /\ versions < MaxRecords
     /\ \/ /\ relforks[f] # 0 \/ len < RelforkCap
           /\ versions' = versions + 1
           /\ relforks' = [relforks EXCEPT ![f] = versions + 1]
           /\ IF relforks[f] # 0 THEN call' = [call EXCEPT ![b] = Idle]
              ELSE Inserted(b, len + 1, RelforkCap)
        \/ /\ relforks[f] = 0 /\ len >= RelforkCap
           /\ call' = [call EXCEPT ![b] = [pc |-> "spill", item |-> [zone |-> "relforks", key |-> f]]]
           /\ UNCHANGED <<relforks, versions>>
     /\ UNCHANGED <<shards, file, has_spilled, spill_lock, frame, drained, failures>>

RecordChunk(b, t)   == Start(b) /\ InsertChunk(b, t)
RecordRelfork(b, f) == Start(b) /\ InsertRelfork(b, f)

\* The loop of either, after a blocking spill.
Retry(b) ==
  /\ call[b].pc = "insert"
  /\ IF call[b].item.zone = "chunks" THEN InsertChunk(b, call[b].item.key)
     ELSE InsertRelfork(b, call[b].item.key)

-----------------------------------------------------------------------------
(* Spilling *)

\* The rest of the call after its spill: a full table is tried again, above the
\* watermark there is nothing left to do.
Resume(b) ==
  IF call[b].item = NoItem THEN Idle ELSE [pc |-> "insert", item |-> call[b].item]

\* try_spill_to_file: give up if another spill is in progress.
TrySpill(b) ==
  /\ call[b].pc = "try_spill"
  /\ IF spill_lock = Free
     THEN /\ spill_lock' = b
          /\ call' = [call EXCEPT ![b] = [pc |-> "shards", next |-> 0, item |-> NoItem]]
     ELSE /\ call' = [call EXCEPT ![b] = Idle]
          /\ UNCHANGED spill_lock
  /\ frame' = [frame EXCEPT ![b] = EmptyFrame]
  /\ UNCHANGED <<memory, file, has_spilled, history>>

\* spill_to_file: wait for the lock.
SpillToFile(b) ==
  /\ call[b].pc = "spill"
  /\ spill_lock = Free
  /\ spill_lock' = b
  /\ call' = [call EXCEPT ![b] = [pc |-> "shards", next |-> 0, item |-> call[b].item]]
  /\ frame' = [frame EXCEPT ![b] = EmptyFrame]
  /\ UNCHANGED <<memory, file, has_spilled, history>>

\* ChunkZone::drain_into: shard after shard, each under its own lock.
DrainShard(b) ==
  /\ call[b].pc = "shards"
  /\ call[b].next < NumShards
  /\ frame' = [frame EXCEPT ![b].chunks = @ \cup shards[call[b].next]]
  /\ shards' = [shards EXCEPT ![call[b].next] = {}]
  /\ call' = [call EXCEPT ![b].next = @ + 1]
  /\ UNCHANGED <<relforks, file, has_spilled, spill_lock, history>>

\* RelforkZone::drain_into.  An empty frame ends the spill.
DrainRelforks(b) ==
  LET full == [frame[b] EXCEPT !.relforks = relforks]
  IN /\ call[b].pc = "shards"
     /\ call[b].next = NumShards
     /\ frame' = [frame EXCEPT ![b] = full]
     /\ relforks' = NoRelforks
     /\ IF full = EmptyFrame
        THEN /\ spill_lock' = Free
             /\ call' = [call EXCEPT ![b] = Resume(b)]
        ELSE /\ call' = [call EXCEPT ![b].pc = "length"]
             /\ UNCHANGED spill_lock
     /\ UNCHANGED <<shards, file, has_spilled, history>>

\* append_spill_frame writes the length, then the body: in between the file
\* ends in a frame without its body.
AppendLength(b) ==
  /\ call[b].pc = "length"
  /\ call' = [call EXCEPT ![b].pc = "body"]
  /\ UNCHANGED <<memory, file, has_spilled, spill_lock, frame, history>>

\* Mutant: the file is opened without append.
AppendBodyTruncating(b) ==
  /\ call[b].pc = "body"
  /\ spill_file' = frame[b]
  /\ frame' = [frame EXCEPT ![b] = EmptyFrame]
  /\ call' = [call EXCEPT ![b].pc = "flag"]
  /\ UNCHANGED <<memory, damaged, has_spilled, spill_lock, history>>

AppendBody(b) ==
  /\ call[b].pc = "body"
  /\ spill_file' = MergeFrame(spill_file, frame[b])
  /\ frame' = [frame EXCEPT ![b] = EmptyFrame]
  /\ call' = [call EXCEPT ![b].pc = "flag"]
  /\ UNCHANGED <<memory, damaged, has_spilled, spill_lock, history>>

\* has_spilled and spill_seq, then the lock is dropped.
SetSpilled(b) ==
  /\ call[b].pc = "flag"
  /\ has_spilled' = TRUE
  /\ spill_lock' = Free
  /\ call' = [call EXCEPT ![b] = Resume(b)]
  /\ UNCHANGED <<memory, file, frame, history>>

\* Mutant: the error path keeps the lock.
AppendFailKeepingLock(b) ==
  /\ call[b].pc \in {"length", "body"}
  /\ failures < MaxFailures
  /\ failures' = failures + 1
  /\ damaged' = (damaged \/ call[b].pc = "body")
  /\ frame' = [frame EXCEPT ![b] = EmptyFrame]
  /\ call' = [call EXCEPT ![b] = Idle]
  /\ UNCHANGED <<memory, spill_file, has_spilled, spill_lock, drained, versions>>

\* The file cannot be opened or written: the frame is lost, and a length
\* without a body stays in the file.  The caller of a blocking spill only logs
\* the error, the caller of the other does not look at it.
AppendFail(b) ==
  /\ call[b].pc \in {"length", "body"}
  /\ failures < MaxFailures
  /\ failures' = failures + 1
  /\ damaged' = (damaged \/ call[b].pc = "body")
  /\ frame' = [frame EXCEPT ![b] = EmptyFrame]
  /\ spill_lock' = Free
  /\ call' = [call EXCEPT ![b] = Idle]
  /\ UNCHANGED <<memory, spill_file, has_spilled, drained, versions>>

-----------------------------------------------------------------------------
(* Lookups *)

\* The frame of the spill in progress.
InFlight == IF spill_lock = Free THEN EmptyFrame ELSE frame[spill_lock]

\* Everything recorded and not yet drained, the latest record winning.
Contents == MergeFrame(MergeFrame(spill_file, InFlight), Tables)

\* What a lookup must find at least, if no spill is in progress when it starts:
\* what the draft holds then.
Floor == IF spill_lock = Free THEN Contents ELSE EmptyFrame

\* contains_chunk: the shard, then the flag.
ContainsChunk(b, t) ==
  LET floor == t \in Floor.chunks
  IN /\ Start(b)
     /\ call' = [call EXCEPT ![b] =
          IF t \in shards[ShardOf[t]]
          THEN [pc |-> "contained", key |-> t, floor |-> floor, val |-> TRUE]
          ELSE [pc |-> "contains", key |-> t, floor |-> floor]]
     /\ UNCHANGED <<memory, file, has_spilled, spill_lock, frame, history>>

ContainsFlag(b) ==
  /\ call[b].pc = "contains"
  /\ call' = [call EXCEPT ![b] = [pc |-> "contained", key |-> call[b].key,
                                  floor |-> call[b].floor, val |-> has_spilled]]
  /\ UNCHANGED <<memory, file, has_spilled, spill_lock, frame, history>>

\* get_relfork: the table, then the flag, then the file.
Got(c, v) == [pc |-> "got", key |-> c.key, floor |-> c.floor, val |-> v]
GetRelfork(b, f) ==
  LET c == [pc |-> "get", key |-> f, floor |-> Floor.relforks[f]]
  IN /\ Start(b)
     /\ call' = [call EXCEPT ![b] = IF relforks[f] # 0 THEN Got(c, relforks[f]) ELSE c]
     /\ UNCHANGED <<memory, file, has_spilled, spill_lock, frame, history>>

GetFlag(b) ==
  /\ call[b].pc = "get"
  /\ call' = [call EXCEPT ![b] = IF has_spilled THEN [call[b] EXCEPT !.pc = "read"]
                                 ELSE Got(call[b], 0)]
  /\ UNCHANGED <<memory, file, has_spilled, spill_lock, frame, history>>

\* A frame that is cut off, for good or because it is being written, is an error.
GetRead(b) ==
  /\ call[b].pc = "read"
  /\ call' = [call EXCEPT ![b] =
       IF damaged \/ \E o \in Backends : call[o].pc = "body"
       THEN [pc |-> "error"]
       ELSE Got(call[b], spill_file.relforks[call[b].key])]
  /\ UNCHANGED <<memory, file, has_spilled, spill_lock, frame, history>>

Return(b) ==
  /\ call[b].pc \in {"contained", "got", "error"}
  /\ call' = [call EXCEPT ![b] = Idle]
  /\ UNCHANGED <<memory, file, has_spilled, spill_lock, frame, history>>

-----------------------------------------------------------------------------
(* drain, by the checkpointer *)

\* The write lock of the timeline is free for it.
Alone == drained = EmptyFrame /\ \A b \in Backends : call[b].pc = "idle"

\* Spill what is in memory, read the file, delete it, lower the flag.
Drain ==
  /\ Alone
  /\ ~damaged
  /\ drained' = MergeFrame(spill_file, Tables)
  /\ spill_file' = EmptyFrame
  /\ shards' = EmptyShards
  /\ relforks' = NoRelforks
  /\ has_spilled' = FALSE
  /\ UNCHANGED <<damaged, spill_lock, frame, call, versions, failures>>

\* run_commit_protocol builds the segment from it and releases the lock.
CommitDrained ==
  /\ drained # EmptyFrame
  /\ drained' = EmptyFrame
  /\ UNCHANGED <<memory, file, has_spilled, spill_lock, frame, call, versions, failures>>

\* The spill fails: its frame is lost.
DrainSpillFail ==
  /\ Alone
  /\ Tables # EmptyFrame
  /\ failures < MaxFailures
  /\ failures' = failures + 1
  /\ damaged' \in {damaged, TRUE}
  /\ shards' = EmptyShards
  /\ relforks' = NoRelforks
  /\ UNCHANGED <<spill_file, has_spilled, spill_lock, frame, call, drained, versions>>

\* Mutant: the flag is lowered before the file is known to be gone.
DrainReadFailUnflagged ==
  /\ Alone
  /\ spill_file' = MergeFrame(spill_file, Tables)
  /\ shards' = EmptyShards
  /\ relforks' = NoRelforks
  /\ has_spilled' = FALSE
  /\ UNCHANGED <<damaged, spill_lock, frame, call, history>>

\* The file cannot be read or deleted: the memory is in it, the commit ends.
DrainReadFail ==
  /\ Alone
  /\ spill_file' = MergeFrame(spill_file, Tables)
  /\ shards' = EmptyShards
  /\ relforks' = NoRelforks
  /\ has_spilled' = (has_spilled \/ Tables # EmptyFrame)
  /\ UNCHANGED <<damaged, spill_lock, frame, call, history>>

-----------------------------------------------------------------------------
SpillStep(b) ==
  \/ TrySpill(b) \/ SpillToFile(b) \/ DrainShard(b) \/ DrainRelforks(b)
  \/ AppendLength(b) \/ AppendBody(b) \/ SetSpilled(b)

Lookup(b) ==
  \/ \E t \in Chunks : ContainsChunk(b, t)
  \/ \E f \in Forks : GetRelfork(b, f)
  \/ ContainsFlag(b) \/ GetFlag(b) \/ GetRead(b) \/ Return(b)

Next ==
  \/ \E b \in Backends :
       \/ \E t \in Chunks : RecordChunk(b, t)
       \/ \E f \in Forks : RecordRelfork(b, f)
       \/ Retry(b) \/ SpillStep(b) \/ AppendFail(b) \/ Lookup(b)
  \/ Drain \/ CommitDrained \/ DrainSpillFail \/ DrainReadFail

Spec == Init /\ [][Next]_vars

-----------------------------------------------------------------------------
(* Properties *)

Versions == 0..MaxRecords
Frames   == [chunks : SUBSET Chunks, relforks : [Forks -> Versions]]
Items    == [zone : {"chunks"}, key : Chunks] \cup [zone : {"relforks"}, key : Forks]
Spilling == {"shards", "length", "body", "flag"}
Calls ==
  [pc : {"idle", "try_spill", "error"}]
  \cup [pc : {"spill", "insert"}, item : Items]
  \cup [pc : Spilling, next : 0..NumShards, item : Items \cup {NoItem}]
  \cup [pc : {"contains"}, key : Chunks, floor : BOOLEAN]
  \cup [pc : {"contained"}, key : Chunks, floor : BOOLEAN, val : BOOLEAN]
  \cup [pc : {"get", "read"}, key : Forks, floor : Versions]
  \cup [pc : {"got"}, key : Forks, floor : Versions, val : Versions]

\* Shapes; a tag is only ever in its own shard, and the spill lock belongs to the
\* one backend that spills.
TypeOK ==
  /\ shards \in [Shards -> SUBSET Chunks]
  /\ \A s \in Shards, t \in Chunks : t \in shards[s] => ShardOf[t] = s
  /\ relforks \in [Forks -> Versions]
  /\ spill_file \in Frames
  /\ damaged \in BOOLEAN
  /\ has_spilled \in BOOLEAN
  /\ spill_lock \in Backends \cup {Free}
  /\ frame \in [Backends -> Frames]
  /\ call \in [Backends -> Calls]
  /\ drained \in Frames
  /\ versions \in Versions
  /\ failures \in 0..MaxFailures
  /\ \A b \in Backends : call[b].pc \in Spilling <=> spill_lock = b

\* The draft keeps the contract that the store builds on: wherever an entry is,
\* in a table, in the hands of a spilling backend or on file, it stays, the last
\* record of a fork wins across spills, and a drain returns exactly that.  Only
\* a failed spill loses entries.
Contract == INSTANCE DraftContract WITH contents <- Contents
KeepsContract == Contract!Spec

\* A lookup that starts between two spills is right, although spills may begin,
\* end or fail before it looks at the flag and the file: contains_chunk does not
\* deny a chunk that was recorded, and get_relfork finds the metadata recorded
\* last or later.  (A damaged or half-written file makes it an error.)
LookupsRegular ==
  \A b \in Backends :
    /\ call[b].pc = "contained" => (call[b].floor => call[b].val)
    /\ call[b].pc = "got" => call[b].val >= call[b].floor

\* "false negatives are impossible" (get_chunk): contains_chunk, called now, says
\* yes to every chunk that was recorded and not drained.
NoFalseNegative ==
  \A t \in Contents.chunks : t \in shards[ShardOf[t]] \/ has_spilled
=============================================================================
