---------------------------- MODULE TimelineStore ----------------------------
(***************************************************************************)
(* The timeline store (core/src/io/store.rs, timeline.rs, manifest.rs):    *)
(* how the version of a chunk that was written last is found again.        *)
(*                                                                         *)
(* Time is cut into checkpoint intervals.  A chunk flushed during an       *)
(* interval is PUT under the prefix of the checkpoint that opened it       *)
(* (head_ckpt) and noted in the draft.  A commit drains the draft into a   *)
(* SegmentCheckpoint, appends that to a segment file and to the active     *)
(* window, and opens the next interval.  Compaction folds segments into a  *)
(* base manifest (chunk -> prefix), publishes it, moves base_ckpt and      *)
(* deletes the segments it covers.  A reader probes draft, active window,  *)
(* segments and base manifest, in that order.                              *)
(*                                                                         *)
(* Backends, the checkpointer and the worker's compactor are processes     *)
(* that share the timeline state, the storage and one local manifest file  *)
(* (the TIKM file); each caches a base manifest of its own.  Checkpoints   *)
(* are numbers: on one PostgreSQL timeline (timeline_id, lsn) is ordered   *)
(* by lsn, and 0 is Checkpoint::default().                                 *)
(***************************************************************************)
EXTENDS Integers, FiniteSets, FiniteSetsExt

CONSTANTS
  Chunks,       \* chunk tags
  Backends,     \* processes that flush and read chunks
  WindowSize,   \* ACTIVE_WINDOW_SIZE
  SegRange,     \* TIMELINE_SEGMENT_LSN_RANGE
  MaxLsn,       \* bound: the last checkpoint position
  MaxWrites,    \* bound: chunk versions ever written
  MaxFailures,  \* bound: commits that fail after the draft was drained
  Basebackups   \* may a checkpoint be CHECKPOINT_CAUSE_BASEBACKUP?

Compactors == {"worker", "checkpointer"}
Procs      == Backends \cup Compactors
Lsn        == 0..MaxLsn
NoRef      == -1

ASSUME StoreAssumption ==
  /\ WindowSize \in Nat \ {0}
  /\ SegRange \in Nat \ {0}
  /\ MaxLsn \in Nat
  /\ MaxWrites \in Nat
  /\ MaxFailures \in Nat
  /\ Basebackups \in BOOLEAN
  /\ Backends \cap Compactors = {}

\* SegmentCheckpoint: the interval that ends at ckpt; its chunks are stored
\* under prev.
SegmentCheckpoint == [ckpt : Lsn, prev : Lsn, chunks : SUBSET Chunks]

\* Manifest: the checkpoint in its header and the ChunkRef of every chunk.
Manifest == [ckpt : Lsn, refs : [Chunks -> Lsn \cup {NoRef}]]
Empty    == [ckpt |-> 0, refs |-> [t \in Chunks |-> NoRef]]
Missing  == [ckpt |-> NoRef, refs |-> [t \in Chunks |-> NoRef]]

VARIABLES
  \* object storage
  obj,          \* chunk objects: obj[t][l] is the version of t under prefix l, 0 if absent
  segments,     \* the SegmentCheckpoints in the segment files
  bases,        \* base manifests by the checkpoint in their key, or Missing
  \* the local disk
  tikm,         \* the live base_manifest.tikm
  \* shared memory: TimelineState
  head_ckpt, redo_ckpt, base_ckpt, active_window, draft,
  compaction_paused, compaction_in_progress,
  \* processes
  cached,       \* each process's Store.base_manifest
  target,       \* base_manifest(): the base_ckpt it read
  rd,           \* each backend's get_chunk or patch_chunk call
  cpc, job,     \* each compactor's control and locals
  \* history
  writes,       \* versions handed out
  latest,       \* last version of each chunk whose flush has finished
  log,          \* every interval ever committed
  failures      \* commits that have failed

storage  == <<obj, segments, bases, tikm>>
timeline == <<head_ckpt, redo_ckpt, base_ckpt, active_window, draft>>
gate     == <<compaction_paused, compaction_in_progress>>
history  == <<writes, latest, log, failures>>
vars == <<storage, timeline, gate, cached, target, rd, cpc, job, history>>

Idle  == [pc |-> "idle"]
NoJob == [base |-> 0, upper |-> 0, through |-> FALSE, listed |-> {}, apply |-> {},
          applied |-> Empty, new |-> 0]

Init ==
  /\ obj = [t \in Chunks |-> [l \in Lsn |-> 0]]
  /\ segments = {}
  /\ bases = [l \in Lsn |-> Missing]
  /\ tikm = Empty
  /\ head_ckpt = 0 /\ redo_ckpt = 0 /\ base_ckpt = 0
  /\ active_window = {}
  /\ draft = {}
  /\ compaction_paused = FALSE
  /\ compaction_in_progress = 0
  /\ cached = [p \in Procs |-> Empty]
  /\ target = [p \in Procs |-> 0]
  /\ rd = [b \in Backends |-> Idle]
  /\ cpc = [c \in Compactors |-> "idle"]
  /\ job = [c \in Compactors |-> NoJob]
  /\ writes = 0
  /\ latest = [t \in Chunks |-> 0]
  /\ log = {}
  /\ failures = 0

-----------------------------------------------------------------------------
(* Segments and the read path *)

\* to_segment_id, and list_segments_in_range: the files that can hold a
\* checkpoint of the closed range low..high.
SegmentId(l) == l \div SegRange
ListSegments(low, high) ==
  {id \in {SegmentId(sc.ckpt) : sc \in segments} :
     SegmentId(low) <= id /\ id <= SegmentId(high)}

\* Mutant: a committed interval's chunks are looked for under the checkpoint
\* that ended it.
ProbeHitsUnderCkpt(t, fp) ==
  {l \in {sc.ckpt : sc \in {a \in active_window : t \in a.chunks \/ a.prev \in fp}}
         \cup (IF t \in draft \/ head_ckpt \in fp THEN {head_ckpt} ELSE {}) :
     obj[t][l] > 0}

\* Steps 1 and 2 of get_chunk: the prefixes with an object for t that the draft
\* and the active window lead to.  `fp` are the prefixes for which a filter (a
\* Bloom filter, the draft's spilled flag) answers yes for want of better.
ProbeHits(t, fp) ==
  {l \in {sc.prev : sc \in {a \in active_window : t \in a.chunks \/ a.prev \in fp}}
         \cup (IF t \in draft \/ head_ckpt \in fp THEN {head_ckpt} ELSE {}) :
     obj[t][l] > 0}

\* Mutant: the scan ends at the start of the oldest active interval, so the
\* interval that ends there falls between the two.
SegmentTopBelow ==
  IF active_window = {} THEN head_ckpt ELSE Min({a.prev : a \in active_window})

\* The end (exclusive) of what is left to the segment files: the oldest active
\* checkpoint.
SegmentTop ==
  IF active_window = {} THEN head_ckpt ELSE Min({a.ckpt : a \in active_window})

\* Step 3: the intervals low <= ckpt < top on file that lead to an object for
\* t; read_chunk_from_segments takes the newest.
SegmentHits(t, low, top) ==
  {sc \in segments : /\ low <= sc.ckpt /\ sc.ckpt < top
                     /\ t \in sc.chunks
                     /\ obj[t][sc.prev] > 0}
Newest(scs) == CHOOSE sc \in scs : \A o \in scs : o.ckpt <= sc.ckpt

\* load_manifest_at: the default checkpoint has an empty manifest, the TIKM
\* file serves the checkpoint in its header, storage everything else.
LoadManifestAt(l) ==
  IF l = 0 THEN Empty ELSE IF tikm.ckpt = l THEN tikm ELSE bases[l]

\* What base_manifest() returns to p when nothing happens meanwhile.
BaseManifest(p) ==
  IF cached[p].ckpt = base_ckpt THEN cached[p] ELSE LoadManifestAt(base_ckpt)

\* Step 4: the version the manifest leads to, 0 for not found.
Resolve(m, t) == IF m.refs[t] = NoRef THEN 0 ELSE obj[t][m.refs[t]]

\* The timeline read lock is held from the probe to the end of the segment
\* scan, and by patch_chunk from its PUT to its record.
ReadLocked == {b \in Backends : rd[b].pc \in {"put", "segs"}}

-----------------------------------------------------------------------------
(* patch_chunk: an evicted or checkpointed chunk is flushed *)

\* The PUT under the head prefix.  The cache flushes a slot under its io_lock:
\* two flushes of one chunk do not overlap.
PatchPut(b, t) ==
  /\ rd[b].pc = "idle"
  /\ writes < MaxWrites
  /\ ~ \E o \in Backends : rd[o].pc = "put" /\ rd[o].tag = t
  /\ writes' = writes + 1
  /\ obj' = [obj EXCEPT ![t][head_ckpt] = writes + 1]
  /\ rd' = [rd EXCEPT ![b] = [pc |-> "put", tag |-> t]]
  /\ UNCHANGED <<segments, bases, tikm, timeline, gate, cached, target, cpc, job,
                 latest, log, failures>>

\* record_chunk_eviction, then the read lock is dropped.
PatchRecord(b) ==
  /\ rd[b].pc = "put"
  /\ draft' = draft \cup {rd[b].tag}
  /\ latest' = [latest EXCEPT ![rd[b].tag] = obj[rd[b].tag][head_ckpt]]
  /\ rd' = [rd EXCEPT ![b] = Idle]
  /\ UNCHANGED <<storage, head_ckpt, redo_ckpt, base_ckpt, active_window, gate, cached,
                 target, cpc, job, writes, log, failures>>

-----------------------------------------------------------------------------
(* base_manifest(), for readers and compactors *)

\* The shared base_ckpt is read without the lock; the cached manifest serves
\* if its header matches.
ReadTarget(p) ==
  /\ target' = [target EXCEPT ![p] = base_ckpt]

\* Otherwise the manifest is loaded and cached.  What does not come from the
\* TIKM file is written to it: Manifest::empty and Manifest::from_bytes both do.
LoadTarget(p) ==
  /\ LoadManifestAt(target[p]) # Missing
  /\ tikm' = LoadManifestAt(target[p])
  /\ cached' = [cached EXCEPT ![p] = LoadManifestAt(target[p])]

-----------------------------------------------------------------------------
(* get_chunk *)

\* Take the read lock, probe draft and active window; on a miss list the
\* segment files between base_ckpt and the window.
GetProbe(b, t, fp) ==
  /\ rd[b].pc = "idle"
  /\ rd' = [rd EXCEPT ![b] =
       IF ProbeHits(t, fp) # {}
       THEN [pc |-> "done", tag |-> t, floor |-> latest[t],
             val |-> obj[t][Max(ProbeHits(t, fp))]]
       ELSE [pc |-> "segs", tag |-> t, floor |-> latest[t],
             low |-> base_ckpt, top |-> SegmentTop,
             listed |-> IF SegmentTop <= base_ckpt THEN {}
                        ELSE ListSegments(base_ckpt, SegmentTop)]]
  /\ UNCHANGED <<storage, timeline, gate, cached, target, cpc, job, history>>

\* Load the listed files, newest first, up to the one with the chunk.  A listed
\* file that is gone ends the read with the storage's NotFound.
GetSegments(b) ==
  /\ rd[b].pc = "segs"
  /\ LET r       == rd[b]
         hits    == SegmentHits(r.tag, r.low, r.top)
         reached == {id \in r.listed : \A sc \in hits : SegmentId(sc.ckpt) <= id}
         found(v) == [pc |-> "done", tag |-> r.tag, floor |-> r.floor, val |-> v]
     IN rd' = [rd EXCEPT ![b] =
          IF ~ reached \subseteq {SegmentId(sc.ckpt) : sc \in segments} THEN found(0)
          ELSE IF hits # {} THEN found(obj[r.tag][Newest(hits).prev])
          ELSE [pc |-> "base", tag |-> r.tag, floor |-> r.floor]]
  /\ UNCHANGED <<storage, timeline, gate, cached, target, cpc, job, history>>

\* Mutant: the cached manifest is used without comparing its header.
GetTargetUnchecked(b) ==
  /\ rd[b].pc = "base"
  /\ ReadTarget(b)
  /\ rd' = [rd EXCEPT ![b].pc = "ref"]
  /\ UNCHANGED <<storage, timeline, gate, cached, cpc, job, history>>

\* The lock is dropped; base_manifest() starts.
GetTarget(b) ==
  /\ rd[b].pc = "base"
  /\ ReadTarget(b)
  /\ rd' = [rd EXCEPT ![b] = [pc |-> IF cached[b].ckpt = base_ckpt THEN "ref" ELSE "load",
                              tag |-> rd[b].tag, floor |-> rd[b].floor]]
  /\ UNCHANGED <<storage, timeline, gate, cached, cpc, job, history>>

GetLoad(b) ==
  /\ rd[b].pc = "load"
  /\ LoadTarget(b)
  /\ rd' = [rd EXCEPT ![b] = [pc |-> "ref", tag |-> rd[b].tag, floor |-> rd[b].floor]]
  /\ UNCHANGED <<obj, segments, bases, timeline, gate, target, cpc, job, history>>

\* The object the manifest refers to, or not found.
GetRef(b) ==
  /\ rd[b].pc = "ref"
  /\ rd' = [rd EXCEPT ![b] = [pc |-> "done", tag |-> rd[b].tag, floor |-> rd[b].floor,
                              val |-> Resolve(cached[b], rd[b].tag)]]
  /\ UNCHANGED <<storage, timeline, gate, cached, target, cpc, job, history>>

GetReturn(b) ==
  /\ rd[b].pc = "done"
  /\ rd' = [rd EXCEPT ![b] = Idle]
  /\ UNCHANGED <<storage, timeline, gate, cached, target, cpc, job, history>>

-----------------------------------------------------------------------------
(* run_commit_protocol, under the write lock *)

\* push_active: the ring keeps the newest WindowSize entries.
PushActive(sc) ==
  LET w == active_window \cup {sc}
  IN {a \in w : Cardinality({o \in w : o.ckpt > a.ckpt}) < WindowSize}

\* PostgreSQL's positions only grow: a checkpoint lies past the last one, and
\* its redo point between the two.
CheckpointAt(c, r) ==
  /\ cpc["checkpointer"] = "idle"
  /\ ReadLocked = {}
  /\ c > head_ckpt /\ c > redo_ckpt
  /\ r >= head_ckpt /\ r >= redo_ckpt /\ r > 0 /\ r <= c
  /\ redo_ckpt' = r
  /\ draft' = {}

\* Drain the draft, append the interval to its segment file and the active
\* window, open the next interval.  A base backup goes on to compact.
Commit(c, r, backup) ==
  LET sc == [ckpt |-> c, prev |-> head_ckpt, chunks |-> draft]
  IN /\ CheckpointAt(c, r)
     /\ segments' = segments \cup {sc}
     /\ active_window' = PushActive(sc)
     /\ head_ckpt' = c
     /\ log' = log \cup {sc}
     /\ cpc' = [cpc EXCEPT !["checkpointer"] = IF backup THEN "pause" ELSE "idle"]
     /\ job' = [job EXCEPT !["checkpointer"] =
                  IF backup THEN [NoJob EXCEPT !.upper = c + 1, !.through = TRUE] ELSE NoJob]
     /\ UNCHANGED <<obj, bases, tikm, base_ckpt, gate, cached, target, rd,
                    writes, latest, failures>>

\* drain() has emptied the draft and deleted its spill file when the segment
\* cannot be loaded or written: the checkpoint ends with an error.
CommitFail(c, r) ==
  /\ CheckpointAt(c, r)
  /\ failures < MaxFailures
  /\ failures' = failures + 1
  /\ UNCHANGED <<storage, head_ckpt, base_ckpt, active_window, gate, cached, target, rd,
                 cpc, job, writes, latest, log>>

-----------------------------------------------------------------------------
(* Compaction: run_compaction by the worker, run_compaction_through by the *)
(* checkpointer of a base backup.  Both fold base < ckpt < upper; the      *)
(* latter's bound is its own checkpoint, included.                         *)

Goto(c, l) == cpc' = [cpc EXCEPT ![c] = l]

\* apply_segments: per chunk the highest prefix wins; the header moves to the
\* last interval with data.
ApplySegments(m, scs) ==
  [ckpt |-> IF \A sc \in scs : sc.chunks = {} THEN m.ckpt
            ELSE Max({sc.ckpt : sc \in {o \in scs : o.chunks # {}}}),
   refs |-> [t \in Chunks |->
               Max({m.refs[t]} \cup {sc.prev : sc \in {o \in scs : t \in o.chunks}})]]

\* compactor_task: a tick that finds compaction paused does nothing.
CompactorTick ==
  /\ cpc["worker"] = "idle"
  /\ ~compaction_paused
  /\ Goto("worker", "begin")
  /\ UNCHANGED <<storage, timeline, gate, cached, target, rd, job, history>>

\* CompactionGuard::new
CompactorBegin ==
  /\ cpc["worker"] = "begin"
  /\ compaction_in_progress' = compaction_in_progress + 1
  /\ Goto("worker", "snapshot")
  /\ UNCHANGED <<storage, timeline, compaction_paused, cached, target, rd, job, history>>

\* run_basebackup_compaction: pause, drain, compact, resume.
BackupPause ==
  /\ cpc["checkpointer"] = "pause"
  /\ compaction_paused' = TRUE
  /\ Goto("checkpointer", "drain")
  /\ UNCHANGED <<storage, timeline, compaction_in_progress, cached, target, rd, job, history>>

BackupDrain ==
  /\ cpc["checkpointer"] = "drain"
  /\ compaction_in_progress = 0
  /\ Goto("checkpointer", "snapshot")
  /\ UNCHANGED <<storage, timeline, gate, cached, target, rd, job, history>>

\* The checkpoints are read under the read lock; nothing between base_ckpt and
\* the bound ends the run.
CompactSnapshot(c) ==
  LET upper == IF job[c].through THEN job[c].upper
               ELSE IF redo_ckpt = 0 THEN head_ckpt ELSE redo_ckpt
  IN /\ cpc[c] = "snapshot"
     /\ job' = [job EXCEPT ![c].base = base_ckpt, ![c].upper = upper]
     /\ Goto(c, IF (IF job[c].through THEN upper - 1 ELSE upper) <= base_ckpt
                THEN "end" ELSE "list")
     /\ UNCHANGED <<storage, timeline, gate, cached, target, rd, history>>

\* Mutant: the interval at the bound itself is left out.
CompactLoadBelowBound(c) ==
  LET high == IF job[c].through THEN job[c].upper - 1 ELSE job[c].upper
      scs  == {sc \in segments : job[c].base < sc.ckpt /\ sc.ckpt < high}
  IN /\ cpc[c] = "list"
     /\ job' = [job EXCEPT ![c].listed = ListSegments(job[c].base, high), ![c].apply = scs]
     /\ Goto(c, IF scs = {} THEN "end" ELSE "base")
     /\ UNCHANGED <<storage, timeline, gate, cached, target, rd, history>>

\* List and load the segment files, keep the intervals to fold.
CompactLoad(c) ==
  LET high == IF job[c].through THEN job[c].upper - 1 ELSE job[c].upper
      ids  == ListSegments(job[c].base, high)
      scs  == {sc \in segments : job[c].base < sc.ckpt /\ sc.ckpt < job[c].upper}
  IN /\ cpc[c] = "list"
     /\ job' = [job EXCEPT ![c].listed = ids, ![c].apply = scs]
     /\ Goto(c, IF scs = {} THEN "end" ELSE "base")
     /\ UNCHANGED <<storage, timeline, gate, cached, target, rd, history>>

CompactTarget(c) ==
  /\ cpc[c] = "base"
  /\ ReadTarget(c)
  /\ Goto(c, IF cached[c].ckpt = base_ckpt THEN "put" ELSE "load")
  /\ UNCHANGED <<storage, timeline, gate, cached, rd, job, history>>

CompactFetch(c) ==
  /\ cpc[c] = "load"
  /\ LoadTarget(c)
  /\ Goto(c, "put")
  /\ UNCHANGED <<obj, segments, bases, timeline, gate, target, rd, job, history>>

\* Fold, and PUT the new base manifest.  run_compaction keys it by the last
\* interval folded, run_compaction_through by the manifest's own header.
CompactPut(c) ==
  LET applied == ApplySegments(cached[c], job[c].apply)
      new == IF job[c].through THEN applied.ckpt ELSE Newest(job[c].apply).ckpt
  IN /\ cpc[c] = "put"
     /\ bases' = [bases EXCEPT ![new] = applied]
     /\ job' = [job EXCEPT ![c].applied = applied, ![c].new = new]
     /\ Goto(c, "publish")
     /\ UNCHANGED <<obj, segments, tikm, timeline, gate, cached, target, rd, history>>

\* commit_applied: the TIKM file is replaced.
CompactPublish(c) ==
  /\ cpc[c] = "publish"
  /\ tikm' = job[c].applied
  /\ Goto(c, "set_base")
  /\ UNCHANGED <<obj, segments, bases, timeline, gate, cached, target, rd, job, history>>

\* Mutant: base_ckpt is moved without looking whether it moved meanwhile.
CompactSetBaseUnchecked(c) ==
  /\ cpc[c] = "set_base"
  /\ ReadLocked = {}
  /\ Goto(c, "delete")
  /\ base_ckpt' = job[c].new
  /\ cached' = [cached EXCEPT ![c] = job[c].applied]
  /\ UNCHANGED <<storage, head_ckpt, redo_ckpt, active_window, draft, gate, target, rd,
                 job, history>>

\* Under the write lock: give up if base_ckpt has moved (Raced), else move it
\* and cache the new manifest.
CompactSetBase(c) ==
  /\ cpc[c] = "set_base"
  /\ ReadLocked = {}
  /\ IF base_ckpt # job[c].base
     THEN /\ Goto(c, "end")
          /\ UNCHANGED <<base_ckpt, cached>>
     ELSE /\ Goto(c, "delete")
          /\ base_ckpt' = job[c].new
          /\ cached' = [cached EXCEPT ![c] = job[c].applied]
  /\ UNCHANGED <<storage, head_ckpt, redo_ckpt, active_window, draft, gate, target, rd,
                 job, history>>

\* Mutant: the file that straddles the new base is deleted too.
CompactDeleteStraddling(c) ==
  LET below == {id \in job[c].listed : id <= SegmentId(job[c].new)}
      id    == Min(below)
  IN /\ cpc[c] = "delete"
     /\ below # {}
     /\ segments' = {sc \in segments : SegmentId(sc.ckpt) # id}
     /\ job' = [job EXCEPT ![c].listed = @ \ {id}]
     /\ UNCHANGED <<obj, bases, tikm, timeline, gate, cached, target, rd, cpc, history>>

\* Delete the listed files below the one that holds the new base, oldest first.
\* One that cannot be deleted is left behind with a warning.
CompactDelete(c) ==
  LET below == {id \in job[c].listed : id < SegmentId(job[c].new)}
      id    == Min(below)
  IN /\ cpc[c] = "delete"
     /\ below # {}
     /\ \/ segments' = {sc \in segments : SegmentId(sc.ckpt) # id}
        \/ UNCHANGED segments
     /\ job' = [job EXCEPT ![c].listed = @ \ {id}]
     /\ UNCHANGED <<obj, bases, tikm, timeline, gate, cached, target, rd, cpc, history>>

CompactDeleted(c) ==
  /\ cpc[c] = "delete"
  /\ \A id \in job[c].listed : id >= SegmentId(job[c].new)
  /\ Goto(c, "end")
  /\ UNCHANGED <<storage, timeline, gate, cached, target, rd, job, history>>

\* Mutant: an error skips end_compaction (no RAII guard).
CompactFailLeaking(c) ==
  /\ cpc[c] \in {"list", "load", "put", "publish"}
  /\ Goto(c, "idle")
  /\ UNCHANGED <<storage, timeline, gate, cached, target, rd, job, history>>

\* Any storage or file operation before base_ckpt moves can fail: `?` returns.
CompactFail(c) ==
  /\ cpc[c] \in {"list", "load", "put", "publish"}
  /\ Goto(c, "end")
  /\ UNCHANGED <<storage, timeline, gate, cached, target, rd, job, history>>

\* The guard's drop (end_compaction), or resume_compaction.
CompactEnd(c) ==
  /\ cpc[c] = "end"
  /\ IF c = "worker"
     THEN /\ compaction_in_progress' = compaction_in_progress - 1
          /\ UNCHANGED compaction_paused
     ELSE /\ compaction_paused' = FALSE
          /\ UNCHANGED compaction_in_progress
  /\ job' = [job EXCEPT ![c] = NoJob]
  /\ Goto(c, "idle")
  /\ UNCHANGED <<storage, timeline, cached, target, rd, history>>

-----------------------------------------------------------------------------
BackendStep(b) ==
  \/ \E t \in Chunks : PatchPut(b, t)
  \/ PatchRecord(b)
  \/ \E t \in Chunks, fp \in SUBSET ({head_ckpt} \cup {a.prev : a \in active_window}) :
       GetProbe(b, t, fp)
  \/ GetSegments(b) \/ GetTarget(b) \/ GetLoad(b) \/ GetRef(b) \/ GetReturn(b)

Checkpoint ==
  \E c, r \in Lsn :
    \/ \E backup \in {FALSE, Basebackups} : Commit(c, r, backup)
    \/ CommitFail(c, r)

CompactStep(c) ==
  \/ CompactSnapshot(c) \/ CompactLoad(c) \/ CompactTarget(c) \/ CompactFetch(c)
  \/ CompactPut(c) \/ CompactPublish(c) \/ CompactSetBase(c)
  \/ CompactDelete(c) \/ CompactDeleted(c) \/ CompactFail(c) \/ CompactEnd(c)

Next ==
  \/ \E b \in Backends : BackendStep(b)
  \/ Checkpoint
  \/ CompactorTick \/ CompactorBegin \/ BackupPause \/ BackupDrain
  \/ \E c \in Compactors : CompactStep(c)

Spec == Init /\ [][Next]_vars

(***************************************************************************)
(* Fairness: the compactor task and the checkpointer are running threads,  *)
(* and a call that holds the read lock comes to its end.  A compactor      *)
(* waiting for the write lock gets it however often the lock is read: that *)
(* is what AtomicRWLock's pending bit is for (RWLock, WriterEnters).       *)
(* Nobody is obliged to read, flush, checkpoint or tick.                   *)
(***************************************************************************)
Fairness ==
  /\ WF_vars(CompactorBegin) /\ WF_vars(BackupPause) /\ WF_vars(BackupDrain)
  /\ \A c \in Compactors : WF_vars(CompactStep(c)) /\ SF_vars(CompactSetBase(c))
  /\ \A b \in Backends : WF_vars(PatchRecord(b) \/ GetSegments(b))

FairSpec == Spec /\ Fairness

-----------------------------------------------------------------------------
(* Properties *)

PcValues == {"idle", "begin", "pause", "drain", "snapshot", "list", "base", "load", "put",
             "publish", "set_base", "delete", "end"}
Jobs == [base : Lsn, upper : 0..(MaxLsn + 1), through : BOOLEAN, listed : SUBSET Nat,
         apply : SUBSET SegmentCheckpoint, applied : Manifest, new : Lsn]
Versions  == 0..MaxWrites
ReadCalls ==
  {Idle}
  \cup [pc : {"put"}, tag : Chunks]
  \cup [pc : {"segs"}, tag : Chunks, floor : Versions, low : Lsn, top : Lsn,
        listed : SUBSET Nat]
  \cup [pc : {"base", "load", "ref"}, tag : Chunks, floor : Versions]
  \cup [pc : {"done"}, tag : Chunks, floor : Versions, val : Versions]

\* Shapes, and the two facts the shared counters and locals must keep to mean
\* anything: compaction_in_progress counts the worker's one run, and whatever
\* is on file, in the window or being folded was committed.
TypeOK ==
  /\ obj \in [Chunks -> [Lsn -> Versions]]
  /\ bases \in [Lsn -> Manifest \cup {Missing}]
  /\ tikm \in Manifest
  /\ head_ckpt \in Lsn /\ redo_ckpt \in Lsn /\ base_ckpt \in Lsn
  /\ draft \in SUBSET Chunks
  /\ compaction_paused \in BOOLEAN
  /\ compaction_in_progress \in {0, 1}
  /\ cached \in [Procs -> Manifest]
  /\ target \in [Procs -> Lsn]
  /\ rd \in [Backends -> ReadCalls]
  /\ cpc \in [Compactors -> PcValues]
  /\ job \in [Compactors -> Jobs]
  /\ writes \in Versions
  /\ latest \in [Chunks -> Versions]
  /\ log \in SUBSET SegmentCheckpoint
  /\ segments \subseteq log /\ active_window \subseteq log
  /\ \A c \in Compactors : job[c].apply \subseteq log

\* What get_chunk returns to process p when it runs undisturbed.
Lookup(p, t, fp) ==
  LET hits == ProbeHits(t, fp)
      scs  == SegmentHits(t, base_ckpt, SegmentTop)
  IN IF hits # {} THEN obj[t][Max(hits)]
     ELSE IF scs # {} THEN obj[t][Newest(scs).prev]
     ELSE Resolve(BaseManifest(p), t)

\* get_chunk finds the version whose flush finished last, in every process,
\* whatever the filters answer, at every point of a concurrent commit or
\* compaction (a chunk with a flush in flight may show either version).
ReadLatest ==
  \A p \in Procs, t \in Chunks :
    (\A b \in Backends : rd[b].pc = "put" => rd[b].tag # t) =>
      \A fp \in {{}, Lsn} : Lookup(p, t, fp) = latest[t]

\* A get_chunk call that overlaps commits and compactions returns a version at
\* least as new as the last one finished when it started: no stale version, and
\* no "not found" for a chunk that exists (which the cache's patch_chunk would
\* take for a chunk of zeros).
ReadRegular ==
  \A b \in Backends : rd[b].pc = "done" => rd[b].val >= rd[b].floor

\* m accounts for every chunk of interval sc, with its version or a later one.
Covers(m, sc) == \A t \in sc.chunks : m.refs[t] >= sc.prev

\* "correctness is never compromised" (compactor.rs): an interval that was
\* committed is on file above base_ckpt or covered by the base manifest that
\* any process gets; compaction failing or racing at any step loses none.
NoIntervalLost ==
  \A sc \in log, p \in Procs :
    \/ sc \in segments /\ base_ckpt < sc.ckpt
    \/ Covers(BaseManifest(p), sc)

\* m is the chunk map as of checkpoint l.
MapAt(m, l) ==
  \A t \in Chunks : m.refs[t] = Max({NoRef} \cup
    {sc.prev : sc \in {o \in log : o.ckpt <= l /\ t \in o.chunks}})

\* materialize_base_manifest_at: the newest base manifest at or before l.
Anchors(l) == {k \in Lsn : k <= l /\ bases[k] # Missing}

\* "The newest manifest <= ckpt is the correct anchor": once the checkpointer
\* of a base backup has put its manifest, what recovery would install for the
\* backup is the chunk map at exactly the backup's checkpoint, though the
\* worker may be compacting too.
BackupAnchored ==
  cpc["checkpointer"] \in {"publish", "set_base", "delete"} =>
    LET backup == job["checkpointer"].upper - 1
    IN Anchors(backup) # {} /\ MapAt(bases[Max(Anchors(backup))], backup)

\* A base backup never stops compaction for good: the drain ends and the pause
\* flag is cleared, also when the compaction fails.
PauseEnds == compaction_paused ~> ~compaction_paused

\* "The checkpoint is naturally idempotent" (checkpoint.rs): once a checkpoint
\* succeeds (head_ckpt is past redo_ckpt again), a failed attempt before it has
\* left nothing behind and every finished flush is found.
CommitIdempotent == head_ckpt > redo_ckpt => ReadLatest
=============================================================================
