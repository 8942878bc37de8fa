------------------------------ MODULE Recovery ------------------------------
(***************************************************************************)
(* What a database finds after a stop: restart and hydration of the store  *)
(* (core/src/io/store.rs), base backups, point-in-time recovery            *)
(* (cli/src/bin/tiko_pitr.rs, core/src/pitr.rs) and branches               *)
(* (cli/src/bin/tiko_branch.rs), with crashes of PostgreSQL and of the     *)
(* tool between any two steps.                                             *)
(*                                                                         *)
(* The operations of a running store are atomic here: their interleavings  *)
(* are those of TimelineStore, Draft, ChunkCache and MetaCache.  Items are *)
(* chunks, whose contents are objects in storage, and relation forks,      *)
(* whose metadata are in the segments themselves.  What an item holds is   *)
(* the set of WAL records applied to it.                                   *)
(***************************************************************************)
EXTENDS Integers, FiniteSets, Sequences, Functions, FiniteSetsExt

CONSTANTS
  Chunks,
  InitdbChunks, \* those that initdb has made, under the prefix (0, 0)
  Relforks,     \* numbers: a RelforkIndex is sorted
  WindowSize,   \* ACTIVE_WINDOW_SIZE
  SegRange,     \* TIMELINE_SEGMENT_LSN_RANGE
  IndexCap,     \* RELFORK_INDEX_CAP
  MaxRecords,   \* bound: WAL records of changes, on all timelines
  MaxCheckpoints,  \* bound: checkpoints after that of initdb
  MaxRecovers,  \* bound: point-in-time recoveries started
  MaxEvents     \* bound: recoveries, branches, spills, failed compactions, crashes of PostgreSQL or the tool

Items == Chunks \cup Relforks

ASSUME RecoveryAssumption ==
  /\ Chunks \cap Relforks = {} /\ Relforks \subseteq Nat
  /\ IsFiniteSet(Items) /\ InitdbChunks \subseteq Chunks
  /\ WindowSize \in Nat \ {0} /\ SegRange \in Nat \ {0} /\ IndexCap \in Nat
  /\ MaxRecords \in Nat /\ MaxCheckpoints \in Nat /\ MaxRecovers \in Nat /\ MaxEvents \in Nat

VARIABLES
  \* PostgreSQL
  pg,       \* "down", "up", or "recovering" until it promotes
  db,       \* TIKO_DB_ID of the database that is followed: 0, or 1 for a branch of it
  wal,      \* the records written so far: the item and the LSN of each
  line,     \* the records on each timeline of each database
  ends,     \* the LSN at which each of them ends
  pgdata, bak,  \* PGDATA and {pgdata}.tiko_pitr_bak
  ck,       \* the checkpoint under way
  comp,     \* the compaction under way
  \* the memory of the instance
  cache,    \* dirty items
  shm,      \* TimelineState
  \* storage
  objs,     \* chunk objects, by <<db, checkpoint prefix>>
  segs,     \* the checkpoints in the timeline segments
  bases,    \* base manifests, by <<db, checkpoint>>
  backups,
  \* local files: at most one base_manifest.tikm, and draft.spill
  tikm, spill,
  rec,      \* tiko_pitr recover
  \* history
  gone,     \* segment checkpoints deleted
  spoiled, abandoned, unanchored,   \* see Properties
  taken, recovers, events

pgVars   == <<pg, db, wal, line, ends, pgdata, bak>>
memory   == <<ck, comp, cache, shm>>
storage  == <<objs, segs, bases, backups>>
local    == <<tikm, spill>>
counters == <<taken, recovers, events>>
history  == <<gone, spoiled, abandoned, unanchored>>
vars     == <<pgVars, memory, storage, local, rec, history, counters>>

-----------------------------------------------------------------------------
(* Checkpoints: (timeline, lsn), in lexicographic order *)

\* A record and a checkpoint take one LSN each, the checkpoint of initdb the first one.
MaxLsn    == MaxRecords + MaxCheckpoints + 1
Lsns      == 0..MaxLsn
Timelines == 1..(MaxRecovers + 1)
Ckpt(t, l)    == t * (MaxLsn + 1) + l
TimelineOf(c) == c \div (MaxLsn + 1)
LsnOf(c)      == c % (MaxLsn + 1)
Ckpts         == 0..Ckpt(MaxRecovers + 1, MaxLsn)
SegmentId(c)  == Ckpt(TimelineOf(c), LsnOf(c) \div SegRange)

NoItems == [i \in {} |-> {}]

\* A function with one value replaced or added, and one overridden by another.
Put(f, k, v)   == [x \in DOMAIN f \cup {k} |-> IF x = k THEN v ELSE f[x]]
Override(g, f) == [x \in DOMAIN f \cup DOMAIN g |-> IF x \in DOMAIN g THEN g[x] ELSE f[x]]

Empty   == [ckpt |-> 0, refs |-> NoItems, rels |-> NoItems]

Newest(S) == CHOOSE s \in S : \A r \in S : r.ckpt <= s.ckpt

\* Mutant: nothing leaves the window.
WindowUnbounded(S) == S

\* iter_active sees the newest checkpoints pushed.
Window(S) == {s \in S : Cardinality({r \in S : r.ckpt > s.ckpt}) < WindowSize}

\* The state before hydration: everything at (0, 0).
Fresh  == [head |-> 0, base |-> 0, redo |-> 0, active |-> {}, draft |-> NoItems, spilled |-> FALSE]
NoCk   == [pc |-> "idle", kind |-> "online", redo |-> 0, ckpt |-> 0]
NoComp == [pc |-> "idle", inline |-> FALSE, from |-> 0, key |-> 0, m |-> Empty]
NoRec  == [pc |-> "idle", b |-> [db |-> 0, ckpt |-> 0, redo |-> 0], target |-> 0, saved |-> {}, lost |-> {}]
\* PGDATA while it is being deleted or copied.
Torn   == [ok |-> FALSE, tl |-> 0, ckpt |-> 0, redo |-> 0, target |-> 0]

Lines == {0, 1} \X Timelines
Here  == <<db, pgdata.tl>>
Lsn   == ends[Here]

\* A new database: initdb has committed a checkpoint, and its records are not told apart.
Initdb == [db |-> 0, ckpt |-> Ckpt(1, 1), prev |-> 0, chunks |-> InitdbChunks, rels |-> NoItems]

Init ==
  /\ pg = "up" /\ db = 0
  /\ wal = <<>> /\ line = [k \in Lines |-> {}] /\ ends = [k \in Lines |-> IF k = <<0, 1>> THEN 1 ELSE 0]
  /\ pgdata = [ok |-> TRUE, tl |-> 1, ckpt |-> Initdb.ckpt, redo |-> 0, target |-> 0]
  /\ bak = {}
  /\ ck = NoCk /\ comp = NoComp
  /\ cache = NoItems /\ shm = [Fresh EXCEPT !.head = Initdb.ckpt, !.active = {Initdb}]
  /\ objs = [c \in Chunks |-> IF c \in InitdbChunks THEN Put(NoItems, <<0, 0>>, {}) ELSE NoItems]
  /\ segs = {Initdb} /\ bases = NoItems /\ backups = {}
  /\ tikm = {Empty} /\ spill = NoItems
  /\ rec = NoRec
  /\ gone = {} /\ spoiled = {} /\ abandoned = {} /\ unanchored = {}
  /\ taken = 0 /\ recovers = 0 /\ events = 0

Event == events < MaxEvents /\ events' = events + 1

-----------------------------------------------------------------------------
(* Lookups *)

SegsHere == {s \in segs : s.db = db}

\* load_manifest_at: the manifests that base_manifest may return; none is an error.
ManifestsAt(c) ==
  IF c = 0 THEN {Empty}
  ELSE LET same == {m \in tikm : m.ckpt = c}
       IN IF same # {} THEN same
          ELSE IF <<db, c>> \in DOMAIN bases THEN {bases[<<db, c>>]} ELSE {}

\* What a manifest says of an item.
Resolve(m, i) ==
  IF i \in Chunks
    THEN IF i \in DOMAIN m.refs /\ m.refs[i] \in DOMAIN objs[i] THEN objs[i][m.refs[i]] ELSE {}
    ELSE IF i \in DOMAIN m.rels THEN m.rels[i] ELSE {}

ItemsOf(s) == s.chunks \cup DOMAIN s.rels

\* try_read_chunk_at for the checkpoints of S that have the chunk.
Holding(c, S) == {s \in S : c \in s.chunks /\ <<db, s.prev>> \in DOMAIN objs[c]}

\* get_chunk.  The filter of an active checkpoint is exact here.
GetChunk(c) ==
  LET top    == IF shm.active = {} THEN shm.head ELSE Min({s.ckpt : s \in shm.active})
      active == Holding(c, shm.active)
      below  == Holding(c, {s \in SegsHere : shm.base <= s.ckpt /\ s.ckpt < top})
  IN IF (c \in DOMAIN shm.draft \/ shm.spilled) /\ <<db, shm.head>> \in DOMAIN objs[c]
       THEN objs[c][<<db, shm.head>>]
     ELSE IF active # {} THEN objs[c][<<db, Newest(active).prev>>]
     ELSE IF below # {} THEN objs[c][<<db, Newest(below).prev>>]
     ELSE UNION {Resolve(m, c) : m \in ManifestsAt(shm.base)}

\* RelforkIndex: the first entries in order, and whether there were more.
Indexed(s)    == {r \in DOMAIN s.rels : Cardinality({q \in DOMAIN s.rels : q < r}) < IndexCap}
Overflowed(s) == Cardinality(DOMAIN s.rels) > IndexCap

\* A Hit or an Inconclusive ends the walk along the active window.
Stops(r, s) == r \in Indexed(s) \/ Overflowed(s)

\* get_meta.
GetMeta(r) ==
  LET stops == {s \in shm.active : Stops(r, s)}
      top   == IF stops # {} THEN Newest(stops).ckpt
               ELSE IF shm.active # {} THEN Min({s.ckpt : s \in shm.active})
               ELSE shm.head
      below == {s \in SegsHere : /\ shm.base <= s.ckpt /\ s.ckpt <= top
                                 /\ r \in DOMAIN s.rels}
  IN IF r \in DOMAIN shm.draft THEN shm.draft[r]
     ELSE IF shm.spilled /\ r \in DOMAIN spill THEN spill[r]
     ELSE IF stops # {} /\ r \in Indexed(Newest(stops)) THEN Newest(stops).rels[r]
     ELSE IF below # {} THEN Newest(below).rels[r]
     ELSE UNION {Resolve(m, r) : m \in ManifestsAt(shm.base)}

Lookup(i) == IF i \in Chunks THEN GetChunk(i) ELSE GetMeta(i)

-----------------------------------------------------------------------------
(* A running database *)

Running == pg = "up" /\ ck.kind # "shutdown"

\* A change of an item, logged and made in the caches.  Without its base manifest the
\* store gives an error.
Write(i) ==
  LET r == Len(wal) + 1
      c == IF i \in DOMAIN cache THEN cache[i] ELSE Lookup(i)
  IN /\ Running /\ Len(wal) < MaxRecords
     /\ i \in DOMAIN cache \/ ManifestsAt(shm.base) # {}
     /\ wal' = Append(wal, [item |-> i, lsn |-> Lsn + 1])
     /\ ends' = [ends EXCEPT ![Here] = @ + 1]
     /\ line' = [line EXCEPT ![Here] = @ \cup {r}]
     /\ cache' = Put(cache, i, c \cup {r})
     /\ UNCHANGED <<pg, db, pgdata, bak, ck, comp, shm, storage, local, rec, history, counters>>

\* Items written back: patch_chunk puts the object under the head's prefix, put_meta
\* records the metadata.
WriteBack(I) ==
  /\ cache' = Restrict(cache, DOMAIN cache \ I)
  /\ shm' = [shm EXCEPT !.draft = Override([i \in I |-> IF i \in Chunks THEN {} ELSE cache[i]], @)]
  /\ objs' = [c \in Chunks |-> IF c \in I THEN Put(objs[c], <<db, shm.head>>, cache[c]) ELSE objs[c]]

Evict(i) ==
  /\ pg # "down"
  /\ i \in DOMAIN cache
  /\ WriteBack({i})
  /\ UNCHANGED <<pgVars, ck, comp, segs, bases, backups, local, rec, history, counters>>

\* spill_to_file.
Spill ==
  /\ pg # "down"
  /\ Event
  /\ shm.draft # NoItems
  /\ spill' = Override(shm.draft, spill)
  /\ shm' = [shm EXCEPT !.draft = NoItems, !.spilled = TRUE]
  /\ UNCHANGED <<pgVars, ck, comp, cache, storage, tikm, rec, history, taken, recovers>>

\* A process finds that the local manifest is not the one it needs and loads that
\* one, which replaces the file.
LoadManifest ==
  /\ pg # "down"
  /\ \A m \in tikm : m.ckpt # shm.base
  /\ ManifestsAt(shm.base) \notin {{}, tikm}
  /\ tikm' = ManifestsAt(shm.base)
  /\ UNCHANGED <<pgVars, memory, storage, spill, rec, history, counters>>

-----------------------------------------------------------------------------
(* Checkpoints *)

\* A checkpoint fixes its redo position and flushes the caches; before a shutdown
\* the worker is killed, with its compaction.
CheckpointStart(kind) ==
  /\ pg = "up"
  /\ ck.pc = "idle"
  /\ taken < MaxCheckpoints
  /\ taken' = taken + 1
  /\ ck' = [pc |-> "flushed", kind |-> kind, redo |-> Lsn, ckpt |-> 0]
  /\ comp' = IF kind = "shutdown" THEN NoComp ELSE comp
  /\ WriteBack(DOMAIN cache)
  /\ UNCHANGED <<pgVars, segs, bases, backups, local, rec, history, recovers, events>>

\* The checkpoint is added to its timeline segment, and takes its place in the window.
PushSegment(s) == segs' = segs \cup {s}
PushActive(s)  == Window(shm.active \cup {s})

\* run_commit_protocol under the write lock: drain, commit_segment, push_active.
Commit ==
  LET c   == Ckpt(pgdata.tl, Lsn + 1)
      all == Override(shm.draft, spill)
      s   == [db |-> db, ckpt |-> c, prev |-> shm.head, chunks |-> DOMAIN all \cap Chunks,
              rels |-> Restrict(all, DOMAIN all \cap Relforks)]
  IN /\ ck.pc = "flushed"
     /\ ends' = [ends EXCEPT ![Here] = @ + 1]
     /\ PushSegment(s)
     /\ shm' = [shm EXCEPT !.head = c, !.redo = Ckpt(pgdata.tl, ck.redo),
                           !.active = PushActive(s), !.draft = NoItems, !.spilled = FALSE]
     /\ spill' = NoItems
     /\ ck' = [ck EXCEPT !.pc = IF ck.kind = "online" THEN "end" ELSE "compact", !.ckpt = c]
     /\ UNCHANGED <<pg, db, wal, line, pgdata, bak, comp, cache, objs, bases, backups, tikm, rec,
                    history, counters>>

\* The database's processes are gone, and shared memory with them.
StopPg == pg' = "down" /\ shm' = Fresh /\ cache' = NoItems

\* put_backup, at the end of tiko_pitr backup: the label gives checkpoint and redo
\* position.
PutBackup == backups' = backups \cup {[db |-> db, ckpt |-> ck.ckpt, redo |-> ck.redo]}

\* PostgreSQL writes its control file; the base backup whose checkpoint this was is
\* uploaded; a shutdown is complete.
CheckpointEnd ==
  /\ ck.pc = "end"
  /\ pgdata' = [pgdata EXCEPT !.ckpt = ck.ckpt, !.redo = ck.redo]
  /\ IF ck.kind = "backup" THEN PutBackup ELSE UNCHANGED backups
  /\ IF ck.kind = "shutdown" THEN StopPg ELSE UNCHANGED <<pg, shm, cache>>
  /\ ck' = NoCk
  /\ UNCHANGED <<db, wal, line, ends, bak, comp, objs, segs, bases, local, rec, history, counters>>

-----------------------------------------------------------------------------
(* Compaction *)

\* Mutant: a base backup folds like any other compaction, strictly below.
ToApplyBelow(through) ==
  LET upper == IF shm.redo = 0 THEN shm.head ELSE shm.redo
  IN {s \in SegsHere : s.ckpt > shm.base /\ s.ckpt < upper}

\* The checkpoints to fold: strictly below the redo position, or up to the backup's
\* checkpoint.
ToApply(through) ==
  LET upper == IF shm.redo = 0 THEN shm.head ELSE shm.redo
  IN {s \in SegsHere : /\ s.ckpt > shm.base
                       /\ IF through THEN s.ckpt <= ck.ckpt ELSE s.ckpt < upper}

\* apply_segments: of the references to a chunk the one with the highest LSN wins.
ApplyRef(c, m, S) ==
  LET new  == {s.prev : s \in {r \in S : c \in r.chunks}}
      best == CHOOSE p \in new : \A q \in new : LsnOf(q) <= LsnOf(p)
  IN IF new = {} \/ (c \in DOMAIN m.refs /\ LsnOf(best) <= LsnOf(m.refs[c][2]))
       THEN m.refs[c] ELSE <<db, best>>

ApplySegments(m, S) ==
  LET full    == {s \in S : s.chunks # {} \/ s.rels # NoItems}
      with(r) == {s \in S : r \in DOMAIN s.rels}
  IN [ckpt |-> IF full = {} THEN m.ckpt ELSE Newest(full).ckpt,
      refs |-> [c \in DOMAIN m.refs \cup UNION {s.chunks : s \in S} |-> ApplyRef(c, m, S)],
      rels |-> [r \in DOMAIN m.rels \cup UNION {DOMAIN s.rels : s \in S} |->
                  IF with(r) = {} THEN m.rels[r] ELSE Newest(with(r)).rels[r]]]

\* Chunks whose newest version the fold drops: that of the first interval after a
\* recovery, which is under the prefix (0, 0).
Outranked(m, S) ==
  {c \in UNION {s.chunks : s \in S} :
     ApplyRef(c, m, S) # <<db, Newest({s \in S : c \in s.chunks}).prev>>}

\* run_compaction of the worker or of a shutdown, run_compaction_through of a base
\* backup: the new manifest is put, ...
CompactPut(through) ==
  LET S == ToApply(through)
  IN /\ comp.pc = "idle"
     /\ IF ck.pc = "compact" THEN through = (ck.kind = "backup") ELSE Running /\ ~through
     /\ S # {}
     /\ \E m \in ManifestsAt(shm.base) :
          LET new == ApplySegments(m, S)
              key == IF through THEN new.ckpt ELSE Newest(S).ckpt
          IN /\ comp' = [pc |-> "put", inline |-> ck.pc = "compact", from |-> shm.base, key |-> key, m |-> new]
             /\ bases' = Put(bases, <<db, key>>, new)
             /\ spoiled' = spoiled \cup Outranked(m, S)
     /\ UNCHANGED <<pgVars, ck, cache, shm, objs, segs, backups, local, rec, gone, abandoned,
                    unanchored, counters>>

\* ... then it replaces the local file, ...
CompactPublish ==
  /\ comp.pc = "put"
  /\ tikm' = {comp.m}
  /\ comp' = [comp EXCEPT !.pc = "published"]
  /\ UNCHANGED <<pgVars, ck, cache, shm, storage, spill, rec, history, counters>>

\* ... base_ckpt is advanced, ...
CompactAdvance ==
  /\ comp.pc = "published"
  /\ shm' = [shm EXCEPT !.base = comp.key]
  /\ comp' = [comp EXCEPT !.pc = "delete"]
  /\ UNCHANGED <<pgVars, ck, cache, storage, local, rec, history, counters>>

\* Mutant: the segment that the new base is in is deleted too.
FoldedInclusive ==
  {s \in SegsHere : /\ SegmentId(comp.from) <= SegmentId(s.ckpt)
                    /\ SegmentId(s.ckpt) <= SegmentId(comp.key)}

\* The segments wholly below the new base.
Folded ==
  {s \in SegsHere : /\ SegmentId(comp.from) <= SegmentId(s.ckpt)
                    /\ SegmentId(s.ckpt) < SegmentId(comp.key)}

\* ... and the segments below it are deleted.
CompactDelete ==
  /\ comp.pc = "delete"
  /\ segs' = segs \ Folded
  /\ gone' = gone \cup Folded
  /\ comp' = NoComp
  /\ ck' = IF comp.inline THEN [ck EXCEPT !.pc = "end"] ELSE ck
  /\ UNCHANGED <<pgVars, cache, shm, objs, bases, backups, local, rec, spoiled, abandoned,
                 unanchored, counters>>

\* A checkpoint with nothing to fold.
NoNewSegments ==
  /\ ck.pc = "compact"
  /\ comp.pc = "idle"
  /\ ToApply(ck.kind = "backup") = {}
  /\ ck' = [ck EXCEPT !.pc = "end"]
  /\ UNCHANGED <<pgVars, comp, cache, shm, storage, local, rec, history, counters>>

\* A compaction fails: that of a checkpoint when it reads the segments or the manifest or
\* puts the new one, any other or the same when it replaces the local file (a worker that
\* fails before that has changed nothing).  The checkpoint gives a warning and goes on.
CompactFail ==
  LET early == comp.pc = "idle"
  IN /\ \/ early /\ ck.pc = "compact" /\ ToApply(ck.kind = "backup") # {}
        \/ comp.pc = "put"
     /\ IF early /\ ManifestsAt(shm.base) = {} THEN UNCHANGED events ELSE Event
     /\ comp' = NoComp
     /\ ck' = IF early \/ comp.inline THEN [ck EXCEPT !.pc = "end"] ELSE ck
     /\ unanchored' = IF early /\ ck.kind = "backup" THEN unanchored \cup {<<db, ck.ckpt>>}
                      ELSE unanchored
     /\ UNCHANGED <<pgVars, cache, shm, storage, local, rec, gone, spoiled, abandoned,
                    taken, recovers>>

-----------------------------------------------------------------------------
(* Crash and restart *)

Crash ==
  /\ pg # "down"
  /\ Event
  /\ StopPg
  /\ ck' = NoCk /\ comp' = NoComp
  /\ UNCHANGED <<db, wal, line, ends, pgdata, bak, storage, local, rec, history, taken, recovers>>

\* Store::init: the local manifest, else the last one in storage, else an empty one.
InitialManifest ==
  LET keys == {k \in DOMAIN bases : k[1] = db}
  IN IF tikm # {} THEN CHOOSE m \in tikm : TRUE
     ELSE IF keys # {} THEN bases[CHOOSE k \in keys : \A j \in keys : j[2] <= k[2]]
     ELSE Empty

\* hydrate_timeline_state: in recovery the segments are left alone.
Hydrated ==
  LET active == IF pgdata.target # 0 THEN {} ELSE Window(SegsHere)
  IN [Fresh EXCEPT !.base = InitialManifest.ckpt, !.active = active,
                   !.head = IF active = {} THEN 0 ELSE Newest(active).ckpt]

\* Chunks with an object under (0, 0), the prefix that a recovery starts with again.
Zero == {c \in Chunks : <<db, 0>> \in DOMAIN objs[c]}

\* History: items of deleted checkpoints that the manifest found does not have, and items
\* of which the window has an older version than a deleted checkpoint had: it is filled up
\* with checkpoints below the base, which a compaction that was cut short has left behind.
Missed ==
  {i \in Items : \E s \in gone :
     /\ s.db = db /\ i \in ItemsOf(s)
     /\ \/ InitialManifest.ckpt < s.ckpt /\ s.ckpt <= pgdata.ckpt
        \/ \E o \in Hydrated.active : o.ckpt < s.ckpt /\ i \in ItemsOf(o)}

\* The records that PostgreSQL replays, from the redo position on.
Replayed ==
  {r \in line[Here] : /\ wal[r].lsn > pgdata.redo
                      /\ pgdata.target # 0 => wal[r].lsn <= pgdata.target}

\* PostgreSQL starts: Store::init, then replay, in which each record is applied to what
\* a lookup finds.
Start ==
  /\ pg = "down"
  /\ pgdata.ok
  /\ rec.pc \in {"idle", "start"}
  /\ pg' = IF pgdata.target # 0 THEN "recovering" ELSE "up"
  /\ tikm' = {InitialManifest}
  /\ shm' = Hydrated
  /\ rec' = IF rec.pc = "start" THEN [rec EXCEPT !.pc = "wait"] ELSE rec
  /\ spoiled' = spoiled \cup (IF pgdata.target # 0 THEN DOMAIN spill \cup Zero ELSE Missed)
  /\ gone' = IF pgdata.target # 0 THEN {} ELSE {s \in gone : s.ckpt <= InitialManifest.ckpt}
  /\ UNCHANGED <<db, wal, line, ends, pgdata, bak, ck, comp, storage, spill,
                 abandoned, unanchored, counters>>
  /\ cache' = [i \in {wal[r].item : r \in Replayed} |->
                 Lookup(i)' \cup {r \in Replayed : wal[r].item = i}]

-----------------------------------------------------------------------------
(* Point-in-time recovery *)

AtOrBefore(c, d) == {k \in DOMAIN bases : k[1] = d /\ k[2] <= c}

\* The newest base manifest at or before a checkpoint, as materialize_base_manifest_at
\* and seed_branch_base_manifest choose it.
AnchorKey(c, d) == CHOOSE k \in AtOrBefore(c, d) : \A j \in AtOrBefore(c, d) : j[2] <= k[2]

\* History: what a database takes over spoiled with a backup and its base manifest.
Inherited(b, k) == IF k \in abandoned \/ <<b.db, b.ckpt>> \in unanchored THEN Items ELSE {}

Backups == {b \in backups : b.db = db}

\* recovery_window: on the timeline of the newest checkpoint, from its first backup to the
\* end of the WAL, all of which is archived.
InWindow(l) ==
  LET mine == {b.ckpt : b \in {k \in Backups : TimelineOf(k.ckpt) = pgdata.tl}}
  IN /\ \E s \in SegsHere : TimelineOf(s.ckpt) = pgdata.tl
     /\ mine # {}
     /\ LsnOf(Min(mine)) <= l /\ l <= Lsn

\* load_backup_at_or_before.
UsableAt(l) == {b \in Backups : b.ckpt <= Ckpt(pgdata.tl, l)}

\* run_recover, on a stopped instance: the newest backup at or before the target.
RecoverBegin ==
  /\ pg = "down" /\ rec.pc = "idle" /\ pgdata.ok /\ pgdata.target = 0
  /\ IF bak = {} THEN Event /\ recovers < MaxRecovers /\ recovers' = recovers + 1
     ELSE UNCHANGED <<recovers, events>>
  /\ \E l \in Lsns :
       /\ InWindow(l)
       /\ UsableAt(l) # {}
       /\ rec' = [pc |-> "snapshot", b |-> Newest(UsableAt(l)), target |-> l, saved |-> {}, lost |-> {}]
  /\ UNCHANGED <<pgVars, memory, storage, local, history, taken>>

\* Mutant: the copy is not waited for.
SnapshotStartUnawaited ==
  /\ rec.pc = "snapshot"
  /\ bak' = {Torn} /\ rec' = [rec EXCEPT !.pc = "wipe"]
  /\ UNCHANGED <<pg, db, wal, line, ends, pgdata, memory, storage, local, history, counters>>

\* backup_dir_excluding begins to copy PGDATA, unless a copy is there already, ...
SnapshotStart ==
  /\ rec.pc = "snapshot"
  /\ IF bak = {} THEN bak' = {Torn} /\ rec' = [rec EXCEPT !.pc = "copy"]
     ELSE rec' = NoRec /\ UNCHANGED bak
  /\ UNCHANGED <<pg, db, wal, line, ends, pgdata, memory, storage, local, history, counters>>

\* ... and ends; the manifest is copied too.
SnapshotEnd ==
  /\ rec.pc = "copy"
  /\ bak' = {pgdata}
  /\ rec' = [rec EXCEPT !.pc = "wipe", !.saved = tikm]
  /\ UNCHANGED <<pg, db, wal, line, ends, pgdata, memory, storage, local, history, counters>>

\* recover_inner: wipe_dir_excluding, extract_backup, ...
Wipe ==
  /\ rec.pc = "wipe"
  /\ pgdata' = Torn
  /\ rec' = [rec EXCEPT !.pc = "materialize"]
  /\ UNCHANGED <<pg, db, wal, line, ends, bak, memory, storage, local, history, counters>>

\* ... materialize_base_manifest_at, ...
Materialize ==
  /\ rec.pc = "materialize"
  /\ AtOrBefore(rec.b.ckpt, db) # {}
  /\ tikm' = {bases[AnchorKey(rec.b.ckpt, db)]}
  /\ spoiled' = spoiled \cup Inherited(rec.b, AnchorKey(rec.b.ckpt, db))
  /\ rec' = [rec EXCEPT !.pc = "delete"]
  /\ UNCHANGED <<pgVars, memory, storage, spill, gone, abandoned, unanchored, counters>>

\* ... delete_all_segments, ...
DeleteAllSegments ==
  /\ rec.pc = "delete"
  /\ segs' = segs \ SegsHere
  /\ gone' = gone \cup SegsHere
  /\ rec' = [rec EXCEPT !.pc = "configure", !.lost = gone \cup SegsHere]
  /\ UNCHANGED <<pgVars, memory, objs, bases, backups, local, spoiled, abandoned, unanchored, counters>>

\* ... write_pitr_recovery_conf and recovery.signal.
Configure ==
  /\ rec.pc = "configure"
  /\ pgdata' = [ok |-> TRUE, tl |-> TimelineOf(rec.b.ckpt), ckpt |-> rec.b.ckpt, redo |-> rec.b.redo,
                target |-> rec.target]
  /\ rec' = [rec EXCEPT !.pc = "start"]
  /\ UNCHANGED <<pg, db, wal, line, ends, bak, memory, storage, local, history, counters>>

\* PostgreSQL has replayed up to the target and goes on on a timeline of its own.
Promote ==
  LET t   == recovers + 1
      new == <<db, t>>
  IN /\ pg = "recovering"
     /\ pg' = "up"
     /\ line' = [line EXCEPT ![new] = {r \in line[Here] : wal[r].lsn <= pgdata.target}]
     /\ ends' = [ends EXCEPT ![new] = pgdata.target]
     /\ pgdata' = [pgdata EXCEPT !.tl = t, !.target = 0]
     /\ abandoned' = abandoned \cup {k \in DOMAIN bases : k[1] = db /\ k[2] > pgdata.ckpt}
     /\ UNCHANGED <<db, wal, bak, memory, storage, local, rec, gone, spoiled, unanchored, counters>>

\* The recovery is over: the copy of PGDATA is removed.
Cleanup == bak' = {} /\ rec' = NoRec

\* wait_for_promotion and stop_pg have ended well.
RecoverDone ==
  /\ rec.pc = "wait"
  /\ pg = "down" /\ pgdata.target = 0
  /\ Cleanup
  /\ UNCHANGED <<pg, db, wal, line, ends, pgdata, memory, storage, local, history, counters>>

\* A step has failed, or the promotion took too long: PostgreSQL is stopped, ...
RecoverFail ==
  /\ rec.pc \in {"wipe", "materialize", "delete", "configure", "start", "wait"}
  /\ pg # "up"
  /\ StopPg
  /\ rec' = [rec EXCEPT !.pc = "rollback"]
  /\ UNCHANGED <<db, wal, line, ends, pgdata, bak, ck, comp, storage, local, history, counters>>

\* ... restore_dir wipes PGDATA ...
RollbackWipe ==
  /\ rec.pc = "rollback"
  /\ pgdata' = Torn
  /\ rec' = [rec EXCEPT !.pc = "restore"]
  /\ UNCHANGED <<pg, db, wal, line, ends, bak, memory, storage, local, history, counters>>

\* ... and copies it back, ...
RollbackRestore ==
  /\ rec.pc = "restore"
  /\ pgdata' = CHOOSE d \in bak : TRUE
  /\ rec' = [rec EXCEPT !.pc = "manifest"]
  /\ spoiled' = IF \E s \in SegsHere : TimelineOf(s.ckpt) > pgdata'.tl THEN Items
                ELSE spoiled \cup (IF rec.lost # {} THEN DOMAIN spill \cup Zero ELSE {})
  /\ gone' = gone \cup rec.lost
  /\ UNCHANGED <<pg, db, wal, line, ends, bak, memory, storage, local, abandoned, unanchored,
                 counters>>

\* ... the manifest is copied back and the copies removed.
RollbackDone ==
  /\ rec.pc = "manifest"
  /\ tikm' = IF rec.saved # {} THEN rec.saved ELSE tikm
  /\ Cleanup
  /\ UNCHANGED <<pg, db, wal, line, ends, pgdata, memory, storage, spill, history, counters>>

\* tiko_pitr itself is killed.
ToolCrash ==
  /\ rec.pc # "idle"
  /\ Event
  /\ rec' = NoRec
  /\ UNCHANGED <<pgVars, memory, storage, local, history, taken, recovers>>

-----------------------------------------------------------------------------
(* Branches *)

\* seed_branch_base_manifest: the parent's manifest under the branch's namespace.
SeedBranch(k) == bases' = Put(bases, <<1, k[2]>>, bases[k])

\* tiko_branch restore: a pack of the parent is unpacked, the parent's manifest is
\* copied to the branch's namespace, and the local manifest removed.  From here on the
\* model follows the branch; the parent's objects and manifests stay.
Branch ==
  /\ Event
  /\ db = 0
  /\ pg = "down" /\ rec.pc = "idle" /\ bak = {}
  /\ \E b \in backups :
       LET t == TimelineOf(b.ckpt)
           k == AnchorKey(b.ckpt, 0)
       IN /\ AtOrBefore(b.ckpt, 0) # {}
          /\ SeedBranch(k)
          /\ pgdata' = [ok |-> TRUE, tl |-> t, ckpt |-> b.ckpt, redo |-> b.redo, target |-> 0]
          /\ line' = [line EXCEPT ![<<1, t>>] =
                        {r \in line[<<0, t>>] : wal[r].lsn <= LsnOf(b.ckpt)}]
          /\ ends' = [ends EXCEPT ![<<1, t>>] = LsnOf(b.ckpt)]
          /\ spoiled' = spoiled \cup Inherited(b, k)
  /\ db' = 1
  /\ tikm' = {} /\ spill' = NoItems
  /\ UNCHANGED <<pg, wal, bak, memory, objs, segs, backups, rec, gone, abandoned, unanchored,
                 taken, recovers>>

-----------------------------------------------------------------------------

Recover ==
  \/ RecoverBegin \/ SnapshotStart \/ SnapshotEnd \/ Wipe \/ Materialize \/ DeleteAllSegments
  \/ Configure \/ RecoverDone \/ RecoverFail \/ RollbackWipe \/ RollbackRestore \/ RollbackDone
  \/ ToolCrash

Compact ==
  \/ \E through \in BOOLEAN : CompactPut(through)
  \/ CompactPublish \/ CompactAdvance \/ CompactDelete \/ CompactFail

Next ==
  \/ \E i \in Items : Write(i) \/ Evict(i)
  \/ Spill \/ LoadManifest
  \/ \E kind \in {"online", "backup", "shutdown"} : CheckpointStart(kind)
  \/ Commit \/ NoNewSegments \/ CheckpointEnd
  \/ Compact
  \/ Crash \/ Start \/ Promote
  \/ Recover
  \/ Branch

Spec == Init /\ [][Next]_vars

-----------------------------------------------------------------------------
(* Properties.  What is known to go wrong is told apart by history variables.
   spoiled: a chunk of the first interval after a recovery or on a branch is outranked
   in a compaction; segments that a set-back or rolled-back manifest needs are deleted;
   a segment that an interrupted compaction has left behind comes into the window;
   the spill file or the objects under (0, 0) of a history that was left are taken for
   the present one's; a rollback finds segments of the timeline that it undoes; a recovery
   or a branch starts from an abandoned manifest or an unanchored backup.
   abandoned: manifests of a history that a recovery has left remain.
   unanchored: the checkpoints of base backups whose compaction has put no manifest. *)

\* The records of an item on a timeline up to an LSN.
Records(i, k, l) == {r \in line[k] : wal[r].item = i /\ wal[r].lsn <= l}

Content == SUBSET (1..Len(wal))
Manifest(m) ==
  /\ m.ckpt \in Ckpts
  /\ DOMAIN m.refs \subseteq Chunks /\ Range(m.refs) \subseteq {0, 1} \X Ckpts
  /\ DOMAIN m.rels \subseteq Relforks /\ Range(m.rels) \subseteq Content

\* Shapes, the size of the active window, and no reference of a chunk that is not spoiled to
\* an object that does not exist.
TypeOK ==
  /\ pg \in {"down", "up", "recovering"} /\ db \in {0, 1}
  /\ \A k \in Lines : line[k] \subseteq 1..Len(wal) /\ ends[k] \in Lsns
  /\ pgdata.tl \in 0..(MaxRecovers + 1) /\ pgdata.redo \in Lsns /\ pgdata.target \in Lsns
  /\ Cardinality(bak) <= 1 /\ Cardinality(tikm) <= 1
  /\ DOMAIN cache \subseteq Items /\ Range(cache) \subseteq Content
  /\ shm.head \in Ckpts /\ shm.base \in Ckpts /\ Cardinality(shm.active) <= WindowSize
  /\ shm.draft \in [DOMAIN shm.draft -> Content]
  /\ \A m \in tikm \cup Range(bases) :
       Manifest(m) /\ \A c \in DOMAIN m.refs \ spoiled : m.refs[c] \in DOMAIN objs[c]
  /\ \A b \in backups : b.ckpt \in Ckpts /\ b.redo \in Lsns
  /\ spoiled \subseteq Items /\ abandoned \subseteq DOMAIN bases /\ unanchored \subseteq {0, 1} \X Ckpts

\* However often the database has crashed, been restarted, recovered, rolled back or
\* branched: what a read finds in the store is exactly what its timeline's WAL says of an
\* item that is not spoiled, no record missing and none of an abandoned future.
Latest ==
  pg = "up" =>
    \A i \in Items \ (DOMAIN cache \cup spoiled) :
      ManifestsAt(shm.base) # {} => Lookup(i) = Records(i, Here, Lsn)

\* The manifest that a recovery or a branch would take for a base backup has every record
\* up to the backup's redo position, ...
HasAll(b) ==
  LET a == AnchorKey(b.ckpt, b.db)
  IN /\ AtOrBefore(b.ckpt, b.db) # {}
     /\ a \notin abandoned =>
          \A i \in Items \ spoiled :
            Records(i, <<b.db, TimelineOf(b.ckpt)>>, b.redo) \subseteq Resolve(bases[a], i)

\* ... and none after its checkpoint.
NothingLater(b) ==
  LET a == AnchorKey(b.ckpt, b.db)
  IN AtOrBefore(b.ckpt, b.db) # {} /\ a \notin abandoned =>
       \A i \in Items \ spoiled :
         Resolve(bases[a], i) \subseteq Records(i, <<b.db, TimelineOf(b.ckpt)>>, LsnOf(b.ckpt))

\* A base backup whose compaction has put its manifest stays good for as long as it is kept,
\* whatever is compacted, deleted, recovered or branched since, and no base backup shows a
\* recovery what was changed after it: for the items that are not spoiled, and unless the
\* manifest is one of an abandoned history.
AnchorsIntact ==
  \A b \in backups : NothingLater(b) /\ (<<b.db, b.ckpt>> \notin unanchored => HasAll(b))

\* The checkpoint of a base backup forms "a base manifest AT the backup LSN", so that recovery
\* anchors "on a single, complete base manifest" (store.rs:1022-1026), for every backup that
\* tiko_pitr has uploaded.
BackupsComplete == \A b \in backups : HasAll(b)

\* "Last-write-wins is correct across timeline transitions" (store.rs:949): the manifest
\* that a compaction makes has, of every chunk, what the newest folded checkpoint has.
LastWriteWins ==
  comp.pc = "put" =>
    LET S == {s \in SegsHere : comp.from < s.ckpt /\ s.ckpt <= comp.key}
    IN \A c \in UNION {s.chunks : s \in S} :
         LET k == <<db, Newest({s \in S : c \in s.chunks}).prev>>
         IN k \in DOMAIN objs[c] => objs[c][k] \subseteq Resolve(comp.m, c)

\* Deleted segments "are now fully represented in the base manifest" (store.rs:901), so that
\* no lookup needs them: where the active window answers for an item, the answer is not
\* older than what a segment deleted since had of it.
WindowCurrent ==
  \A o \in shm.active, s \in gone \ shm.active :
    s.db = db /\ o.ckpt < s.ckpt =>
      \A i \in ItemsOf(o) \cap ItemsOf(s) :
        \E r \in shm.active : s.ckpt < r.ckpt /\ i \in ItemsOf(r)

\* Wherever a recovery stops, crashed or failed, PGDATA or its copy is complete.
PgdataKept == pgdata.ok \/ \E d \in bak : d.ok
=============================================================================
