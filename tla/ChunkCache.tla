------------------------------ MODULE ChunkCache ------------------------------
(***************************************************************************)
(* The write-back cache of chunks (core/src/io/cache/chunk.rs).            *)
(*                                                                         *)
(* A slot holds one chunk, in the cache file, and is found through the     *)
(* hash chain of its bucket.  Backends read chunks and patch runs of       *)
(* blocks; a miss fetches the chunk from the store, evicts another and     *)
(* inserts it.  The checkpointer flushes dirty slots, and so does, beside  *)
(* it, every backend that syncs a relation fork (tiko_immedsync); a        *)
(* truncation drops the slots of a fork.                                   *)
(*                                                                         *)
(* An action is what happens under a bucket lock or under a slot's         *)
(* io_lock, or one access to an atomic without either.  Locks that are     *)
(* held across actions follow from where their holders are (BucketHeld,    *)
(* IoHeld).  The clock sweep may try any unpinned slot, in any order, and  *)
(* give up at any time.  The store is taken to return what was put last.   *)
(***************************************************************************)
EXTENDS Naturals, FiniteSets

CONSTANTS
  Backends,
  Flushers,     \* who runs flush_dirty_chunks: the checkpointer, and backends
  Chunks,
  Blocks,       \* the blocks of a chunk
  NoTag,        \* ChunkTag::default(): the slot is empty
  BucketOf,     \* the bucket of each tag, NoTag included
  NumSlots,     \* CHUNK_NUM_SLOTS
  Reads,        \* <<backend, chunk>>: who reads what
  Patches,      \* <<backend, chunk, blocks>>: who may write what; PostgreSQL's
                \* buffer locks keep two backends from writing the same block
  Flushes,      \* <<flusher, chunks>>: who flushes which, all or a fork's
  Truncations,  \* sets of chunks at the end of a fork that may be truncated
  MaxWrites,    \* bound: patches
  MaxFailures,  \* bound: PUTs and file operations that fail
  MaxTruncates  \* bound: truncations

Tags  == Chunks \cup {NoTag}
Slots == 0..(NumSlots - 1)

ASSUME CacheAssumption ==
  /\ IsFiniteSet(Backends)
  /\ IsFiniteSet(Flushers)
  /\ NoTag \notin Chunks
  /\ Blocks # {}
  /\ BucketOf \in [Tags -> Nat]
  /\ NumSlots \in Nat \ {0}
  /\ Reads \subseteq Backends \X Chunks
  /\ Patches \subseteq Backends \X Chunks \X (SUBSET Blocks \ {{}})
  /\ \A p, q \in Patches : p[2] = q[2] /\ p[3] \cap q[3] # {} => p[1] = q[1]
  /\ Flushes \subseteq Flushers \X SUBSET Chunks
  /\ Truncations \subseteq SUBSET Chunks
  /\ MaxWrites \in Nat
  /\ MaxFailures \in Nat
  /\ MaxTruncates \in Nat

VARIABLES
  \* a slot
  tag,
  dirty,
  pin_count,
  data,       \* its part of the cache file, while it holds a chunk: the versions
              \* of the chunk's blocks
  linked,     \* the slots that a walk along their tag's chain finds
  store,      \* each chunk's contents in the store; all versions 0: absent
  \* processes
  call,       \* each backend's get_chunk or patch_chunk
  flush,      \* each flusher's flush_dirty_chunks
  trunc,      \* truncate_relfork
  \* history
  latest,     \* the version of each block written last, 0 after a truncation
  stale,      \* chunks inserted from a fetch that a patch had overtaken
  early,      \* chunks unlinked while a flush was still writing them back
  torn,       \* chunks whose slot or chain a truncation of others has cleared
  writes, failures, truncates

slotVars == <<tag, dirty, pin_count, data, linked>>
history  == <<latest, stale, early, torn, writes, failures, truncates>>
vars == <<slotVars, store, call, flush, trunc, history>>

Zeros(t)  == [of |-> t, ver |-> [k \in Blocks |-> 0]]
Idle      == [pc |-> "idle", tag |-> NoTag, blocks |-> {}, ver |-> 0,
              floor |-> [k \in Blocks |-> 0], slot |-> 0, data |-> Zeros(NoTag)]
NoFlush   == [pc |-> "idle", of |-> {}, slot |-> 0, due |-> [t \in Chunks |-> [k \in Blocks |-> 0]],
              excused |-> {}]
NoTrunc   == [pc |-> "idle", of |-> {}, slot |-> 0, tag |-> NoTag]

Init ==
  /\ tag = [s \in Slots |-> NoTag]
  /\ dirty = [s \in Slots |-> FALSE]
  /\ pin_count = [s \in Slots |-> 0]
  /\ data = [s \in Slots |-> Zeros(NoTag)]
  /\ linked = {}
  /\ store = [t \in Chunks |-> Zeros(t)]
  /\ call = [b \in Backends |-> Idle]
  /\ flush = [f \in Flushers |-> NoFlush]
  /\ trunc = NoTrunc
  /\ latest = [t \in Chunks |-> [k \in Blocks |-> 0]]
  /\ stale = {}
  /\ early = {}
  /\ torn = {}
  /\ writes = 0
  /\ failures = 0
  /\ truncates = 0

\* The bucket locks that are held across actions: phase 3 of an eviction, and a
\* truncation that waits for the io_lock.
BucketHeld(k) ==
  \/ \E b \in Backends : call[b].pc = "check_dirty" /\ BucketOf[tag[call[b].slot]] = k
  \/ trunc.pc = "clear" /\ BucketOf[trunc.tag] = k

\* The io_locks that are: around the PUT of try_flush_dirty_chunk.
IoHeld(s) ==
  \/ \E b \in Backends : call[b].pc = "put" /\ call[b].slot = s
  \/ \E f \in Flushers : flush[f].pc = "put" /\ flush[f].slot = s

Pin(s)   == pin_count' = [pin_count EXCEPT ![s] = @ + 1]
Unpin(s) == pin_count' = [pin_count EXCEPT ![s] = @ - 1]

\* The slot that lookup_and_pin finds, if any.
Found(t) == {s \in linked : tag[s] = t}

\* A patch of some blocks applied to a chunk; a get_chunk has none.
Patched(c, d) == [d EXCEPT !.ver = [k \in Blocks |-> IF k \in c.blocks THEN c.ver ELSE @[k]]]

\* What the caller of a finished call may rely on from now on.
Acknowledge(c) ==
  latest' = [latest EXCEPT ![c.tag] = [k \in Blocks |-> IF k \in c.blocks THEN c.ver ELSE @[k]]]

-----------------------------------------------------------------------------
(* get_chunk and patch_chunk *)

\* A backend does one thing at a time, and PostgreSQL truncates a fork under an
\* exclusive lock on its relation.
MayAccess(b, t) ==
  /\ call[b].pc = "idle"
  /\ b \in Flushers => flush[b].pc = "idle"
  /\ t \notin trunc.of

\* lookup_and_pin by a call c, under the bucket's read lock.  A patch of a whole
\* chunk needs no fetch.
LookupAndPin(b, c) ==
  LET t == c.tag
  IN /\ ~BucketHeld(BucketOf[t])
     /\ \/ \E s \in Found(t) :
             /\ Pin(s)
             /\ call' = [call EXCEPT ![b] = [c EXCEPT !.pc = "hit", !.floor = latest[t], !.slot = s]]
        \/ /\ Found(t) = {}
           /\ call' = [call EXCEPT ![b] =
                IF c.blocks = Blocks
                THEN [c EXCEPT !.pc = "evict", !.floor = latest[t], !.data = Patched(c, Zeros(t))]
                ELSE [c EXCEPT !.pc = "fetch", !.floor = latest[t]]]
           /\ UNCHANGED pin_count
     /\ UNCHANGED <<tag, dirty, data, linked, store, flush, trunc, latest, stale, early, torn, failures, truncates>>

GetChunk(b, t) ==
  /\ MayAccess(b, t)
  /\ LookupAndPin(b, [Idle EXCEPT !.tag = t])
  /\ UNCHANGED writes

PatchChunk(b, t, w) ==
  /\ MayAccess(b, t)
  /\ writes < MaxWrites
  /\ writes' = writes + 1
  /\ LookupAndPin(b, [Idle EXCEPT !.tag = t, !.blocks = w, !.ver = writes + 1])

\* The loop of either, after another backend has inserted the chunk.
Retry(b) ==
  /\ call[b].pc = "lookup"
  /\ LookupAndPin(b, call[b])
  /\ UNCHANGED writes

\* A hit: the file is read under the slot's io_lock.
ReadHit(b) ==
  LET s == call[b].slot
  IN /\ call[b].pc = "hit" /\ call[b].blocks = {}
     /\ ~IoHeld(s)
     /\ Unpin(s)
     /\ call' = [call EXCEPT ![b].pc = "got", ![b].data = data[s], ![b].slot = 0]
     /\ UNCHANGED <<tag, dirty, data, linked, store, flush, trunc, history>>

\* A hit: read, merge and write under one hold of the io_lock.
PatchHit(b) ==
  LET s == call[b].slot
  IN /\ call[b].pc = "hit" /\ call[b].blocks # {}
     /\ ~IoHeld(s)
     /\ data' = [data EXCEPT ![s] = Patched(call[b], @)]
     /\ dirty' = [dirty EXCEPT ![s] = TRUE]
     /\ Unpin(s)
     /\ Acknowledge(call[b])
     /\ call' = [call EXCEPT ![b] = Idle]
     /\ UNCHANGED <<tag, linked, store, flush, trunc, stale, early, torn, writes, failures, truncates>>

\* The cache file cannot be read or written: the call ends with an error.
HitFail(b) ==
  /\ call[b].pc = "hit"
  /\ ~IoHeld(call[b].slot)
  /\ failures < MaxFailures
  /\ failures' = failures + 1
  /\ Unpin(call[b].slot)
  /\ call' = [call EXCEPT ![b] = Idle]
  /\ UNCHANGED <<tag, dirty, data, linked, store, flush, trunc, latest, stale, early, torn, writes, truncates>>

\* A miss.  A chunk that is absent is an error for a reader, zeros for a writer.
Fetch(b) ==
  LET t == call[b].tag
      absent == store[t] = Zeros(t)
  IN /\ call[b].pc = "fetch"
     /\ call' = [call EXCEPT ![b] =
          IF absent /\ call[b].blocks = {} THEN Idle
          ELSE [call[b] EXCEPT !.pc = "evict", !.data = Patched(call[b], store[t])]]
     /\ UNCHANGED <<slotVars, store, flush, trunc, history>>

Return(b) ==
  /\ call[b].pc = "got"
  /\ call' = [call EXCEPT ![b] = Idle]
  /\ UNCHANGED <<slotVars, store, flush, trunc, history>>

-----------------------------------------------------------------------------
(* evict_and_pin *)

\* History: the flushes in progress need not cover these chunks.
Excuse(which) ==
  [f \in Flushers |-> IF flush[f].pc = "idle" THEN flush[f]
                      ELSE [flush[f] EXCEPT !.excused = @ \cup which]]

\* Phase 1: an unpinned slot is pinned under its bucket's lock.  The tag read
\* without the lock is verified, so the two reads are one here.
Claim(b, s) ==
  /\ call[b].pc = "evict"
  /\ pin_count[s] = 0
  /\ ~BucketHeld(BucketOf[tag[s]])
  /\ Pin(s)
  /\ call' = [call EXCEPT ![b].slot = s, ![b].pc = IF tag[s] = NoTag THEN "check_pin" ELSE "flush"]
  /\ UNCHANGED <<tag, dirty, data, linked, store, flush, trunc, history>>

\* Phase 2: try_flush_dirty_chunk, under the io_lock.
EvictSwapDirty(b) ==
  LET s == call[b].slot
  IN /\ call[b].pc = "flush"
     /\ ~IoHeld(s)
     /\ dirty' = [dirty EXCEPT ![s] = FALSE]
     /\ call' = [call EXCEPT ![b].pc = IF dirty[s] THEN "put" ELSE "check_pin"]
     /\ UNCHANGED <<tag, pin_count, data, linked, store, flush, trunc, history>>

EvictPut(b) ==
  LET s == call[b].slot
  IN /\ call[b].pc = "put"
     /\ store' = [store EXCEPT ![tag[s]] = data[s]]
     /\ call' = [call EXCEPT ![b].pc = "check_pin"]
     /\ UNCHANGED <<slotVars, flush, trunc, history>>

\* The PUT fails: the slot is dirty again and stays where it is; the sweep goes on.
EvictPutFail(b) ==
  LET s == call[b].slot
  IN /\ call[b].pc = "put"
     /\ failures < MaxFailures
     /\ failures' = failures + 1
     /\ dirty' = [dirty EXCEPT ![s] = TRUE]
     /\ Unpin(s)
     /\ call' = [call EXCEPT ![b].pc = "evict", ![b].slot = 0]
     /\ flush' = Excuse({tag[s]})
     /\ UNCHANGED <<tag, data, linked, store, trunc, latest, stale, early, torn, writes, truncates>>

\* Mutant: phase 3 does not look at the pins again.
CheckPinNever(b) ==
  /\ call[b].pc = "check_pin"
  /\ ~BucketHeld(BucketOf[tag[call[b].slot]])
  /\ call' = [call EXCEPT ![b].pc = "check_dirty"]
  /\ UNCHANGED <<slotVars, store, flush, trunc, history>>

\* Phase 3, with the bucket locked: has anybody else pinned the slot?
CheckPin(b) ==
  LET s == call[b].slot
  IN /\ call[b].pc = "check_pin"
     /\ ~BucketHeld(BucketOf[tag[s]])
     /\ \/ /\ pin_count[s] = 1
           /\ call' = [call EXCEPT ![b].pc = "check_dirty"]
           /\ UNCHANGED pin_count
        \/ /\ pin_count[s] # 1
           /\ Unpin(s)
           /\ call' = [call EXCEPT ![b].pc = "evict", ![b].slot = 0]
     /\ UNCHANGED <<tag, dirty, data, linked, store, flush, trunc, history>>

\* Mutant: phase 3 does not look at the dirty flag again.
CheckDirtyNever(b) ==
  /\ call[b].pc = "check_dirty"
  /\ linked' = linked \ {call[b].slot}
  /\ call' = [call EXCEPT ![b].pc = "fill"]
  /\ UNCHANGED <<tag, dirty, pin_count, data, store, flush, trunc, history>>

\* Has anybody patched it again?  If not, it leaves the chain.
CheckDirty(b) ==
  LET s == call[b].slot
  IN /\ call[b].pc = "check_dirty"
     /\ \/ /\ dirty[s]
           /\ Unpin(s)
           /\ call' = [call EXCEPT ![b].pc = "evict", ![b].slot = 0]
           /\ UNCHANGED <<linked, early>>
        \/ /\ ~dirty[s]
           /\ linked' = linked \ {s}
           /\ early' = IF IoHeld(s) THEN early \cup {tag[s]} ELSE early
           /\ call' = [call EXCEPT ![b].pc = "fill"]
           /\ UNCHANGED pin_count
     /\ UNCHANGED <<tag, dirty, data, store, flush, trunc, latest, stale, torn, writes, failures, truncates>>

\* EvictionSweepExhausted: the call ends with an error.
GiveUp(b) ==
  /\ call[b].pc = "evict"
  /\ call' = [call EXCEPT ![b] = Idle]
  /\ UNCHANGED <<slotVars, store, flush, trunc, history>>

-----------------------------------------------------------------------------
(* insert *)

\* clear, then the chunk is written to the file, each under the io_lock; nobody
\* looks at an unlinked clean slot in between.
Fill(b) ==
  LET s == call[b].slot
  IN /\ call[b].pc = "fill"
     /\ ~IoHeld(s)
     /\ tag' = [tag EXCEPT ![s] = NoTag]
     /\ dirty' = [dirty EXCEPT ![s] = FALSE]
     /\ data' = [data EXCEPT ![s] = call[b].data]
     /\ call' = [call EXCEPT ![b].pc = "link"]
     /\ UNCHANGED <<pin_count, linked, store, flush, trunc, history>>

\* The write fails: the slot is left empty, the call ends with an error.
FillFail(b) ==
  LET s == call[b].slot
  IN /\ call[b].pc = "fill"
     /\ ~IoHeld(s)
     /\ failures < MaxFailures
     /\ failures' = failures + 1
     /\ tag' = [tag EXCEPT ![s] = NoTag]
     /\ dirty' = [dirty EXCEPT ![s] = FALSE]
     /\ data' = [data EXCEPT ![s] = Zeros(NoTag)]
     /\ Unpin(s)
     /\ call' = [call EXCEPT ![b] = Idle]
     /\ UNCHANGED <<linked, store, flush, trunc, latest, stale, early, torn, writes, truncates>>

\* Mutant: the slot stays pinned when another backend was first.
LinkLeakingPin(b) ==
  LET s == call[b].slot
      c == call[b]
  IN /\ c.pc = "link"
     /\ ~BucketHeld(BucketOf[c.tag])
     /\ \/ /\ Found(c.tag) # {}
           /\ call' = [call EXCEPT ![b].pc = "lookup", ![b].slot = 0, ![b].data = Zeros(NoTag)]
           /\ data' = [data EXCEPT ![s] = Zeros(NoTag)]
           /\ UNCHANGED <<tag, dirty, linked, pin_count, latest, stale>>
        \/ /\ Found(c.tag) = {}
           /\ Unpin(s)
           /\ tag' = [tag EXCEPT ![s] = c.tag]
           /\ dirty' = [dirty EXCEPT ![s] = @ \/ c.blocks # {}]
           /\ linked' = linked \cup {s}
           /\ Acknowledge(c)
           /\ call' = [call EXCEPT ![b] = IF c.blocks = {} THEN [c EXCEPT !.pc = "got", !.slot = 0] ELSE Idle]
           /\ UNCHANGED <<data, stale>>
     /\ UNCHANGED <<store, flush, trunc, early, torn, writes, failures, truncates>>

\* Under the new tag's bucket lock: another backend was first, or the slot gets
\* its tag, is marked dirty for a patch and enters the chain.
Link(b) ==
  LET s == call[b].slot
      c == call[b]
  IN /\ c.pc = "link"
     /\ ~BucketHeld(BucketOf[c.tag])
     /\ Unpin(s)
     /\ \/ /\ Found(c.tag) # {}
           /\ call' = [call EXCEPT ![b].pc = "lookup", ![b].slot = 0, ![b].data = Zeros(NoTag)]
           /\ data' = [data EXCEPT ![s] = Zeros(NoTag)]
           /\ UNCHANGED <<tag, dirty, linked, latest, stale>>
        \/ /\ Found(c.tag) = {}
           /\ tag' = [tag EXCEPT ![s] = c.tag]
           /\ dirty' = [dirty EXCEPT ![s] = @ \/ c.blocks # {}]
           /\ linked' = linked \cup {s}
           /\ UNCHANGED data
           /\ stale' = IF c.blocks # Blocks /\ c.floor # latest[c.tag] THEN stale \cup {c.tag} ELSE stale
           /\ Acknowledge(c)
           /\ call' = [call EXCEPT ![b] = IF c.blocks = {} THEN [c EXCEPT !.pc = "got", !.slot = 0] ELSE Idle]
     /\ UNCHANGED <<store, flush, trunc, early, torn, writes, failures, truncates>>

-----------------------------------------------------------------------------
(* flush_dirty_chunks: a checkpoint's, or a backend's of a fork *)

FlushDirtyChunks(f, which) ==
  /\ flush[f].pc = "idle"
  /\ f \in Backends => call[f].pc = "idle"
  /\ flush' = [flush EXCEPT ![f] = [NoFlush EXCEPT !.pc = "scan", !.of = which, !.due = latest]]
  /\ UNCHANGED <<slotVars, store, call, trunc, history>>

FlushGoesTo(f, pc) == flush' = [flush EXCEPT ![f].pc = pc]
NextSlot(f) == flush' = [flush EXCEPT ![f].pc = "scan", ![f].slot = @ + 1]

\* The quick check.
FlushScan(f) ==
  /\ flush[f].pc = "scan"
  /\ flush[f].slot < NumSlots
  /\ IF dirty[flush[f].slot] THEN FlushGoesTo(f, "pin") ELSE NextSlot(f)
  /\ UNCHANGED <<slotVars, store, call, trunc, history>>

\* The pin takes no lock.
FlushPin(f) ==
  /\ flush[f].pc = "pin"
  /\ Pin(flush[f].slot)
  /\ FlushGoesTo(f, "recheck")
  /\ UNCHANGED <<tag, dirty, data, linked, store, call, trunc, history>>

\* Dirty still, and of the fork that is asked for?
FlushRecheck(f) ==
  LET s == flush[f].slot
  IN /\ flush[f].pc = "recheck"
     /\ IF dirty[s] /\ tag[s] \in flush[f].of
        THEN FlushGoesTo(f, "flush") /\ UNCHANGED pin_count
        ELSE NextSlot(f) /\ Unpin(s)
     /\ UNCHANGED <<tag, dirty, data, linked, store, call, trunc, history>>

\* try_flush_dirty_chunk, under the io_lock.
FlushSwapDirty(f) ==
  LET s == flush[f].slot
  IN /\ flush[f].pc = "flush"
     /\ ~IoHeld(s)
     /\ dirty' = [dirty EXCEPT ![s] = FALSE]
     /\ IF dirty[s] THEN FlushGoesTo(f, "put") /\ UNCHANGED pin_count
        ELSE NextSlot(f) /\ Unpin(s)
     /\ UNCHANGED <<tag, data, linked, store, call, trunc, history>>

FlushPut(f) ==
  LET s == flush[f].slot
  IN /\ flush[f].pc = "put"
     /\ store' = [store EXCEPT ![tag[s]] = data[s]]
     /\ Unpin(s)
     /\ NextSlot(f)
     /\ UNCHANGED <<tag, dirty, data, linked, call, trunc, history>>

\* Mutant: a failure is skipped.
FlushPutFailSkipped(f) ==
  LET s == flush[f].slot
  IN /\ flush[f].pc = "put"
     /\ failures < MaxFailures
     /\ failures' = failures + 1
     /\ dirty' = [dirty EXCEPT ![s] = TRUE]
     /\ Unpin(s)
     /\ NextSlot(f)
     /\ UNCHANGED <<tag, data, linked, store, call, trunc, latest, stale, early, torn, writes, truncates>>

\* The first failure ends the pass with an error.
FlushPutFail(f) ==
  LET s == flush[f].slot
  IN /\ flush[f].pc = "put"
     /\ failures < MaxFailures
     /\ failures' = failures + 1
     /\ dirty' = [dirty EXCEPT ![s] = TRUE]
     /\ Unpin(s)
     /\ flush' = [Excuse({tag[s]}) EXCEPT ![f] = NoFlush]
     /\ UNCHANGED <<tag, data, linked, store, call, trunc, latest, stale, early, torn, writes, truncates>>

FlushDone(f) ==
  /\ flush[f].pc = "scan"
  /\ flush[f].slot = NumSlots
  /\ flush' = [flush EXCEPT ![f] = NoFlush]
  /\ UNCHANGED <<slotVars, store, call, trunc, history>>

-----------------------------------------------------------------------------
(* truncate_relfork *)

\* The caller has the relation to itself; what it cuts off need not be kept.
TruncateRelfork(which) ==
  /\ trunc.pc = "idle"
  /\ truncates < MaxTruncates
  /\ \A b \in Backends : call[b].tag \notin which
  /\ truncates' = truncates + 1
  /\ trunc' = [NoTrunc EXCEPT !.pc = "scan", !.of = which]
  /\ latest' = [t \in Chunks |-> IF t \in which THEN [k \in Blocks |-> 0] ELSE latest[t]]
  /\ flush' = Excuse(which)
  /\ UNCHANGED <<slotVars, store, call, stale, early, torn, writes, failures>>

\* A slot of the fork is unlinked, with its bucket locked from here on.
TruncateScan ==
  LET s == trunc.slot
  IN /\ trunc.pc = "scan"
     /\ s < NumSlots
     /\ \/ /\ tag[s] \in trunc.of
           /\ ~BucketHeld(BucketOf[tag[s]])
           /\ linked' = linked \ {s}
           /\ trunc' = [trunc EXCEPT !.pc = "clear", !.tag = tag[s]]
        \/ /\ tag[s] \notin trunc.of
           /\ trunc' = [trunc EXCEPT !.slot = @ + 1]
           /\ UNCHANGED linked
     /\ UNCHANGED <<tag, dirty, pin_count, data, store, call, flush, history>>

\* While the truncation waits for the io_lock, an eviction that was under way can
\* finish, and the slot enter the chain of another bucket.  Clearing it there cuts
\* off those behind it: any of the others, as their order is not modelled.
Behind(s) ==
  IF s \in linked THEN {o \in linked \ {s} : BucketOf[tag[o]] = BucketOf[tag[s]]} ELSE {}

\* History: the chunks this may harm.  Nothing is claimed of a chain with a cleared
\* slot in it from then on.
Tears(s) ==
  IF s \notin linked THEN {}
  ELSE {tag[s]} \cup {t \in Chunks : pin_count[s] = 0 /\ BucketOf[t] = BucketOf[tag[s]]}

\* With the io_lock: cleared if nobody has it pinned, otherwise made clean.
TruncateClear ==
  LET s == trunc.slot
  IN /\ trunc.pc = "clear"
     /\ ~IoHeld(s)
     /\ dirty' = [dirty EXCEPT ![s] = FALSE]
     /\ IF pin_count[s] = 0
        THEN /\ tag' = [tag EXCEPT ![s] = NoTag]
             /\ data' = [data EXCEPT ![s] = Zeros(NoTag)]
             /\ linked' \in {linked \ ({s} \cup cut) : cut \in SUBSET Behind(s)}
        ELSE UNCHANGED <<tag, data, linked>>
     /\ torn' = torn \cup Tears(s)
     /\ trunc' = [trunc EXCEPT !.pc = "scan", !.slot = @ + 1, !.tag = NoTag]
     /\ UNCHANGED <<pin_count, store, call, flush, latest, stale, early, writes, failures, truncates>>

TruncateDone ==
  /\ trunc.pc = "scan"
  /\ trunc.slot = NumSlots
  /\ trunc' = NoTrunc
  /\ UNCHANGED <<slotVars, store, call, flush, history>>

-----------------------------------------------------------------------------
BackendStep(b) ==
  \/ \E r \in Reads : r[1] = b /\ GetChunk(b, r[2])
  \/ \E p \in Patches : p[1] = b /\ PatchChunk(b, p[2], p[3])
  \/ Retry(b) \/ ReadHit(b) \/ PatchHit(b) \/ HitFail(b) \/ Fetch(b) \/ Return(b)
  \/ \E s \in Slots : Claim(b, s)
  \/ EvictSwapDirty(b) \/ EvictPut(b) \/ EvictPutFail(b)
  \/ CheckPin(b) \/ CheckDirty(b) \/ GiveUp(b)
  \/ Fill(b) \/ FillFail(b) \/ Link(b)

FlushStep(f) ==
  \/ \E w \in Flushes : w[1] = f /\ FlushDirtyChunks(f, w[2])
  \/ FlushScan(f) \/ FlushPin(f) \/ FlushRecheck(f)
  \/ FlushSwapDirty(f) \/ FlushPut(f) \/ FlushPutFail(f) \/ FlushDone(f)

TruncateStep ==
  \/ \E which \in Truncations : TruncateRelfork(which)
  \/ TruncateScan \/ TruncateClear \/ TruncateDone

Next ==
  \/ \E b \in Backends : BackendStep(b)
  \/ \E f \in Flushers : FlushStep(f)
  \/ TruncateStep

Spec == Init /\ [][Next]_vars

-----------------------------------------------------------------------------
(* Properties *)

Versions == 0..MaxWrites
BlockVersions == [Blocks -> Versions]
Contents == [of : Tags, ver : BlockVersions]
Passes ==
  [pc : {"idle", "scan", "pin", "recheck", "flush", "put"}, of : SUBSET Chunks,
   slot : 0..NumSlots, due : [Chunks -> BlockVersions], excused : SUBSET Tags]
Calls ==
  [pc : {"idle", "lookup", "hit", "fetch", "got", "evict", "flush", "put",
         "check_pin", "check_dirty", "fill", "link"},
   tag : Tags, blocks : SUBSET Blocks, ver : Versions, floor : BlockVersions,
   slot : Slots, data : Contents]

\* The processes that have a slot pinned.
Pinning  == {"hit", "flush", "put", "check_pin", "check_dirty", "fill", "link"}
Pinners(s) == {b \in Backends : call[b].pc \in Pinning /\ call[b].slot = s}
FlushPinners(s) == {f \in Flushers : flush[f].pc \in {"recheck", "flush", "put"} /\ flush[f].slot = s}

\* Shapes, and every pin is somebody's: a slot is never leaked and never evicted
\* under a process that uses it.
TypeOK ==
  /\ tag \in [Slots -> Tags]
  /\ dirty \in [Slots -> BOOLEAN]
  /\ pin_count \in [Slots -> Nat]
  /\ data \in [Slots -> Contents]
  /\ linked \subseteq Slots
  /\ store \in [Chunks -> Contents]
  /\ call \in [Backends -> Calls]
  /\ flush \in [Flushers -> Passes]
  /\ trunc \in [pc : {"idle", "scan", "clear"}, of : SUBSET Chunks, slot : 0..NumSlots, tag : Tags]
  /\ latest \in [Chunks -> BlockVersions]
  /\ stale \subseteq Chunks
  /\ early \subseteq Tags
  /\ torn \subseteq Tags
  /\ writes \in Versions
  /\ failures \in 0..MaxFailures
  /\ truncates \in 0..MaxTruncates
  /\ \A s \in Slots : pin_count[s] = Cardinality(Pinners(s)) + Cardinality(FlushPinners(s))

\* A chunk's contents d are a chunk t with at least the versions v.
Holds(d, t, v) == d.of = t /\ \A k \in Blocks : d.ver[k] >= v[k]

\* What a lookup that starts now ends up with.
Visible(t) == IF Found(t) = {} THEN store[t] ELSE data[CHOOSE s \in Found(t) : TRUE]

\* The three ways out of what follows: a chunk inserted from a fetch that another
\* backend's patch had overtaken, one unlinked while a flush was writing it back, and
\* one whose slot or chain a truncation of other chunks has cleared.
Broken == stale \cup early \cup torn

\* A chunk is in at most one slot that lookups find, and whatever backends,
\* evictions, flushes, failed PUTs and truncations do, what they find, in the
\* cache or else in the store, has every acknowledged patch, unless the chunk went
\* one of the three ways of Broken.
Coherent ==
  /\ \A s1, s2 \in linked : tag[s1] = tag[s2] => s1 = s2
  /\ \A t \in Chunks \ Broken : Holds(Visible(t), t, latest[t])

\* get_chunk returns the chunk it was asked for, never that of the slot's
\* previous or next occupant, and with every patch acknowledged before its lookup
\* unless the chunk is Broken.
ReadsRight ==
  \A b \in Backends :
    LET c == call[b]
    IN c.pc = "got" => /\ c.data.of = c.tag
                       /\ c.tag \notin Broken => Holds(c.data, c.tag, c.floor)

\* Who has taken a chunk's dirty flag and not yet put it.
PuttingBack(t) ==
  \/ \E b \in Backends : call[b].pc = "put" /\ tag[call[b].slot] = t
  \/ \E g \in Flushers : flush[g].pc = "put" /\ tag[flush[g].slot] = t

\* A flush that ends without error, with others running beside it, has every patch
\* acknowledged before it began in the store, except for a chunk that an eviction or
\* another flush is writing back at that moment or has failed to write back
\* meanwhile, for chunks that were truncated, and for Broken ones.
FlushCovers ==
  \A f \in Flushers : flush[f].pc = "scan" /\ flush[f].slot = NumSlots =>
    \A t \in flush[f].of \ (flush[f].excused \cup Broken) :
      Holds(store[t], t, flush[f].due[t]) \/ PuttingBack(t)

\* "Flush all dirty chunks in the cache" (flush_dirty_chunks): one that ends without
\* error leaves none of those it began with to be put by another process later.
FlushComplete ==
  \A f \in Flushers : flush[f].pc = "scan" /\ flush[f].slot = NumSlots =>
    \A t \in flush[f].of \ (flush[f].excused \cup Broken) : Holds(store[t], t, flush[f].due[t])

\* "concurrent partial writes to the same chunk cannot lose each other's updates"
\* (patch_chunk): no patch acknowledged to one backend disappears by what another
\* does to the same chunk.
NoLostUpdate == \A t \in Chunks \ (early \cup torn) : Holds(Visible(t), t, latest[t])

\* "Any pending dirty writes for this chunk are intentionally discarded"
\* (truncate_relfork): those of a chunk that is never truncated are not.
TruncationSpares ==
  \A t \in Chunks \ (stale \cup early \cup UNION Truncations) : Holds(Visible(t), t, latest[t])
=============================================================================
