------------------------------ MODULE MetaCache ------------------------------
(***************************************************************************)
(* The cache of relation metadata (core/src/io/cache/meta.rs), between the *)
(* relation operations (core/src/ops.rs, smgr/src/smgr_impl) and the       *)
(* store's put_meta and commit.                                            *)
(*                                                                         *)
(* The metadata of a relation fork, its block count and deleted flag, live *)
(* in a slot of shared memory.  Backends change them there; an eviction, a *)
(* backend's tiko_immedsync or the flush with which a checkpoint begins    *)
(* records a dirty slot in the draft; the commit that ends the checkpoint  *)
(* makes the draft durable.  All of these run beside each other.           *)
(*                                                                         *)
(* A bucket lock or io_lock that is held for a single action is implicit.  *)
(* The clock sweep is a free choice of the victim.  The block count is     *)
(* abstracted to the version of the metadata.                              *)
(***************************************************************************)
EXTENDS Integers, FiniteSets

CONSTANTS
  Backends,
  Checkpointer,
  Relforks,
  NoTag,        \* RelFork::default(): the slot is empty
  BucketOf,     \* the bucket of each tag, NoTag included
  NumSlots,     \* META_NUM_SLOTS
  MaxWrites,    \* bound: changes
  MaxEvents     \* bound: checkpoints, immedsyncs, store reads and records that fail

Tags     == Relforks \cup {NoTag}
Flushers == Backends \cup {Checkpointer}
Slots    == 0..(NumSlots - 1)

ASSUME MetaAssumption ==
  /\ IsFiniteSet(Backends)
  /\ Checkpointer \notin Backends
  /\ NoTag \notin Relforks
  /\ BucketOf \in [Tags -> Nat]
  /\ NumSlots \in Nat \ {0}
  /\ MaxWrites \in Nat /\ MaxEvents \in Nat

VARIABLES
  \* a slot
  tag, meta, dirty, pin_count,
  linked,     \* the slots that a walk along their tag's chain finds
  \* the store
  draft, committed,
  \* processes
  call,       \* each backend's operation
  flush,      \* each process's flush_dirty_metas, and the commit after a checkpoint's
  \* history
  latest,     \* the version of each relation's metadata written last
  stale,      \* relations inserted from a fetch that a change had overtaken
  early,      \* relations unlinked while a flush was still recording them
  dropped,    \* relations whose record the draft has refused
  writes, events

slotVars == <<tag, meta, dirty, pin_count, linked>>
store    == <<draft, committed>>
races    == <<stale, early, dropped>>
history  == <<latest, races, writes, events>>
vars     == <<slotVars, store, call, flush, history>>

\* RelForkMeta; version 0 is that of a relation that does not exist.
Versions == 0..MaxWrites
Meta     == [ver : Versions, live : BOOLEAN]
NoMeta   == [ver |-> 0, live |-> FALSE]

Idle    == [pc |-> "idle", op |-> "get", tag |-> NoTag, slot |-> 0, meta |-> NoMeta, floor |-> 0]
NoFlush == [pc |-> "idle", of |-> {}, slot |-> 0, due |-> [t \in Relforks |-> 0], missed |-> {}]

Init ==
  /\ tag = [s \in Slots |-> NoTag]
  /\ meta = [s \in Slots |-> NoMeta]
  /\ dirty = [s \in Slots |-> FALSE]
  /\ pin_count = [s \in Slots |-> 0]
  /\ linked = {}
  /\ draft = [t \in Relforks |-> NoMeta]
  /\ committed = [t \in Relforks |-> NoMeta]
  /\ call = [b \in Backends |-> Idle]
  /\ flush = [f \in Flushers |-> NoFlush]
  /\ latest = [t \in Relforks |-> 0]
  /\ stale = {} /\ early = {} /\ dropped = {}
  /\ writes = 0 /\ events = 0

-----------------------------------------------------------------------------
(* The store and the locks *)

\* get_meta of the store: the draft, then what is committed.
StoreMeta(t) == IF draft[t] # NoMeta THEN draft[t] ELSE committed[t]

\* put_meta: a record that fails is logged and forgotten.
PutMeta(t, m, ok) ==
  IF ok THEN draft' = [draft EXCEPT ![t] = m] /\ UNCHANGED <<dropped, events>>
  ELSE /\ events < MaxEvents
       /\ events' = events + 1
       /\ dropped' = dropped \cup {t}
       /\ UNCHANGED draft

\* try_flush_dirty_meta holds the io_lock while it records.
IoLocked(s) ==
  \/ \E b \in Backends : call[b].pc = "put" /\ call[b].slot = s
  \/ \E f \in Flushers : flush[f].pc = "put" /\ flush[f].slot = s

\* The third phase of an eviction holds the bucket lock from one check to the next.
BucketLocked(t) ==
  \E b \in Backends : call[b].pc = "check_dirty" /\ BucketOf[tag[call[b].slot]] = BucketOf[t]

SlotsOf(t) == {s \in linked : tag[s] = t}

Step(b, next) == call' = [call EXCEPT ![b].pc = next]
Pin(s)   == pin_count' = [pin_count EXCEPT ![s] = @ + 1]
Unpin(s) == pin_count' = [pin_count EXCEPT ![s] = @ - 1]

-----------------------------------------------------------------------------
(* Operations *)

\* PostgreSQL's relation and extension locks let one backend at a time extend,
\* truncate, create or drop a relation.
Exclusive(t) == \A b \in Backends : call[b].tag = t => call[b].op = "get"

\* CacheControl forwards to the metadata cache.  A backend does one thing at a time.
Begin(b, op) ==
  /\ call[b].pc = "idle" /\ flush[b].pc = "idle"
  /\ \E t \in Relforks :
       /\ op # "get" => Exclusive(t) /\ writes < MaxWrites
       /\ call' = [call EXCEPT ![b] = [Idle EXCEPT !.pc = "lookup", !.op = op, !.tag = t,
                                                   !.floor = latest[t]]]
  /\ UNCHANGED <<slotVars, store, flush, history>>

\* exists and nblocks read; extend (the end of write_blocks) and truncate set the block
\* count; unlink of one fork sets the deleted flag; create takes a fork that is missing
\* or deleted.
Exists(b)   == Begin(b, "get")
Nblocks(b)  == Begin(b, "get")
Extend(b)   == Begin(b, "put")
Truncate(b) == Begin(b, "put")
Unlink(b)   == Begin(b, "delete")
Create(b)   == Begin(b, "create")

\* lookup_and_pin.
Lookup(b) ==
  LET t == call[b].tag
  IN /\ call[b].pc = "lookup"
     /\ ~BucketLocked(t)
     /\ \/ /\ SlotsOf(t) = {}
           /\ Step(b, "fetch")
           /\ UNCHANGED pin_count
        \/ \E s \in SlotsOf(t) :
             /\ Pin(s)
             /\ call' = [call EXCEPT ![b].pc = "hit", ![b].slot = s]
     /\ UNCHANGED <<tag, meta, dirty, linked, store, flush, history>>

\* What an operation does to metadata it may change, if anything.
Changes(op, m) ==
  \/ op = "put" /\ m.live
  \/ op = "delete" /\ m.live
  \/ op = "create" /\ ~m.live

\* Mutant: the change is made, the slot stays clean.
HitClean(b) ==
  LET c == call[b]
      m == [ver |-> writes + 1, live |-> c.op # "delete"]
  IN /\ c.pc = "hit"
     /\ ~IoLocked(c.slot)
     /\ IF Changes(c.op, meta[c.slot])
          THEN /\ writes < MaxWrites
               /\ meta' = [meta EXCEPT ![c.slot] = m]
               /\ latest' = [latest EXCEPT ![c.tag] = writes + 1]
               /\ writes' = writes + 1
          ELSE UNCHANGED <<meta, latest, writes>>
     /\ call' = [call EXCEPT ![b].pc = "done", ![b].slot = 0, ![b].meta = meta[c.slot]]
     /\ Unpin(c.slot)
     /\ UNCHANGED <<tag, dirty, linked, store, flush, races, events>>

\* A cache hit, under the io_lock: read, or check and change.  An operation that
\* may not change what it finds is an error to its caller.
Hit(b) ==
  LET c == call[b]
      m == [ver |-> writes + 1, live |-> c.op # "delete"]
  IN /\ c.pc = "hit"
     /\ ~IoLocked(c.slot)
     /\ IF Changes(c.op, meta[c.slot])
          THEN /\ writes < MaxWrites
               /\ meta' = [meta EXCEPT ![c.slot] = m]
               /\ dirty' = [dirty EXCEPT ![c.slot] = TRUE]
               /\ latest' = [latest EXCEPT ![c.tag] = writes + 1]
               /\ writes' = writes + 1
          ELSE UNCHANGED <<meta, dirty, latest, writes>>
     /\ call' = [call EXCEPT ![b].pc = "done", ![b].slot = 0, ![b].meta = meta[c.slot]]
     /\ Unpin(c.slot)
     /\ UNCHANGED <<tag, linked, store, flush, races, events>>

\* load_from_store; create goes on when there is nothing, the others end.
Fetch(b) ==
  LET c == call[b]
      m == StoreMeta(c.tag)
  IN /\ c.pc = "fetch"
     /\ call' = [call EXCEPT ![b].meta = m,
                             ![b].pc = IF m = NoMeta /\ c.op # "create" THEN "done" ELSE "sweep"]
     /\ UNCHANGED <<slotVars, store, flush, history>>

\* A segment file or the base manifest cannot be read.
FetchFail(b) ==
  /\ call[b].pc = "fetch"
  /\ events < MaxEvents
  /\ events' = events + 1
  /\ call' = [call EXCEPT ![b] = Idle]
  /\ UNCHANGED <<slotVars, store, flush, latest, races, writes>>

Return(b) ==
  /\ call[b].pc = "done"
  /\ call' = [call EXCEPT ![b] = Idle]
  /\ UNCHANGED <<slotVars, store, flush, history>>

-----------------------------------------------------------------------------
(* Eviction and insertion *)

\* Mutant: the slot is taken off its chain before it is flushed.
EvictClaimUnlinked(b) ==
  /\ call[b].pc = "sweep"
  /\ \E s \in Slots :
       /\ pin_count[s] = 0
       /\ ~BucketLocked(tag[s])
       /\ Pin(s)
       /\ linked' = linked \ {s}
       /\ call' = [call EXCEPT ![b].pc = "flush", ![b].slot = s]
  /\ UNCHANGED <<tag, meta, dirty, store, flush, history>>

\* The first phase of evict_and_pin.
EvictClaim(b) ==
  /\ call[b].pc = "sweep"
  /\ \E s \in Slots :
       /\ pin_count[s] = 0
       /\ ~BucketLocked(tag[s])
       /\ Pin(s)
       /\ call' = [call EXCEPT ![b].pc = "flush", ![b].slot = s]
  /\ UNCHANGED <<tag, meta, dirty, linked, store, flush, history>>

\* EvictionSweepExhausted: every slot was pinned or in use too often; the call ends
\* with an error.
GiveUp(b) ==
  /\ call[b].pc = "sweep"
  /\ call' = [call EXCEPT ![b] = Idle]
  /\ UNCHANGED <<slotVars, store, flush, history>>

\* The second: try_flush_dirty_meta clears dirty, then records.
EvictFlush(b) ==
  LET s == call[b].slot
  IN /\ call[b].pc = "flush"
     /\ ~IoLocked(s)
     /\ dirty' = [dirty EXCEPT ![s] = FALSE]
     /\ Step(b, IF tag[s] # NoTag /\ dirty[s] THEN "put" ELSE "check_pin")
     /\ UNCHANGED <<tag, meta, pin_count, linked, store, flush, history>>

EvictPut(b) ==
  LET s == call[b].slot
  IN /\ call[b].pc = "put"
     /\ \E ok \in BOOLEAN : PutMeta(tag[s], meta[s], ok)
     /\ Step(b, "check_pin")
     /\ UNCHANGED <<slotVars, committed, flush, latest, stale, early, writes>>

\* A victim in use again is left alone, and the sweep goes on.
EvictAbort(b) ==
  /\ call' = [call EXCEPT ![b].pc = "sweep", ![b].slot = 0]
  /\ Unpin(call[b].slot)

\* Mutant: that others have pinned the slot meanwhile goes unnoticed.
EvictCheckPinNever(b) ==
  /\ call[b].pc = "check_pin"
  /\ ~BucketLocked(tag[call[b].slot])
  /\ Step(b, "check_dirty")
  /\ UNCHANGED <<slotVars, store, flush, history>>

\* The third, under the bucket lock: nobody else has pinned the slot ...
EvictCheckPin(b) ==
  LET s == call[b].slot
  IN /\ call[b].pc = "check_pin"
     /\ ~BucketLocked(tag[s])
     /\ \/ pin_count[s] = 1 /\ Step(b, "check_dirty") /\ UNCHANGED pin_count
        \/ pin_count[s] # 1 /\ EvictAbort(b)
     /\ UNCHANGED <<tag, meta, dirty, linked, store, flush, history>>

\* Mutant: what was written since the flush is dropped.
EvictCheckDirtyNever(b) ==
  LET s == call[b].slot
  IN /\ call[b].pc = "check_dirty"
     /\ linked' = linked \ {s}
     /\ Step(b, "clear")
     /\ UNCHANGED <<tag, meta, dirty, pin_count, store, flush, history>>

\* ... nor written to it.  A flush takes no bucket lock: it may have pinned it and
\* cleared dirty since the check of the pin.
EvictCheckDirty(b) ==
  LET s == call[b].slot
  IN /\ call[b].pc = "check_dirty"
     /\ \/ dirty[s] /\ EvictAbort(b) /\ UNCHANGED <<linked, early>>
        \/ /\ ~dirty[s]
           /\ linked' = linked \ {s}
           /\ early' = IF IoLocked(s) THEN early \cup {tag[s]} ELSE early
           /\ Step(b, "clear")
           /\ UNCHANGED pin_count
     /\ UNCHANGED <<tag, meta, dirty, store, flush, latest, stale, dropped, writes, events>>

EvictClear(b) ==
  LET s == call[b].slot
  IN /\ call[b].pc = "clear"
     /\ ~IoLocked(s)
     /\ tag' = [tag EXCEPT ![s] = NoTag]
     /\ meta' = [meta EXCEPT ![s] = NoMeta]
     /\ dirty' = [dirty EXCEPT ![s] = FALSE]
     /\ Step(b, "insert")
     /\ UNCHANGED <<pin_count, linked, store, flush, history>>

\* What follows an insertion: get and a fresh relation are done, the others look
\* the slot up again.
AfterInsert(c) == IF c.op = "get" \/ c.meta = NoMeta THEN "done" ELSE "lookup"

\* insert: another backend has inserted the tag first ...
InsertDuplicate(b) ==
  /\ call[b].pc = "insert"
  /\ ~BucketLocked(call[b].tag)
  /\ SlotsOf(call[b].tag) # {}
  /\ call' = [call EXCEPT ![b].pc = "lookup", ![b].slot = 0, ![b].meta = NoMeta]
  /\ Unpin(call[b].slot)
  /\ UNCHANGED <<tag, meta, dirty, linked, store, flush, history>>

\* ... or the slot takes what was fetched, or the metadata of a new relation.
Insert(b) ==
  LET c     == call[b]
      fresh == c.meta = NoMeta
      m     == IF fresh THEN [ver |-> writes + 1, live |-> TRUE] ELSE c.meta
  IN /\ c.pc = "insert"
     /\ ~BucketLocked(c.tag)
     /\ SlotsOf(c.tag) = {}
     /\ fresh => writes < MaxWrites
     /\ tag' = [tag EXCEPT ![c.slot] = c.tag]
     /\ meta' = [meta EXCEPT ![c.slot] = m]
     /\ dirty' = [dirty EXCEPT ![c.slot] = fresh]
     /\ linked' = linked \cup {c.slot}
     /\ IF fresh
          THEN latest' = [latest EXCEPT ![c.tag] = writes + 1] /\ writes' = writes + 1
          ELSE UNCHANGED <<latest, writes>>
     /\ stale' = IF ~fresh /\ m.ver < latest[c.tag] THEN stale \cup {c.tag} ELSE stale
     /\ Unpin(c.slot)
     /\ call' = [call EXCEPT ![b].pc = AfterInsert(c), ![b].slot = 0]
     /\ UNCHANGED <<store, flush, early, dropped, events>>

-----------------------------------------------------------------------------
(* Flushes and the commit *)

\* flush_dirty_metas of all relations, at the start of the checkpointer's
\* run_commit_protocol, or of one, in a backend's tiko_immedsync.
FlushStart(f) ==
  /\ flush[f].pc = "idle"
  /\ f \in Backends => call[f].pc = "idle"
  /\ events < MaxEvents
  /\ events' = events + 1
  /\ \E of \in IF f = Checkpointer THEN {Relforks} ELSE {{t} : t \in Relforks} :
       flush' = [flush EXCEPT ![f] = [NoFlush EXCEPT !.pc = "scan", !.of = of, !.due = latest]]
  /\ UNCHANGED <<slotVars, store, call, latest, races, writes>>

FlushGoesTo(f, pc) == flush' = [flush EXCEPT ![f].pc = pc]
FlushNext(f) == flush' = [flush EXCEPT ![f].pc = "scan", ![f].slot = @ + 1]

\* A slot that is clean is passed over ...
FlushSkip(f) ==
  /\ flush[f].pc = "scan" /\ flush[f].slot \in Slots
  /\ ~dirty[flush[f].slot]
  /\ FlushNext(f)
  /\ UNCHANGED <<slotVars, store, call, history>>

\* ... a dirty one is pinned, without the bucket lock, ...
FlushPin(f) ==
  /\ flush[f].pc = "scan" /\ flush[f].slot \in Slots
  /\ dirty[flush[f].slot]
  /\ Pin(flush[f].slot)
  /\ FlushGoesTo(f, "recheck")
  /\ UNCHANGED <<tag, meta, dirty, linked, store, call, history>>

\* ... looked at again ...
FlushRecheck(f) ==
  LET s == flush[f].slot
  IN /\ flush[f].pc = "recheck"
     /\ IF dirty[s] /\ tag[s] \in flush[f].of
        THEN FlushGoesTo(f, "lock") /\ UNCHANGED pin_count
        ELSE FlushNext(f) /\ Unpin(s)
     /\ UNCHANGED <<tag, meta, dirty, linked, store, call, history>>

\* ... and recorded by try_flush_dirty_meta.
FlushSwap(f) ==
  LET s == flush[f].slot
  IN /\ flush[f].pc = "lock"
     /\ ~IoLocked(s)
     /\ dirty' = [dirty EXCEPT ![s] = FALSE]
     /\ IF dirty[s] THEN FlushGoesTo(f, "put") /\ UNCHANGED pin_count
        ELSE FlushNext(f) /\ Unpin(s)
     /\ UNCHANGED <<tag, meta, linked, store, call, history>>

FlushPut(f) ==
  LET s == flush[f].slot
  IN /\ flush[f].pc = "put"
     /\ \E ok \in BOOLEAN : PutMeta(tag[s], meta[s], ok)
     /\ FlushNext(f)
     /\ Unpin(s)
     /\ UNCHANGED <<tag, meta, dirty, linked, committed, call, latest, stale, early, writes>>

\* Relations whose dirty flag an eviction or a flush has cleared and which are in no
\* draft yet: put_meta has still to take the timeline's read lock.
Recording ==
  {tag[call[b].slot] : b \in {c \in Backends : call[c].pc = "put"}}
    \cup {tag[flush[f].slot] : f \in {g \in Flushers : flush[g].pc = "put"}}

Drain ==
  /\ committed' = [t \in Relforks |-> StoreMeta(t)]
  /\ draft' = [t \in Relforks |-> NoMeta]

\* The rest of the checkpointer's run_commit_protocol, under the timeline's write lock;
\* an immedsync has none.
Commit(f) ==
  /\ flush[f].pc = "scan" /\ flush[f].slot = NumSlots
  /\ IF f = Checkpointer THEN Drain ELSE UNCHANGED store
  /\ flush' = [flush EXCEPT ![f].pc = "end", ![f].missed = Recording]
  /\ UNCHANGED <<slotVars, call, history>>

FlushEnd(f) ==
  /\ flush[f].pc = "end"
  /\ flush' = [flush EXCEPT ![f] = NoFlush]
  /\ UNCHANGED <<slotVars, store, call, history>>

Evict(b) ==
  \/ EvictClaim(b) \/ GiveUp(b) \/ EvictFlush(b) \/ EvictPut(b)
  \/ EvictCheckPin(b) \/ EvictCheckDirty(b) \/ EvictClear(b)

CallStep(b) ==
  \/ Lookup(b) \/ Hit(b) \/ Fetch(b) \/ FetchFail(b) \/ Return(b)
  \/ Evict(b) \/ InsertDuplicate(b) \/ Insert(b)

FlushStep(f) ==
  \/ FlushStart(f) \/ FlushSkip(f) \/ FlushPin(f) \/ FlushRecheck(f) \/ FlushSwap(f)
  \/ FlushPut(f) \/ Commit(f) \/ FlushEnd(f)

Next ==
  \/ \E b \in Backends :
       \/ Exists(b) \/ Nblocks(b) \/ Extend(b) \/ Truncate(b) \/ Unlink(b) \/ Create(b)
       \/ CallStep(b)
  \/ \E f \in Flushers : FlushStep(f)

Spec == Init /\ [][Next]_vars

-----------------------------------------------------------------------------
(* Properties *)

\* What a lookup that starts now will find.
Visible(t) == IF SlotsOf(t) # {} THEN meta[CHOOSE s \in SlotsOf(t) : TRUE] ELSE StoreMeta(t)

\* The three named races: a relation inserted from a fetch that a change had overtaken,
\* one unlinked while a flush was recording it, and one whose record the draft refused.
Raced == stale \cup early \cup dropped

\* The processes that have a slot pinned.
Using    == {"hit", "flush", "put", "check_pin", "check_dirty", "clear", "insert"}
Users(s) == {b \in Backends : call[b].slot = s /\ call[b].pc \in Using}
FlushUsers(s) == {f \in Flushers : flush[f].slot = s /\ flush[f].pc \in {"recheck", "lock", "put"}}

Passes ==
  [pc : {"idle", "scan", "recheck", "lock", "put", "end"}, of : SUBSET Relforks,
   slot : 0..NumSlots, due : [Relforks -> Versions], missed : SUBSET Relforks]

\* Shapes; pins are held by whoever uses the slot, and no relation is linked twice.
TypeOK ==
  /\ tag \in [Slots -> Tags] /\ meta \in [Slots -> Meta] /\ dirty \in [Slots -> BOOLEAN]
  /\ pin_count \in [Slots -> Nat] /\ linked \subseteq Slots
  /\ draft \in [Relforks -> Meta] /\ committed \in [Relforks -> Meta]
  /\ call \in [Backends ->
       [pc : {"idle", "lookup", "hit", "fetch", "sweep", "flush", "put", "check_pin", "check_dirty",
              "clear", "insert", "done"},
        op : {"get", "put", "delete", "create"}, tag : Tags, slot : Slots, meta : Meta,
        floor : Versions]]
  /\ flush \in [Flushers -> Passes]
  /\ latest \in [Relforks -> Versions]
  /\ Raced \subseteq Relforks
  /\ writes \in Versions /\ events \in 0..MaxEvents
  /\ \A s \in Slots : pin_count[s] = Cardinality(Users(s)) + Cardinality(FlushUsers(s))
  /\ \A s, r \in linked : tag[s] = tag[r] => s = r

\* No acknowledged change of a relation's metadata is undone by evictions, concurrent
\* flushes or insertions, apart from the three named races: a lookup finds the last one.
Coherent == \A t \in Relforks \ Raced : Visible(t).ver = latest[t]

\* An operation, whether it reads or changes, acts on metadata that was current when it
\* began, or later, unless the relation met one of the three races: one whose first flush
\* is under way does not seem missing.
SeesCurrent ==
  \A b \in Backends :
    call[b].pc = "done" /\ call[b].tag \notin Raced => call[b].meta.ver >= call[b].floor

\* A checkpoint has every change made before it began in what it commits, except for a
\* relation that met one of the three races, and one that an eviction or another process's
\* immedsync is about to record when the commit gets the write lock.
CheckpointCovers ==
  LET f == flush[Checkpointer]
  IN f.pc = "end" => \A t \in Relforks \ (Raced \cup f.missed) : committed[t].ver >= f.due[t]

\* "This is the fence: it blocks until every in-flight reader (the flush above, plus any
\* concurrent backend evictions) has dropped its read lock" (run_commit_protocol): nothing
\* that was dirty before the checkpoint is left to be recorded after its commit.
CheckpointComplete ==
  LET f == flush[Checkpointer]
  IN f.pc = "end" => \A t \in Relforks \ Raced : committed[t].ver >= f.due[t]
=============================================================================
