--------------------------- MODULE MetaCacheProofs ---------------------------
(***************************************************************************)
(* Proofs about the metadata cache, for every number of backends,          *)
(* relations and slots, every hash of tags to buckets and every bound:     *)
(* pins are exact and no relation is linked twice; apart from the three    *)
(* named races no change is undone and no operation acts on old metadata;  *)
(* and a checkpoint, with other flushes beside it, commits every change    *)
(* made before it began that no other process is just recording.           *)
(***************************************************************************)
EXTENDS MetaCache, FiniteSetTheorems, TLAPS

-----------------------------------------------------------------------------
(* The inductive invariant *)

Pcs == {"idle", "lookup", "hit", "fetch", "sweep", "flush", "put", "check_pin", "check_dirty",
        "clear", "insert", "done"}
Calls == [pc : Pcs, op : {"get", "put", "delete", "create"}, tag : Tags, slot : Slots, meta : Meta,
          floor : Versions]
Flushing == [Flushers -> Passes]

\* A call that has a slot pinned looks at it, or evicts it; a flush pins the slot it is at.
Evicting     == Using \ {"hit"}
Pins         == {"recheck", "lock", "put"}
FlushUses(s) == Cardinality(FlushUsers(s))

\* The parts of TypeOK.
Shapes ==
  /\ tag \in [Slots -> Tags] /\ meta \in [Slots -> Meta] /\ dirty \in [Slots -> BOOLEAN]
  /\ linked \subseteq Slots
  /\ draft \in [Relforks -> Meta] /\ committed \in [Relforks -> Meta]
  /\ call \in [Backends -> Calls] /\ flush \in Flushing
  /\ latest \in [Relforks -> Versions]
  /\ stale \subseteq Relforks /\ early \subseteq Relforks /\ dropped \subseteq Relforks
  /\ writes \in Versions /\ events \in 0..MaxEvents
PinsExact ==
  /\ pin_count \in [Slots -> Nat]
  /\ \A s \in Slots : pin_count[s] = Cardinality(Users(s)) + FlushUses(s)
LinkedOnce == \A s, r \in linked : tag[s] = tag[r] => s = r

\* A slot on a chain has a relation, and a slot off the chains nothing to flush.
SlotInv ==
  \A s \in Slots : (s \in linked => tag[s] \in Relforks) /\ (dirty[s] => s \in linked)

\* What a call knows of its slot: a hit and a record find it linked, to the call's
\* own tag in the first case; an eviction past its checks has unlinked it, and no
\* flush is recording what it is about to insert.
CallOk(b) ==
  /\ call[b].pc # "idle" => call[b].tag \in Relforks
  /\ call[b].pc = "hit" => call[b].slot \in linked /\ tag[call[b].slot] = call[b].tag
  /\ call[b].pc = "put" => call[b].slot \in linked
  /\ call[b].pc \in {"clear", "insert"} => call[b].slot \notin linked
  /\ call[b].pc = "insert" =>
       \A f \in Flushers : ~(flush[f].pc = "put" /\ flush[f].slot = call[b].slot)
CallInv == \A b \in Backends : CallOk(b)

\* A slot has one evictor, and past the check of the pin no other user.
ApartFrom(a, b) ==
  call[a].slot = call[b].slot =>
    /\ ~(call[a].pc \in Evicting /\ call[b].pc \in Evicting)
    /\ ~(call[a].pc = "hit" /\ call[b].pc \in {"check_dirty", "clear", "insert"})
Apart == \A a, b \in Backends : a # b => ApartFrom(a, b)

\* A slot that a flush is recording is linked, unless it was unlinked early; a
\* checkpoint flushes every relation.
FlushOk(f) ==
  /\ flush[f].pc \in Pins => flush[f].slot \in Slots
  /\ flush[f].pc = "put" =>
       /\ tag[flush[f].slot] \in Relforks
       /\ flush[f].slot \in linked \/ tag[flush[f].slot] \in early
  /\ f = Checkpointer /\ flush[f].pc # "idle" => flush[f].of = Relforks
FlushInv == \A f \in Flushers : FlushOk(f)

Structure == Shapes /\ PinsExact /\ LinkedOnce /\ SlotInv /\ CallInv /\ Apart /\ FlushInv

-----------------------------------------------------------------------------
(* Constants, and the steps of a call *)

LEMMA Basics ==
  /\ 0 \in Versions /\ Versions \subseteq Nat
  /\ 0 \in Slots /\ Slots \subseteq Nat
  /\ NoTag \in Tags /\ Relforks \subseteq Tags
  /\ NoMeta \in Meta /\ NoMeta.ver = 0
BY MetaAssumption DEF Versions, Slots, Tags, Meta, NoMeta

LEMMA MetaFields ==
  ASSUME NEW m \in Meta
  PROVE  m.ver \in Versions /\ m.ver \in Nat
BY Basics DEF Meta

LEMMA IdleType ==
  /\ Idle \in Calls /\ Idle.pc = "idle" /\ Idle.tag = NoTag /\ Idle.slot = 0 /\ Idle.op = "get"
BY Basics DEF Idle, Calls, Pcs

LEMMA NoFlushType ==
  /\ NoFlush \in Passes /\ NoFlush.pc = "idle" /\ NoFlush.slot = 0
  /\ \A t \in Relforks : NoFlush.due[t] = 0
BY Basics, MetaAssumption DEF NoFlush, Passes

LEMMA TypeParts == TypeOK <=> Shapes /\ PinsExact /\ LinkedOnce
<1>1. Raced \subseteq Relforks <=>
        stale \subseteq Relforks /\ early \subseteq Relforks /\ dropped \subseteq Relforks
  BY DEF Raced
<1> QED
  BY <1>1 DEF TypeOK, FlushUses, Shapes, PinsExact, LinkedOnce, Calls, Pcs, Flushing

\* b's call goes on: to another step, with another slot or metadata.
CallTo(b, pc, slot, m) ==
  /\ call' \in [Backends -> Calls]
  /\ \A a \in Backends \ {b} : call'[a] = call[a]
  /\ call'[b].pc = pc /\ call'[b].slot = slot /\ call'[b].meta = m
  /\ call'[b].tag = call[b].tag /\ call'[b].op = call[b].op /\ call'[b].floor = call[b].floor

\* ... or it is over.
CallEnds(b) ==
  /\ call' \in [Backends -> Calls]
  /\ \A a \in Backends \ {b} : call'[a] = call[a]
  /\ call'[b].pc = "idle" /\ call'[b].slot = 0 /\ call'[b].tag = NoTag

LEMMA Typed ==
  ASSUME Structure, NEW b \in Backends
  PROVE  /\ call \in [Backends -> Calls] /\ call[b] \in Calls
         /\ call[b].slot \in Slots /\ call[b].tag \in Tags /\ call[b].meta \in Meta
         /\ call[b].floor \in Nat /\ call[b].pc \in Pcs
         /\ call[b].pc # "idle" => call[b].tag \in Relforks
BY Basics DEF Structure, Shapes, CallInv, CallOk, Calls

LEMMA StepTo ==
  ASSUME Structure, NEW b \in Backends, NEW pc \in Pcs, Step(b, pc)
  PROVE  CallTo(b, pc, call[b].slot, call[b].meta)
BY Typed DEF Step, CallTo, Calls

LEMMA MoveTo ==
  ASSUME Structure, NEW b \in Backends, NEW pc \in Pcs, NEW s \in Slots,
         call' = [call EXCEPT ![b].pc = pc, ![b].slot = s]
  PROVE  CallTo(b, pc, s, call[b].meta)
BY Typed DEF CallTo, Calls

LEMMA EndIdle ==
  ASSUME Structure, NEW b \in Backends, call' = [call EXCEPT ![b] = Idle]
  PROVE  CallEnds(b)
BY Typed, IdleType DEF CallEnds

-----------------------------------------------------------------------------
(* Counting pins *)

LEMMA UsersFinite ==
  ASSUME NEW s
  PROVE  /\ IsFiniteSet(Users(s)) /\ Cardinality(Users(s)) \in Nat
         /\ Cardinality(Users(s)) = 0 <=> Users(s) = {}
<1>1. Users(s) \subseteq Backends
  BY DEF Users
<1> QED
  BY <1>1, MetaAssumption, FS_Subset, FS_CardinalityType, FS_EmptySet

LEMMA FlushUsersFinite ==
  ASSUME NEW s
  PROVE  /\ IsFiniteSet(FlushUsers(s)) /\ FlushUses(s) \in Nat
         /\ FlushUses(s) = 0 <=> FlushUsers(s) = {}
<1>1. FlushUsers(s) \subseteq Flushers
  BY DEF FlushUsers
<1>2. IsFiniteSet(Flushers)
  BY MetaAssumption, FS_AddElement DEF Flushers
<1> QED
  BY <1>1, <1>2, FS_Subset, FS_CardinalityType, FS_EmptySet DEF FlushUses

LEMMA FlushUsesSame ==
  ASSUME NEW s, flush' = flush
  PROVE  FlushUses(s)' = FlushUses(s)
<1>1. FlushUsers(s)' = FlushUsers(s)
  BY DEF FlushUsers
<1> QED
  BY <1>1 DEF FlushUses

\* An unpinned slot has no users, and one with a single pin no second one.
LEMMA PinFacts ==
  ASSUME PinsExact, NEW s \in Slots
  PROVE  /\ pin_count[s] \in Nat
         /\ pin_count[s] = 0 => Users(s) = {} /\ FlushUses(s) = 0
         /\ \A b \in Users(s) : pin_count[s] = 1 => Users(s) = {b}
         /\ Users(s) # {} => pin_count[s] > 0
         /\ FlushUses(s) > 0 => pin_count[s] > 0
<1>1. /\ IsFiniteSet(Users(s)) /\ Cardinality(Users(s)) \in Nat /\ FlushUses(s) \in Nat
      /\ Cardinality(Users(s)) = 0 <=> Users(s) = {}
  BY UsersFinite, FlushUsersFinite
<1>2. pin_count[s] = Cardinality(Users(s)) + FlushUses(s)
  BY DEF PinsExact
<1>3. ASSUME NEW b \in Users(s), pin_count[s] = 1
      PROVE  Users(s) = {b}
  <2>0. Cardinality(Users(s)) # 0
    BY <1>1, <1>3
  <2>1. Cardinality(Users(s)) = 1
    BY <1>1, <1>2, <1>3, <2>0
  <2>2. PICK x : Users(s) = {x}
    BY <1>1, <2>1, FS_Singleton
  <2> QED
    BY <2>2
<1> QED
  BY <1>1, <1>2, <1>3

\* b takes a slot.
LEMMA PinGain ==
  ASSUME PinsExact, NEW b \in Backends, NEW s \in Slots,
         \A a \in Backends \ {b} : call'[a] = call[a],
         call[b].pc \notin Using, call'[b].pc \in Using, call'[b].slot = s, Pin(s), flush' = flush
  PROVE  PinsExact'
<1>1. pin_count \in [Slots -> Nat]
  BY DEF PinsExact
<1>2. pin_count' \in [Slots -> Nat]
  <2>1. pin_count[s] + 1 \in Nat
    BY <1>1
  <2> QED
    BY <1>1, <2>1 DEF Pin
<1>3. ASSUME NEW r \in Slots
      PROVE  pin_count'[r] = Cardinality(Users(r)') + FlushUses(r)'
  <2>1. pin_count[r] = Cardinality(Users(r)) + FlushUses(r) /\ pin_count[r] \in Nat
    BY <1>1 DEF PinsExact
  <2>2. FlushUses(r)' = FlushUses(r) /\ FlushUses(r) \in Nat
    BY FlushUsesSame, FlushUsersFinite
  <2>3. CASE r = s
    <3>1. Users(s)' = Users(s) \cup {b} /\ b \notin Users(s)
      BY DEF Users
    <3>2. Cardinality(Users(s)') = Cardinality(Users(s)) + 1
      BY <3>1, UsersFinite, FS_AddElement
    <3>3. pin_count'[r] = pin_count[r] + 1
      BY <1>1, <2>3 DEF Pin
    <3> QED
      BY <2>1, <2>2, <2>3, <3>2, <3>3, UsersFinite
  <2>4. CASE r # s
    <3>1. Users(r)' = Users(r)
      BY <2>4 DEF Users
    <3>2. pin_count'[r] = pin_count[r]
      BY <1>1, <2>4 DEF Pin
    <3> QED
      BY <2>1, <2>2, <3>1, <3>2
  <2> QED
    BY <2>3, <2>4
<1> QED
  BY <1>2, <1>3 DEF PinsExact

\* b gives its slot up.
LEMMA PinLoss ==
  ASSUME PinsExact, NEW b \in Backends, NEW s \in Slots,
         \A a \in Backends \ {b} : call'[a] = call[a],
         call[b].pc \in Using, call[b].slot = s, call'[b].pc \notin Using, Unpin(s), flush' = flush
  PROVE  PinsExact'
<1>1. pin_count \in [Slots -> Nat] /\ b \in Users(s)
  BY DEF PinsExact, Users
<1>2. pin_count[s] > 0
  BY <1>1, PinFacts
<1>3. pin_count' \in [Slots -> Nat]
  BY <1>1, <1>2 DEF Unpin
<1>4. ASSUME NEW r \in Slots
      PROVE  pin_count'[r] = Cardinality(Users(r)') + FlushUses(r)'
  <2>1. pin_count[r] = Cardinality(Users(r)) + FlushUses(r) /\ pin_count[r] \in Nat
    BY <1>1 DEF PinsExact
  <2>2. FlushUses(r)' = FlushUses(r) /\ FlushUses(r) \in Nat
    BY FlushUsesSame, FlushUsersFinite
  <2>3. CASE r = s
    <3>1. Users(s)' = Users(s) \ {b}
      BY DEF Users
    <3>2. Cardinality(Users(s)') = Cardinality(Users(s)) - 1
      BY <1>1, <3>1, UsersFinite, FS_RemoveElement
    <3>3. pin_count'[r] = pin_count[r] - 1
      BY <1>1, <2>3 DEF Unpin
    <3> QED
      BY <2>1, <2>2, <2>3, <3>2, <3>3, UsersFinite
  <2>4. CASE r # s
    <3>1. Users(r)' = Users(r)
      BY <2>4 DEF Users
    <3>2. pin_count'[r] = pin_count[r]
      BY <1>1, <2>4 DEF Unpin
    <3> QED
      BY <2>1, <2>2, <3>1, <3>2
  <2> QED
    BY <2>3, <2>4
<1> QED
  BY <1>3, <1>4 DEF PinsExact

\* b keeps what it has, or has none.
LEMMA PinKeep ==
  ASSUME PinsExact, NEW b \in Backends,
         \A a \in Backends \ {b} : call'[a] = call[a],
         \/ call[b].pc \in Using /\ call'[b].pc \in Using /\ call'[b].slot = call[b].slot
         \/ call[b].pc \notin Using /\ call'[b].pc \notin Using,
         pin_count' = pin_count, flush' = flush
  PROVE  PinsExact'
<1>1. \A r \in Slots : Users(r)' = Users(r) /\ FlushUses(r)' = FlushUses(r)
  BY FlushUsesSame DEF Users
<1> QED
  BY <1>1 DEF PinsExact

\* The same for a flush.
LEMMA FlushPinStep ==
  ASSUME PinsExact, call' = call,
         \/ pin_count' = pin_count /\ \A s \in Slots : FlushUses(s)' = FlushUses(s)
         \/ \E s \in Slots :
              /\ Pin(s) /\ FlushUses(s)' = FlushUses(s) + 1
              /\ \A r \in Slots \ {s} : FlushUses(r)' = FlushUses(r)
         \/ \E s \in Slots :
              /\ Unpin(s) /\ FlushUses(s) > 0 /\ FlushUses(s)' = FlushUses(s) - 1
              /\ \A r \in Slots \ {s} : FlushUses(r)' = FlushUses(r)
  PROVE  PinsExact'
<1>1. pin_count \in [Slots -> Nat]
  BY DEF PinsExact
<1>2. \A r \in Slots : /\ Users(r)' = Users(r)
                       /\ Cardinality(Users(r)) \in Nat
                       /\ FlushUses(r) \in Nat
                       /\ pin_count[r] = Cardinality(Users(r)) + FlushUses(r)
  BY UsersFinite, FlushUsersFinite DEF Users, PinsExact
<1> QED
  BY <1>1, <1>2 DEF PinsExact, Pin, Unpin

-----------------------------------------------------------------------------
(* What each step of a call does to it *)

LEMMA BeginFacts ==
  ASSUME Structure, NEW b \in Backends, NEW op \in {"get", "put", "delete", "create"}, Begin(b, op)
  PROVE  /\ call[b].pc = "idle" /\ call' \in [Backends -> Calls]
         /\ \A a \in Backends \ {b} : call'[a] = call[a]
         /\ call'[b].pc = "lookup" /\ call'[b].tag \in Relforks
         /\ call'[b].floor = latest[call'[b].tag]
         /\ UNCHANGED <<slotVars, store, flush, history>>
<1>1. PICK t \in Relforks :
        call' = [call EXCEPT ![b] = [Idle EXCEPT !.pc = "lookup", !.op = op, !.tag = t,
                                                 !.floor = latest[t]]]
  BY DEF Begin
<1> DEFINE d == [Idle EXCEPT !.pc = "lookup", !.op = op, !.tag = t, !.floor = latest[t]]
<1>2. d \in Calls /\ d.pc = "lookup" /\ d.tag = t /\ d.floor = latest[t]
  BY IdleType, Basics DEF Structure, Shapes, Calls, Pcs
<1>3. call' = [call EXCEPT ![b] = d]
  BY <1>1
<1> HIDE DEF d
<1> QED
  BY <1>2, <1>3, Typed DEF Begin

LEMMA LookupFacts ==
  ASSUME Structure, NEW b \in Backends, Lookup(b)
  PROVE  /\ call[b].pc = "lookup"
         /\ \/ /\ SlotsOf(call[b].tag) = {} /\ UNCHANGED pin_count
               /\ CallTo(b, "fetch", call[b].slot, call[b].meta)
            \/ \E s \in SlotsOf(call[b].tag) :
                 /\ ~BucketLocked(call[b].tag) /\ Pin(s) /\ CallTo(b, "hit", s, call[b].meta)
         /\ UNCHANGED <<tag, meta, dirty, linked, store, flush, history>>
<1>1. \A s \in SlotsOf(call[b].tag) : s \in Slots
  BY DEF Structure, Shapes, SlotsOf
<1>2. "fetch" \in Pcs /\ "hit" \in Pcs
  BY DEF Pcs
<1>3. CASE SlotsOf(call[b].tag) = {} /\ Step(b, "fetch") /\ UNCHANGED pin_count
  BY <1>2, <1>3, StepTo DEF Lookup
<1>4. CASE \E s \in SlotsOf(call[b].tag) :
             Pin(s) /\ call' = [call EXCEPT ![b].pc = "hit", ![b].slot = s]
  BY <1>1, <1>2, <1>4, MoveTo DEF Lookup
<1> QED
  BY <1>3, <1>4 DEF Lookup

LEMMA HitFacts ==
  ASSUME Structure, NEW b \in Backends, Hit(b)
  PROVE  /\ call[b].pc = "hit" /\ ~IoLocked(call[b].slot)
         /\ CallTo(b, "done", 0, meta[call[b].slot]) /\ Unpin(call[b].slot)
         /\ \/ UNCHANGED <<meta, dirty, latest, writes>>
            \/ /\ writes < MaxWrites /\ writes' = writes + 1
               /\ \E live \in BOOLEAN :
                    meta' = [meta EXCEPT ![call[b].slot] = [ver |-> writes + 1, live |-> live]]
               /\ dirty' = [dirty EXCEPT ![call[b].slot] = TRUE]
               /\ latest' = [latest EXCEPT ![call[b].tag] = writes + 1]
         /\ UNCHANGED <<tag, linked, store, flush, races, events>>
<1>1. meta[call[b].slot] \in Meta /\ 0 \in Slots /\ "done" \in Pcs
  BY Typed, Basics DEF Structure, Shapes, Pcs
<1>2. CallTo(b, "done", 0, meta[call[b].slot])
  BY <1>1, Typed DEF Hit, CallTo, Calls
<1>3. (call[b].op # "delete") \in BOOLEAN
  OBVIOUS
<1> QED
  BY <1>2, <1>3 DEF Hit

LEMMA StoreMetaType ==
  ASSUME Structure, NEW t \in Relforks
  PROVE  StoreMeta(t) \in Meta
BY DEF Structure, Shapes, StoreMeta

LEMMA FetchFacts ==
  ASSUME Structure, NEW b \in Backends, Fetch(b)
  PROVE  /\ call[b].pc = "fetch"
         /\ \/ CallTo(b, "done", call[b].slot, StoreMeta(call[b].tag))
            \/ CallTo(b, "sweep", call[b].slot, StoreMeta(call[b].tag))
         /\ UNCHANGED <<slotVars, store, flush, history>>
<1>1. call[b].pc = "fetch" /\ StoreMeta(call[b].tag) \in Meta /\ {"done", "sweep"} \subseteq Pcs
  BY Typed, StoreMetaType DEF Fetch, Pcs
<1> DEFINE pc == IF StoreMeta(call[b].tag) = NoMeta /\ call[b].op # "create" THEN "done" ELSE "sweep"
<1>2. call' = [call EXCEPT ![b].meta = StoreMeta(call[b].tag), ![b].pc = pc]
  BY DEF Fetch
<1>3. pc \in {"done", "sweep"}
  OBVIOUS
<1> HIDE DEF pc
<1>4. CallTo(b, pc, call[b].slot, StoreMeta(call[b].tag))
  BY <1>1, <1>2, <1>3, Typed DEF CallTo, Calls
<1> QED
  BY <1>1, <1>3, <1>4 DEF Fetch

LEMMA EvictClaimFacts ==
  ASSUME Structure, NEW b \in Backends, EvictClaim(b)
  PROVE  /\ call[b].pc = "sweep"
         /\ \E s \in Slots : /\ pin_count[s] = 0 /\ Pin(s) /\ CallTo(b, "flush", s, call[b].meta)
         /\ UNCHANGED <<tag, meta, dirty, linked, store, flush, history>>
<1>1. PICK s \in Slots : /\ pin_count[s] = 0 /\ Pin(s)
                         /\ call' = [call EXCEPT ![b].pc = "flush", ![b].slot = s]
  BY DEF EvictClaim
<1>2. CallTo(b, "flush", s, call[b].meta)
  BY <1>1, MoveTo DEF Pcs
<1> QED
  BY <1>1, <1>2 DEF EvictClaim

LEMMA EvictFlushFacts ==
  ASSUME Structure, NEW b \in Backends, EvictFlush(b)
  PROVE  /\ call[b].pc = "flush" /\ ~IoLocked(call[b].slot)
         /\ dirty' = [dirty EXCEPT ![call[b].slot] = FALSE]
         /\ \/ dirty[call[b].slot] /\ CallTo(b, "put", call[b].slot, call[b].meta)
            \/ ~dirty[call[b].slot] /\ CallTo(b, "check_pin", call[b].slot, call[b].meta)
         /\ UNCHANGED <<tag, meta, pin_count, linked, store, flush, history>>
<1>1. call[b].slot \in Slots
  BY Typed
<1>2. dirty[call[b].slot] => tag[call[b].slot] # NoTag
  BY <1>1, MetaAssumption DEF Structure, SlotInv
<1>3. dirty[call[b].slot] \in BOOLEAN
  BY <1>1 DEF Structure, Shapes
<1>4. {"put", "check_pin"} \subseteq Pcs
  BY DEF Pcs
<1>5. CASE dirty[call[b].slot]
  <2>1. Step(b, "put")
    BY <1>2, <1>5 DEF EvictFlush
  <2> QED
    BY <1>4, <1>5, <2>1, StepTo DEF EvictFlush
<1>6. CASE ~dirty[call[b].slot]
  <2>1. Step(b, "check_pin")
    BY <1>6 DEF EvictFlush
  <2> QED
    BY <1>4, <1>6, <2>1, StepTo DEF EvictFlush
<1> QED
  BY <1>5, <1>6

LEMMA EvictPutFacts ==
  ASSUME Structure, NEW b \in Backends, EvictPut(b)
  PROVE  /\ call[b].pc = "put" /\ CallTo(b, "check_pin", call[b].slot, call[b].meta)
         /\ \E ok \in BOOLEAN : PutMeta(tag[call[b].slot], meta[call[b].slot], ok)
         /\ UNCHANGED <<slotVars, committed, flush, latest, stale, early, writes>>
BY StepTo DEF EvictPut, Pcs

LEMMA EvictAbortFacts ==
  ASSUME Structure, NEW b \in Backends, EvictAbort(b)
  PROVE  CallTo(b, "sweep", 0, call[b].meta) /\ Unpin(call[b].slot)
BY MoveTo, Basics DEF EvictAbort, Pcs

LEMMA EvictCheckPinFacts ==
  ASSUME Structure, NEW b \in Backends, EvictCheckPin(b)
  PROVE  /\ call[b].pc = "check_pin"
         /\ \/ /\ pin_count[call[b].slot] = 1 /\ UNCHANGED pin_count
               /\ CallTo(b, "check_dirty", call[b].slot, call[b].meta)
            \/ CallTo(b, "sweep", 0, call[b].meta) /\ Unpin(call[b].slot)
         /\ UNCHANGED <<tag, meta, dirty, linked, store, flush, history>>
<1>1. "check_dirty" \in Pcs
  BY DEF Pcs
<1> QED
  BY <1>1, StepTo, EvictAbortFacts DEF EvictCheckPin

LEMMA EvictCheckDirtyFacts ==
  ASSUME Structure, NEW b \in Backends, EvictCheckDirty(b)
  PROVE  /\ call[b].pc = "check_dirty"
         /\ \/ /\ CallTo(b, "sweep", 0, call[b].meta) /\ Unpin(call[b].slot)
               /\ UNCHANGED <<linked, early>>
            \/ /\ ~dirty[call[b].slot]
               /\ linked' = linked \ {call[b].slot}
               /\ IoLocked(call[b].slot) => early' = early \cup {tag[call[b].slot]}
               /\ ~IoLocked(call[b].slot) => early' = early
               /\ CallTo(b, "clear", call[b].slot, call[b].meta) /\ UNCHANGED pin_count
         /\ UNCHANGED <<tag, meta, dirty, store, flush, latest, stale, dropped, writes, events>>
<1>1. "clear" \in Pcs
  BY DEF Pcs
<1>2. CASE dirty[call[b].slot] /\ EvictAbort(b) /\ UNCHANGED <<linked, early>>
  BY <1>2, EvictAbortFacts DEF EvictCheckDirty
<1>3. CASE /\ ~dirty[call[b].slot] /\ linked' = linked \ {call[b].slot}
           /\ early' = IF IoLocked(call[b].slot) THEN early \cup {tag[call[b].slot]} ELSE early
           /\ Step(b, "clear") /\ UNCHANGED pin_count
  BY <1>1, <1>3, StepTo DEF EvictCheckDirty
<1> QED
  BY <1>2, <1>3 DEF EvictCheckDirty

LEMMA EvictClearFacts ==
  ASSUME Structure, NEW b \in Backends, EvictClear(b)
  PROVE  /\ call[b].pc = "clear" /\ ~IoLocked(call[b].slot)
         /\ CallTo(b, "insert", call[b].slot, call[b].meta)
         /\ tag' = [tag EXCEPT ![call[b].slot] = NoTag]
         /\ meta' = [meta EXCEPT ![call[b].slot] = NoMeta]
         /\ dirty' = [dirty EXCEPT ![call[b].slot] = FALSE]
         /\ UNCHANGED <<pin_count, linked, store, flush, history>>
BY StepTo DEF EvictClear, Pcs

LEMMA InsertDuplicateFacts ==
  ASSUME Structure, NEW b \in Backends, InsertDuplicate(b)
  PROVE  /\ call[b].pc = "insert" /\ CallTo(b, "lookup", 0, NoMeta) /\ Unpin(call[b].slot)
         /\ UNCHANGED <<tag, meta, dirty, linked, store, flush, history>>
BY Typed, Basics DEF InsertDuplicate, CallTo, Calls, Pcs

LEMMA InsertFacts ==
  ASSUME Structure, NEW b \in Backends, Insert(b)
  PROVE  \E m \in Meta, pc \in {"done", "lookup"} :
           /\ call[b].pc = "insert" /\ CallTo(b, pc, 0, call[b].meta) /\ Unpin(call[b].slot)
           /\ SlotsOf(call[b].tag) = {}
           /\ tag' = [tag EXCEPT ![call[b].slot] = call[b].tag]
           /\ meta' = [meta EXCEPT ![call[b].slot] = m]
           /\ linked' = linked \cup {call[b].slot}
           /\ dirty' \in [Slots -> BOOLEAN]
           /\ \A s \in Slots \ {call[b].slot} : dirty'[s] = dirty[s]
           /\ \/ /\ call[b].meta = NoMeta /\ m.ver = writes + 1 /\ writes < MaxWrites
                 /\ dirty'[call[b].slot]
                 /\ writes' = writes + 1 /\ latest' = [latest EXCEPT ![call[b].tag] = writes + 1]
                 /\ UNCHANGED stale
              \/ /\ call[b].meta # NoMeta /\ m = call[b].meta /\ UNCHANGED <<writes, latest>>
                 /\ stale' = IF m.ver < latest[call[b].tag] THEN stale \cup {call[b].tag} ELSE stale
           /\ UNCHANGED <<store, flush, early, dropped, events>>
<1> DEFINE c == call[b]
           fresh == c.meta = NoMeta
           m == IF fresh THEN [ver |-> writes + 1, live |-> TRUE] ELSE c.meta
           pc == AfterInsert(c)
<1>1. c.meta \in Meta /\ c.slot \in Slots /\ dirty \in [Slots -> BOOLEAN] /\ writes \in Nat
  BY Typed, Basics DEF Structure, Shapes
<1>2. fresh => writes + 1 \in Versions
  BY <1>1, MetaAssumption DEF Insert, Versions
<1>3. m \in Meta
  BY <1>1, <1>2 DEF Meta
<1>4. pc \in {"done", "lookup"} /\ pc \in Pcs
  BY DEF AfterInsert, Pcs
<1>5. call' = [call EXCEPT ![b].pc = pc, ![b].slot = 0]
  BY DEF Insert
<1>6. dirty' = [dirty EXCEPT ![c.slot] = fresh] /\ fresh \in BOOLEAN
  BY DEF Insert
<1>7. /\ dirty' \in [Slots -> BOOLEAN]
      /\ \A s \in Slots \ {c.slot} : dirty'[s] = dirty[s]
      /\ dirty'[c.slot] = fresh
  BY <1>1, <1>6
<1>8. CallTo(b, pc, 0, c.meta)
  BY <1>4, <1>5, Basics, MoveTo
<1>9. /\ c.pc = "insert" /\ Unpin(c.slot) /\ SlotsOf(c.tag) = {}
      /\ tag' = [tag EXCEPT ![c.slot] = c.tag] /\ meta' = [meta EXCEPT ![c.slot] = m]
      /\ linked' = linked \cup {c.slot}
      /\ UNCHANGED <<store, flush, early, dropped, events>>
  BY DEF Insert
<1>10. CASE fresh
  <2>1. m.ver = writes + 1
    BY <1>10
  <2>2. /\ writes < MaxWrites /\ writes' = writes + 1 /\ UNCHANGED stale
        /\ latest' = [latest EXCEPT ![c.tag] = writes + 1]
    BY <1>10 DEF Insert
  <2> HIDE DEF m, pc
  <2> QED
    BY <1>3, <1>4, <1>7, <1>8, <1>9, <1>10, <2>1, <2>2
<1>11. CASE ~fresh
  <2>1. m = c.meta
    BY <1>11
  <2>2. /\ UNCHANGED <<writes, latest>>
        /\ stale' = IF m.ver < latest[c.tag] THEN stale \cup {c.tag} ELSE stale
    BY <1>11 DEF Insert
  <2> HIDE DEF m, pc
  <2> QED
    BY <1>3, <1>4, <1>7, <1>8, <1>9, <1>11, <2>1, <2>2
<1> QED
  BY <1>10, <1>11
-----------------------------------------------------------------------------
(* The structure is kept: calls *)

LEMMA InitStructure == Init => Structure
<1> SUFFICES ASSUME Init PROVE Structure
  OBVIOUS
<1>1. Shapes
  BY Basics, IdleType, NoFlushType, MetaAssumption DEF Init, Shapes, Flushing
<1>2. \A b \in Backends : call[b].pc = "idle"
  BY IdleType DEF Init
<1>3. \A f \in Flushers : flush[f].pc = "idle"
  BY NoFlushType DEF Init
<1>4. PinsExact
  <2>0. \A s \in Slots : Users(s) = {} /\ FlushUsers(s) = {}
    BY <1>2, <1>3 DEF Users, FlushUsers, Using
  <2>1. \A s \in Slots : Users(s) = {} /\ FlushUses(s) = 0
    BY <2>0, FlushUsersFinite
  <2>2. \A s \in Slots : Cardinality(Users(s)) = 0
    BY <2>1, FS_EmptySet
  <2>3. pin_count = [s \in Slots |-> 0]
    BY DEF Init
  <2> QED
    BY <2>1, <2>2, <2>3 DEF PinsExact
<1>5. LinkedOnce /\ SlotInv
  BY DEF Init, LinkedOnce, SlotInv
<1>6. CallInv /\ Apart /\ FlushInv
  BY <1>2, <1>3 DEF CallInv, CallOk, Apart, ApartFrom, FlushInv, FlushOk, Pins, Evicting, Using
<1> QED
  BY <1>1, <1>4, <1>5, <1>6 DEF Structure

\* A step of b's that leaves the chains and the flush alone.
LEMMA LinkFrame ==
  ASSUME Structure, NEW b \in Backends,
         \A a \in Backends \ {b} : call'[a] = call[a],
         UNCHANGED <<tag, linked, flush, early>>,
         \A s \in Slots : dirty'[s] => s \in linked,
         CallOk(b)',
         \A a \in Backends \ {b} : ApartFrom(a, b)' /\ ApartFrom(b, a)'
  PROVE  LinkedOnce' /\ SlotInv' /\ CallInv' /\ Apart' /\ FlushInv'
<1>1. LinkedOnce' /\ FlushInv'
  BY DEF Structure, LinkedOnce, FlushInv, FlushOk
<1>2. SlotInv'
  BY DEF Structure, SlotInv
<1>3. CallInv'
  <2>1. ASSUME NEW a \in Backends \ {b} PROVE CallOk(a)'
    BY <2>1 DEF Structure, CallInv, CallOk
  <2> QED
    BY <2>1 DEF CallInv
<1>4. Apart'
  <2>1. ASSUME NEW a \in Backends \ {b}, NEW c \in Backends \ {b}, a # c PROVE ApartFrom(a, c)'
    BY <2>1 DEF Structure, Apart, ApartFrom
  <2> QED
    BY <2>1 DEF Apart
<1> QED
  BY <1>1, <1>2, <1>3, <1>4

\* ... and that leaves b without a slot.
LEMMA FreeFrame ==
  ASSUME Structure, NEW b \in Backends,
         \A a \in Backends \ {b} : call'[a] = call[a],
         UNCHANGED <<tag, linked, flush, early>>,
         \A s \in Slots : dirty'[s] => s \in linked,
         call'[b].pc \notin Using, call'[b].pc # "idle" => call'[b].tag \in Relforks
  PROVE  LinkedOnce' /\ SlotInv' /\ CallInv' /\ Apart' /\ FlushInv'
<1>1. CallOk(b)'
  BY DEF CallOk, Using
<1>2. \A a \in Backends \ {b} : ApartFrom(a, b)' /\ ApartFrom(b, a)'
  BY DEF ApartFrom, Evicting, Using
<1> QED
  BY <1>1, <1>2, LinkFrame

LEMMA DirtyLinked ==
  ASSUME Structure
  PROVE  \A s \in Slots : dirty[s] => s \in linked
BY DEF Structure, SlotInv

LEMMA FreeStructure ==
  ASSUME Structure, NEW b \in Backends,
         \/ \E op \in {"get", "put", "delete", "create"} : Begin(b, op)
         \/ Fetch(b) \/ FetchFail(b) \/ Return(b) \/ GiveUp(b)
  PROVE  Structure'
<1> DEFINE Free ==
      /\ call' \in [Backends -> Calls] /\ \A a \in Backends \ {b} : call'[a] = call[a]
      /\ call[b].pc \notin Using /\ call'[b].pc \notin Using
      /\ call'[b].pc # "idle" => call'[b].tag \in Relforks
      /\ UNCHANGED <<slotVars, store, flush, latest, races, writes>>
      /\ events' \in 0..MaxEvents
<1>0. events \in 0..MaxEvents /\ MaxEvents \in Nat
  BY MetaAssumption DEF Structure, Shapes
<1>1. ASSUME NEW op \in {"get", "put", "delete", "create"}, Begin(b, op) PROVE Free
  BY <1>0, <1>1, BeginFacts DEF Using, history
<1>2. ASSUME Fetch(b) PROVE Free
  BY <1>0, <1>2, FetchFacts, Typed DEF Using, history, CallTo
<1>3. ASSUME FetchFail(b) PROVE Free
  <2>1. events' \in 0..MaxEvents
    BY <1>0, <1>3 DEF FetchFail
  <2> QED
    BY <1>3, <2>1, EndIdle DEF Using, FetchFail, CallEnds
<1>4. ASSUME Return(b) PROVE Free
  BY <1>0, <1>4, EndIdle DEF Using, Return, CallEnds, history
<1>5. ASSUME GiveUp(b) PROVE Free
  BY <1>0, <1>5, EndIdle DEF Using, GiveUp, CallEnds, history
<1>6. Free
  BY <1>1, <1>2, <1>3, <1>4, <1>5
<1> HIDE DEF Free
<1>7. Shapes'
  BY <1>6 DEF Free, Structure, Shapes, slotVars, store, races
<1>8. PinsExact'
  BY <1>6, PinKeep DEF Free, Structure, slotVars
<1>9. LinkedOnce' /\ SlotInv' /\ CallInv' /\ Apart' /\ FlushInv'
  BY <1>6, FreeFrame, DirtyLinked DEF Free, slotVars, races
<1> QED
  BY <1>7, <1>8, <1>9 DEF Structure

LEMMA LookupStructure ==
  ASSUME Structure, NEW b \in Backends, Lookup(b)
  PROVE  Structure'
<1>0. /\ call[b].pc = "lookup"
      /\ UNCHANGED <<tag, meta, dirty, linked, store, flush, history>>
  BY LookupFacts
<1>1. CASE UNCHANGED pin_count /\ CallTo(b, "fetch", call[b].slot, call[b].meta)
  <2>1. Shapes'
    BY <1>0, <1>1 DEF CallTo, Structure, Shapes, store, history, races
  <2>2. PinsExact'
    BY <1>0, <1>1, PinKeep DEF CallTo, Structure, Using
  <2>3. LinkedOnce' /\ SlotInv' /\ CallInv' /\ Apart' /\ FlushInv'
    BY <1>0, <1>1, FreeFrame, DirtyLinked, Typed DEF CallTo, Using, history, races
  <2> QED
    BY <2>1, <2>2, <2>3 DEF Structure
<1>2. ASSUME NEW s \in SlotsOf(call[b].tag), ~BucketLocked(call[b].tag), Pin(s),
             CallTo(b, "hit", s, call[b].meta)
      PROVE  Structure'
  <2>0. s \in Slots /\ s \in linked /\ tag[s] = call[b].tag
    BY DEF Structure, Shapes, SlotsOf
  <2>1. Shapes'
    BY <1>0, <1>2 DEF CallTo, Structure, Shapes, store, history, races
  <2>2. PinsExact'
    BY <1>0, <1>2, <2>0, PinGain DEF CallTo, Structure, Using
  <2>3. CallOk(b)'
    BY <1>0, <1>2, <2>0, Typed DEF CallTo, CallOk
  <2>4. ASSUME NEW a \in Backends \ {b}
        PROVE  ApartFrom(a, b)' /\ ApartFrom(b, a)'
    <3>1. ~(call[a].slot = s /\ call[a].pc \in {"check_dirty", "clear", "insert"})
      <4>1. ~(call[a].slot = s /\ call[a].pc = "check_dirty")
        BY <1>2, <2>0 DEF BucketLocked
      <4>2. ~(call[a].slot = s /\ call[a].pc \in {"clear", "insert"})
        BY <2>0 DEF Structure, CallInv, CallOk
      <4> QED
        BY <4>1, <4>2
    <3> QED
      BY <1>2, <3>1 DEF CallTo, ApartFrom, Evicting, Using
  <2>5. LinkedOnce' /\ SlotInv' /\ CallInv' /\ Apart' /\ FlushInv'
    BY <1>0, <1>2, <2>3, <2>4, LinkFrame, DirtyLinked DEF CallTo, history, races
  <2> QED
    BY <2>1, <2>2, <2>5 DEF Structure
<1> QED
  BY <1>1, <1>2, LookupFacts

LEMMA HitStructure ==
  ASSUME Structure, NEW b \in Backends, Hit(b)
  PROVE  Structure'
<1> DEFINE s == call[b].slot
<1>0. /\ call[b].pc = "hit" /\ CallTo(b, "done", 0, meta[s]) /\ Unpin(s)
      /\ UNCHANGED <<tag, linked, store, flush, races, events>>
  BY HitFacts
<1>1. s \in Slots /\ s \in linked /\ call[b].tag \in Relforks
  BY <1>0, Typed DEF Structure, CallInv, CallOk
<1>2. /\ meta' \in [Slots -> Meta] /\ latest' \in [Relforks -> Versions] /\ writes' \in Versions
      /\ dirty' \in [Slots -> BOOLEAN] /\ \A r \in Slots : dirty'[r] => r \in linked
  <2>1. CASE UNCHANGED <<meta, dirty, latest, writes>>
    BY <2>1, DirtyLinked DEF Structure, Shapes
  <2>2. CASE /\ writes < MaxWrites /\ writes' = writes + 1
             /\ \E live \in BOOLEAN : meta' = [meta EXCEPT ![s] = [ver |-> writes + 1, live |-> live]]
             /\ dirty' = [dirty EXCEPT ![s] = TRUE]
             /\ latest' = [latest EXCEPT ![call[b].tag] = writes + 1]
    <3>1. writes + 1 \in Versions
      BY <2>2, MetaAssumption DEF Structure, Shapes, Versions
    <3>2. meta' \in [Slots -> Meta] /\ latest' \in [Relforks -> Versions] /\ writes' \in Versions
      BY <1>1, <2>2, <3>1 DEF Structure, Shapes, Meta
    <3>3. dirty' \in [Slots -> BOOLEAN]
      BY <2>2 DEF Structure, Shapes
    <3>4. \A r \in Slots : dirty'[r] => r \in linked
      BY <1>1, <2>2, DirtyLinked DEF Structure, Shapes
    <3> QED
      BY <3>2, <3>3, <3>4
  <2> QED
    BY <2>1, <2>2, HitFacts
<1> HIDE DEF s
<1>3. Shapes'
  BY <1>0, <1>2 DEF CallTo, Structure, Shapes, store, races
<1>4. PinsExact'
  BY <1>0, <1>1, PinLoss DEF CallTo, Structure, Using, s
<1>5. LinkedOnce' /\ SlotInv' /\ CallInv' /\ Apart' /\ FlushInv'
  BY <1>0, <1>1, <1>2, FreeFrame DEF CallTo, Using, races
<1> QED
  BY <1>3, <1>4, <1>5 DEF Structure

LEMMA ClaimStructure ==
  ASSUME Structure, NEW b \in Backends, EvictClaim(b)
  PROVE  Structure'
<1>0. /\ call[b].pc = "sweep"
      /\ UNCHANGED <<tag, meta, dirty, linked, store, flush, history>>
  BY EvictClaimFacts
<1>1. PICK s \in Slots : pin_count[s] = 0 /\ Pin(s) /\ CallTo(b, "flush", s, call[b].meta)
  BY EvictClaimFacts
<1>2. Users(s) = {}
  BY <1>1, PinFacts DEF Structure
<1>3. \A a \in Backends : ~(call[a].slot = s /\ call[a].pc \in Using)
  BY <1>2 DEF Users
<1>4. Shapes'
  BY <1>0, <1>1 DEF CallTo, Structure, Shapes, store, history, races
<1>5. PinsExact'
  BY <1>0, <1>1, PinGain DEF CallTo, Structure, Using
<1>6. CallOk(b)'
  BY <1>0, <1>1, Typed DEF CallTo, CallOk
<1>7. \A a \in Backends \ {b} : ApartFrom(a, b)' /\ ApartFrom(b, a)'
  BY <1>1, <1>3 DEF CallTo, ApartFrom, Evicting, Using
<1>8. LinkedOnce' /\ SlotInv' /\ CallInv' /\ Apart' /\ FlushInv'
  BY <1>0, <1>1, <1>6, <1>7, LinkFrame, DirtyLinked DEF CallTo, history, races
<1> QED
  BY <1>4, <1>5, <1>8 DEF Structure

LEMMA EvictFlushStructure ==
  ASSUME Structure, NEW b \in Backends, EvictFlush(b)
  PROVE  Structure'
<1> DEFINE s == call[b].slot
<1>0. /\ call[b].pc = "flush" /\ dirty' = [dirty EXCEPT ![s] = FALSE]
      /\ UNCHANGED <<tag, meta, pin_count, linked, store, flush, history>>
  BY EvictFlushFacts
<1>1. PICK pc \in {"put", "check_pin"} :
        CallTo(b, pc, s, call[b].meta) /\ (pc = "put" => dirty[s])
  BY EvictFlushFacts
<1>2. s \in Slots
  BY Typed
<1>3. dirty' \in [Slots -> BOOLEAN]
  BY <1>0 DEF Structure, Shapes
<1>4. \A r \in Slots : dirty'[r] => r \in linked
  BY <1>0, DirtyLinked DEF Structure, Shapes
<1>5. Shapes'
  BY <1>0, <1>1, <1>3 DEF CallTo, Structure, Shapes, store, history, races
<1>6. PinsExact'
  BY <1>0, <1>1, PinKeep DEF CallTo, Structure, Using
<1>7. CallOk(b)'
  BY <1>0, <1>1, <1>2, DirtyLinked, Typed DEF CallTo, CallOk
<1>8. \A a \in Backends \ {b} : ApartFrom(a, b)' /\ ApartFrom(b, a)'
  BY <1>0, <1>1 DEF Structure, Apart, CallTo, ApartFrom, Evicting, Using
<1>9. LinkedOnce' /\ SlotInv' /\ CallInv' /\ Apart' /\ FlushInv'
  BY <1>0, <1>1, <1>4, <1>7, <1>8, LinkFrame DEF CallTo, history, races
<1> QED
  BY <1>5, <1>6, <1>9 DEF Structure

\* Recording keeps the draft's shape.
LEMMA PutMetaType ==
  ASSUME Structure, NEW t \in Relforks, NEW m \in Meta, NEW ok \in BOOLEAN, PutMeta(t, m, ok)
  PROVE  /\ draft' \in [Relforks -> Meta] /\ dropped' \subseteq Relforks
         /\ events' \in 0..MaxEvents
<1>1. /\ draft \in [Relforks -> Meta] /\ dropped \subseteq Relforks
      /\ events \in 0..MaxEvents /\ MaxEvents \in Nat
  BY MetaAssumption DEF Structure, Shapes
<1>2. CASE ok
  BY <1>1, <1>2 DEF PutMeta
<1>3. CASE ~ok
  BY <1>1, <1>3 DEF PutMeta
<1> QED
  BY <1>2, <1>3

LEMMA EvictPutStructure ==
  ASSUME Structure, NEW b \in Backends, EvictPut(b)
  PROVE  Structure'
<1> DEFINE s == call[b].slot
<1>0. /\ call[b].pc = "put" /\ CallTo(b, "check_pin", s, call[b].meta)
      /\ UNCHANGED <<slotVars, committed, flush, latest, stale, early, writes>>
  BY EvictPutFacts
<1>1. s \in Slots /\ tag[s] \in Relforks /\ meta[s] \in Meta
  BY <1>0, Typed DEF Structure, CallInv, CallOk, SlotInv, Shapes
<1>2. draft' \in [Relforks -> Meta] /\ dropped' \subseteq Relforks /\ events' \in 0..MaxEvents
  BY <1>1, EvictPutFacts, PutMetaType
<1>3. Shapes'
  BY <1>0, <1>2 DEF CallTo, Structure, Shapes, slotVars
<1>4. PinsExact'
  BY <1>0, PinKeep DEF CallTo, Structure, Using, slotVars
<1>5. CallOk(b)'
  BY <1>0, Typed DEF CallTo, CallOk
<1>6. \A a \in Backends \ {b} : ApartFrom(a, b)' /\ ApartFrom(b, a)'
  BY <1>0 DEF Structure, Apart, CallTo, ApartFrom, Evicting, Using
<1>7. LinkedOnce' /\ SlotInv' /\ CallInv' /\ Apart' /\ FlushInv'
  BY <1>0, <1>5, <1>6, LinkFrame, DirtyLinked DEF CallTo, slotVars
<1> QED
  BY <1>3, <1>4, <1>7 DEF Structure
LEMMA CheckPinStructure ==
  ASSUME Structure, NEW b \in Backends, EvictCheckPin(b)
  PROVE  Structure'
<1> DEFINE s == call[b].slot
<1>0. /\ call[b].pc = "check_pin"
      /\ UNCHANGED <<tag, meta, dirty, linked, store, flush, history>>
  BY EvictCheckPinFacts
<1>1. s \in Slots
  BY Typed
<1>2. CASE /\ pin_count[s] = 1 /\ UNCHANGED pin_count
           /\ CallTo(b, "check_dirty", s, call[b].meta)
  <2>1. b \in Users(s)
    BY <1>0 DEF Users, Using
  <2>2. \A a \in Backends \ {b} : ~(call[a].slot = s /\ call[a].pc \in Using)
    BY <1>1, <1>2, <2>1, PinFacts DEF Structure, Users
  <2>3. Shapes'
    BY <1>0, <1>2 DEF CallTo, Structure, Shapes, store, history, races
  <2>4. PinsExact'
    BY <1>0, <1>2, PinKeep DEF CallTo, Structure, Using
  <2>5. CallOk(b)'
    BY <1>0, <1>2, Typed DEF CallTo, CallOk
  <2>6. \A a \in Backends \ {b} : ApartFrom(a, b)' /\ ApartFrom(b, a)'
    BY <1>2, <2>2 DEF CallTo, ApartFrom, Evicting, Using
  <2>7. LinkedOnce' /\ SlotInv' /\ CallInv' /\ Apart' /\ FlushInv'
    BY <1>0, <1>2, <2>5, <2>6, LinkFrame, DirtyLinked DEF CallTo, history, races
  <2> QED
    BY <2>3, <2>4, <2>7 DEF Structure
<1>3. CASE CallTo(b, "sweep", 0, call[b].meta) /\ Unpin(s)
  <2>1. Shapes'
    BY <1>0, <1>3 DEF CallTo, Structure, Shapes, store, history, races
  <2>2. PinsExact'
    BY <1>0, <1>1, <1>3, PinLoss DEF CallTo, Structure, Using
  <2>3. LinkedOnce' /\ SlotInv' /\ CallInv' /\ Apart' /\ FlushInv'
    BY <1>0, <1>3, FreeFrame, DirtyLinked, Typed DEF CallTo, Using, history, races
  <2> QED
    BY <2>1, <2>2, <2>3 DEF Structure
<1> QED
  BY <1>2, <1>3, EvictCheckPinFacts

\* Whoever is recording a slot, the slot has a relation.
LEMMA IoLockedTag ==
  ASSUME Structure, NEW s \in Slots, IoLocked(s)
  PROVE  tag[s] \in Relforks
BY DEF IoLocked, Structure, CallInv, CallOk, SlotInv, FlushInv, FlushOk

LEMMA CheckDirtyStructure ==
  ASSUME Structure, NEW b \in Backends, EvictCheckDirty(b)
  PROVE  Structure'
<1> DEFINE s == call[b].slot
<1>0. /\ call[b].pc = "check_dirty"
      /\ UNCHANGED <<tag, meta, dirty, store, flush, latest, stale, dropped, writes, events>>
  BY EvictCheckDirtyFacts
<1>1. s \in Slots
  BY Typed
<1>2. CASE /\ CallTo(b, "sweep", 0, call[b].meta) /\ Unpin(s) /\ UNCHANGED <<linked, early>>
  <2>1. Shapes'
    BY <1>0, <1>2 DEF CallTo, Structure, Shapes, store
  <2>2. PinsExact'
    BY <1>0, <1>1, <1>2, PinLoss DEF CallTo, Structure, Using
  <2>3. LinkedOnce' /\ SlotInv' /\ CallInv' /\ Apart' /\ FlushInv'
    BY <1>0, <1>2, FreeFrame, DirtyLinked, Typed DEF CallTo, Using
  <2> QED
    BY <2>1, <2>2, <2>3 DEF Structure
<1>3. CASE /\ ~dirty[s] /\ linked' = linked \ {s}
           /\ IoLocked(s) => early' = early \cup {tag[s]}
           /\ ~IoLocked(s) => early' = early
           /\ CallTo(b, "clear", s, call[b].meta) /\ UNCHANGED pin_count
  <2>0. /\ early' \subseteq Relforks /\ early \subseteq early'
        /\ IoLocked(s) => tag[s] \in early'
    BY <1>1, <1>3, IoLockedTag DEF Structure, Shapes
  <2>1. Shapes'
    BY <1>0, <1>3, <2>0 DEF CallTo, Structure, Shapes, store
  <2>2. PinsExact'
    BY <1>0, <1>3, PinKeep DEF CallTo, Structure, Using
  <2>3. LinkedOnce'
    BY <1>0, <1>3 DEF Structure, LinkedOnce
  <2>4. SlotInv'
    BY <1>0, <1>3 DEF Structure, SlotInv
  <2>5. \A a \in Backends \ {b} : ~(call[a].slot = s /\ call[a].pc \in Using)
    BY <1>0 DEF Structure, Apart, ApartFrom, Evicting, Using
  <2>6. CallInv'
    <3>1. CallOk(b)'
      BY <1>0, <1>3, Typed DEF CallTo, CallOk
    <3>2. ASSUME NEW a \in Backends \ {b} PROVE CallOk(a)'
      <4>1. CallOk(a) /\ call'[a] = call[a] /\ flush' = flush /\ tag' = tag
        BY <1>0, <1>3 DEF Structure, CallInv, CallTo
      <4> QED
        BY <1>3, <2>5, <4>1 DEF CallOk, Using
    <3> QED
      BY <3>1, <3>2 DEF CallInv
  <2>7. Apart'
    <3>1. ASSUME NEW a \in Backends \ {b} PROVE ApartFrom(a, b)' /\ ApartFrom(b, a)'
      BY <1>3, <2>5 DEF CallTo, ApartFrom, Evicting, Using
    <3>2. ASSUME NEW a \in Backends \ {b}, NEW c \in Backends \ {b}, a # c PROVE ApartFrom(a, c)'
      BY <1>3, <3>2 DEF Structure, Apart, ApartFrom, CallTo
    <3> QED
      BY <3>1, <3>2 DEF Apart
  <2>8. FlushInv'
    <3>1. flush' = flush /\ tag' = tag /\ FlushInv
      BY <1>0 DEF Structure
    <3>2. \A f \in Flushers : flush[f].pc = "put" /\ flush[f].slot = s => tag[s] \in early'
      BY <2>0 DEF IoLocked
    <3> QED
      BY <1>3, <2>0, <3>1, <3>2 DEF FlushInv, FlushOk
  <2> QED
    BY <2>1, <2>2, <2>3, <2>4, <2>6, <2>7, <2>8 DEF Structure
<1> QED
  BY <1>2, <1>3, EvictCheckDirtyFacts

LEMMA ClearStructure ==
  ASSUME Structure, NEW b \in Backends, EvictClear(b)
  PROVE  Structure'
<1> DEFINE s == call[b].slot
<1>0. /\ call[b].pc = "clear" /\ ~IoLocked(s) /\ CallTo(b, "insert", s, call[b].meta)
      /\ tag' = [tag EXCEPT ![s] = NoTag] /\ meta' = [meta EXCEPT ![s] = NoMeta]
      /\ dirty' = [dirty EXCEPT ![s] = FALSE]
      /\ UNCHANGED <<pin_count, linked, store, flush, history>>
  BY EvictClearFacts
<1>1. s \in Slots /\ s \notin linked /\ linked \subseteq Slots
  BY <1>0, Typed DEF Structure, Shapes, CallInv, CallOk
<1>2. \A f \in Flushers : ~(flush[f].pc = "put" /\ flush[f].slot = s)
  BY <1>0 DEF IoLocked
<1>3. /\ dirty \in [Slots -> BOOLEAN] /\ tag \in [Slots -> Tags] /\ meta \in [Slots -> Meta]
  BY DEF Structure, Shapes
<1>4. dirty' \in [Slots -> BOOLEAN] /\ \A r \in Slots : dirty'[r] => dirty[r]
  BY <1>0, <1>3
<1>5. /\ tag' \in [Slots -> Tags] /\ meta' \in [Slots -> Meta]
      /\ \A r \in Slots \ {s} : tag'[r] = tag[r]
  BY <1>0, <1>3, Basics
<1>6. Shapes'
  BY <1>0, <1>4, <1>5 DEF CallTo, Structure, Shapes, store, history, races
<1>7. PinsExact'
  BY <1>0, PinKeep DEF CallTo, Structure, Using
<1>8. LinkedOnce' /\ SlotInv'
  BY <1>0, <1>1, <1>4, <1>5 DEF Structure, LinkedOnce, SlotInv
<1>9. CallInv'
  <2>1. CallOk(b)'
    BY <1>0, <1>1, <1>2, Typed DEF CallTo, CallOk
  <2>2. ASSUME NEW a \in Backends \ {b} PROVE CallOk(a)'
    <3>1. CallOk(a) /\ call'[a] = call[a] /\ flush' = flush /\ linked' = linked /\ call[a].slot \in Slots
      BY <1>0, Typed DEF Structure, CallInv, CallTo
    <3> QED
      BY <1>1, <1>5, <3>1 DEF CallOk
  <2> QED
    BY <2>1, <2>2 DEF CallInv
<1>10. Apart'
  <2>1. \A a \in Backends \ {b} : ApartFrom(a, b)' /\ ApartFrom(b, a)'
    BY <1>0 DEF Structure, Apart, CallTo, ApartFrom, Evicting, Using
  <2>2. ASSUME NEW a \in Backends \ {b}, NEW c \in Backends \ {b}, a # c PROVE ApartFrom(a, c)'
    BY <1>0, <2>2 DEF Structure, Apart, ApartFrom, CallTo
  <2> QED
    BY <2>1, <2>2 DEF Apart
<1>11. FlushInv'
  <2>1. flush' = flush /\ FlushInv /\ early' = early /\ linked' = linked
    BY <1>0 DEF Structure, history, races
  <2> QED
    BY <1>2, <1>5, <2>1 DEF FlushInv, FlushOk, Pins
<1> QED
  BY <1>6, <1>7, <1>8, <1>9, <1>10, <1>11 DEF Structure

LEMMA DuplicateStructure ==
  ASSUME Structure, NEW b \in Backends, InsertDuplicate(b)
  PROVE  Structure'
<1>0. /\ call[b].pc = "insert" /\ CallTo(b, "lookup", 0, NoMeta) /\ Unpin(call[b].slot)
      /\ UNCHANGED <<tag, meta, dirty, linked, store, flush, history>>
  BY InsertDuplicateFacts
<1>1. call[b].slot \in Slots
  BY Typed
<1>2. Shapes'
  BY <1>0 DEF CallTo, Structure, Shapes, store, history, races
<1>3. PinsExact'
  BY <1>0, <1>1, PinLoss DEF CallTo, Structure, Using
<1>4. LinkedOnce' /\ SlotInv' /\ CallInv' /\ Apart' /\ FlushInv'
  BY <1>0, FreeFrame, DirtyLinked, Typed DEF CallTo, Using, history, races
<1> QED
  BY <1>2, <1>3, <1>4 DEF Structure

LEMMA InsertStructure ==
  ASSUME Structure, NEW b \in Backends, Insert(b)
  PROVE  Structure'
<1> DEFINE s == call[b].slot
<1>0. PICK m \in Meta, pc \in {"done", "lookup"} :
        /\ call[b].pc = "insert" /\ CallTo(b, pc, 0, call[b].meta) /\ Unpin(s)
        /\ SlotsOf(call[b].tag) = {}
        /\ tag' = [tag EXCEPT ![s] = call[b].tag] /\ meta' = [meta EXCEPT ![s] = m]
        /\ linked' = linked \cup {s} /\ dirty' \in [Slots -> BOOLEAN]
        /\ \A r \in Slots \ {s} : dirty'[r] = dirty[r]
        /\ \/ /\ call[b].meta = NoMeta /\ m.ver = writes + 1 /\ writes < MaxWrites
              /\ dirty'[s]
              /\ writes' = writes + 1 /\ latest' = [latest EXCEPT ![call[b].tag] = writes + 1]
              /\ UNCHANGED stale
           \/ /\ call[b].meta # NoMeta /\ m = call[b].meta /\ UNCHANGED <<writes, latest>>
              /\ stale' = IF m.ver < latest[call[b].tag] THEN stale \cup {call[b].tag} ELSE stale
        /\ UNCHANGED <<store, flush, early, dropped, events>>
  BY InsertFacts
<1>1. /\ s \in Slots /\ s \notin linked /\ linked \subseteq Slots /\ call[b].tag \in Relforks
      /\ \A f \in Flushers : ~(flush[f].pc = "put" /\ flush[f].slot = s)
  BY <1>0, Typed DEF Structure, Shapes, CallInv, CallOk
<1>2. latest' \in [Relforks -> Versions] /\ writes' \in Versions /\ stale' \subseteq Relforks
  <2>1. /\ latest \in [Relforks -> Versions] /\ writes \in Versions /\ stale \subseteq Relforks
        /\ writes < MaxWrites => writes + 1 \in Versions
    BY MetaAssumption DEF Structure, Shapes, Versions
  <2> QED
    BY <1>0, <1>1, <2>1
<1>3. /\ tag' \in [Slots -> Tags] /\ meta' \in [Slots -> Meta]
      /\ tag'[s] = call[b].tag /\ \A r \in Slots \ {s} : tag'[r] = tag[r]
  BY <1>0, <1>1, Basics DEF Structure, Shapes
<1>4. Shapes'
  BY <1>0, <1>1, <1>2, <1>3 DEF CallTo, Structure, Shapes, store
<1>5. PinsExact'
  BY <1>0, <1>1, PinLoss DEF CallTo, Structure, Using
<1>6. LinkedOnce'
  BY <1>0, <1>1, <1>3 DEF Structure, LinkedOnce, SlotsOf
<1>7. SlotInv'
  BY <1>0, <1>1, <1>3 DEF Structure, SlotInv
<1>8. \A a \in Backends \ {b} : ~(call[a].slot = s /\ call[a].pc \in Using)
  BY <1>0 DEF Structure, Apart, ApartFrom, Evicting, Using
<1>9. CallInv'
  <2>1. CallOk(b)'
    BY <1>0, <1>1 DEF CallTo, CallOk
  <2>2. ASSUME NEW a \in Backends \ {b} PROVE CallOk(a)'
    <3>1. CallOk(a) /\ call'[a] = call[a] /\ flush' = flush /\ call[a].slot \in Slots
      BY <1>0, Typed DEF Structure, CallInv, CallTo
    <3> QED
      BY <1>0, <1>3, <1>8, <3>1 DEF CallOk, Using
  <2> QED
    BY <2>1, <2>2 DEF CallInv
<1>10. Apart'
  <2>1. \A a \in Backends \ {b} : ApartFrom(a, b)' /\ ApartFrom(b, a)'
    BY <1>0 DEF CallTo, ApartFrom, Evicting, Using
  <2>2. ASSUME NEW a \in Backends \ {b}, NEW c \in Backends \ {b}, a # c PROVE ApartFrom(a, c)'
    BY <1>0, <2>2 DEF Structure, Apart, ApartFrom, CallTo
  <2> QED
    BY <2>1, <2>2 DEF Apart
<1>11. FlushInv'
  <2>1. flush' = flush /\ FlushInv /\ early' = early
    BY <1>0 DEF Structure
  <2> QED
    BY <1>0, <1>1, <1>3, <2>1 DEF FlushInv, FlushOk, Pins
<1> QED
  BY <1>4, <1>5, <1>6, <1>7, <1>9, <1>10, <1>11 DEF Structure

LEMMA CallStructure ==
  ASSUME Structure, NEW b \in Backends, CallStep(b)
  PROVE  Structure'
BY LookupStructure, HitStructure, FreeStructure, ClaimStructure, EvictFlushStructure,
   EvictPutStructure, CheckPinStructure, CheckDirtyStructure, ClearStructure, DuplicateStructure,
   InsertStructure DEF CallStep, Evict

-----------------------------------------------------------------------------
(* The structure is kept: flushes *)

\* The flush of f moves to another step or slot.
FlushTo(f, pc, slot) ==
  /\ flush' \in Flushing /\ \A g \in Flushers \ {f} : flush'[g] = flush[g]
  /\ flush'[f].pc = pc /\ flush'[f].slot = slot
  /\ flush'[f].of = flush[f].of /\ flush'[f].due = flush[f].due /\ flush'[f].missed = flush[f].missed

LEMMA FlushTyped ==
  ASSUME Structure, NEW f \in Flushers
  PROVE  /\ flush \in Flushing /\ flush[f] \in Passes
         /\ flush[f].slot \in Nat /\ flush[f].slot <= NumSlots
         /\ flush[f].pc \in Pins => flush[f].slot \in Slots
         /\ NumSlots \in Nat
BY MetaAssumption DEF Structure, Shapes, FlushInv, FlushOk, Flushing, Passes

LEMMA FlushNextTo ==
  ASSUME Structure, NEW f \in Flushers, flush[f].slot \in Slots, FlushNext(f)
  PROVE  FlushTo(f, "scan", flush[f].slot + 1)
<1>1. flush[f].slot + 1 \in 0..NumSlots
  BY MetaAssumption DEF Slots
<1> QED
  BY <1>1, FlushTyped DEF FlushNext, FlushTo, Flushing, Passes

LEMMA FlushPcTo ==
  ASSUME Structure, NEW f \in Flushers, NEW pc \in Pins, FlushGoesTo(f, pc)
  PROVE  FlushTo(f, pc, flush[f].slot)
BY FlushTyped DEF FlushGoesTo, FlushTo, Flushing, Passes, Pins

\* What a flush has to show for the structure.
LEMMA FlushFrame ==
  ASSUME Structure, NEW f \in Flushers, flush' \in Flushing,
         \A g \in Flushers \ {f} : flush'[g] = flush[g],
         dirty' \in [Slots -> BOOLEAN], \A s \in Slots : dirty'[s] => dirty[s],
         draft' \in [Relforks -> Meta], committed' \in [Relforks -> Meta],
         dropped' \subseteq Relforks, events' \in 0..MaxEvents,
         PinsExact',
         flush'[f].pc \in Pins => flush'[f].slot \in Slots,
         flush'[f].pc = "put" => dirty[flush'[f].slot],
         f = Checkpointer /\ flush'[f].pc # "idle" => flush'[f].of = Relforks,
         UNCHANGED <<tag, meta, linked, call, latest, stale, early, writes>>
  PROVE  Structure'
<1>1. Shapes'
  BY DEF Structure, Shapes
<1>2. LinkedOnce' /\ Apart'
  BY DEF Structure, LinkedOnce, Apart, ApartFrom
<1>3. SlotInv'
  BY DEF Structure, SlotInv
<1>4. flush'[f].pc = "put" => flush'[f].slot \in linked /\ tag[flush'[f].slot] \in Relforks
  BY DEF Structure, SlotInv, Pins
<1>5. CallInv'
  <2>1. ASSUME NEW b \in Backends PROVE CallOk(b)'
    BY <1>4, Typed DEF Structure, CallInv, CallOk
  <2> QED
    BY <2>1 DEF CallInv
<1>6. FlushInv'
  <2>1. FlushOk(f)'
    BY <1>4 DEF FlushOk
  <2>2. \A g \in Flushers \ {f} : FlushOk(g)'
    BY DEF Structure, FlushInv, FlushOk
  <2> QED
    BY <2>1, <2>2 DEF FlushInv
<1> QED
  BY <1>1, <1>2, <1>3, <1>5, <1>6 DEF Structure

\* The pins of the flush of f.
LEMMA FlushUsesMove ==
  ASSUME NEW f \in Flushers, NEW s \in Slots, \A g \in Flushers \ {f} : flush'[g] = flush[g]
  PROVE  /\ (f \in FlushUsers(s)' <=> f \in FlushUsers(s)) => FlushUses(s)' = FlushUses(s)
         /\ f \notin FlushUsers(s) /\ f \in FlushUsers(s)' => FlushUses(s)' = FlushUses(s) + 1
         /\ f \in FlushUsers(s) /\ f \notin FlushUsers(s)' =>
              FlushUses(s) > 0 /\ FlushUses(s)' = FlushUses(s) - 1
<1>1. \A g \in Flushers \ {f} : g \in FlushUsers(s)' <=> g \in FlushUsers(s)
  BY DEF FlushUsers
<1>2. FlushUsers(s) \subseteq Flushers /\ FlushUsers(s)' \subseteq Flushers
  BY DEF FlushUsers
<1>3. IsFiniteSet(FlushUsers(s)) /\ Cardinality(FlushUsers(s)) \in Nat
  BY FlushUsersFinite DEF FlushUses
<1>4. CASE f \in FlushUsers(s)' <=> f \in FlushUsers(s)
  <2>0. \A g \in Flushers : g \in FlushUsers(s)' <=> g \in FlushUsers(s)
    BY <1>1, <1>4
  <2>1. FlushUsers(s)' = FlushUsers(s)
    BY <1>2, <2>0
  <2> QED
    BY <1>4, <2>1 DEF FlushUses
<1>5. CASE f \notin FlushUsers(s) /\ f \in FlushUsers(s)'
  <2>1. FlushUsers(s)' = FlushUsers(s) \cup {f}
    BY <1>1, <1>2, <1>5
  <2> QED
    BY <1>3, <1>5, <2>1, FS_AddElement DEF FlushUses
<1>6. CASE f \in FlushUsers(s) /\ f \notin FlushUsers(s)'
  <2>1. FlushUsers(s)' = FlushUsers(s) \ {f}
    BY <1>1, <1>2, <1>6
  <2>2. Cardinality(FlushUsers(s)') = Cardinality(FlushUsers(s)) - 1
    BY <1>3, <1>6, <2>1, FS_RemoveElement
  <2>3. Cardinality(FlushUsers(s)) # 0
    BY <1>3, <1>6, FS_EmptySet
  <2> QED
    BY <1>3, <1>6, <2>2, <2>3 DEF FlushUses
<1> QED
  BY <1>4, <1>5, <1>6

LEMMA FlushPinGain ==
  ASSUME Structure, NEW f \in Flushers, \A g \in Flushers \ {f} : flush'[g] = flush[g],
         call' = call, flush[f].pc \notin Pins, flush[f].slot \in Slots,
         flush'[f].pc \in Pins, flush'[f].slot = flush[f].slot, Pin(flush[f].slot)
  PROVE  PinsExact'
<1>1. PICK s \in Slots : s = flush[f].slot
  OBVIOUS
<1>2. /\ f \notin FlushUsers(s) /\ f \in FlushUsers(s)'
      /\ \A r \in Slots \ {s} : f \in FlushUsers(r)' <=> f \in FlushUsers(r)
  BY <1>1 DEF FlushUsers, Pins
<1>3. /\ Pin(s) /\ FlushUses(s)' = FlushUses(s) + 1
      /\ \A r \in Slots \ {s} : FlushUses(r)' = FlushUses(r)
  BY <1>1, <1>2, FlushUsesMove
<1> QED
  BY <1>3, FlushPinStep DEF Structure

LEMMA FlushPinLoss ==
  ASSUME Structure, NEW f \in Flushers, \A g \in Flushers \ {f} : flush'[g] = flush[g],
         call' = call, flush[f].pc \in Pins, flush'[f].pc \notin Pins, Unpin(flush[f].slot)
  PROVE  PinsExact'
<1>1. PICK s \in Slots : s = flush[f].slot
  BY FlushTyped
<1>2. /\ f \in FlushUsers(s) /\ f \notin FlushUsers(s)'
      /\ \A r \in Slots \ {s} : f \in FlushUsers(r)' <=> f \in FlushUsers(r)
  BY <1>1 DEF FlushUsers, Pins
<1>3. /\ Unpin(s) /\ FlushUses(s) > 0 /\ FlushUses(s)' = FlushUses(s) - 1
      /\ \A r \in Slots \ {s} : FlushUses(r)' = FlushUses(r)
  BY <1>1, <1>2, FlushUsesMove
<1> QED
  BY <1>3, FlushPinStep DEF Structure

LEMMA FlushPinKeep ==
  ASSUME Structure, NEW f \in Flushers, \A g \in Flushers \ {f} : flush'[g] = flush[g],
         call' = call, pin_count' = pin_count,
         \/ flush[f].pc \in Pins /\ flush'[f].pc \in Pins /\ flush'[f].slot = flush[f].slot
         \/ flush[f].pc \notin Pins /\ flush'[f].pc \notin Pins
  PROVE  PinsExact'
<1>1. \A s \in Slots : f \in FlushUsers(s)' <=> f \in FlushUsers(s)
  BY DEF FlushUsers, Pins
<1>2. \A s \in Slots : FlushUses(s)' = FlushUses(s)
  BY <1>1, FlushUsesMove
<1> QED
  BY <1>2, FlushPinStep DEF Structure

LEMMA FlushStartFacts ==
  ASSUME Structure, NEW f \in Flushers, FlushStart(f)
  PROVE  /\ flush[f].pc = "idle" /\ flush' \in Flushing
         /\ \A g \in Flushers \ {f} : flush'[g] = flush[g]
         /\ flush'[f].pc = "scan" /\ flush'[f].slot = 0 /\ flush'[f].due = latest
         /\ f = Checkpointer => flush'[f].of = Relforks
         /\ events' \in 0..MaxEvents
         /\ UNCHANGED <<slotVars, store, call, latest, races, writes>>
<1>0. PICK of \in IF f = Checkpointer THEN {Relforks} ELSE {{t} : t \in Relforks} :
        flush' = [flush EXCEPT ![f] = [NoFlush EXCEPT !.pc = "scan", !.of = of, !.due = latest]]
  BY DEF FlushStart
<1>1. of \in SUBSET Relforks /\ (f = Checkpointer => of = Relforks)
  <2>1. CASE f = Checkpointer
    BY <2>1
  <2>2. CASE f # Checkpointer
    BY <2>2
  <2> QED
    BY <2>1, <2>2
<1> DEFINE d == [NoFlush EXCEPT !.pc = "scan", !.of = of, !.due = latest]
<1>2. latest \in [Relforks -> Versions] /\ flush \in Flushing
  BY DEF Structure, Shapes
<1>3. events' \in 0..MaxEvents
  BY MetaAssumption DEF FlushStart, Structure, Shapes
<1>4. d \in Passes /\ d.pc = "scan" /\ d.slot = 0 /\ d.due = latest /\ d.of = of
  BY <1>1, <1>2, NoFlushType DEF Passes
<1>5. flush' = [flush EXCEPT ![f] = d]
  BY <1>0
<1> HIDE DEF d
<1>6. flush'[f] = d /\ flush' \in Flushing /\ \A g \in Flushers \ {f} : flush'[g] = flush[g]
  BY <1>2, <1>4, <1>5 DEF Flushing
<1> QED
  BY <1>1, <1>3, <1>4, <1>6 DEF FlushStart

LEMMA FlushSkipFacts ==
  ASSUME Structure, NEW f \in Flushers, FlushSkip(f)
  PROVE  /\ flush[f].pc = "scan" /\ flush[f].slot \in Slots /\ ~dirty[flush[f].slot]
         /\ FlushTo(f, "scan", flush[f].slot + 1)
         /\ UNCHANGED <<slotVars, store, call, history>>
BY FlushNextTo DEF FlushSkip

LEMMA FlushPinFacts ==
  ASSUME Structure, NEW f \in Flushers, FlushPin(f)
  PROVE  /\ flush[f].pc = "scan" /\ flush[f].slot \in Slots /\ Pin(flush[f].slot)
         /\ FlushTo(f, "recheck", flush[f].slot)
         /\ UNCHANGED <<tag, meta, dirty, linked, store, call, history>>
<1>1. "recheck" \in Pins
  BY DEF Pins
<1> QED
  BY <1>1, FlushPcTo DEF FlushPin

LEMMA FlushRecheckFacts ==
  ASSUME Structure, NEW f \in Flushers, FlushRecheck(f)
  PROVE  /\ flush[f].pc = "recheck" /\ flush[f].slot \in Slots
         /\ \/ FlushTo(f, "lock", flush[f].slot) /\ UNCHANGED pin_count
            \/ /\ ~dirty[flush[f].slot] \/ tag[flush[f].slot] \notin flush[f].of
               /\ FlushTo(f, "scan", flush[f].slot + 1) /\ Unpin(flush[f].slot)
         /\ UNCHANGED <<tag, meta, dirty, linked, store, call, history>>
<1>1. flush[f].pc = "recheck" /\ flush[f].slot \in Slots /\ "lock" \in Pins
  BY FlushTyped DEF FlushRecheck, Pins
<1> QED
  BY <1>1, FlushPcTo, FlushNextTo DEF FlushRecheck

LEMMA FlushSwapFacts ==
  ASSUME Structure, NEW f \in Flushers, FlushSwap(f)
  PROVE  /\ flush[f].pc = "lock" /\ flush[f].slot \in Slots /\ ~IoLocked(flush[f].slot)
         /\ dirty' = [dirty EXCEPT ![flush[f].slot] = FALSE]
         /\ \/ dirty[flush[f].slot] /\ FlushTo(f, "put", flush[f].slot) /\ UNCHANGED pin_count
            \/ /\ ~dirty[flush[f].slot]
               /\ FlushTo(f, "scan", flush[f].slot + 1) /\ Unpin(flush[f].slot)
         /\ UNCHANGED <<tag, meta, linked, store, call, history>>
<1>1. flush[f].pc = "lock" /\ flush[f].slot \in Slots /\ "put" \in Pins
  BY FlushTyped DEF FlushSwap, Pins
<1> QED
  BY <1>1, FlushPcTo, FlushNextTo DEF FlushSwap

LEMMA FlushPutFacts ==
  ASSUME Structure, NEW f \in Flushers, FlushPut(f)
  PROVE  /\ flush[f].pc = "put" /\ flush[f].slot \in Slots
         /\ \E ok \in BOOLEAN : PutMeta(tag[flush[f].slot], meta[flush[f].slot], ok)
         /\ FlushTo(f, "scan", flush[f].slot + 1) /\ Unpin(flush[f].slot)
         /\ UNCHANGED <<tag, meta, dirty, linked, committed, call, latest, stale, early, writes>>
<1>1. flush[f].pc = "put" /\ flush[f].slot \in Slots
  BY FlushTyped DEF FlushPut, Pins
<1> QED
  BY <1>1, FlushNextTo DEF FlushPut

LEMMA CommitFacts ==
  ASSUME Structure, NEW f \in Flushers, Commit(f)
  PROVE  /\ flush[f].pc = "scan" /\ flush[f].slot = NumSlots
         /\ flush' \in Flushing /\ \A g \in Flushers \ {f} : flush'[g] = flush[g]
         /\ flush'[f].pc = "end" /\ flush'[f].of = flush[f].of /\ flush'[f].due = flush[f].due
         /\ flush'[f].missed = Recording
         /\ draft' \in [Relforks -> Meta] /\ committed' \in [Relforks -> Meta]
         /\ \/ f = Checkpointer /\ Drain
            \/ f # Checkpointer /\ UNCHANGED store
         /\ UNCHANGED <<slotVars, call, history>>
<1>1. Recording \subseteq Relforks
  <2>1. ASSUME NEW b \in Backends, call[b].pc = "put" PROVE tag[call[b].slot] \in Relforks
    BY <2>1, Typed DEF Structure, CallInv, CallOk, SlotInv
  <2>2. ASSUME NEW g \in Flushers, flush[g].pc = "put" PROVE tag[flush[g].slot] \in Relforks
    BY <2>2 DEF Structure, FlushInv, FlushOk
  <2> QED
    BY <2>1, <2>2 DEF Recording
<1>2. /\ flush' \in Flushing /\ \A g \in Flushers \ {f} : flush'[g] = flush[g]
      /\ flush'[f].pc = "end" /\ flush'[f].of = flush[f].of /\ flush'[f].due = flush[f].due
      /\ flush'[f].missed = Recording
  <2>1. flush' = [flush EXCEPT ![f].pc = "end", ![f].missed = Recording]
    BY DEF Commit
  <2>2. PICK R \in SUBSET Relforks : R = Recording
    BY <1>1
  <2>3. flush' = [flush EXCEPT ![f].pc = "end", ![f].missed = R]
    BY <2>1, <2>2
  <2> QED
    BY <2>2, <2>3, FlushTyped DEF Flushing, Passes
<1>3. draft' \in [Relforks -> Meta] /\ committed' \in [Relforks -> Meta]
  BY StoreMetaType, Basics DEF Commit, Drain, store, Structure, Shapes
<1> QED
  BY <1>2, <1>3 DEF Commit

LEMMA FlushEndFacts ==
  ASSUME Structure, NEW f \in Flushers, FlushEnd(f)
  PROVE  /\ flush[f].pc = "end" /\ flush' \in Flushing
         /\ \A g \in Flushers \ {f} : flush'[g] = flush[g]
         /\ flush'[f].pc = "idle" /\ \A t \in Relforks : flush'[f].due[t] = 0
         /\ UNCHANGED <<slotVars, store, call, history>>
<1>1. flush'[f] = NoFlush /\ flush' \in Flushing /\ \A g \in Flushers \ {f} : flush'[g] = flush[g]
  BY FlushTyped, NoFlushType DEF FlushEnd, Flushing
<1> QED
  BY <1>1, NoFlushType DEF FlushEnd

LEMMA FlushStructure ==
  ASSUME Structure, NEW f \in Flushers, FlushStep(f)
  PROVE  Structure'
<1>0. /\ dirty \in [Slots -> BOOLEAN] /\ draft \in [Relforks -> Meta]
      /\ committed \in [Relforks -> Meta] /\ dropped \subseteq Relforks
      /\ events \in 0..MaxEvents
      /\ f = Checkpointer /\ flush[f].pc # "idle" => flush[f].of = Relforks
  BY DEF Structure, Shapes, FlushInv, FlushOk
<1>1. CASE FlushStart(f)
  <2>1. PinsExact'
    BY <1>1, FlushStartFacts, FlushPinKeep DEF slotVars, Pins
  <2> QED
    BY <1>0, <1>1, <2>1, FlushStartFacts, FlushFrame DEF slotVars, store, races, Pins
<1>2. CASE FlushSkip(f)
  <2>1. PinsExact'
    BY <1>2, FlushSkipFacts, FlushPinKeep DEF slotVars, FlushTo, Pins
  <2> QED
    BY <1>0, <1>2, <2>1, FlushSkipFacts, FlushFrame DEF slotVars, store, history, races, FlushTo, Pins
<1>3. CASE FlushPin(f)
  <2>1. PinsExact'
    BY <1>3, FlushPinFacts, FlushPinGain DEF FlushTo, Pins
  <2> QED
    BY <1>0, <1>3, <2>1, FlushPinFacts, FlushFrame DEF store, history, races, FlushTo, Pins
<1>4. CASE FlushRecheck(f)
  <2>1. PinsExact'
    BY <1>4, FlushRecheckFacts, FlushPinKeep, FlushPinLoss DEF FlushTo, Pins
  <2> QED
    BY <1>0, <1>4, <2>1, FlushRecheckFacts, FlushFrame DEF store, history, races, FlushTo, Pins
<1>5. CASE FlushSwap(f)
  <2>1. PinsExact'
    BY <1>5, FlushSwapFacts, FlushPinKeep, FlushPinLoss DEF FlushTo, Pins
  <2>2. dirty' \in [Slots -> BOOLEAN] /\ \A s \in Slots : dirty'[s] => dirty[s]
    BY <1>0, <1>5, FlushSwapFacts
  <2> QED
    BY <1>0, <1>5, <2>1, <2>2, FlushSwapFacts, FlushFrame DEF store, history, races, FlushTo, Pins
<1>6. CASE FlushPut(f)
  <2>1. PinsExact'
    BY <1>6, FlushPutFacts, FlushPinLoss DEF FlushTo, Pins
  <2>2. tag[flush[f].slot] \in Relforks /\ meta[flush[f].slot] \in Meta
    BY <1>6, FlushPutFacts DEF Structure, FlushInv, FlushOk, Shapes
  <2>3. draft' \in [Relforks -> Meta] /\ dropped' \subseteq Relforks /\ events' \in 0..MaxEvents
    BY <1>6, <2>2, FlushPutFacts, PutMetaType
  <2> QED
    BY <1>0, <1>6, <2>1, <2>3, FlushPutFacts, FlushFrame DEF FlushTo, Pins
<1>7. CASE Commit(f)
  <2>1. PinsExact'
    BY <1>7, CommitFacts, FlushPinKeep DEF slotVars, Pins
  <2> QED
    BY <1>0, <1>7, <2>1, CommitFacts, FlushFrame DEF slotVars, history, races, Pins
<1>8. CASE FlushEnd(f)
  <2>1. PinsExact'
    BY <1>8, FlushEndFacts, FlushPinKeep DEF slotVars, Pins
  <2> QED
    BY <1>0, <1>8, <2>1, FlushEndFacts, FlushFrame DEF slotVars, store, history, races, Pins
<1> QED
  BY <1>1, <1>2, <1>3, <1>4, <1>5, <1>6, <1>7, <1>8 DEF FlushStep

LEMMA StutterStructure ==
  ASSUME Structure, UNCHANGED vars
  PROVE  Structure'
<1>1. \A s \in Slots : Users(s)' = Users(s) /\ FlushUses(s)' = FlushUses(s)
  BY FlushUsesSame DEF vars, Users
<1>2. PinsExact'
  BY <1>1 DEF Structure, PinsExact, vars, slotVars
<1> QED
  BY <1>2 DEF Structure, Shapes, LinkedOnce, SlotInv, CallInv, CallOk, Apart, ApartFrom, FlushInv, FlushOk,
     vars, slotVars, store, history, races

\* The steps of Next, in groups.
LEMMA NextCases ==
  ASSUME Next
  PROVE  \/ \E b \in Backends, op \in {"get", "put", "delete", "create"} : Begin(b, op)
         \/ \E b \in Backends : CallStep(b)
         \/ \E f \in Flushers : FlushStep(f)
BY DEF Next, Exists, Nblocks, Extend, Truncate, Unlink, Create

LEMMA NextStructure == Structure /\ [Next]_vars => Structure'
BY NextCases, FreeStructure, CallStructure, FlushStructure, StutterStructure

LEMMA StructureInvariant == Spec => []Structure
BY InitStructure, NextStructure, PTL DEF Spec

\* However many backends evict, insert, flush and look up, the pin count of a slot
\* (meta.rs, the atomics of lookup_and_pin, evict_and_pin, insert and
\* flush_dirty_metas) is the number of processes that use it, on every error path
\* too, and no relation is ever on its chain twice, so that no change goes to a copy
\* that lookups do not find.
THEOREM MetaTypeCorrect == Spec => []TypeOK
<1>1. Structure => TypeOK
  BY TypeParts DEF Structure
<1> QED
  BY <1>1, StructureInvariant, PTL
-----------------------------------------------------------------------------
(* No change is undone: the inductive invariant *)

\* No version is from the future, and only what does not exist has version 0.
StoreVer ==
  \A t \in Relforks :
    /\ latest[t] <= writes
    /\ draft[t].ver <= latest[t] /\ (draft[t] = NoMeta \/ draft[t].ver >= 1)
    /\ committed[t].ver <= latest[t] /\ (committed[t] = NoMeta \/ committed[t].ver >= 1)
    /\ \A f \in Flushers : flush[f].due[t] <= latest[t]
SlotVer ==
  \A s \in Slots : tag[s] \in Relforks => meta[s].ver >= 1 /\ meta[s].ver <= latest[tag[s]]

\* A linked slot has the last version; a relation that is not cached, the store.
SlotCurrent  == \A s \in linked : tag[s] \notin Raced => meta[s].ver = latest[tag[s]]
StoreCurrent == \A t \in Relforks \ Raced : SlotsOf(t) = {} => StoreMeta(t).ver = latest[t]

\* A slot that is clean, and not being recorded, has nothing that the store has not:
\* it can be unlinked.
CleanStored ==
  \A s \in linked :
    tag[s] \notin Raced /\ ~dirty[s] /\ ~IoLocked(s) => StoreMeta(tag[s]).ver = meta[s].ver

\* A checkpoint has recorded what is due, or will still come to it, or some
\* process is recording it.
ScanCovers ==
  flush[Checkpointer].pc \in Pins \cup {"scan"} =>
    \A t \in Relforks \ Raced :
      \/ StoreMeta(t).ver >= flush[Checkpointer].due[t]
      \/ \E s \in SlotsOf(t) : (dirty[s] /\ s >= flush[Checkpointer].slot) \/ IoLocked(s)

Data == StoreVer /\ SlotVer /\ SlotCurrent /\ StoreCurrent /\ CleanStored /\ ScanCovers /\ CheckpointCovers

\* What a call has fetched, or is about to, is no older than the call.
CallData(b) ==
  /\ call[b].pc # "idle" => call[b].floor <= latest[call[b].tag]
  /\ call[b].pc \in Evicting \cup {"sweep"} =>
       call[b].meta.ver <= latest[call[b].tag] /\ (call[b].meta = NoMeta \/ call[b].meta.ver >= 1)
  /\ call[b].tag \notin Raced =>
       /\ call[b].pc = "fetch" => StoreMeta(call[b].tag).ver >= call[b].floor
       /\ call[b].pc \in Evicting \cup {"sweep"} => call[b].meta.ver >= call[b].floor
       /\ call[b].pc = "done" => call[b].meta.ver >= call[b].floor

CacheInv == Structure /\ Data /\ \A b \in Backends : CallData(b)

Numeric ==
  /\ writes \in Nat
  /\ \A t \in Relforks : /\ latest[t] \in Nat /\ draft[t].ver \in Nat /\ committed[t].ver \in Nat
                         /\ StoreMeta(t).ver \in Nat
                         /\ \A f \in Flushers : flush[f].due[t] \in Nat
  /\ \A s \in Slots : meta[s].ver \in Nat
  /\ \A b \in Backends : call[b].floor \in Nat /\ call[b].meta.ver \in Nat

LEMMA Numbers == Structure => Numeric
<1> SUFFICES ASSUME Structure PROVE Numeric
  OBVIOUS
<1>1. \A t \in Relforks : draft[t] \in Meta /\ committed[t] \in Meta /\ StoreMeta(t) \in Meta
  BY StoreMetaType DEF Structure, Shapes
<1>2. \A s \in Slots : meta[s] \in Meta
  BY DEF Structure, Shapes
<1>3. \A t \in Relforks : latest[t] \in Versions /\ \A f \in Flushers : flush[f].due[t] \in Versions
  BY FlushTyped DEF Structure, Shapes, Passes
<1>4. Checkpointer \in Flushers
  BY DEF Flushers
<1> QED
  BY <1>1, <1>2, <1>3, <1>4, MetaFields, Typed, Basics DEF Numeric, Structure, Shapes

LEMMA CheckpointerFlushes == Checkpointer \in Flushers
BY DEF Flushers

LEMMA NumbersNext == Structure' => Numeric'
  BY Numbers, PTL

LEMMA RacedFacts ==
  ASSUME Structure
  PROVE  Raced \subseteq Relforks
BY DEF Structure, Shapes, Raced

\* What every step guarantees the calls of others.
Progress ==
  /\ \A t \in Relforks : latest[t] <= latest'[t]
  /\ Raced \subseteq Raced'
  /\ \A t \in Relforks \ Raced' : StoreMeta(t).ver <= StoreMeta(t)'.ver

LEMMA OtherCalls ==
  ASSUME Structure, Structure', Progress, NEW a \in Backends, CallData(a), call'[a] = call[a]
  PROVE  CallData(a)'
<1> DEFINE t == call[a].tag
<1>0. call[a].pc # "idle" => t \in Relforks
  BY Typed
<1>1. /\ call[a].floor \in Nat /\ call[a].meta.ver \in Nat
      /\ t \in Relforks => /\ latest[t] \in Nat /\ latest'[t] \in Nat
                          /\ StoreMeta(t).ver \in Nat /\ StoreMeta(t)'.ver \in Nat
  BY Numbers, NumbersNext DEF Numeric
<1>2. call[a].pc # "idle" => call[a].floor <= latest'[t]
  BY <1>0, <1>1 DEF CallData, Progress
<1>3. call[a].pc \in Evicting \cup {"sweep"} =>
        call[a].meta.ver <= latest'[t] /\ (call[a].meta = NoMeta \/ call[a].meta.ver >= 1)
  BY <1>0, <1>1 DEF CallData, Progress, Evicting, Using
<1>4. t \notin Raced' =>
        /\ call[a].pc = "fetch" => StoreMeta(t)'.ver >= call[a].floor
        /\ call[a].pc \in Evicting \cup {"sweep"} => call[a].meta.ver >= call[a].floor
        /\ call[a].pc = "done" => call[a].meta.ver >= call[a].floor
  BY <1>0, <1>1 DEF CallData, Progress
<1> QED
  BY <1>2, <1>3, <1>4 DEF CallData
LEMMA InitData == Init => Data /\ \A b \in Backends : CallData(b)
<1> SUFFICES ASSUME Init PROVE Data /\ \A b \in Backends : CallData(b)
  OBVIOUS
<1>1. Structure /\ Numeric
  BY InitStructure, Numbers
<1>2. /\ \A b \in Backends : call[b].pc = "idle"
      /\ \A f \in Flushers : flush[f].pc = "idle" /\ \A t \in Relforks : flush[f].due[t] = 0
  BY IdleType, NoFlushType DEF Init
<1>3. StoreVer /\ SlotVer /\ SlotCurrent
  BY <1>2, Basics, MetaAssumption DEF Init, StoreVer, SlotVer, SlotCurrent
<1>4. StoreCurrent
  BY Basics DEF Init, StoreCurrent, StoreMeta
<1>5. CleanStored /\ ScanCovers /\ CheckpointCovers
  BY <1>2, CheckpointerFlushes DEF Init, CleanStored, ScanCovers, CheckpointCovers, Pins
<1>6. \A b \in Backends : CallData(b)
  BY <1>2 DEF CallData, Evicting, Using
<1> QED
  BY <1>3, <1>4, <1>5, <1>6 DEF Data

-----------------------------------------------------------------------------
(* No change is undone: steps that only move a call *)

LEMMA QuietData ==
  ASSUME Structure, Data,
         UNCHANGED <<tag, meta, dirty, linked, store, flush, latest, races, writes>>,
         \A s \in Slots : IoLocked(s)' <=> IoLocked(s)
  PROVE  Data' /\ Progress
<1>1. /\ \A t \in Relforks : StoreMeta(t)' = StoreMeta(t)
      /\ \A t \in Relforks : SlotsOf(t)' = SlotsOf(t)
      /\ Raced' = Raced
  BY DEF StoreMeta, SlotsOf, Raced, store, races
<1>2. \A t : SlotsOf(t) \subseteq linked /\ linked \subseteq Slots
  BY DEF SlotsOf, Structure, Shapes
<1>3. StoreVer' /\ SlotVer' /\ SlotCurrent' /\ StoreCurrent'
  BY <1>1 DEF Data, StoreVer, SlotVer, SlotCurrent, StoreCurrent, store
<1>4. CleanStored'
  BY <1>1, <1>2 DEF Data, CleanStored, Structure, SlotInv
<1>5. ScanCovers'
  BY <1>1, <1>2 DEF Data, ScanCovers
<1>6. CheckpointCovers'
  BY <1>1 DEF Data, CheckpointCovers, store
<1>7. Progress
  BY <1>1, Numbers DEF Progress, Numeric
<1> QED
  BY <1>3, <1>4, <1>5, <1>6, <1>7 DEF Data

\* b neither starts nor ends a record.
LEMMA IoLockedKept ==
  ASSUME NEW b \in Backends, \A a \in Backends \ {b} : call'[a] = call[a],
         call[b].pc # "put", call'[b].pc # "put", flush' = flush
  PROVE  \A s \in Slots : IoLocked(s)' <=> IoLocked(s)
BY DEF IoLocked

\* Such a step has to show what b's own call is left with.
LEMMA QuietCall ==
  ASSUME CacheInv, Structure', NEW b \in Backends,
         \A a \in Backends \ {b} : call'[a] = call[a],
         call[b].pc # "put", call'[b].pc # "put",
         UNCHANGED <<tag, meta, dirty, linked, store, flush, latest, races, writes>>,
         CallData(b)'
  PROVE  CacheInv'
<1>1. Data' /\ Progress
  BY QuietData, IoLockedKept DEF CacheInv
<1>2. \A a \in Backends \ {b} : CallData(a)'
  BY <1>1, OtherCalls DEF CacheInv
<1> QED
  BY <1>1, <1>2 DEF CacheInv

LEMMA FreeData ==
  ASSUME CacheInv, Structure', NEW b \in Backends,
         \/ \E op \in {"get", "put", "delete", "create"} : Begin(b, op)
         \/ FetchFail(b) \/ Return(b) \/ GiveUp(b)
  PROVE  CacheInv'
<1>0. Structure
  BY DEF CacheInv
<1>1. ASSUME NEW op \in {"get", "put", "delete", "create"}, Begin(b, op) PROVE CacheInv'
  <2>1. /\ call[b].pc = "idle" /\ call'[b].pc = "lookup" /\ call'[b].tag \in Relforks
        /\ call'[b].floor = latest[call'[b].tag]
        /\ UNCHANGED <<slotVars, store, flush, history>>
        /\ \A a \in Backends \ {b} : call'[a] = call[a]
    BY <1>0, <1>1, BeginFacts
  <2>2. CallData(b)'
    BY <1>0, <2>1, Numbers DEF CallData, Evicting, Using, Numeric, history
  <2> QED
    BY <2>1, <2>2, QuietCall DEF slotVars, history
<1>2. ASSUME FetchFail(b) \/ Return(b) \/ GiveUp(b) PROVE CacheInv'
  <2>1. /\ call' = [call EXCEPT ![b] = Idle] /\ call[b].pc # "put"
        /\ UNCHANGED <<slotVars, store, flush, latest, races, writes>>
    BY <1>2 DEF FetchFail, Return, GiveUp, history
  <2>2. CallEnds(b)
    BY <1>0, <2>1, EndIdle
  <2>3. CallData(b)'
    BY <2>2 DEF CallEnds, CallData, Evicting, Using
  <2> QED
    BY <2>1, <2>2, <2>3, QuietCall DEF CallEnds, slotVars
<1> QED
  BY <1>1, <1>2

LEMMA LookupData ==
  ASSUME CacheInv, Structure', NEW b \in Backends, Lookup(b)
  PROVE  CacheInv'
<1>0. Structure /\ Data /\ CallData(b) /\ call[b].tag \in Relforks /\ Numeric
  BY LookupFacts, Typed, Numbers DEF CacheInv
<1>1. /\ call[b].pc = "lookup"
      /\ UNCHANGED <<tag, meta, dirty, linked, store, flush, history>>
  BY <1>0, LookupFacts
<1>2. (\A t \in Relforks : StoreMeta(t)' = StoreMeta(t)) /\ Raced' = Raced /\ latest' = latest
  BY <1>1 DEF StoreMeta, Raced, store, history, races
<1>3. CASE SlotsOf(call[b].tag) = {} /\ CallTo(b, "fetch", call[b].slot, call[b].meta)
  <2>1. call[b].tag \notin Raced => StoreMeta(call[b].tag).ver = latest[call[b].tag]
    BY <1>0, <1>3 DEF Data, StoreCurrent
  <2>2. call[b].floor <= latest[call[b].tag]
    BY <1>0, <1>1 DEF CallData
  <2>3. CallData(b)'
    BY <1>0, <1>2, <1>3, <2>1, <2>2 DEF CallTo, CallData, Evicting, Using, Numeric
  <2> QED
    BY <1>1, <1>3, <2>3, QuietCall DEF CallTo, history
<1>4. ASSUME NEW s \in SlotsOf(call[b].tag), CallTo(b, "hit", s, call[b].meta)
      PROVE  CacheInv'
  <2>1. CallData(b)'
    BY <1>0, <1>1, <1>2, <1>4 DEF CallTo, CallData, Evicting, Using
  <2> QED
    BY <1>1, <1>4, <2>1, QuietCall DEF CallTo, history
<1> QED
  BY <1>0, <1>3, <1>4, LookupFacts

\* What the store holds is not from the future.
LEMMA StoreMetaVer ==
  ASSUME Structure, StoreVer, NEW t \in Relforks
  PROVE  StoreMeta(t).ver <= latest[t]
BY DEF StoreVer, StoreMeta

LEMMA FetchData ==
  ASSUME CacheInv, Structure', NEW b \in Backends, Fetch(b)
  PROVE  CacheInv'
<1> DEFINE t == call[b].tag
<1>0. Structure /\ Data /\ CallData(b) /\ t \in Relforks /\ Numeric
  BY FetchFacts, Typed, Numbers DEF CacheInv
<1>1. call[b].pc = "fetch" /\ UNCHANGED <<slotVars, store, flush, history>>
  BY <1>0, FetchFacts
<1>2. PICK pc \in {"done", "sweep"} : CallTo(b, pc, call[b].slot, StoreMeta(t))
  BY <1>0, FetchFacts
<1>3. Raced' = Raced /\ latest' = latest
  BY <1>1 DEF Raced, history, races
<1>4. StoreMeta(t).ver <= latest[t]
  BY <1>0, StoreMetaVer DEF Data
<1>5. StoreMeta(t) = NoMeta \/ StoreMeta(t).ver >= 1
  BY <1>0 DEF Data, StoreVer, StoreMeta
<1>6. CallData(b)'
  BY <1>0, <1>1, <1>2, <1>3, <1>4, <1>5 DEF CallTo, CallData
<1> QED
  BY <1>1, <1>2, <1>6, QuietCall DEF CallTo, slotVars, history

\* A step of an eviction that keeps what was fetched.
LEMMA EvictQuiet ==
  ASSUME CacheInv, Structure', NEW b \in Backends, NEW pc \in (Evicting \cup {"sweep"}) \ {"put"},
         NEW s, CallTo(b, pc, s, call[b].meta),
         call[b].pc \in (Evicting \cup {"sweep"}) \ {"put"},
         UNCHANGED <<tag, meta, dirty, linked, store, flush, latest, races, writes>>
  PROVE  CacheInv'
<1>1. Raced' = Raced /\ latest' = latest
  BY DEF Raced, races
<1>2. CallData(b) /\ call'[b].pc = pc /\ pc \notin {"fetch", "done", "idle", "put"} /\ call[b].pc # "idle"
  BY DEF CacheInv, CallTo, Evicting, Using
<1>3. CallData(b)'
  BY <1>1, <1>2 DEF CallData, CallTo
<1> QED
  BY <1>2, <1>3, QuietCall DEF CallTo

LEMMA EvictQuietData ==
  ASSUME CacheInv, Structure', NEW b \in Backends, EvictClaim(b) \/ EvictCheckPin(b)
  PROVE  CacheInv'
<1>0. Structure
  BY DEF CacheInv
<1>1. {"sweep", "flush", "check_pin", "check_dirty"} \subseteq (Evicting \cup {"sweep"}) \ {"put"}
  BY DEF Evicting, Using
<1>2. CASE EvictClaim(b)
  <2>1. PICK s \in Slots : CallTo(b, "flush", s, call[b].meta)
    BY <1>0, <1>2, EvictClaimFacts
  <2>2. call[b].pc = "sweep" /\ UNCHANGED <<tag, meta, dirty, linked, store, flush, latest, races, writes>>
    BY <1>0, <1>2, EvictClaimFacts DEF history
  <2> QED
    BY <1>1, <2>1, <2>2, EvictQuiet
<1>3. CASE EvictCheckPin(b)
  <2>1. PICK pc \in {"check_dirty", "sweep"}, s \in {call[b].slot, 0} : CallTo(b, pc, s, call[b].meta)
    BY <1>0, <1>3, EvictCheckPinFacts
  <2>2. call[b].pc = "check_pin" /\ UNCHANGED <<tag, meta, dirty, linked, store, flush, latest, races, writes>>
    BY <1>0, <1>3, EvictCheckPinFacts DEF history
  <2> QED
    BY <1>1, <2>1, <2>2, EvictQuiet
<1> QED
  BY <1>2, <1>3

LEMMA DuplicateData ==
  ASSUME CacheInv, Structure', NEW b \in Backends, InsertDuplicate(b)
  PROVE  CacheInv'
<1>0. Structure /\ CallData(b)
  BY DEF CacheInv
<1>1. /\ call[b].pc = "insert" /\ CallTo(b, "lookup", 0, NoMeta)
      /\ UNCHANGED <<tag, meta, dirty, linked, store, flush, history>>
  BY <1>0, InsertDuplicateFacts
<1>2. CallData(b)'
  BY <1>0, <1>1 DEF CallData, CallTo, Evicting, Using, history
<1> QED
  BY <1>1, <1>2, QuietCall DEF CallTo, history
-----------------------------------------------------------------------------
(* No change is undone: steps on a slot *)

LEMMA HitData ==
  ASSUME CacheInv, Structure', NEW b \in Backends, Hit(b)
  PROVE  CacheInv'
<1> DEFINE s == call[b].slot
           t == call[b].tag
<1>0. Structure /\ Data /\ CallData(b) /\ t \in Relforks /\ Numeric /\ Numeric'
  BY HitFacts, Typed, Numbers, NumbersNext DEF CacheInv
<1>1. /\ call[b].pc = "hit" /\ CallTo(b, "done", 0, meta[s])
      /\ UNCHANGED <<tag, linked, store, flush, races, events>>
  BY <1>0, HitFacts
<1>2. s \in Slots /\ s \in linked /\ tag[s] = t /\ linked \subseteq Slots
  BY <1>0, <1>1, Typed DEF Structure, CallInv, CallOk, Shapes
<1>3. CallData(b)' \/ ~ \A u \in Relforks : latest[u] <= latest'[u]
  <2>1. t \notin Raced => meta[s].ver = latest[t]
    BY <1>0, <1>2 DEF Data, SlotCurrent
  <2>2. call[b].floor <= latest[t] /\ call[b].floor \in Nat
    BY <1>0, <1>1 DEF CallData, Numeric
  <2>3. Raced' = Raced
    BY <1>1 DEF Raced, races
  <2> HIDE DEF s
  <2> QED
    BY <1>0, <1>1, <2>1, <2>2, <2>3 DEF CallData, CallTo, Evicting, Using, Numeric
<1>4. CASE UNCHANGED <<meta, dirty, latest, writes>>
  <2>1. CallData(b)'
    BY <1>0, <1>3, <1>4 DEF Numeric
  <2> QED
    BY <1>1, <1>4, <2>1, QuietCall DEF CallTo
<1>5. CASE /\ writes < MaxWrites /\ writes' = writes + 1
           /\ \E live \in BOOLEAN : meta' = [meta EXCEPT ![s] = [ver |-> writes + 1, live |-> live]]
           /\ dirty' = [dirty EXCEPT ![s] = TRUE]
           /\ latest' = [latest EXCEPT ![t] = writes + 1]
  <2>1. /\ meta'[s].ver = writes + 1 /\ \A r \in Slots \ {s} : meta'[r] = meta[r]
        /\ latest'[t] = writes + 1 /\ \A u \in Relforks \ {t} : latest'[u] = latest[u]
    BY <1>0, <1>2, <1>5 DEF Structure, Shapes
  <2>2. dirty'[s] /\ \A r \in Slots \ {s} : dirty'[r] = dirty[r]
    BY <1>0, <1>2, <1>5 DEF Structure, Shapes
  <2>3. /\ \A u \in Relforks : StoreMeta(u)' = StoreMeta(u) /\ SlotsOf(u)' = SlotsOf(u)
        /\ Raced' = Raced
    BY <1>1 DEF StoreMeta, SlotsOf, Raced, store, races
  <2>4. \A r \in Slots : IoLocked(r)' <=> IoLocked(r)
    BY <1>1, IoLockedKept DEF CallTo
  <2>5. \A r \in linked : tag[r] = t => r = s
    BY <1>0, <1>2 DEF Structure, LinkedOnce
  <2>6. latest[t] <= writes /\ latest[t] \in Nat /\ writes \in Nat
    BY <1>0 DEF Data, StoreVer, Numeric
  <2> HIDE DEF s, t
  <2>7. StoreVer'
    <3>1. ASSUME NEW u \in Relforks
          PROVE  /\ latest'[u] <= writes' /\ latest[u] <= latest'[u]
                 /\ latest'[u] \in Nat /\ latest[u] \in Nat
      BY <1>0, <1>5, <2>1, <2>6 DEF Data, StoreVer, Numeric
    <3>2. draft' = draft /\ committed' = committed /\ flush' = flush
      BY <1>1 DEF store
    <3> QED
      BY <1>0, <3>1, <3>2 DEF Data, StoreVer, Numeric
  <2>8. SlotVer'
    <3>1. SUFFICES ASSUME NEW r \in Slots, tag[r] \in Relforks
                   PROVE  meta'[r].ver >= 1 /\ meta'[r].ver <= latest'[tag[r]]
      BY <1>1 DEF SlotVer
    <3>2. CASE r = s
      BY <1>2, <2>1, <2>6, <3>2
    <3>3. CASE r # s
      BY <1>0, <2>1, <2>6, <3>1, <3>3 DEF Data, SlotVer, Numeric
    <3> QED
      BY <3>2, <3>3
  <2>9. SlotCurrent'
    BY <1>0, <1>1, <1>2, <2>1, <2>3, <2>5 DEF Data, SlotCurrent, Structure, SlotInv
  <2>10. StoreCurrent'
    <3>1. SlotsOf(t) # {}
      BY <1>2 DEF SlotsOf
    <3> QED
      BY <1>0, <2>1, <2>3, <3>1 DEF Data, StoreCurrent
  <2>11. CleanStored'
    BY <1>0, <1>1, <1>2, <2>1, <2>2, <2>3, <2>4 DEF Data, CleanStored, Structure, SlotInv
  <2>12. ScanCovers'
    <3>1. flush' = flush /\ \A u \in Relforks : SlotsOf(u) \subseteq Slots
      BY <1>1, <1>2 DEF SlotsOf
    <3> QED
      BY <1>0, <2>2, <2>3, <2>4, <3>1 DEF Data, ScanCovers
  <2>13. CheckpointCovers'
    BY <1>0, <1>1, <2>3 DEF Data, CheckpointCovers, store
  <2>14. Progress
    BY <1>0, <2>1, <2>3, <2>6 DEF Progress, Numeric
  <2>15. CallData(b)'
    BY <1>3, <2>14 DEF Progress
  <2>16. \A a \in Backends \ {b} : CallData(a)'
    BY <1>0, <1>1, <2>14, OtherCalls DEF CacheInv, CallTo
  <2> QED
    BY <2>7, <2>8, <2>9, <2>10, <2>11, <2>12, <2>13, <2>15, <2>16 DEF CacheInv, Data
<1> QED
  BY <1>0, <1>4, <1>5, HitFacts

\* The dirty flag of a slot is cleared and its record begins, or it was clean and
\* nothing happens: by an eviction or by a flush.
LEMMA SwapData ==
  ASSUME Structure, Data, NEW s \in Slots, ~IoLocked(s),
         dirty' = [dirty EXCEPT ![s] = FALSE],
         UNCHANGED <<tag, meta, linked, store, latest, races, writes>>,
         \A f \in Flushers : flush'[f].due = flush[f].due,
         dirty[s] => IoLocked(s)',
         \A r \in Slots \ {s} : IoLocked(r) => IoLocked(r)',
         \A r \in Slots \ {s} : IoLocked(r)' => IoLocked(r)
  PROVE  /\ StoreVer' /\ SlotVer' /\ SlotCurrent' /\ StoreCurrent' /\ CleanStored'
         /\ Progress
<1>1. /\ \A t \in Relforks : StoreMeta(t)' = StoreMeta(t) /\ SlotsOf(t)' = SlotsOf(t)
      /\ Raced' = Raced
  BY DEF StoreMeta, SlotsOf, Raced, store, races
<1>2. ~dirty'[s] /\ \A r \in Slots \ {s} : dirty'[r] = dirty[r]
  BY DEF Structure, Shapes
<1>3. StoreVer' /\ SlotVer' /\ SlotCurrent' /\ StoreCurrent'
  BY <1>1 DEF Data, StoreVer, SlotVer, SlotCurrent, StoreCurrent, store
<1>4. CleanStored'
  <2>1. \A r \in linked : r \in Slots /\ tag[r] \in Relforks
    BY DEF Structure, Shapes, SlotInv
  <2>2. SUFFICES ASSUME NEW r \in linked, tag[r] \notin Raced, ~dirty'[r], ~IoLocked(r)'
                 PROVE  StoreMeta(tag[r])'.ver = meta[r].ver
    BY <1>1 DEF CleanStored
  <2>3. ~dirty[r] /\ ~IoLocked(r)
    BY <1>2, <2>1, <2>2
  <2> QED
    BY <1>1, <2>1, <2>2, <2>3 DEF Data, CleanStored
<1>5. Progress
  BY <1>1, Numbers DEF Progress, Numeric
<1> QED
  BY <1>3, <1>4, <1>5

LEMMA EvictFlushData ==
  ASSUME CacheInv, Structure', NEW b \in Backends, EvictFlush(b)
  PROVE  CacheInv'
<1>0. Structure /\ Data /\ CallData(b)
  BY DEF CacheInv
<1>s. PICK s \in Slots : s = call[b].slot
  BY <1>0, Typed
<1>1. /\ call[b].pc = "flush" /\ ~IoLocked(s) /\ dirty' = [dirty EXCEPT ![s] = FALSE]
      /\ UNCHANGED <<tag, meta, pin_count, linked, store, flush, history>>
  BY <1>0, <1>s, EvictFlushFacts
<1>2. PICK pc \in {"put", "check_pin"} :
        CallTo(b, pc, s, call[b].meta) /\ (pc = "put" <=> dirty[s])
  BY <1>0, <1>s, EvictFlushFacts
<1>3. /\ dirty[s] => IoLocked(s)'
      /\ \A r \in Slots \ {s} : IoLocked(r)' <=> IoLocked(r)
  BY <1>1, <1>2, <1>s DEF CallTo, IoLocked
<1>4. UNCHANGED <<tag, meta, linked, store, latest, races, writes>> /\ flush' = flush
  BY <1>1 DEF history
<1>5. StoreVer' /\ SlotVer' /\ SlotCurrent' /\ StoreCurrent' /\ CleanStored' /\ Progress
  BY <1>0, <1>1, <1>3, <1>4, SwapData
<1>6. /\ \A t \in Relforks : StoreMeta(t)' = StoreMeta(t) /\ SlotsOf(t)' = SlotsOf(t)
      /\ Raced' = Raced
  BY <1>4 DEF StoreMeta, SlotsOf, Raced, store, races
<1>7. ScanCovers'
  <2>1. \A r \in Slots : (dirty[r] => dirty'[r] \/ IoLocked(r)') /\ (IoLocked(r) => IoLocked(r)')
    BY <1>0, <1>1, <1>3 DEF Structure, Shapes
  <2>2. \A u \in Relforks : SlotsOf(u) \subseteq Slots
    BY <1>0 DEF SlotsOf, Structure, Shapes
  <2> QED
    BY <1>0, <1>4, <1>6, <2>1, <2>2 DEF Data, ScanCovers
<1>8. CheckpointCovers'
  BY <1>0, <1>4, <1>6 DEF Data, CheckpointCovers, store
<1>9. CallData(b)'
  BY <1>0, <1>s, <1>1, <1>2, <1>4, <1>6 DEF CallData, CallTo, Evicting, Using
<1>10. \A a \in Backends \ {b} : CallData(a)'
  BY <1>0, <1>2, <1>5, OtherCalls DEF CacheInv, CallTo
<1> QED
  BY <1>5, <1>7, <1>8, <1>9, <1>10 DEF CacheInv, Data

\* What a record of slot s does to the store: it gives it the last version, or the
\* relation is among the dropped ones.
LEMMA PutEffect ==
  ASSUME Structure, Data, NEW s \in Slots, tag[s] \in Relforks, s \in linked \/ tag[s] \in Raced,
         NEW ok \in BOOLEAN, PutMeta(tag[s], meta[s], ok), UNCHANGED <<committed, stale, early>>
  PROVE  /\ Raced \subseteq Raced'
         /\ \A t \in Relforks \ {tag[s]} : StoreMeta(t)' = StoreMeta(t)
         /\ \A t \in Relforks \ Raced' :
              t = tag[s] => /\ StoreMeta(t)'.ver = meta[s].ver
                            /\ meta[s].ver = latest[t] /\ s \in linked
         /\ \A t \in Relforks : draft'[t].ver <= latest[t] /\ (draft'[t] = NoMeta \/ draft'[t].ver >= 1)
<1> DEFINE t == tag[s]
<1>0. /\ meta[s].ver >= 1 /\ meta[s].ver <= latest[t] /\ meta[s].ver \in Nat
      /\ draft \in [Relforks -> Meta]
  BY Numbers DEF Data, SlotVer, Numeric, Structure, Shapes
<1>1. meta[s] # NoMeta
  BY <1>0, Basics
<1>2. s \in linked /\ t \notin Raced => meta[s].ver = latest[t]
  BY DEF Data, SlotCurrent
<1>3. CASE ok
  <2>1. draft' = [draft EXCEPT ![t] = meta[s]] /\ dropped' = dropped
    BY <1>3 DEF PutMeta
  <2>2. Raced' = Raced
    BY <2>1 DEF Raced
  <2>3. draft'[t] = meta[s] /\ \A u \in Relforks \ {t} : draft'[u] = draft[u]
    BY <1>0, <2>1
  <2>4. \A u \in Relforks \ {t} : StoreMeta(u)' = StoreMeta(u)
    BY <2>3 DEF StoreMeta
  <2>5. \A u \in Relforks : u = t => StoreMeta(u)' = meta[s]
    BY <1>1, <2>3 DEF StoreMeta
  <2>6. t \notin Raced' => s \in linked /\ meta[s].ver = latest[t]
    BY <1>2, <2>2
  <2>7. \A u \in Relforks : draft'[u].ver <= latest[u] /\ (draft'[u] = NoMeta \/ draft'[u].ver >= 1)
    BY <1>0, <2>3 DEF Data, StoreVer
  <2> QED
    BY <2>2, <2>4, <2>5, <2>6, <2>7
<1>4. CASE ~ok
  <2>1. draft' = draft /\ dropped' = dropped \cup {t}
    BY <1>4 DEF PutMeta
  <2>2. Raced \subseteq Raced' /\ t \in Raced'
    BY <2>1 DEF Raced
  <2>3. \A u \in Relforks : StoreMeta(u)' = StoreMeta(u)
    BY <2>1 DEF StoreMeta
  <2> QED
    BY <2>1, <2>2, <2>3 DEF Data, StoreVer
<1> QED
  BY <1>3, <1>4
LEMMA PutData ==
  ASSUME Structure, Data, NEW s \in Slots, tag[s] \in Relforks, s \in linked \/ tag[s] \in Raced,
         NEW ok \in BOOLEAN, PutMeta(tag[s], meta[s], ok),
         UNCHANGED <<tag, meta, dirty, linked, committed, latest, stale, early, writes>>,
         IoLocked(s), \A r \in Slots \ {s} : IoLocked(r)' <=> IoLocked(r),
         \/ flush' = flush
         \/ \E f \in Flushers : flush[f].pc = "put" /\ flush[f].slot = s /\ FlushTo(f, "scan", s + 1)
  PROVE  Data' /\ Progress
<1> DEFINE t == tag[s]
<1>0. /\ Raced \subseteq Raced'
      /\ \A u \in Relforks \ {t} : StoreMeta(u)' = StoreMeta(u)
      /\ \A u \in Relforks \ Raced' :
           u = t => StoreMeta(u)'.ver = meta[s].ver /\ meta[s].ver = latest[u] /\ s \in linked
      /\ \A u \in Relforks : draft'[u].ver <= latest[u] /\ (draft'[u] = NoMeta \/ draft'[u].ver >= 1)
  BY PutEffect
<1>1. \A u \in Relforks : SlotsOf(u)' = SlotsOf(u)
  BY DEF SlotsOf
<1>2. \A r \in linked : r \in Slots /\ tag[r] \in Relforks
  BY DEF Structure, Shapes, SlotInv
<1>3. /\ \A f \in Flushers : flush'[f].due = flush[f].due /\ flush'[f].missed = flush[f].missed
      /\ flush'[Checkpointer].pc \in Pins \cup {"scan"} => flush[Checkpointer].pc \in Pins \cup {"scan"}
      /\ flush'[Checkpointer].pc = "end" => flush[Checkpointer].pc = "end"
      /\ flush'[Checkpointer].slot # flush[Checkpointer].slot =>
           flush[Checkpointer].slot = s /\ flush'[Checkpointer].slot = s + 1
  BY CheckpointerFlushes DEF FlushTo, Pins
<1>4. Numeric /\ s \in Nat
  BY Numbers, Basics
<1>5. StoreVer'
  BY <1>0, <1>3 DEF Data, StoreVer
<1>6. SlotVer'
  BY DEF Data, SlotVer
<1>7. SlotCurrent'
  BY <1>0 DEF Data, SlotCurrent
<1>8. StoreCurrent'
  <2>1. s \in linked => SlotsOf(t) # {}
    BY DEF SlotsOf
  <2> QED
    BY <1>0, <1>1, <2>1 DEF Data, StoreCurrent
<1>9. CleanStored'
  <2>1. SUFFICES ASSUME NEW r \in linked, tag[r] \notin Raced', ~dirty[r], ~IoLocked(r)'
                 PROVE  \A u \in Relforks : u = tag[r] => StoreMeta(u)'.ver = meta[r].ver
    BY <1>2 DEF CleanStored
  <2>2. CASE r = s
    BY <1>0, <2>1, <2>2
  <2>3. CASE r # s
    <3>1. tag[r] # t
      BY <1>0, <2>1, <2>3 DEF Structure, LinkedOnce
    <3> QED
      BY <1>0, <1>2, <2>1, <2>3, <3>1 DEF Data, CleanStored
  <2> QED
    BY <2>2, <2>3
<1>10. ScanCovers'
  <2> DEFINE c == Checkpointer
  <2>1. SUFFICES ASSUME flush[c].pc \in Pins \cup {"scan"}, NEW u \in Relforks \ Raced'
                 PROVE  \/ StoreMeta(u)'.ver >= flush[c].due[u]
                        \/ \E r \in SlotsOf(u) : (dirty[r] /\ r >= flush'[c].slot) \/ IoLocked(r)'
    BY <1>1, <1>3, CheckpointerFlushes DEF ScanCovers
  <2>2. CASE u = t
    BY <1>0, <1>4, <2>2, CheckpointerFlushes DEF Data, StoreVer, Numeric
  <2>3. CASE u # t
    <3>1. ASSUME NEW r \in SlotsOf(u)
          PROVE  r \in Slots /\ r # s /\ (r >= flush[c].slot => r >= flush'[c].slot)
      <4>1. r \in Slots /\ r # s /\ r \in Nat
        BY <1>2, <2>3, Basics DEF SlotsOf
      <4> QED
        BY <1>3, <1>4, <4>1
    <3>2. \/ StoreMeta(u).ver >= flush[c].due[u]
          \/ \E r \in SlotsOf(u) : (dirty[r] /\ r >= flush[c].slot) \/ IoLocked(r)
      BY <1>0, <2>1 DEF Data, ScanCovers
    <3> QED
      BY <1>0, <2>3, <3>1, <3>2
  <2> QED
    BY <2>2, <2>3
<1>11. CheckpointCovers'
  BY <1>0, <1>3, CheckpointerFlushes DEF Data, CheckpointCovers
<1>12. Progress
  BY <1>0, <1>4, StoreMetaVer DEF Progress, Numeric, Data
<1> QED
  BY <1>5, <1>6, <1>7, <1>8, <1>9, <1>10, <1>11, <1>12 DEF Data

LEMMA EvictPutData ==
  ASSUME CacheInv, Structure', NEW b \in Backends, EvictPut(b)
  PROVE  CacheInv'
<1>0. Structure /\ Data /\ CallData(b)
  BY DEF CacheInv
<1>s. PICK s \in Slots : s = call[b].slot
  BY <1>0, Typed
<1>1. /\ call[b].pc = "put" /\ CallTo(b, "check_pin", s, call[b].meta)
      /\ UNCHANGED <<slotVars, committed, flush, latest, stale, early, writes>>
  BY <1>0, <1>s, EvictPutFacts
<1>2. PICK ok \in BOOLEAN : PutMeta(tag[s], meta[s], ok)
  BY <1>0, <1>s, EvictPutFacts
<1>3. s \in linked /\ tag[s] \in Relforks
  BY <1>0, <1>1, <1>s DEF Structure, CallInv, CallOk, SlotInv
<1>4. IoLocked(s) /\ \A r \in Slots \ {s} : IoLocked(r)' <=> IoLocked(r)
  BY <1>1, <1>s DEF IoLocked, CallTo
<1>5. Data' /\ Progress
  BY <1>0, <1>1, <1>2, <1>3, <1>4, PutData DEF slotVars
<1>6. CallData(b)'
  <2>1. Raced \subseteq Raced' /\ latest' = latest
    BY <1>1, <1>5 DEF Progress
  <2> QED
    BY <1>0, <1>1, <2>1 DEF CallData, CallTo, Evicting, Using
<1>7. \A a \in Backends \ {b} : CallData(a)'
  BY <1>0, <1>1, <1>5, OtherCalls DEF CacheInv, CallTo
<1> QED
  BY <1>5, <1>6, <1>7 DEF CacheInv

LEMMA CheckDirtyData ==
  ASSUME CacheInv, Structure', NEW b \in Backends, EvictCheckDirty(b)
  PROVE  CacheInv'
<1>0. Structure /\ Data /\ CallData(b)
  BY DEF CacheInv
<1>s. PICK s \in Slots : s = call[b].slot
  BY <1>0, Typed
<1>1. /\ call[b].pc = "check_dirty"
      /\ UNCHANGED <<tag, meta, dirty, store, flush, latest, stale, dropped, writes, events>>
  BY <1>0, EvictCheckDirtyFacts
<1>2. CASE CallTo(b, "sweep", 0, call[b].meta) /\ UNCHANGED <<linked, early>>
  <2>1. {"check_dirty", "sweep"} \subseteq (Evicting \cup {"sweep"}) \ {"put"}
    BY DEF Evicting, Using
  <2> QED
    BY <1>1, <1>2, <2>1, EvictQuiet DEF races
<1>3. CASE /\ ~dirty[s] /\ linked' = linked \ {s}
           /\ IoLocked(s) => early' = early \cup {tag[s]}
           /\ ~IoLocked(s) => early' = early
           /\ CallTo(b, "clear", s, call[b].meta)
  <2>1. \A r \in Slots : IoLocked(r)' <=> IoLocked(r)
    BY <1>1, <1>3, IoLockedKept DEF CallTo
  <2>2. \A t \in Relforks : StoreMeta(t)' = StoreMeta(t)
    BY <1>1 DEF StoreMeta, store
  <2>3. /\ Raced \subseteq Raced'
        /\ IoLocked(s) => tag[s] \in Raced'
    BY <1>1, <1>3 DEF Raced
  <2>4. \A t \in Relforks : /\ SlotsOf(t)' = SlotsOf(t) \ {s}
                            /\ s \in SlotsOf(t) => t = tag[s] /\ SlotsOf(t) = {s} /\ s \in linked
    BY <1>0, <1>1, <1>3 DEF SlotsOf, Structure, LinkedOnce
  <2>5. Numeric
    BY <1>0, Numbers
  <2>6. ASSUME s \in linked, tag[s] \notin Raced'
        PROVE  tag[s] \in Relforks /\ StoreMeta(tag[s]).ver = latest[tag[s]]
    BY <1>0, <1>3, <2>3, <2>6 DEF Data, CleanStored, SlotCurrent, Structure, SlotInv
  <2>7. StoreVer' /\ SlotVer'
    BY <1>0, <1>1 DEF Data, StoreVer, SlotVer, store
  <2>8. SlotCurrent'
    BY <1>0, <1>1, <1>3, <2>3 DEF Data, SlotCurrent
  <2>9. StoreCurrent'
    <3>1. SUFFICES ASSUME NEW t \in Relforks \ Raced', SlotsOf(t) \ {s} = {}
                   PROVE  StoreMeta(t).ver = latest[t]
      BY <1>1, <2>2, <2>4 DEF StoreCurrent
    <3>2. CASE s \in SlotsOf(t)
      BY <2>4, <2>6, <3>2
    <3>3. CASE s \notin SlotsOf(t)
      BY <1>0, <2>3, <3>1, <3>3 DEF Data, StoreCurrent
    <3> QED
      BY <3>2, <3>3
  <2>10. CleanStored'
    <3>1. \A r \in linked : r \in Slots /\ tag[r] \in Relforks
      BY <1>0 DEF Structure, Shapes, SlotInv
    <3> QED
      BY <1>0, <1>1, <1>3, <2>1, <2>2, <2>3, <3>1 DEF Data, CleanStored
  <2>11. ScanCovers'
    <3> DEFINE c == flush[Checkpointer]
    <3>1. SUFFICES ASSUME c.pc \in Pins \cup {"scan"}, NEW t \in Relforks \ Raced'
                   PROVE  \/ StoreMeta(t).ver >= c.due[t]
                          \/ \E r \in SlotsOf(t) \ {s} : (dirty[r] /\ r >= c.slot) \/ IoLocked(r)'
      BY <1>1, <2>2, <2>4 DEF ScanCovers
    <3>2. \/ StoreMeta(t).ver >= c.due[t]
          \/ \E r \in SlotsOf(t) : (dirty[r] /\ r >= c.slot) \/ IoLocked(r)
      BY <1>0, <2>3, <3>1 DEF Data, ScanCovers
    <3>3. \A r \in SlotsOf(t) : r \in Slots
      BY <1>0 DEF SlotsOf, Structure, Shapes
    <3>4. CASE s \in SlotsOf(t)
      BY <1>0, <2>4, <2>5, <2>6, <3>4, CheckpointerFlushes DEF Data, StoreVer, Numeric
    <3>5. CASE s \notin SlotsOf(t)
      BY <2>1, <3>2, <3>3, <3>5
    <3> QED
      BY <3>4, <3>5
  <2>12. CheckpointCovers'
    BY <1>0, <1>1, <2>3 DEF Data, CheckpointCovers, store
  <2>13. Progress
    BY <1>1, <2>2, <2>3, <2>5 DEF Progress, Numeric
  <2>14. CallData(b)'
    BY <1>0, <1>1, <1>3, <2>3 DEF CallData, CallTo, Evicting, Using
  <2>15. \A a \in Backends \ {b} : CallData(a)'
    BY <1>0, <1>3, <2>13, OtherCalls DEF CacheInv, CallTo
  <2> QED
    BY <2>7, <2>8, <2>9, <2>10, <2>11, <2>12, <2>14, <2>15 DEF CacheInv, Data
<1> QED
  BY <1>0, <1>s, <1>2, <1>3, EvictCheckDirtyFacts
LEMMA ClearData ==
  ASSUME CacheInv, Structure', NEW b \in Backends, EvictClear(b)
  PROVE  CacheInv'
<1>0. Structure /\ Data /\ CallData(b) /\ Numeric
  BY Numbers DEF CacheInv
<1>s. PICK s \in Slots : s = call[b].slot
  BY <1>0, Typed
<1>1. /\ call[b].pc = "clear" /\ CallTo(b, "insert", s, call[b].meta)
      /\ tag' = [tag EXCEPT ![s] = NoTag] /\ meta' = [meta EXCEPT ![s] = NoMeta]
      /\ dirty' = [dirty EXCEPT ![s] = FALSE]
      /\ UNCHANGED <<pin_count, linked, store, flush, history>>
  BY <1>0, <1>s, EvictClearFacts
<1>2. s \notin linked /\ linked \subseteq Slots
  BY <1>0, <1>1, <1>s DEF Structure, Shapes, CallInv, CallOk
<1>3. /\ tag'[s] = NoTag /\ NoTag \notin Relforks
      /\ \A r \in Slots \ {s} : tag'[r] = tag[r] /\ meta'[r] = meta[r]
  BY <1>0, <1>1, MetaAssumption DEF Structure, Shapes
<1>4. \A r \in Slots \ {s} : dirty'[r] = dirty[r]
  BY <1>0, <1>1 DEF Structure, Shapes
<1>5. \A r \in Slots : IoLocked(r)' <=> IoLocked(r)
  BY <1>1, IoLockedKept DEF CallTo
<1>6. /\ \A u \in Relforks : StoreMeta(u)' = StoreMeta(u)
      /\ Raced' = Raced /\ latest' = latest /\ writes' = writes /\ flush' = flush
  BY <1>1 DEF StoreMeta, Raced, store, history, races
<1>7. \A u \in Relforks : SlotsOf(u)' = SlotsOf(u) /\ SlotsOf(u) \subseteq Slots \ {s}
  BY <1>1, <1>2, <1>3 DEF SlotsOf
<1>8. StoreVer' /\ CheckpointCovers'
  BY <1>0, <1>1, <1>6 DEF Data, StoreVer, CheckpointCovers, store
<1>9. SlotVer'
  BY <1>0, <1>3, <1>6 DEF Data, SlotVer
<1>10. SlotCurrent' /\ StoreCurrent'
  BY <1>0, <1>1, <1>2, <1>3, <1>6, <1>7 DEF Data, SlotCurrent, StoreCurrent
<1>11. CleanStored'
  <2>1. \A r \in linked : r \in Slots \ {s} /\ tag[r] \in Relforks
    BY <1>0, <1>2 DEF Structure, SlotInv
  <2> QED
    BY <1>0, <1>1, <1>3, <1>4, <1>5, <1>6, <2>1 DEF Data, CleanStored
<1>12. ScanCovers'
  BY <1>0, <1>4, <1>5, <1>6, <1>7 DEF Data, ScanCovers
<1>13. Progress
  BY <1>0, <1>6 DEF Progress, Numeric
<1>14. CallData(b)'
  BY <1>0, <1>1, <1>6 DEF CallData, CallTo, Evicting, Using
<1>15. \A a \in Backends \ {b} : CallData(a)'
  BY <1>0, <1>1, <1>13, OtherCalls DEF CacheInv, CallTo
<1> QED
  BY <1>8, <1>9, <1>10, <1>11, <1>12, <1>14, <1>15 DEF CacheInv, Data

LEMMA InsertData ==
  ASSUME CacheInv, Structure', NEW b \in Backends, Insert(b)
  PROVE  CacheInv'
<1>0. Structure /\ Data /\ CallData(b) /\ Numeric
  BY Numbers DEF CacheInv
<1>s. PICK s \in Slots : s = call[b].slot
  BY <1>0, Typed
<1>1. PICK m \in Meta, pc \in {"done", "lookup"} :
        /\ call[b].pc = "insert" /\ CallTo(b, pc, 0, call[b].meta)
        /\ SlotsOf(call[b].tag) = {}
        /\ tag' = [tag EXCEPT ![s] = call[b].tag] /\ meta' = [meta EXCEPT ![s] = m]
        /\ linked' = linked \cup {s}
        /\ \A r \in Slots \ {s} : dirty'[r] = dirty[r]
        /\ \/ /\ call[b].meta = NoMeta /\ m.ver = writes + 1
              /\ dirty'[s]
              /\ writes' = writes + 1 /\ latest' = [latest EXCEPT ![call[b].tag] = writes + 1]
              /\ UNCHANGED stale
           \/ /\ call[b].meta # NoMeta /\ m = call[b].meta /\ UNCHANGED <<writes, latest>>
              /\ stale' = IF m.ver < latest[call[b].tag] THEN stale \cup {call[b].tag} ELSE stale
        /\ UNCHANGED <<store, flush, early, dropped, events>>
  BY <1>0, <1>s, InsertFacts
<1>t. PICK t \in Relforks : t = call[b].tag
  BY <1>0, <1>1, Typed
<1>2. s \notin linked /\ linked \subseteq Slots
  BY <1>0, <1>1, <1>s DEF Structure, Shapes, CallInv, CallOk
<1>3. /\ tag'[s] = t /\ meta'[s] = m
      /\ \A r \in Slots \ {s} : tag'[r] = tag[r] /\ meta'[r] = meta[r]
  BY <1>0, <1>1, <1>t DEF Structure, Shapes
<1>4. \A r \in Slots : IoLocked(r)' <=> IoLocked(r)
  BY <1>1, IoLockedKept DEF CallTo
<1>5. /\ \A u \in Relforks : StoreMeta(u)' = StoreMeta(u)
      /\ Raced \subseteq Raced' /\ flush' = flush
  BY <1>1 DEF StoreMeta, Raced, store
<1>6. /\ SlotsOf(t) = {} /\ SlotsOf(t)' = {s}
      /\ \A u \in Relforks \ {t} : SlotsOf(u)' = SlotsOf(u) /\ SlotsOf(u) \subseteq Slots \ {s}
  BY <1>1, <1>2, <1>3, <1>t DEF SlotsOf
<1>7. \A u \in Relforks \ {t} : latest'[u] = latest[u]
  BY <1>0, <1>1, <1>t DEF Structure, Shapes
<1>8. /\ m.ver >= 1 /\ m.ver <= latest'[t] /\ m.ver \in Nat
      /\ latest'[t] <= writes' /\ latest[t] <= latest'[t] /\ latest'[t] \in Nat
      /\ writes <= writes' /\ writes' \in Nat
      /\ t \notin Raced' => m.ver = latest'[t]
      /\ t \notin Raced' /\ ~dirty'[s] => StoreMeta(t).ver = m.ver
  <2>1. /\ latest[t] <= writes /\ latest[t] \in Nat /\ writes \in Nat /\ m.ver \in Nat
        /\ call[b].meta.ver <= latest[t] /\ (call[b].meta = NoMeta \/ call[b].meta.ver >= 1)
    BY <1>0, <1>1, <1>t, MetaFields DEF Data, StoreVer, Numeric, CallData, Evicting, Using
  <2>2. CASE /\ m.ver = writes + 1 /\ dirty'[s] /\ writes' = writes + 1
             /\ latest' = [latest EXCEPT ![t] = writes + 1]
    <3>1. latest'[t] = writes + 1
      BY <1>0, <2>2 DEF Structure, Shapes
    <3> QED
      BY <2>1, <2>2, <3>1
  <2>3. CASE /\ call[b].meta # NoMeta /\ m = call[b].meta /\ UNCHANGED <<writes, latest>>
             /\ stale' = IF m.ver < latest[t] THEN stale \cup {t} ELSE stale
    <3>1. t \notin Raced' => m.ver = latest[t]
      BY <2>1, <2>3 DEF Raced
    <3>2. t \notin Raced' => StoreMeta(t).ver = latest[t]
      BY <1>0, <1>5, <1>6 DEF Data, StoreCurrent
    <3> QED
      BY <2>1, <2>3, <3>1, <3>2
  <2> QED
    BY <1>1, <1>t, <2>2, <2>3
<1>9. StoreVer'
  <2>1. ASSUME NEW u \in Relforks
        PROVE  latest'[u] <= writes' /\ latest[u] <= latest'[u] /\ latest'[u] \in Nat
    BY <1>0, <1>7, <1>8 DEF Data, StoreVer, Numeric
  <2>2. draft' = draft /\ committed' = committed
    BY <1>1 DEF store
  <2> QED
    BY <1>0, <1>5, <2>1, <2>2 DEF Data, StoreVer, Numeric
<1>10. SlotVer'
  <2>1. SUFFICES ASSUME NEW r \in Slots, tag'[r] \in Relforks
                 PROVE  meta'[r].ver >= 1 /\ meta'[r].ver <= latest'[tag'[r]]
    BY DEF SlotVer
  <2>2. CASE r = s
    BY <1>3, <1>8, <2>2
  <2>3. CASE r # s
    BY <1>0, <1>3, <1>7, <1>8, <2>1, <2>3 DEF Data, SlotVer, Numeric
  <2> QED
    BY <2>2, <2>3
<1>11. SlotCurrent'
  <2>1. SUFFICES ASSUME NEW r \in linked \cup {s}, tag'[r] \notin Raced'
                 PROVE  meta'[r].ver = latest'[tag'[r]]
    BY <1>1 DEF SlotCurrent
  <2>2. CASE r = s
    BY <1>3, <1>8, <2>1, <2>2
  <2>3. CASE r # s
    <3>1. r \in linked /\ tag'[r] = tag[r] /\ meta'[r] = meta[r] /\ tag[r] \in Relforks
      BY <1>0, <1>2, <1>3, <2>3 DEF Structure, SlotInv
    <3>2. tag[r] # t
      BY <1>6, <3>1 DEF SlotsOf
    <3> QED
      BY <1>0, <1>5, <1>7, <2>1, <3>1, <3>2 DEF Data, SlotCurrent
  <2> QED
    BY <2>2, <2>3
<1>12. StoreCurrent'
  BY <1>0, <1>5, <1>6, <1>7 DEF Data, StoreCurrent
<1>13. CleanStored'
  <2>1. SUFFICES ASSUME NEW r \in linked \cup {s}, tag'[r] \notin Raced', ~dirty'[r], ~IoLocked(r)'
                 PROVE  \A u \in Relforks : u = tag'[r] => StoreMeta(u)'.ver = meta'[r].ver
    <3>1. CleanStored' <=> \A r \in linked' :
            tag'[r] \notin Raced' /\ ~dirty'[r] /\ ~IoLocked(r)' => StoreMeta(tag[r])'.ver = meta'[r].ver
      BY DEF CleanStored
    <3>2. \A r \in linked' : tag'[r] \in Relforks
      BY <1>0, <1>1, <1>2, <1>3 DEF Structure, SlotInv
    <3> QED
      BY <1>1, <2>1, <3>1, <3>2
  <2>2. CASE r = s
    BY <1>3, <1>5, <1>8, <2>1, <2>2
  <2>3. CASE r # s
    <3>1. r \in linked /\ r \in Slots /\ tag'[r] = tag[r] /\ meta'[r] = meta[r] /\ tag[r] \in Relforks
      BY <1>0, <1>2, <1>3, <2>3 DEF Structure, SlotInv
    <3> QED
      BY <1>0, <1>1, <1>4, <1>5, <2>1, <2>3, <3>1 DEF Data, CleanStored
  <2> QED
    BY <2>2, <2>3
<1>14. ScanCovers'
  <2> DEFINE c == flush[Checkpointer]
  <2>1. SUFFICES ASSUME c.pc \in Pins \cup {"scan"}, NEW u \in Relforks \ Raced'
                 PROVE  \/ StoreMeta(u).ver >= c.due[u]
                        \/ \E r \in SlotsOf(u)' : (dirty'[r] /\ r >= c.slot) \/ IoLocked(r)'
    BY <1>5 DEF ScanCovers
  <2>2. \/ StoreMeta(u).ver >= c.due[u]
        \/ \E r \in SlotsOf(u) : (dirty[r] /\ r >= c.slot) \/ IoLocked(r)
    BY <1>0, <1>5, <2>1 DEF Data, ScanCovers
  <2>3. CASE u = t
    BY <1>6, <2>2, <2>3
  <2>4. CASE u # t
    BY <1>1, <1>4, <1>6, <2>2, <2>4
  <2> QED
    BY <2>3, <2>4
<1>15. CheckpointCovers'
  BY <1>0, <1>1, <1>5 DEF Data, CheckpointCovers, store
<1>16. Progress
  BY <1>0, <1>5, <1>7, <1>8 DEF Progress, Numeric
<1>17. CallData(b)'
  <2>1. call[b].floor <= latest[t] /\ call[b].floor \in Nat /\ latest[t] \in Nat
    BY <1>0, <1>1, <1>t DEF CallData, Numeric
  <2>2. call[b].floor <= latest'[t]
    BY <1>8, <2>1
  <2>3. t \notin Raced' => call[b].meta.ver >= call[b].floor
    BY <1>0, <1>1, <1>5, <1>t DEF CallData, Evicting, Using
  <2> QED
    BY <1>1, <1>t, <2>2, <2>3 DEF CallData, CallTo, Evicting, Using
<1>18. \A a \in Backends \ {b} : CallData(a)'
  BY <1>0, <1>1, <1>16, OtherCalls DEF CacheInv, CallTo
<1> QED
  BY <1>9, <1>10, <1>11, <1>12, <1>13, <1>14, <1>15, <1>17, <1>18 DEF CacheInv, Data

LEMMA CallStepData ==
  ASSUME CacheInv, Structure', NEW b \in Backends, CallStep(b)
  PROVE  CacheInv'
BY LookupData, HitData, FetchData, FreeData, EvictQuietData, EvictFlushData, EvictPutData,
   CheckDirtyData, ClearData, DuplicateData, InsertData DEF CallStep, Evict
-----------------------------------------------------------------------------
(* No change is undone: flushes and the commit *)

\* The scan moves past a clean slot, or stays.
LEMMA ScanOn ==
  ASSUME Structure, Data, NEW f \in Flushers, NEW s \in Slots, flush[f].slot = s,
         flush[f].pc \in {"scan", "recheck", "lock"},
         UNCHANGED <<tag, meta, dirty, linked, store, latest, races, writes>>,
         call' = call,
         \/ \E pc \in {"recheck", "lock"} : FlushTo(f, pc, s)
         \/ FlushTo(f, "scan", s + 1) /\ (f = Checkpointer => ~dirty[s])
  PROVE  Data' /\ Progress
<1> DEFINE c == Checkpointer
<1>0. /\ \A g \in Flushers : flush'[g].due = flush[g].due
      /\ flush'[f].pc \in {"scan", "recheck", "lock"}
      /\ \A g \in Flushers \ {f} : flush'[g] = flush[g]
      /\ flush'[c].pc \in Pins \cup {"scan"} => flush[c].pc \in Pins \cup {"scan"}
      /\ flush'[c].pc = "end" => flush'[c] = flush[c]
      /\ flush'[c].slot # flush[c].slot => flush[c].slot = s /\ flush'[c].slot = s + 1 /\ ~dirty[s]
  BY CheckpointerFlushes DEF FlushTo, Pins
<1>1. /\ \A t \in Relforks : StoreMeta(t)' = StoreMeta(t) /\ SlotsOf(t)' = SlotsOf(t)
      /\ Raced' = Raced
  BY <1>0 DEF StoreMeta, SlotsOf, Raced, store, races
<1>2. \A r \in Slots : IoLocked(r)' <=> IoLocked(r)
  BY <1>0 DEF IoLocked
<1>3. StoreVer' /\ SlotVer' /\ SlotCurrent' /\ StoreCurrent'
  BY <1>0, <1>1 DEF Data, StoreVer, SlotVer, SlotCurrent, StoreCurrent, store
<1>4. CleanStored'
  <2>1. \A r \in linked : r \in Slots /\ tag[r] \in Relforks
    BY DEF Structure, Shapes, SlotInv
  <2> QED
    BY <1>0, <1>1, <1>2, <2>1 DEF Data, CleanStored
<1>5. ScanCovers'
  <2>1. \A t \in Relforks : SlotsOf(t) \subseteq Slots
    BY DEF Structure, Shapes, SlotsOf
  <2>2. ASSUME NEW r \in Slots, dirty[r], r >= flush[c].slot
        PROVE  r >= flush'[c].slot
    <3>1. r \in Nat /\ s \in Nat
      BY Basics
    <3> QED
      BY <1>0, <2>2, <3>1
  <2> QED
    BY <1>0, <1>1, <1>2, <2>1, <2>2, CheckpointerFlushes DEF Data, ScanCovers
<1>6. CheckpointCovers'
  BY <1>0, <1>1 DEF Data, CheckpointCovers, store
<1>7. Progress
  BY <1>0, <1>1, Numbers DEF Progress, Numeric
<1> QED
  BY <1>3, <1>4, <1>5, <1>6, <1>7 DEF Data

LEMMA StartData ==
  ASSUME Structure, Data, NEW f \in Flushers, FlushStart(f)
  PROVE  Data' /\ Progress
<1>0. /\ flush[f].pc = "idle" /\ flush'[f].pc = "scan" /\ flush'[f].slot = 0 /\ flush'[f].due = latest
      /\ \A g \in Flushers \ {f} : flush'[g] = flush[g]
      /\ UNCHANGED <<slotVars, store, call, latest, races, writes>>
  BY FlushStartFacts
<1>1. /\ \A t \in Relforks : StoreMeta(t)' = StoreMeta(t) /\ SlotsOf(t)' = SlotsOf(t)
      /\ Raced' = Raced
  BY <1>0 DEF StoreMeta, SlotsOf, Raced, slotVars, store, races
<1>2. \A r \in Slots : IoLocked(r)' <=> IoLocked(r)
  BY <1>0 DEF IoLocked
<1>3. \A r \in linked : r \in Slots /\ tag[r] \in Relforks /\ r >= 0
  BY Basics DEF Structure, Shapes, SlotInv
<1>4. Numeric
  BY Numbers
<1>5. StoreVer' /\ SlotVer' /\ SlotCurrent' /\ StoreCurrent'
  BY <1>0, <1>1, <1>4 DEF Data, StoreVer, SlotVer, SlotCurrent, StoreCurrent, slotVars, store, Numeric
<1>6. CleanStored'
  BY <1>0, <1>1, <1>2, <1>3 DEF Data, CleanStored, slotVars
<1>7. ScanCovers'
  <2>0. CASE f # Checkpointer
    <3>1. flush'[Checkpointer] = flush[Checkpointer] /\ \A t \in Relforks : SlotsOf(t) \subseteq Slots
      BY <1>0, <1>3, <2>0, CheckpointerFlushes DEF SlotsOf
    <3> QED
      BY <1>0, <1>1, <1>2, <3>1 DEF Data, ScanCovers, slotVars
  <2>1. SUFFICES ASSUME f = Checkpointer, NEW t \in Relforks \ Raced
                 PROVE  \/ StoreMeta(t).ver >= latest[t]
                        \/ \E s \in SlotsOf(t) : (dirty[s] /\ s >= 0) \/ IoLocked(s)'
    BY <1>0, <1>1, <2>0 DEF ScanCovers, slotVars
  <2>2. CASE SlotsOf(t) = {}
    BY <1>4, <2>2 DEF Data, StoreCurrent, Numeric
  <2>3. ASSUME NEW s \in SlotsOf(t), ~dirty[s], ~IoLocked(s) PROVE StoreMeta(t).ver >= latest[t]
    <3>1. s \in linked /\ tag[s] = t
      BY DEF SlotsOf
    <3> QED
      BY <1>4, <2>3, <3>1 DEF Data, CleanStored, SlotCurrent, Numeric
  <2>4. \A s \in SlotsOf(t) : s \in Slots /\ s >= 0
    BY <1>3 DEF SlotsOf
  <2> QED
    BY <1>2, <2>2, <2>3, <2>4
<1>8. CheckpointCovers'
  <2>1. f = Checkpointer \/ flush'[Checkpointer] = flush[Checkpointer]
    BY <1>0, CheckpointerFlushes
  <2> QED
    BY <1>0, <1>1, <2>1 DEF Data, CheckpointCovers, store
<1>9. Progress
  BY <1>0, <1>1, <1>4 DEF Progress, Numeric
<1> QED
  BY <1>5, <1>6, <1>7, <1>8, <1>9 DEF Data

LEMMA FlushSwapData ==
  ASSUME Structure, Data, NEW f \in Flushers, FlushSwap(f)
  PROVE  Data' /\ Progress
<1> DEFINE c == Checkpointer
<1>s. PICK s \in Slots : s = flush[f].slot
  BY FlushSwapFacts
<1>1. /\ flush[f].pc = "lock" /\ ~IoLocked(s) /\ dirty' = [dirty EXCEPT ![s] = FALSE]
      /\ \/ dirty[s] /\ FlushTo(f, "put", s)
         \/ ~dirty[s] /\ FlushTo(f, "scan", s + 1)
      /\ UNCHANGED <<tag, meta, linked, store, call, history>>
  BY <1>s, FlushSwapFacts
<1>2. /\ \A g \in Flushers : flush'[g].due = flush[g].due
      /\ UNCHANGED <<tag, meta, linked, store, latest, races, writes>>
      /\ flush'[c].pc \in Pins \cup {"scan"} => flush[c].pc \in Pins \cup {"scan"}
      /\ flush'[c].pc = "end" => flush'[c] = flush[c]
      /\ flush'[c].slot # flush[c].slot => flush[c].slot = s /\ flush'[c].slot = s + 1
  BY <1>1, <1>s, CheckpointerFlushes DEF FlushTo, history, Pins
<1>3. /\ dirty[s] => IoLocked(s)'
      /\ \A r \in Slots \ {s} : IoLocked(r)' <=> IoLocked(r)
  BY <1>1, <1>s DEF IoLocked, FlushTo
<1>4. StoreVer' /\ SlotVer' /\ SlotCurrent' /\ StoreCurrent' /\ CleanStored' /\ Progress
  BY <1>1, <1>2, <1>3, SwapData
<1>5. /\ \A t \in Relforks : StoreMeta(t)' = StoreMeta(t) /\ SlotsOf(t)' = SlotsOf(t)
      /\ Raced' = Raced
  BY <1>2 DEF StoreMeta, SlotsOf, Raced, store, races
<1>6. ScanCovers'
  <2>1. \A t \in Relforks : SlotsOf(t) \subseteq Slots
    BY DEF Structure, Shapes, SlotsOf
  <2>2. ASSUME NEW r \in Slots, (dirty[r] /\ r >= flush[c].slot) \/ IoLocked(r)
        PROVE  (dirty'[r] /\ r >= flush'[c].slot) \/ IoLocked(r)'
    <3>1. r \in Nat /\ s \in Nat
      BY Basics
    <3>2. CASE r = s
      BY <1>1, <1>3, <2>2, <3>2
    <3>3. CASE r # s
      <4>1. dirty'[r] = dirty[r]
        BY <1>1, <3>3 DEF Structure, Shapes
      <4>2. r >= flush[c].slot => r >= flush'[c].slot
        BY <1>2, <3>1, <3>3
      <4> QED
        BY <1>3, <2>2, <3>3, <4>1, <4>2
    <3> QED
      BY <3>2, <3>3
  <2> QED
    BY <1>1, <1>2, <1>5, <2>1, <2>2, CheckpointerFlushes DEF Data, ScanCovers
<1>7. CheckpointCovers'
  BY <1>2, <1>5 DEF Data, CheckpointCovers, store
<1> QED
  BY <1>4, <1>6, <1>7 DEF Data

LEMMA CommitData ==
  ASSUME Structure, Data, NEW f \in Flushers, Commit(f)
  PROVE  Data' /\ Progress
<1>0. /\ flush[f].pc = "scan" /\ flush[f].slot = NumSlots
      /\ flush'[f].pc = "end" /\ flush'[f].missed = Recording
      /\ \A g \in Flushers : flush'[g].due = flush[g].due
      /\ \A g \in Flushers \ {f} : flush'[g] = flush[g]
      /\ \/ f = Checkpointer /\ Drain
         \/ f # Checkpointer /\ UNCHANGED store
      /\ UNCHANGED <<slotVars, call, history>>
  BY CommitFacts
<1>1. \A t \in Relforks : StoreMeta(t)' = StoreMeta(t)
  <2>1. CASE Drain
    BY <2>1 DEF Drain, StoreMeta
  <2>2. CASE UNCHANGED store
    BY <2>2 DEF StoreMeta, store
  <2> QED
    BY <1>0, <2>1, <2>2
<1>2. /\ \A t \in Relforks : SlotsOf(t)' = SlotsOf(t)
      /\ Raced' = Raced /\ latest' = latest /\ writes' = writes
  BY <1>0 DEF SlotsOf, Raced, slotVars, history, races
<1>3. \A r \in Slots : IoLocked(r)' <=> IoLocked(r)
  BY <1>0 DEF IoLocked
<1>4. Numeric
  BY Numbers
<1>5. StoreVer'
  <2>1. CASE Drain
    <3>1. \A t \in Relforks : draft'[t] = NoMeta /\ committed'[t] = StoreMeta(t)
      BY <2>1 DEF Drain
    <3>2. \A t \in Relforks : /\ StoreMeta(t).ver <= latest[t]
                              /\ StoreMeta(t) = NoMeta \/ StoreMeta(t).ver >= 1
      BY DEF Data, StoreVer, StoreMeta
    <3> QED
      BY <1>0, <1>2, <1>4, <3>1, <3>2, Basics DEF Data, StoreVer, Numeric
  <2>2. CASE UNCHANGED store
    BY <1>0, <1>2, <2>2 DEF Data, StoreVer, store
  <2> QED
    BY <1>0, <2>1, <2>2
<1>6. SlotVer' /\ SlotCurrent' /\ StoreCurrent'
  BY <1>0, <1>1, <1>2 DEF Data, SlotVer, SlotCurrent, StoreCurrent, slotVars
<1>7. CleanStored'
  <2>1. \A r \in linked : r \in Slots /\ tag[r] \in Relforks
    BY DEF Structure, Shapes, SlotInv
  <2> QED
    BY <1>0, <1>1, <1>2, <1>3, <2>1 DEF Data, CleanStored, slotVars
<1>8. ScanCovers'
  <2>1. CASE f = Checkpointer
    BY <1>0, <2>1 DEF ScanCovers, Pins
  <2>2. CASE f # Checkpointer
    <3>1. flush'[Checkpointer] = flush[Checkpointer] /\ \A t \in Relforks : SlotsOf(t) \subseteq Slots
      BY <1>0, <2>2, CheckpointerFlushes DEF SlotsOf, Structure, Shapes
    <3> QED
      BY <1>0, <1>1, <1>2, <1>3, <3>1 DEF Data, ScanCovers, slotVars
  <2> QED
    BY <2>1, <2>2
<1>9. CheckpointCovers'
  <2>0. CASE f # Checkpointer
    <3>1. flush'[Checkpointer] = flush[Checkpointer] /\ committed' = committed
      BY <1>0, <2>0, CheckpointerFlushes DEF store
    <3> QED
      BY <1>2, <3>1 DEF Data, CheckpointCovers
  <2>1. SUFFICES ASSUME f = Checkpointer, NEW t \in Relforks \ (Raced \cup Recording)
                 PROVE  committed'[t].ver >= flush[f].due[t]
    BY <1>0, <1>2, <2>0 DEF CheckpointCovers
  <2>2. committed'[t] = StoreMeta(t)
    BY <1>0, <2>1 DEF Drain
  <2>3. ASSUME NEW s \in SlotsOf(t) PROVE ~(dirty[s] /\ s >= flush[f].slot) /\ ~IoLocked(s)
    <3>1. s \in Slots /\ tag[s] = t
      BY DEF Structure, Shapes, SlotsOf
    <3>2. ~(s >= flush[f].slot)
      BY <1>0, <3>1, MetaAssumption DEF Slots
    <3>3. ~IoLocked(s)
      BY <1>0, <2>1, <3>1 DEF IoLocked, Recording
    <3> QED
      BY <3>2, <3>3
  <2>4. StoreMeta(t).ver >= flush[f].due[t]
    BY <1>0, <2>1, <2>3 DEF Data, ScanCovers
  <2> QED
    BY <2>2, <2>4
<1>10. Progress
  BY <1>1, <1>2, <1>4 DEF Progress, Numeric
<1> QED
  BY <1>5, <1>6, <1>7, <1>8, <1>9, <1>10 DEF Data

LEMMA EndData ==
  ASSUME Structure, Data, NEW f \in Flushers, FlushEnd(f)
  PROVE  Data' /\ Progress
<1>0. /\ flush[f].pc = "end" /\ flush'[f].pc = "idle" /\ \A t \in Relforks : flush'[f].due[t] = 0
      /\ \A g \in Flushers \ {f} : flush'[g] = flush[g]
      /\ UNCHANGED <<slotVars, store, call, history>>
  BY FlushEndFacts
<1>1. /\ \A t \in Relforks : StoreMeta(t)' = StoreMeta(t) /\ SlotsOf(t)' = SlotsOf(t)
      /\ Raced' = Raced /\ latest' = latest
  BY <1>0 DEF StoreMeta, SlotsOf, Raced, slotVars, store, history, races
<1>2. \A r \in Slots : IoLocked(r)' <=> IoLocked(r)
  BY <1>0 DEF IoLocked
<1>3. Numeric
  BY Numbers
<1>4. StoreVer' /\ SlotVer' /\ SlotCurrent' /\ StoreCurrent'
  BY <1>0, <1>1, <1>3
  DEF Data, StoreVer, SlotVer, SlotCurrent, StoreCurrent, slotVars, store, history, Numeric
<1>5. CleanStored'
  <2>1. \A r \in linked : r \in Slots /\ tag[r] \in Relforks
    BY DEF Structure, Shapes, SlotInv
  <2> QED
    BY <1>0, <1>1, <1>2, <2>1 DEF Data, CleanStored, slotVars
<1>6. ScanCovers' /\ CheckpointCovers'
  <2>1. CASE f = Checkpointer
    BY <1>0, <2>1 DEF ScanCovers, CheckpointCovers, Pins
  <2>2. CASE f # Checkpointer
    <3>1. flush'[Checkpointer] = flush[Checkpointer] /\ \A t \in Relforks : SlotsOf(t) \subseteq Slots
      BY <1>0, <2>2, CheckpointerFlushes DEF SlotsOf, Structure, Shapes
    <3>2. ScanCovers'
      BY <1>0, <1>1, <1>2, <3>1 DEF Data, ScanCovers, slotVars
    <3>3. CheckpointCovers'
      BY <1>0, <1>1, <3>1 DEF Data, CheckpointCovers, store
    <3> QED
      BY <3>2, <3>3
  <2> QED
    BY <2>1, <2>2
<1>7. Progress
  BY <1>1, <1>3 DEF Progress, Numeric
<1> QED
  BY <1>4, <1>5, <1>6, <1>7 DEF Data

LEMMA FlushStepData ==
  ASSUME CacheInv, Structure', NEW f \in Flushers, FlushStep(f)
  PROVE  CacheInv'
<1>0. Structure /\ Data
  BY DEF CacheInv
<1>1. SUFFICES Data' /\ Progress /\ call' = call
  BY <1>0, OtherCalls DEF CacheInv
<1>2. CASE FlushSkip(f)
  <2>1. /\ flush[f].pc = "scan" /\ flush[f].slot \in Slots /\ ~dirty[flush[f].slot]
        /\ FlushTo(f, "scan", flush[f].slot + 1) /\ call' = call
        /\ UNCHANGED <<tag, meta, dirty, linked, store, latest, races, writes>>
    BY <1>0, <1>2, FlushSkipFacts DEF slotVars, history
  <2> QED
    BY <1>0, <2>1, ScanOn
<1>3. CASE FlushPin(f)
  <2>1. /\ flush[f].pc = "scan" /\ flush[f].slot \in Slots /\ FlushTo(f, "recheck", flush[f].slot) /\ call' = call
        /\ UNCHANGED <<tag, meta, dirty, linked, store, latest, races, writes>>
    BY <1>0, <1>3, FlushPinFacts DEF history
  <2> QED
    BY <1>0, <2>1, ScanOn
<1>4. CASE FlushRecheck(f)
  <2>1. /\ flush[f].pc = "recheck" /\ flush[f].slot \in Slots /\ call' = call
        /\ UNCHANGED <<tag, meta, dirty, linked, store, latest, races, writes>>
    BY <1>0, <1>4, FlushRecheckFacts DEF history
  <2>2. dirty[flush[f].slot] => tag[flush[f].slot] \in Relforks
    BY <1>0, <2>1 DEF Structure, SlotInv
  <2>3. \/ FlushTo(f, "lock", flush[f].slot)
        \/ FlushTo(f, "scan", flush[f].slot + 1) /\ (f = Checkpointer => ~dirty[flush[f].slot])
    <3>1. f = Checkpointer => flush[f].of = Relforks
      BY <1>0, <2>1 DEF Structure, FlushInv, FlushOk
    <3> QED
      BY <1>0, <1>4, <2>2, <3>1, FlushRecheckFacts
  <2> QED
    BY <1>0, <2>1, <2>3, ScanOn
<1>5. CASE FlushPut(f)
  <2>1. /\ flush[f].pc = "put" /\ flush[f].slot \in Slots /\ FlushTo(f, "scan", flush[f].slot + 1) /\ call' = call
        /\ UNCHANGED <<tag, meta, dirty, linked, committed, latest, stale, early, writes>>
    BY <1>0, <1>5, FlushPutFacts
  <2>s. PICK s \in Slots : s = flush[f].slot
    BY <2>1
  <2>2. PICK ok \in BOOLEAN : PutMeta(tag[s], meta[s], ok)
    BY <1>0, <1>5, <2>s, FlushPutFacts
  <2>3. tag[s] \in Relforks /\ (s \in linked \/ tag[s] \in Raced)
    BY <1>0, <2>1, <2>s DEF Structure, FlushInv, FlushOk, Raced
  <2>4. IoLocked(s) /\ \A r \in Slots \ {s} : IoLocked(r)' <=> IoLocked(r)
    BY <2>1, <2>s DEF IoLocked, FlushTo
  <2> QED
    BY <1>0, <2>1, <2>s, <2>2, <2>3, <2>4, PutData
<1>6. CASE FlushStart(f)
  BY <1>0, <1>6, StartData, FlushStartFacts
<1>7. CASE FlushSwap(f)
  BY <1>0, <1>7, FlushSwapData, FlushSwapFacts
<1>8. CASE Commit(f)
  BY <1>0, <1>8, CommitData, CommitFacts
<1>9. CASE FlushEnd(f)
  BY <1>0, <1>9, EndData, FlushEndFacts
<1> QED
  BY <1>2, <1>3, <1>4, <1>5, <1>6, <1>7, <1>8, <1>9 DEF FlushStep

LEMMA StutterData ==
  ASSUME CacheInv, Structure', UNCHANGED vars
  PROVE  CacheInv'
<1>1. \A r \in Slots : IoLocked(r)' <=> IoLocked(r)
  BY DEF IoLocked, vars
<1>2. Data' /\ Progress
  BY <1>1, QuietData DEF CacheInv, vars, slotVars, history
<1> QED
  BY <1>2, OtherCalls DEF CacheInv, vars

LEMMA NextData == CacheInv /\ [Next]_vars => CacheInv'
<1> SUFFICES ASSUME CacheInv, [Next]_vars PROVE CacheInv'
  OBVIOUS
<1>1. Structure'
  BY NextStructure DEF CacheInv
<1> QED
  BY <1>1, NextCases, FreeData, CallStepData, FlushStepData, StutterData

LEMMA CacheInvariant == Spec => []CacheInv
<1>1. Init => CacheInv
  BY InitStructure, InitData DEF CacheInv
<1> QED
  BY <1>1, NextData, PTL DEF Spec

\* A lookup that starts now finds the last acknowledged change of a relation's
\* metadata (meta.rs: set_nblocks, delete, create), however evictions, flushes,
\* insertions and commits interleave: no cached value is dropped before the store
\* has it.  What is excepted is exactly the three races of Raced.
THEOREM MetaCoherent == Spec => []Coherent
<1>1. CacheInv => Coherent
  <2> SUFFICES ASSUME CacheInv, NEW t \in Relforks \ Raced
               PROVE  Visible(t).ver = latest[t]
    BY DEF Coherent
  <2>1. CASE SlotsOf(t) = {}
    BY <2>1 DEF CacheInv, Data, StoreCurrent, Visible
  <2>2. CASE SlotsOf(t) # {}
    <3>1. PICK s : s \in SlotsOf(t) /\ Visible(t) = meta[s]
      BY <2>2 DEF Visible
    <3> QED
      BY <3>1 DEF CacheInv, Data, SlotCurrent, SlotsOf
  <2> QED
    BY <2>1, <2>2
<1> QED
  BY <1>1, CacheInvariant, PTL

\* An operation (exists, nblocks, extend, truncate, unlink, create) acts on metadata
\* that was current when it began, or newer, although the fetch and the insertion of a
\* miss are far apart (meta.rs, load_from_store and evict_and_pin).  Excepted are the
\* relations of Raced: those once inserted from a fetch that a change had overtaken,
\* once unlinked while a flush was recording them, or once refused by the draft.
THEOREM MetaSeesCurrent == Spec => []SeesCurrent
<1>1. CacheInv => SeesCurrent
  BY DEF CacheInv, CallData, SeesCurrent
<1> QED
  BY <1>1, CacheInvariant, PTL

\* A checkpoint commits every metadata change that was made before it began
\* (flush_dirty_metas and run_commit_protocol), with evictions, insertions, lookups and
\* the immedsyncs of other processes running all the while: it scans the slots without
\* a lock and comes to every dirty one, whatever moves behind the scan.  The exceptions
\* are the relations of Raced, and those whose dirty flag an eviction or another
\* process's flush has cleared and which are not recorded yet at the commit: these the
\* checkpoint does miss.
THEOREM MetaCheckpointCovers == Spec => []CheckpointCovers
<1>1. CacheInv => CheckpointCovers
  BY DEF CacheInv, Data
<1> QED
  BY <1>1, CacheInvariant, PTL
=============================================================================
