--------------------------- MODULE ChunkCacheProofs ---------------------------
(***************************************************************************)
(* Proofs about the chunk cache, for every number of backends, slots,      *)
(* chunks and blocks: type correctness with the pin counts, every pin      *)
(* being one process's; then that lookups find every acknowledged patch,   *)
(* that get_chunk returns what it was asked for, and that a flush covers   *)
(* what was acknowledged before it.                                        *)
(***************************************************************************)
EXTENDS ChunkCache, FiniteSetTheorems, TLAPS

\* Where a call is, its chunk and slot are known.
CallInv ==
  /\ \A b \in Backends : call[b].pc # "idle" => call[b].tag \in Chunks
  /\ \A f \in Flushers : flush[f].pc \in {"pin", "recheck", "flush", "put"} => flush[f].slot \in Slots
  /\ trunc.pc = "clear" => trunc.slot \in Slots

TypeInv == TypeOK /\ CallInv

-----------------------------------------------------------------------------
(* Constants and contents *)

LEMMA Basics ==
  /\ 0 \in Versions /\ Versions \subseteq Nat
  /\ 0 \in Slots /\ Slots \subseteq Nat
  /\ NoTag \in Tags /\ Chunks \subseteq Tags
  /\ [k \in Blocks |-> 0] \in BlockVersions
BY CacheAssumption DEF Versions, Slots, Tags, BlockVersions

LEMMA ZerosType ==
  ASSUME NEW t \in Tags
  PROVE  Zeros(t) \in Contents /\ Zeros(t).of = t
BY Basics DEF Zeros, Contents

LEMMA IdleType == Idle \in Calls /\ Idle.pc = "idle" /\ Idle.tag = NoTag /\ Idle.slot = 0
BY Basics, ZerosType DEF Idle, Calls

LEMMA NoFlushType ==
  /\ NoFlush \in Passes
  /\ NoFlush.pc = "idle"
BY Basics, CacheAssumption DEF NoFlush, Passes

LEMMA PatchedType ==
  ASSUME NEW c \in Calls, NEW d \in Contents
  PROVE  /\ Patched(c, d) \in Contents
         /\ Patched(c, d).of = d.of
         /\ \A k \in Blocks : Patched(c, d).ver[k] = IF k \in c.blocks THEN c.ver ELSE d.ver[k]
BY DEF Patched, Contents, Calls, BlockVersions

LEMMA AcknowledgeType ==
  ASSUME NEW c \in Calls, latest \in [Chunks -> BlockVersions], Acknowledge(c)
  PROVE  /\ latest' \in [Chunks -> BlockVersions]
         /\ \A t \in Chunks, k \in Blocks :
              latest'[t][k] = IF t = c.tag /\ k \in c.blocks THEN c.ver ELSE latest[t][k]
BY DEF Acknowledge, Calls, BlockVersions

-----------------------------------------------------------------------------
(* Counting pins *)

FlushPins(s) == Cardinality(FlushPinners(s))

PinsExact == \A s \in Slots : pin_count[s] = Cardinality(Pinners(s)) + FlushPins(s)

LEMMA PinnersFinite ==
  ASSUME NEW s
  PROVE  IsFiniteSet(Pinners(s)) /\ Cardinality(Pinners(s)) \in Nat
<1>1. Pinners(s) \subseteq Backends
  BY DEF Pinners
<1> QED
  BY <1>1, CacheAssumption, FS_Subset, FS_CardinalityType

LEMMA FlushPinsFinite ==
  ASSUME NEW s
  PROVE  IsFiniteSet(FlushPinners(s)) /\ FlushPins(s) \in Nat
<1>1. FlushPinners(s) \subseteq Flushers
  BY DEF FlushPinners
<1> QED
  BY <1>1, CacheAssumption, FS_Subset, FS_CardinalityType DEF FlushPins

\* An unpinned slot has no users, and one with a single pin no second one.
LEMMA PinFacts ==
  ASSUME TypeOK, NEW s \in Slots
  PROVE  /\ pin_count[s] = 0 => Pinners(s) = {} /\ FlushPins(s) = 0
         /\ \A b \in Pinners(s) : pin_count[s] = 1 => Pinners(s) = {b}
         /\ Pinners(s) # {} => pin_count[s] > 0
         /\ FlushPins(s) > 0 => pin_count[s] > 0
<1>1. IsFiniteSet(Pinners(s)) /\ Cardinality(Pinners(s)) \in Nat
  BY PinnersFinite
<1>2. FlushPins(s) \in Nat
  BY FlushPinsFinite
<1>3. pin_count[s] = Cardinality(Pinners(s)) + FlushPins(s)
  BY DEF TypeOK, FlushPins
<1>4. Cardinality(Pinners(s)) = 0 <=> Pinners(s) = {}
  BY <1>1, FS_EmptySet
<1>5. ASSUME NEW b \in Pinners(s), pin_count[s] = 1
      PROVE  Pinners(s) = {b}
  <2>1. Cardinality(Pinners(s)) = 1
    BY <1>1, <1>2, <1>3, <1>4, <1>5
  <2>2. PICK x : Pinners(s) = {x}
    BY <1>1, <2>1, FS_Singleton
  <2> QED
    BY <2>2
<1> QED
  BY <1>1, <1>2, <1>3, <1>4, <1>5

\* No flush takes or gives up a slot.
FlushStays == \A f \in Flushers : flush'[f].pc = flush[f].pc /\ flush'[f].slot = flush[f].slot

LEMMA FlushSame == flush' = flush => FlushStays
BY DEF FlushStays

LEMMA FlushPinsSame ==
  ASSUME NEW s, FlushStays
  PROVE  FlushPins(s)' = FlushPins(s)
<1>1. FlushPinners(s)' = FlushPinners(s)
  BY DEF FlushPinners, FlushStays
<1> QED
  BY <1>1 DEF FlushPins

\* b's next call c, and the count of the slot it takes or gives up.
LEMMA PinGain ==
  ASSUME TypeOK, NEW b \in Backends, NEW c \in Calls, NEW s \in Slots,
         call' = [call EXCEPT ![b] = c], call[b].pc \notin Pinning,
         c.pc \in Pinning, c.slot = s, Pin(s),
         FlushStays
  PROVE  PinsExact'
<1> SUFFICES ASSUME NEW r \in Slots
             PROVE  pin_count'[r] = Cardinality(Pinners(r)') + FlushPins(r)'
  BY DEF PinsExact
<1>1. pin_count[r] = Cardinality(Pinners(r)) + FlushPins(r) /\ pin_count[r] \in Nat
  BY DEF TypeOK, FlushPins
<1>2. FlushPins(r)' = FlushPins(r) /\ FlushPins(r) \in Nat
  BY FlushPinsSame, FlushPinsFinite
<1>3. call \in [Backends -> Calls] /\ pin_count \in [Slots -> Nat]
  BY DEF TypeOK
<1>4. CASE r = s
  <2>1. Pinners(s)' = Pinners(s) \cup {b} /\ b \notin Pinners(s)
    BY <1>3 DEF Pinners
  <2>2. Cardinality(Pinners(s)') = Cardinality(Pinners(s)) + 1
    BY <2>1, PinnersFinite, FS_AddElement
  <2>3. pin_count'[r] = pin_count[r] + 1
    BY <1>3, <1>4 DEF Pin
  <2> QED
    BY <1>1, <1>2, <1>4, <2>2, <2>3, PinnersFinite
<1>5. CASE r # s
  <2>1. Pinners(r)' = Pinners(r)
    BY <1>3, <1>5 DEF Pinners
  <2>2. pin_count'[r] = pin_count[r]
    BY <1>3, <1>5 DEF Pin
  <2> QED
    BY <1>1, <1>2, <2>1, <2>2
<1> QED
  BY <1>4, <1>5

LEMMA PinLoss ==
  ASSUME TypeOK, NEW b \in Backends, NEW c \in Calls, NEW s \in Slots,
         call' = [call EXCEPT ![b] = c], call[b].pc \in Pinning, call[b].slot = s,
         c.pc \notin Pinning, Unpin(s),
         FlushStays
  PROVE  PinsExact' /\ pin_count' \in [Slots -> Nat]
<1>0. call \in [Backends -> Calls] /\ pin_count \in [Slots -> Nat]
  BY DEF TypeOK
<1>1. b \in Pinners(s)
  BY DEF Pinners
<1>2. pin_count[s] > 0
  BY <1>1, PinFacts
<1>3. pin_count' \in [Slots -> Nat]
  BY <1>0, <1>2 DEF Unpin
<1>4. ASSUME NEW r \in Slots
      PROVE  pin_count'[r] = Cardinality(Pinners(r)') + FlushPins(r)'
  <2>1. pin_count[r] = Cardinality(Pinners(r)) + FlushPins(r) /\ pin_count[r] \in Nat
    BY DEF TypeOK, FlushPins
  <2>2. FlushPins(r)' = FlushPins(r) /\ FlushPins(r) \in Nat
    BY FlushPinsSame, FlushPinsFinite
  <2>3. CASE r = s
    <3>1. Pinners(s)' = Pinners(s) \ {b}
      BY <1>0 DEF Pinners
    <3>2. Cardinality(Pinners(s)') = Cardinality(Pinners(s)) - 1
      BY <1>1, <3>1, PinnersFinite, FS_RemoveElement
    <3>3. pin_count'[r] = pin_count[r] - 1
      BY <1>0, <2>3 DEF Unpin
    <3> QED
      BY <2>1, <2>2, <2>3, <3>2, <3>3, PinnersFinite
  <2>4. CASE r # s
    <3>1. Pinners(r)' = Pinners(r)
      BY <1>0, <2>4 DEF Pinners
    <3>2. pin_count'[r] = pin_count[r]
      BY <1>0, <2>4 DEF Unpin
    <3> QED
      BY <2>1, <2>2, <3>1, <3>2
  <2> QED
    BY <2>3, <2>4
<1> QED
  BY <1>3, <1>4 DEF PinsExact

LEMMA PinKeep ==
  ASSUME TypeOK, NEW b \in Backends, NEW c \in Calls,
         call' = [call EXCEPT ![b] = c],
         \/ call[b].pc \in Pinning /\ c.pc \in Pinning /\ c.slot = call[b].slot
         \/ call[b].pc \notin Pinning /\ c.pc \notin Pinning,
         pin_count' = pin_count,
         FlushStays
  PROVE  PinsExact'
<1> SUFFICES ASSUME NEW r \in Slots
             PROVE  pin_count'[r] = Cardinality(Pinners(r)') + FlushPins(r)'
  BY DEF PinsExact
<1>1. pin_count[r] = Cardinality(Pinners(r)) + FlushPins(r)
  BY DEF TypeOK, FlushPins
<1>2. FlushPins(r)' = FlushPins(r)
  BY FlushPinsSame, FlushPinsFinite
<1>3. call \in [Backends -> Calls]
  BY DEF TypeOK
<1>4. Pinners(r)' = Pinners(r)
  BY <1>3 DEF Pinners
<1> QED
  BY <1>1, <1>2, <1>4

\* The same for the flush.
LEMMA FlushPinStep ==
  ASSUME TypeOK, call' = call,
         \/ pin_count' = pin_count /\ \A s \in Slots : FlushPins(s)' = FlushPins(s)
         \/ \E s \in Slots :
              /\ Pin(s) /\ FlushPins(s)' = FlushPins(s) + 1
              /\ \A r \in Slots \ {s} : FlushPins(r)' = FlushPins(r)
         \/ \E s \in Slots :
              /\ Unpin(s) /\ FlushPins(s) > 0 /\ FlushPins(s)' = FlushPins(s) - 1
              /\ \A r \in Slots \ {s} : FlushPins(r)' = FlushPins(r)
  PROVE  PinsExact' /\ pin_count' \in [Slots -> Nat]
<1>1. pin_count \in [Slots -> Nat]
  BY DEF TypeOK
<1>2. \A r \in Slots : /\ Pinners(r)' = Pinners(r)
                       /\ Cardinality(Pinners(r)) \in Nat
                       /\ FlushPins(r) \in Nat
                       /\ pin_count[r] = Cardinality(Pinners(r)) + FlushPins(r)
  <2>1. \A r \in Slots : Pinners(r)' = Pinners(r)
    BY DEF Pinners
  <2>2. \A r \in Slots : pin_count[r] = Cardinality(Pinners(r)) + FlushPins(r)
    BY DEF TypeOK, FlushPins
  <2> QED
    BY <2>1, <2>2, PinnersFinite, FlushPinsFinite
<1> QED
  BY <1>1, <1>2 DEF PinsExact, Pin, Unpin

-----------------------------------------------------------------------------
(* Type correctness *)

Flushing == [Flushers -> Passes]

LEMMA InitType == Init => TypeInv
<1> SUFFICES ASSUME Init PROVE TypeInv
  OBVIOUS
<1>1. /\ tag \in [Slots -> Tags]
      /\ dirty \in [Slots -> BOOLEAN]
      /\ pin_count \in [Slots -> Nat]
      /\ data \in [Slots -> Contents]
      /\ linked \subseteq Slots
      /\ store \in [Chunks -> Contents]
      /\ call \in [Backends -> Calls]
  BY Basics, ZerosType, IdleType DEF Init
<1>2. flush \in Flushing /\ \A f \in Flushers : flush[f].pc = "idle"
  BY NoFlushType DEF Init, Flushing
<1>3. /\ trunc \in [pc : {"idle", "scan", "clear"}, of : SUBSET Chunks, slot : 0..NumSlots, tag : Tags]
      /\ trunc.pc = "idle"
  BY Basics, CacheAssumption DEF Init, NoTrunc
<1>4. /\ latest \in [Chunks -> BlockVersions]
      /\ stale \subseteq Chunks /\ early \subseteq Tags /\ torn \subseteq Tags
      /\ writes \in Versions /\ failures \in 0..MaxFailures /\ truncates \in 0..MaxTruncates
  BY Basics, CacheAssumption DEF Init
<1>5. ASSUME NEW s \in Slots
      PROVE  pin_count[s] = Cardinality(Pinners(s)) + FlushPins(s)
  <2>1. Pinners(s) = {}
    BY IdleType DEF Init, Pinners, Pinning
  <2>2. FlushPinners(s) = {}
    BY <1>2 DEF FlushPinners
  <2>3. Cardinality({}) = 0 /\ pin_count[s] = 0
    BY FS_EmptySet DEF Init
  <2> QED
    BY <2>1, <2>2, <2>3 DEF FlushPins
<1>6. CallInv
  BY <1>2, <1>3, IdleType DEF Init, CallInv
<1> QED
  BY <1>1, <1>2, <1>3, <1>4, <1>5, <1>6 DEF TypeInv, TypeOK, Flushing, FlushPins

LEMMA ExcuseIs ==
  ASSUME flush \in Flushing, NEW which \in SUBSET Tags
  PROVE  /\ Excuse(which) \in Flushing
         /\ \A f \in Flushers :
              /\ Excuse(which)[f].pc = flush[f].pc /\ Excuse(which)[f].slot = flush[f].slot
              /\ Excuse(which)[f].of = flush[f].of /\ Excuse(which)[f].due = flush[f].due
              /\ flush[f].pc # "idle" => Excuse(which)[f].excused = flush[f].excused \cup which
<1> SUFFICES ASSUME NEW f \in Flushers
             PROVE  /\ Excuse(which)[f] \in Passes
                    /\ Excuse(which)[f].pc = flush[f].pc /\ Excuse(which)[f].slot = flush[f].slot
                    /\ Excuse(which)[f].of = flush[f].of /\ Excuse(which)[f].due = flush[f].due
                    /\ flush[f].pc # "idle" => Excuse(which)[f].excused = flush[f].excused \cup which
  BY DEF Excuse, Flushing
<1>1. flush[f] \in Passes
  BY DEF Flushing
<1>2. Excuse(which)[f] = IF flush[f].pc = "idle" THEN flush[f]
                         ELSE [flush[f] EXCEPT !.excused = @ \cup which]
  BY DEF Excuse
<1> QED
  BY <1>1, <1>2 DEF Passes

\* A backend's step: the parts of the type invariant it has to show.
LEMMA BackendType ==
  ASSUME TypeInv, NEW b \in Backends, NEW c \in Calls,
         call' = [call EXCEPT ![b] = c], c.pc # "idle" => c.tag \in Chunks,
         PinsExact', pin_count' \in [Slots -> Nat],
         tag' \in [Slots -> Tags], dirty' \in [Slots -> BOOLEAN],
         data' \in [Slots -> Contents], linked' \subseteq Slots,
         store' \in [Chunks -> Contents],
         flush' \in Flushing, FlushStays,
         trunc' = trunc, latest' \in [Chunks -> BlockVersions],
         stale' \subseteq Chunks, early' \subseteq Tags, torn' \subseteq Tags,
         writes' \in Versions, failures' \in 0..MaxFailures, truncates' = truncates
  PROVE  TypeInv'
<1>1. call' \in [Backends -> Calls]
  BY DEF TypeInv, TypeOK
<1>2. CallInv'
  BY DEF TypeInv, TypeOK, CallInv, FlushStays
<1> QED
  BY <1>1, <1>2 DEF TypeInv, TypeOK, PinsExact, FlushPins, Flushing

\* What a backend's step usually leaves alone.
LEMMA Unchanged ==
  ASSUME TypeInv
  PROVE  /\ pin_count \in [Slots -> Nat]
         /\ tag \in [Slots -> Tags] /\ dirty \in [Slots -> BOOLEAN]
         /\ data \in [Slots -> Contents] /\ linked \subseteq Slots
         /\ store \in [Chunks -> Contents] /\ flush \in Flushing
         /\ latest \in [Chunks -> BlockVersions]
         /\ stale \subseteq Chunks /\ early \subseteq Tags /\ torn \subseteq Tags
         /\ writes \in Versions /\ failures \in 0..MaxFailures
         /\ call \in [Backends -> Calls]
         /\ TypeOK /\ CallInv
BY DEF TypeInv, TypeOK, Flushing

LEMMA PinType ==
  ASSUME NEW s \in Slots, pin_count \in [Slots -> Nat], Pin(s)
  PROVE  pin_count' \in [Slots -> Nat]
<1>1. pin_count[s] + 1 \in Nat
  OBVIOUS
<1> QED
  BY <1>1 DEF Pin

LEMMA LookupType ==
  ASSUME TypeInv, NEW b \in Backends, NEW c \in Calls, c.tag \in Chunks,
         call[b].pc \notin Pinning, LookupAndPin(b, c), writes' \in Versions
  PROVE  TypeInv'
<1>1. latest[c.tag] \in BlockVersions /\ c.tag \in Tags
  BY Unchanged, Basics
<1>2. CASE \E s \in Found(c.tag) :
             /\ Pin(s)
             /\ call' = [call EXCEPT ![b] = [c EXCEPT !.pc = "hit", !.floor = latest[c.tag], !.slot = s]]
  <2>1. PICK s \in Found(c.tag) :
             /\ Pin(s)
             /\ call' = [call EXCEPT ![b] = [c EXCEPT !.pc = "hit", !.floor = latest[c.tag], !.slot = s]]
    BY <1>2
  <2>2. s \in Slots
    BY Unchanged DEF Found
  <2> DEFINE d == [c EXCEPT !.pc = "hit", !.floor = latest[c.tag], !.slot = s]
  <2>3. d \in Calls /\ d.pc = "hit" /\ d.tag = c.tag /\ d.slot = s
    BY <1>1, <2>2 DEF Calls
  <2> HIDE DEF d
  <2>4. PinsExact'
    BY <2>1, <2>2, <2>3, PinGain, FlushSame, Unchanged DEF Pinning, LookupAndPin, d
  <2>5. pin_count' \in [Slots -> Nat]
    BY <2>1, <2>2, PinType, Unchanged
  <2>6. call' = [call EXCEPT ![b] = d]
    BY <2>1 DEF d
  <2> QED
    BY <2>3, <2>4, <2>5, <2>6, BackendType, FlushSame, Unchanged DEF LookupAndPin
<1>3. CASE /\ Found(c.tag) = {}
           /\ call' = [call EXCEPT ![b] =
                IF c.blocks = Blocks
                THEN [c EXCEPT !.pc = "evict", !.floor = latest[c.tag], !.data = Patched(c, Zeros(c.tag))]
                ELSE [c EXCEPT !.pc = "fetch", !.floor = latest[c.tag]]]
           /\ UNCHANGED pin_count
  <2> DEFINE d == IF c.blocks = Blocks
                  THEN [c EXCEPT !.pc = "evict", !.floor = latest[c.tag], !.data = Patched(c, Zeros(c.tag))]
                  ELSE [c EXCEPT !.pc = "fetch", !.floor = latest[c.tag]]
  <2>1. Patched(c, Zeros(c.tag)) \in Contents
    BY <1>1, ZerosType, PatchedType
  <2>2. d \in Calls /\ d.pc \in {"evict", "fetch"} /\ d.tag = c.tag
    BY <1>1, <2>1 DEF Calls
  <2>3. call' = [call EXCEPT ![b] = d]
    BY <1>3
  <2> HIDE DEF d
  <2>4. PinsExact'
    BY <1>3, <2>2, <2>3, PinKeep, FlushSame, Unchanged DEF Pinning, LookupAndPin
  <2> QED
    BY <1>3, <2>2, <2>3, <2>4, BackendType, FlushSame, Unchanged DEF LookupAndPin
<1> QED
  BY <1>2, <1>3 DEF LookupAndPin

LEMMA BackendStepType ==
  ASSUME TypeInv, NEW b \in Backends, BackendStep(b)
  PROVE  TypeInv'
<1> DEFINE c == call[b]
           s == call[b].slot
<1>0. /\ c \in Calls /\ s \in Slots /\ c.data \in Contents /\ c.tag \in Tags
      /\ c.pc # "idle" => c.tag \in Chunks
      /\ data[s] \in Contents /\ tag[s] \in Tags
  BY Unchanged DEF Calls, CallInv
<1> HIDE DEF c, s
<1>1. ASSUME NEW r \in Reads, r[1] = b, GetChunk(b, r[2])
      PROVE  TypeInv'
  <2>1. r[2] \in Chunks
    BY CacheAssumption
  <2> DEFINE d == [Idle EXCEPT !.tag = r[2]]
  <2>2. d \in Calls /\ d.tag = r[2]
    BY <2>1, IdleType, Basics DEF Calls
  <2> HIDE DEF d
  <2>3. LookupAndPin(b, d) /\ call[b].pc \notin Pinning /\ writes' \in Versions
    BY <1>1, Unchanged DEF GetChunk, MayAccess, d, Pinning
  <2> QED
    BY <2>1, <2>2, <2>3, LookupType
<1>2. ASSUME NEW p \in Patches, p[1] = b, PatchChunk(b, p[2], p[3])
      PROVE  TypeInv'
  <2>1. p[2] \in Chunks /\ p[3] \in SUBSET Blocks
    BY CacheAssumption
  <2>2. writes + 1 \in Versions /\ writes' \in Versions
    BY <1>2, Unchanged, CacheAssumption DEF PatchChunk, Versions
  <2> DEFINE d == [Idle EXCEPT !.tag = p[2], !.blocks = p[3], !.ver = writes + 1]
  <2>3. d \in Calls /\ d.tag = p[2]
    BY <2>1, <2>2, IdleType, Basics DEF Calls
  <2> HIDE DEF d
  <2>4. LookupAndPin(b, d) /\ call[b].pc \notin Pinning
    BY <1>2 DEF PatchChunk, MayAccess, d, Pinning
  <2> QED
    BY <2>1, <2>2, <2>3, <2>4, LookupType
<1>3. CASE Retry(b)
  <2>1. LookupAndPin(b, c) /\ call[b].pc \notin Pinning /\ writes' \in Versions /\ c.tag \in Chunks
    BY <1>0, <1>3, Unchanged DEF Retry, c, Pinning
  <2> QED
    BY <1>0, <2>1, LookupType
<1>4. CASE ReadHit(b)
  <2> DEFINE d == [c EXCEPT !.pc = "got", !.data = data[s], !.slot = 0]
  <2>1. d \in Calls /\ d.pc = "got" /\ d.tag = c.tag
    BY <1>0, Basics DEF Calls
  <2>2. call' = [call EXCEPT ![b] = d] /\ c.pc = "hit"
    BY <1>4 DEF ReadHit, c, s
  <2> HIDE DEF d
  <2>3. PinsExact' /\ pin_count' \in [Slots -> Nat]
    BY <1>0, <1>4, <2>1, <2>2, PinLoss, FlushSame, Unchanged DEF ReadHit, c, s, Pinning
  <2> QED
    BY <1>0, <1>4, <2>1, <2>2, <2>3, BackendType, FlushSame, Unchanged DEF ReadHit, history
<1>5. CASE PatchHit(b)
  <2>1. call' = [call EXCEPT ![b] = Idle] /\ c.pc = "hit"
    BY <1>5 DEF PatchHit, c
  <2>2. PinsExact' /\ pin_count' \in [Slots -> Nat]
    BY <1>0, <1>5, <2>1, IdleType, PinLoss, FlushSame, Unchanged DEF PatchHit, c, s, Pinning
  <2>3. data' \in [Slots -> Contents] /\ dirty' \in [Slots -> BOOLEAN]
    BY <1>0, <1>5, PatchedType, Unchanged DEF PatchHit, c, s
  <2>4. latest' \in [Chunks -> BlockVersions]
    BY <1>0, <1>5, AcknowledgeType, Unchanged DEF PatchHit, c
  <2> QED
    BY <1>5, <2>1, <2>2, <2>3, <2>4, IdleType, BackendType, FlushSame, Unchanged DEF PatchHit
<1>6. CASE HitFail(b)
  <2>1. call' = [call EXCEPT ![b] = Idle] /\ c.pc = "hit"
    BY <1>6 DEF HitFail, c
  <2>2. PinsExact' /\ pin_count' \in [Slots -> Nat]
    BY <1>0, <1>6, <2>1, IdleType, PinLoss, FlushSame, Unchanged DEF HitFail, c, s, Pinning
  <2>3. failures' \in 0..MaxFailures
    BY <1>6, Unchanged, CacheAssumption DEF HitFail
  <2> QED
    BY <1>6, <2>1, <2>2, <2>3, IdleType, BackendType, FlushSame, Unchanged DEF HitFail
<1>7. CASE Fetch(b)
  <2> DEFINE d == IF store[c.tag] = Zeros(c.tag) /\ c.blocks = {} THEN Idle
                  ELSE [c EXCEPT !.pc = "evict", !.data = Patched(c, store[c.tag])]
  <2>1. c.pc = "fetch" /\ c.tag \in Chunks /\ store[c.tag] \in Contents
    BY <1>0, <1>7, Unchanged DEF Fetch, c
  <2>2. Patched(c, store[c.tag]) \in Contents
    BY <1>0, <2>1, PatchedType
  <2>3. d \in Calls /\ d.pc \in {"idle", "evict"} /\ (d.pc # "idle" => d.tag = c.tag)
    BY <1>0, <2>2, IdleType DEF Calls
  <2>4. call' = [call EXCEPT ![b] = d]
    BY <1>7 DEF Fetch, c
  <2> HIDE DEF d
  <2>5. PinsExact'
    BY <1>7, <2>1, <2>3, <2>4, PinKeep, FlushSame, Unchanged DEF Fetch, slotVars, c, Pinning
  <2> QED
    BY <1>7, <2>1, <2>3, <2>4, <2>5, BackendType, FlushSame, Unchanged DEF Fetch, slotVars, history
<1>8. CASE Return(b)
  <2>1. call' = [call EXCEPT ![b] = Idle]
    BY <1>8 DEF Return
  <2>2. PinsExact'
    BY <1>8, <2>1, IdleType, PinKeep, FlushSame, Unchanged DEF Return, slotVars, Pinning
  <2> QED
    BY <1>8, <2>1, <2>2, IdleType, BackendType, FlushSame, Unchanged DEF Return, slotVars, history
<1>9. ASSUME NEW r \in Slots, Claim(b, r)
      PROVE  TypeInv'
  <2> DEFINE d == [c EXCEPT !.slot = r, !.pc = IF tag[r] = NoTag THEN "check_pin" ELSE "flush"]
  <2>1. d \in Calls /\ d.pc \in {"check_pin", "flush"} /\ d.tag = c.tag /\ d.slot = r
    BY <1>0 DEF Calls
  <2>2. call' = [call EXCEPT ![b] = d] /\ c.pc = "evict"
    BY <1>9 DEF Claim, c
  <2> HIDE DEF d
  <2>3. PinsExact' /\ pin_count' \in [Slots -> Nat]
    BY <1>9, <2>1, <2>2, PinGain, FlushSame, PinType, Unchanged DEF Claim, c, Pinning
  <2> QED
    BY <1>0, <1>9, <2>1, <2>2, <2>3, BackendType, FlushSame, Unchanged DEF Claim, history
<1>10. CASE EvictSwapDirty(b)
  <2> DEFINE d == [c EXCEPT !.pc = IF dirty[s] THEN "put" ELSE "check_pin"]
  <2>1. d \in Calls /\ d.pc \in {"put", "check_pin"} /\ d.tag = c.tag /\ d.slot = c.slot
    BY <1>0 DEF Calls
  <2>2. call' = [call EXCEPT ![b] = d] /\ c.pc = "flush"
    BY <1>10 DEF EvictSwapDirty, c, s
  <2> HIDE DEF d
  <2>3. PinsExact'
    BY <1>10, <2>1, <2>2, PinKeep, FlushSame, Unchanged DEF EvictSwapDirty, c, Pinning
  <2>4. dirty' \in [Slots -> BOOLEAN]
    BY <1>10, Unchanged DEF EvictSwapDirty
  <2> QED
    BY <1>0, <1>10, <2>1, <2>2, <2>3, <2>4, BackendType, FlushSame, Unchanged DEF EvictSwapDirty, history
<1>11. CASE EvictPut(b)
  <2> DEFINE d == [c EXCEPT !.pc = "check_pin"]
  <2>1. d \in Calls /\ d.pc = "check_pin" /\ d.tag = c.tag /\ d.slot = c.slot
    BY <1>0 DEF Calls
  <2>2. call' = [call EXCEPT ![b] = d] /\ c.pc = "put"
    BY <1>11 DEF EvictPut, c
  <2> HIDE DEF d
  <2>3. PinsExact'
    BY <1>11, <2>1, <2>2, PinKeep, FlushSame, Unchanged DEF EvictPut, slotVars, c, Pinning
  <2>4. store' \in [Chunks -> Contents]
    BY <1>0, <1>11, Unchanged DEF EvictPut, s
  <2> QED
    BY <1>0, <1>11, <2>1, <2>2, <2>3, <2>4, BackendType, FlushSame, Unchanged DEF EvictPut, slotVars, history
<1>12. CASE EvictPutFail(b)
  <2> DEFINE d == [c EXCEPT !.pc = "evict", !.slot = 0]
  <2>1. d \in Calls /\ d.pc = "evict" /\ d.tag = c.tag
    BY <1>0, Basics DEF Calls
  <2>2. call' = [call EXCEPT ![b] = d] /\ c.pc = "put"
    BY <1>12 DEF EvictPutFail, c
  <2> HIDE DEF d
  <2>3. flush' \in Flushing /\ FlushStays
    <3>1. flush' = Excuse({tag[s]}) /\ {tag[s]} \in SUBSET Tags /\ flush \in Flushing
      BY <1>0, <1>12, Unchanged DEF EvictPutFail, s
    <3> QED
      BY <3>1, ExcuseIs DEF FlushStays
  <2>4. PinsExact' /\ pin_count' \in [Slots -> Nat]
    BY <1>0, <1>12, <2>1, <2>2, <2>3, PinLoss, FlushSame, Unchanged DEF EvictPutFail, c, s, Pinning
  <2>5. failures' \in 0..MaxFailures
    BY <1>12, Unchanged, CacheAssumption DEF EvictPutFail
  <2>6. dirty' \in [Slots -> BOOLEAN]
    BY <1>12, Unchanged DEF EvictPutFail
  <2> QED
    BY <1>0, <1>12, <2>1, <2>2, <2>3, <2>4, <2>5, <2>6, BackendType, FlushSame, Unchanged DEF EvictPutFail
<1>13. CASE CheckPin(b)
  <2>1. c.pc = "check_pin"
    BY <1>13 DEF CheckPin, c
  <2>2. CASE call' = [call EXCEPT ![b].pc = "check_dirty"] /\ UNCHANGED pin_count
    <3> DEFINE d == [c EXCEPT !.pc = "check_dirty"]
    <3>1. d \in Calls /\ d.pc = "check_dirty" /\ d.tag = c.tag /\ d.slot = c.slot
      BY <1>0 DEF Calls
    <3>2. call' = [call EXCEPT ![b] = d]
      BY <2>2 DEF c
    <3> HIDE DEF d
    <3>3. PinsExact'
      BY <1>13, <2>1, <2>2, <3>1, <3>2, PinKeep, FlushSame, Unchanged DEF CheckPin, c, Pinning
    <3> QED
      BY <1>0, <1>13, <2>1, <2>2, <3>1, <3>2, <3>3, BackendType, FlushSame, Unchanged DEF CheckPin, history
  <2>3. CASE Unpin(s) /\ call' = [call EXCEPT ![b].pc = "evict", ![b].slot = 0]
    <3> DEFINE d == [c EXCEPT !.pc = "evict", !.slot = 0]
    <3>1. d \in Calls /\ d.pc = "evict" /\ d.tag = c.tag
      BY <1>0, Basics DEF Calls
    <3>2. call' = [call EXCEPT ![b] = d]
      BY <2>3 DEF c
    <3> HIDE DEF d
    <3>3. PinsExact' /\ pin_count' \in [Slots -> Nat]
      BY <1>0, <1>13, <2>1, <2>3, <3>1, <3>2, PinLoss, FlushSame, Unchanged DEF CheckPin, c, s, Pinning
    <3> QED
      BY <1>0, <1>13, <2>1, <3>1, <3>2, <3>3, BackendType, FlushSame, Unchanged DEF CheckPin, history
  <2> QED
    BY <1>13, <2>2, <2>3 DEF CheckPin, s
<1>14. CASE CheckDirty(b)
  <2>1. c.pc = "check_dirty"
    BY <1>14 DEF CheckDirty, c
  <2>2. linked' \subseteq Slots /\ early' \subseteq Tags
    BY <1>0, <1>14, Unchanged DEF CheckDirty, s
  <2>3. CASE Unpin(s) /\ call' = [call EXCEPT ![b].pc = "evict", ![b].slot = 0]
    <3> DEFINE d == [c EXCEPT !.pc = "evict", !.slot = 0]
    <3>1. d \in Calls /\ d.pc = "evict" /\ d.tag = c.tag
      BY <1>0, Basics DEF Calls
    <3>2. call' = [call EXCEPT ![b] = d]
      BY <2>3 DEF c
    <3> HIDE DEF d
    <3>3. PinsExact' /\ pin_count' \in [Slots -> Nat]
      BY <1>0, <1>14, <2>1, <2>3, <3>1, <3>2, PinLoss, FlushSame, Unchanged DEF CheckDirty, c, s, Pinning
    <3> QED
      BY <1>0, <1>14, <2>1, <2>2, <3>1, <3>2, <3>3, BackendType, FlushSame, Unchanged DEF CheckDirty
  <2>4. CASE call' = [call EXCEPT ![b].pc = "fill"] /\ UNCHANGED pin_count
    <3> DEFINE d == [c EXCEPT !.pc = "fill"]
    <3>1. d \in Calls /\ d.pc = "fill" /\ d.tag = c.tag /\ d.slot = c.slot
      BY <1>0 DEF Calls
    <3>2. call' = [call EXCEPT ![b] = d]
      BY <2>4 DEF c
    <3> HIDE DEF d
    <3>3. PinsExact'
      BY <1>14, <2>1, <2>4, <3>1, <3>2, PinKeep, FlushSame, Unchanged DEF CheckDirty, c, Pinning
    <3> QED
      BY <1>0, <1>14, <2>1, <2>2, <2>4, <3>1, <3>2, <3>3, BackendType, FlushSame, Unchanged DEF CheckDirty
  <2> QED
    BY <1>14, <2>3, <2>4 DEF CheckDirty, s
<1>15. CASE GiveUp(b)
  <2>1. call' = [call EXCEPT ![b] = Idle]
    BY <1>15 DEF GiveUp
  <2>2. PinsExact'
    BY <1>15, <2>1, IdleType, PinKeep, FlushSame, Unchanged DEF GiveUp, slotVars, Pinning
  <2> QED
    BY <1>15, <2>1, <2>2, IdleType, BackendType, FlushSame, Unchanged DEF GiveUp, slotVars, history
<1>16. CASE Fill(b)
  <2> DEFINE d == [c EXCEPT !.pc = "link"]
  <2>1. d \in Calls /\ d.pc = "link" /\ d.tag = c.tag /\ d.slot = c.slot
    BY <1>0 DEF Calls
  <2>2. call' = [call EXCEPT ![b] = d] /\ c.pc = "fill"
    BY <1>16 DEF Fill, c
  <2> HIDE DEF d
  <2>3. PinsExact'
    BY <1>16, <2>1, <2>2, PinKeep, FlushSame, Unchanged DEF Fill, c, Pinning
  <2>4. tag' \in [Slots -> Tags] /\ dirty' \in [Slots -> BOOLEAN] /\ data' \in [Slots -> Contents]
    BY <1>0, <1>16, Unchanged, Basics DEF Fill, c
  <2> QED
    BY <1>0, <1>16, <2>1, <2>2, <2>3, <2>4, BackendType, FlushSame, Unchanged DEF Fill, history
<1>17. CASE FillFail(b)
  <2>1. call' = [call EXCEPT ![b] = Idle] /\ c.pc = "fill"
    BY <1>17 DEF FillFail, c
  <2>2. PinsExact' /\ pin_count' \in [Slots -> Nat]
    BY <1>0, <1>17, <2>1, IdleType, PinLoss, FlushSame, Unchanged DEF FillFail, c, s, Pinning
  <2>3. tag' \in [Slots -> Tags] /\ dirty' \in [Slots -> BOOLEAN] /\ data' \in [Slots -> Contents]
    BY <1>17, Unchanged, Basics, ZerosType DEF FillFail
  <2>4. failures' \in 0..MaxFailures
    BY <1>17, Unchanged, CacheAssumption DEF FillFail
  <2> QED
    BY <1>17, <2>1, <2>2, <2>3, <2>4, IdleType, BackendType, FlushSame, Unchanged DEF FillFail
<1>18. CASE Link(b)
  <2>1. /\ c.pc = "link" /\ Unpin(s) /\ c.tag \in Chunks
        /\ UNCHANGED <<store, flush, trunc, early, torn, writes, failures, truncates>>
    BY <1>0, <1>18 DEF Link, c, s
  <2>2. CASE /\ call' = [call EXCEPT ![b].pc = "lookup", ![b].slot = 0, ![b].data = Zeros(NoTag)]
             /\ data' = [data EXCEPT ![s] = Zeros(NoTag)]
             /\ UNCHANGED <<tag, dirty, linked, latest, stale>>
    <3> DEFINE d == [c EXCEPT !.pc = "lookup", !.slot = 0, !.data = Zeros(NoTag)]
    <3>1. d \in Calls /\ d.pc = "lookup" /\ d.tag = c.tag
      BY <1>0, Basics, ZerosType DEF Calls
    <3>2. call' = [call EXCEPT ![b] = d]
      BY <2>2 DEF c
    <3> HIDE DEF d
    <3>3. PinsExact' /\ pin_count' \in [Slots -> Nat]
      BY <1>0, <2>1, <3>1, <3>2, PinLoss, FlushSame, Unchanged DEF c, s, Pinning
    <3>4. data' \in [Slots -> Contents]
      BY <2>2, Unchanged, Basics, ZerosType
    <3> QED
      BY <2>1, <2>2, <3>1, <3>2, <3>3, <3>4, BackendType, FlushSame, Unchanged
  <2>3. CASE /\ tag' = [tag EXCEPT ![s] = c.tag]
             /\ dirty' = [dirty EXCEPT ![s] = @ \/ c.blocks # {}]
             /\ linked' = linked \cup {s}
             /\ UNCHANGED data
             /\ stale' = IF c.blocks # Blocks /\ c.floor # latest[c.tag] THEN stale \cup {c.tag} ELSE stale
             /\ Acknowledge(c)
             /\ call' = [call EXCEPT ![b] = IF c.blocks = {} THEN [c EXCEPT !.pc = "got", !.slot = 0] ELSE Idle]
    <3> DEFINE d == IF c.blocks = {} THEN [c EXCEPT !.pc = "got", !.slot = 0] ELSE Idle
    <3>1. d \in Calls /\ d.pc \in {"got", "idle"} /\ (d.pc # "idle" => d.tag = c.tag)
      BY <1>0, Basics, IdleType DEF Calls
    <3>2. call' = [call EXCEPT ![b] = d]
      BY <2>3
    <3> HIDE DEF d
    <3>3. PinsExact' /\ pin_count' \in [Slots -> Nat]
      BY <1>0, <2>1, <3>1, <3>2, PinLoss, FlushSame, Unchanged DEF c, s, Pinning
    <3>4. tag' \in [Slots -> Tags] /\ linked' \subseteq Slots /\ stale' \subseteq Chunks
      BY <1>0, <2>1, <2>3, Unchanged
    <3>5. dirty' \in [Slots -> BOOLEAN]
      BY <2>3, Unchanged
    <3>6. latest' \in [Chunks -> BlockVersions]
      BY <1>0, <2>3, AcknowledgeType, Unchanged
    <3> QED
      BY <2>1, <2>3, <3>1, <3>2, <3>3, <3>4, <3>5, <3>6, BackendType, FlushSame, Unchanged
  <2> QED
    BY <1>18, <2>2, <2>3 DEF Link, c, s
<1> QED
  BY <1>1, <1>2, <1>3, <1>4, <1>5, <1>6, <1>7, <1>8, <1>9, <1>10, <1>11, <1>12, <1>13,
     <1>14, <1>15, <1>16, <1>17, <1>18 DEF BackendStep

\* The flush f is the only one that moves.
Others(f) == \A g \in Flushers \ {f} : flush'[g] = flush[g]

LEMMA FlushType ==
  ASSUME TypeInv, NEW f \in Flushers, flush' \in Flushing, Others(f),
         flush'[f].pc \in {"pin", "recheck", "flush", "put"} => flush'[f].slot \in Slots,
         PinsExact', pin_count' \in [Slots -> Nat], dirty' \in [Slots -> BOOLEAN],
         store' \in [Chunks -> Contents], failures' \in 0..MaxFailures,
         UNCHANGED <<tag, data, linked, call, trunc, latest, stale, early, torn, writes, truncates>>
  PROVE  TypeInv'
<1>1. CallInv'
  BY DEF TypeInv, CallInv, Others
<1> QED
  BY <1>1 DEF TypeInv, TypeOK, PinsExact, FlushPins, Flushing

\* What the steps of a flush do to its pass.
LEMMA PassMoves ==
  ASSUME flush \in Flushing, NEW f \in Flushers
  PROVE  /\ flush[f] \in Passes
         /\ \A p \in {"pin", "recheck", "flush", "put"} : FlushGoesTo(f, p) =>
              /\ flush' \in Flushing /\ Others(f)
              /\ flush'[f].pc = p /\ flush'[f].slot = flush[f].slot
              /\ flush'[f].of = flush[f].of /\ flush'[f].due = flush[f].due
              /\ flush'[f].excused = flush[f].excused
         /\ NextSlot(f) /\ flush[f].slot \in Slots =>
              /\ flush' \in Flushing /\ Others(f)
              /\ flush'[f].pc = "scan" /\ flush'[f].slot = flush[f].slot + 1
              /\ flush'[f].of = flush[f].of /\ flush'[f].due = flush[f].due
              /\ flush'[f].excused = flush[f].excused
<1>1. flush[f] \in Passes /\ flush \in [Flushers -> Passes]
  BY DEF Flushing
<1>2. ASSUME NEW p \in {"pin", "recheck", "flush", "put"}, FlushGoesTo(f, p)
      PROVE  /\ flush' \in Flushing /\ Others(f)
             /\ flush'[f].pc = p /\ flush'[f].slot = flush[f].slot
             /\ flush'[f].of = flush[f].of /\ flush'[f].due = flush[f].due
             /\ flush'[f].excused = flush[f].excused
  BY <1>1, <1>2 DEF FlushGoesTo, Passes, Flushing, Others
<1>3. ASSUME NextSlot(f), flush[f].slot \in Slots
      PROVE  /\ flush' \in Flushing /\ Others(f)
             /\ flush'[f].pc = "scan" /\ flush'[f].slot = flush[f].slot + 1
             /\ flush'[f].of = flush[f].of /\ flush'[f].due = flush[f].due
             /\ flush'[f].excused = flush[f].excused
  <2>1. flush[f].slot + 1 \in 0..NumSlots
    BY <1>3, CacheAssumption DEF Slots
  <2> QED
    BY <1>1, <1>3, <2>1 DEF NextSlot, Passes, Flushing, Others
<1> QED
  BY <1>1, <1>2, <1>3

LEMMA PassEnds ==
  ASSUME flush \in Flushing, NEW f \in Flushers, flush' = [flush EXCEPT ![f] = NoFlush]
  PROVE  flush' \in Flushing /\ Others(f) /\ flush'[f] = NoFlush /\ flush'[f].pc = "idle"
BY NoFlushType DEF Flushing, Others

\* The pins of the flush f.
LEMMA FlushPinsMove ==
  ASSUME TypeOK, NEW f \in Flushers, NEW s \in Slots,
         \A g \in Flushers \ {f} : flush'[g].pc = flush[g].pc /\ flush'[g].slot = flush[g].slot
  PROVE  /\ f \notin FlushPinners(s) /\ f \notin FlushPinners(s)' => FlushPins(s)' = FlushPins(s)
         /\ f \in FlushPinners(s) /\ f \in FlushPinners(s)' => FlushPins(s)' = FlushPins(s)
         /\ f \notin FlushPinners(s) /\ f \in FlushPinners(s)' => FlushPins(s)' = FlushPins(s) + 1
         /\ f \in FlushPinners(s) /\ f \notin FlushPinners(s)' =>
              FlushPins(s) > 0 /\ FlushPins(s)' = FlushPins(s) - 1
<1>1. \A g \in Flushers \ {f} : g \in FlushPinners(s)' <=> g \in FlushPinners(s)
  BY DEF FlushPinners
<1>2. FlushPinners(s) \subseteq Flushers /\ FlushPinners(s)' \subseteq Flushers
  BY DEF FlushPinners
<1>3. IsFiniteSet(FlushPinners(s)) /\ Cardinality(FlushPinners(s)) \in Nat
  BY FlushPinsFinite DEF FlushPins
<1>4. CASE (f \in FlushPinners(s)) <=> (f \in FlushPinners(s)')
  <2>0. \A g \in Flushers : g \in FlushPinners(s)' <=> g \in FlushPinners(s)
    BY <1>1, <1>4
  <2>1. FlushPinners(s)' = FlushPinners(s)
    BY <1>2, <2>0
  <2> QED
    BY <1>4, <2>1 DEF FlushPins
<1>5. CASE f \notin FlushPinners(s) /\ f \in FlushPinners(s)'
  <2>1. FlushPinners(s)' = FlushPinners(s) \cup {f}
    BY <1>1, <1>2, <1>5
  <2> QED
    BY <1>3, <1>5, <2>1, FS_AddElement DEF FlushPins
<1>6. CASE f \in FlushPinners(s) /\ f \notin FlushPinners(s)'
  <2>1. FlushPinners(s)' = FlushPinners(s) \ {f}
    BY <1>1, <1>2, <1>6
  <2>2. Cardinality(FlushPinners(s)') = Cardinality(FlushPinners(s)) - 1
    BY <1>3, <1>6, <2>1, FS_RemoveElement
  <2>3. Cardinality(FlushPinners(s)) # 0
    BY <1>3, <1>6, FS_EmptySet
  <2> QED
    BY <1>3, <1>6, <2>2, <2>3 DEF FlushPins
<1> QED
  BY <1>4, <1>5, <1>6

Pins == {"recheck", "flush", "put"}

LEMMA FlushStepType ==
  ASSUME TypeInv, NEW f \in Flushers, FlushStep(f)
  PROVE  TypeInv'
<1> DEFINE s == flush[f].slot
<1>0. /\ flush \in Flushing /\ flush[f] \in Passes /\ s \in 0..NumSlots /\ TypeOK
      /\ flush[f].pc \in {"pin", "recheck", "flush", "put"} => s \in Slots
  BY Unchanged DEF CallInv, Flushing, Passes
<1> HIDE DEF s
<1>00. flush[f].pc = "scan" /\ s < NumSlots => s \in Slots
  BY <1>0, CacheAssumption DEF Slots
\* Where f has no slot before and after, or the same one.
<1>a. ASSUME call' = call, pin_count' = pin_count,
             \A g \in Flushers \ {f} : flush'[g].pc = flush[g].pc /\ flush'[g].slot = flush[g].slot,
             \/ flush[f].pc \notin Pins /\ flush'[f].pc \notin Pins
             \/ flush[f].pc \in Pins /\ flush'[f].pc \in Pins /\ flush'[f].slot = flush[f].slot
      PROVE  PinsExact' /\ pin_count' \in [Slots -> Nat]
  <2>1. \A r \in Slots : f \in FlushPinners(r)' <=> f \in FlushPinners(r)
    BY <1>a DEF FlushPinners, Pins
  <2>2. \A r \in Slots : FlushPins(r)' = FlushPins(r)
    BY <1>0, <1>a, <2>1, FlushPinsMove
  <2> QED
    BY <1>0, <1>a, <2>2, FlushPinStep
<1>b. ASSUME call' = call, s \in Slots, Unpin(s), flush[f].pc \in Pins, flush'[f].pc \notin Pins,
             \A g \in Flushers \ {f} : flush'[g].pc = flush[g].pc /\ flush'[g].slot = flush[g].slot
      PROVE  PinsExact' /\ pin_count' \in [Slots -> Nat]
  <2>1. /\ f \in FlushPinners(s) /\ f \notin FlushPinners(s)'
        /\ \A r \in Slots \ {s} : f \notin FlushPinners(r) /\ f \notin FlushPinners(r)'
    BY <1>b DEF FlushPinners, Pins, s
  <2>2. PICK q \in Slots : q = s
    BY <1>b
  <2>4. f \notin FlushPinners(q)'
    BY <1>b DEF FlushPinners, Pins
  <2>3. /\ FlushPins(q) > 0 /\ FlushPins(q)' = FlushPins(q) - 1
        /\ \A r \in Slots \ {q} : FlushPins(r)' = FlushPins(r)
    BY <1>0, <1>b, <2>1, <2>2, <2>4, FlushPinsMove
  <2> QED
    BY <1>0, <1>b, <2>2, <2>3, FlushPinStep
<1>c. Others(f) => \A g \in Flushers \ {f} : flush'[g].pc = flush[g].pc /\ flush'[g].slot = flush[g].slot
  BY DEF Others
<1>1. ASSUME NEW w \in Flushes, w[1] = f, FlushDirtyChunks(f, w[2])
      PROVE  TypeInv'
  <2>0. w[2] \in SUBSET Chunks
    BY CacheAssumption
  <2> DEFINE d == [NoFlush EXCEPT !.pc = "scan", !.of = w[2], !.due = latest]
  <2>2. d \in Passes /\ d.pc = "scan"
    BY <2>0, NoFlushType, Unchanged DEF Passes
  <2> HIDE DEF d
  <2>3. flush' = [flush EXCEPT ![f] = d] /\ flush[f].pc = "idle"
    BY <1>1 DEF FlushDirtyChunks, d
  <2>4. flush' \in Flushing /\ Others(f) /\ flush'[f].pc = "scan"
    BY <1>0, <2>2, <2>3 DEF Flushing, Others
  <2>5. PinsExact' /\ pin_count' \in [Slots -> Nat]
    BY <1>a, <1>c, <1>1, <2>3, <2>4 DEF FlushDirtyChunks, slotVars, Pins
  <2> QED
    BY <1>1, <2>4, <2>5, FlushType, Unchanged DEF FlushDirtyChunks, slotVars, history
<1>2. CASE FlushScan(f)
  <2>1. flush[f].pc = "scan" /\ s \in Slots /\ (FlushGoesTo(f, "pin") \/ NextSlot(f))
    BY <1>0, <1>00, <1>2 DEF FlushScan, s
  <2>2. /\ flush' \in Flushing /\ Others(f) /\ flush'[f].pc \in {"pin", "scan"}
        /\ flush'[f].pc = "pin" => flush'[f].slot \in Slots
    BY <1>0, <2>1, PassMoves DEF s
  <2>3. PinsExact' /\ pin_count' \in [Slots -> Nat]
    BY <1>a, <1>c, <1>2, <2>1, <2>2 DEF FlushScan, slotVars, Pins
  <2> QED
    BY <1>2, <2>2, <2>3, FlushType, Unchanged DEF FlushScan, slotVars, history
<1>3. CASE FlushPin(f)
  <2>1. /\ flush' \in Flushing /\ Others(f) /\ flush[f].pc = "pin" /\ flush'[f].pc = "recheck"
        /\ flush'[f].slot = s /\ flush[f].slot = s /\ s \in Slots
    BY <1>0, <1>3, PassMoves DEF FlushPin, s
  <2>2. PinsExact' /\ pin_count' \in [Slots -> Nat]
    <3>1. PICK q \in Slots : q = flush[f].slot
      BY <2>1
    <3>2. /\ f \notin FlushPinners(q) /\ f \in FlushPinners(q)'
          /\ \A r \in Slots \ {q} : f \notin FlushPinners(r) /\ f \notin FlushPinners(r)'
      BY <2>1, <3>1 DEF FlushPinners
    <3>3. /\ Pin(q) /\ FlushPins(q)' = FlushPins(q) + 1
          /\ \A r \in Slots \ {q} : FlushPins(r)' = FlushPins(r)
      BY <1>0, <1>c, <1>3, <2>1, <3>1, <3>2, FlushPinsMove DEF FlushPin
    <3>4. call' = call
      BY <1>3 DEF FlushPin
    <3> QED
      BY <1>0, <3>3, <3>4, FlushPinStep
  <2> QED
    BY <1>3, <2>1, <2>2, FlushType, Unchanged DEF FlushPin, history
<1>4. ASSUME flush[f].pc \in Pins, s \in Slots, call' = call,
             \/ \E p \in {"flush", "put"} : FlushGoesTo(f, p) /\ pin_count' = pin_count
             \/ NextSlot(f) /\ Unpin(s)
      PROVE  /\ PinsExact' /\ pin_count' \in [Slots -> Nat] /\ flush' \in Flushing /\ Others(f)
             /\ flush'[f].pc \in {"pin", "recheck", "flush", "put"} => flush'[f].slot \in Slots
  <2>1. ASSUME NEW p \in {"flush", "put"}, FlushGoesTo(f, p), pin_count' = pin_count
        PROVE  /\ PinsExact' /\ pin_count' \in [Slots -> Nat] /\ flush' \in Flushing /\ Others(f)
               /\ flush'[f].pc \in {"pin", "recheck", "flush", "put"} => flush'[f].slot \in Slots
    <3>1. flush' \in Flushing /\ Others(f) /\ flush'[f].pc \in Pins /\ flush'[f].slot = flush[f].slot
      BY <1>0, <2>1, PassMoves DEF Pins
    <3> QED
      BY <1>a, <1>c, <1>4, <2>1, <3>1 DEF s
  <2>2. ASSUME NextSlot(f), Unpin(s)
        PROVE  /\ PinsExact' /\ pin_count' \in [Slots -> Nat] /\ flush' \in Flushing /\ Others(f)
               /\ flush'[f].pc \in {"pin", "recheck", "flush", "put"} => flush'[f].slot \in Slots
    <3>1. flush' \in Flushing /\ Others(f) /\ flush'[f].pc = "scan"
      BY <1>0, <1>4, <2>2, PassMoves DEF s
    <3> QED
      BY <1>b, <1>c, <1>4, <2>2, <3>1 DEF Pins
  <2> QED
    BY <1>4, <2>1, <2>2
<1>6. CASE FlushRecheck(f)
  <2>1. flush[f].pc \in Pins /\ s \in Slots
    BY <1>0, <1>6 DEF FlushRecheck, Pins
  <2>2. \/ FlushGoesTo(f, "flush") /\ pin_count' = pin_count
        \/ NextSlot(f) /\ Unpin(s)
    BY <1>6 DEF FlushRecheck, s
  <2>3. /\ PinsExact' /\ pin_count' \in [Slots -> Nat] /\ flush' \in Flushing /\ Others(f)
        /\ flush'[f].pc \in {"pin", "recheck", "flush", "put"} => flush'[f].slot \in Slots
    BY <1>4, <1>6, <2>1, <2>2 DEF FlushRecheck
  <2> QED
    BY <1>6, <2>3, FlushType, Unchanged DEF FlushRecheck, history
<1>7. CASE FlushSwapDirty(f)
  <2>1. flush[f].pc \in Pins /\ s \in Slots
    BY <1>0, <1>7 DEF FlushSwapDirty, Pins
  <2>2. \/ FlushGoesTo(f, "put") /\ pin_count' = pin_count
        \/ NextSlot(f) /\ Unpin(s)
    BY <1>7 DEF FlushSwapDirty, s
  <2>3. /\ PinsExact' /\ pin_count' \in [Slots -> Nat] /\ flush' \in Flushing /\ Others(f)
        /\ flush'[f].pc \in {"pin", "recheck", "flush", "put"} => flush'[f].slot \in Slots
    BY <1>4, <1>7, <2>1, <2>2 DEF FlushSwapDirty
  <2>4. dirty' \in [Slots -> BOOLEAN]
    BY <1>7, Unchanged DEF FlushSwapDirty
  <2> QED
    BY <1>7, <2>3, <2>4, FlushType, Unchanged DEF FlushSwapDirty, history
<1>8. CASE FlushPut(f)
  <2>1. flush[f].pc \in Pins /\ s \in Slots /\ NextSlot(f) /\ Unpin(s)
    BY <1>0, <1>8 DEF FlushPut, Pins, s
  <2>2. /\ PinsExact' /\ pin_count' \in [Slots -> Nat] /\ flush' \in Flushing /\ Others(f)
        /\ flush'[f].pc \in {"pin", "recheck", "flush", "put"} => flush'[f].slot \in Slots
    BY <1>4, <1>8, <2>1 DEF FlushPut
  <2>3. store' \in [Chunks -> Contents]
    BY <1>8, <2>1, Unchanged DEF FlushPut, s
  <2> QED
    BY <1>8, <2>2, <2>3, FlushType, Unchanged DEF FlushPut, history
<1>9. CASE FlushPutFail(f)
  <2>1. flush[f].pc \in Pins /\ s \in Slots /\ Unpin(s) /\ tag[s] \in Tags
    BY <1>0, <1>9, Unchanged DEF FlushPutFail, Pins, s
  <2>2. PICK e \in Flushing : e = Excuse({tag[s]})
    BY <1>0, <2>1, ExcuseIs
  <2>3. /\ flush' = [e EXCEPT ![f] = NoFlush]
        /\ \A g \in Flushers : e[g].pc = flush[g].pc /\ e[g].slot = flush[g].slot
    BY <1>0, <1>9, <2>1, <2>2, ExcuseIs DEF FlushPutFail, s
  <2>4. /\ flush' \in Flushing /\ flush'[f].pc = "idle"
        /\ \A g \in Flushers \ {f} : flush'[g].pc = flush[g].pc /\ flush'[g].slot = flush[g].slot
    BY <2>2, <2>3, NoFlushType DEF Flushing
  <2>5. PinsExact' /\ pin_count' \in [Slots -> Nat]
    BY <1>b, <1>9, <2>1, <2>4 DEF FlushPutFail, Pins
  <2>6. dirty' \in [Slots -> BOOLEAN]
    BY <1>9, Unchanged DEF FlushPutFail
  <2>7. failures' \in 0..MaxFailures
    BY <1>9, Unchanged, CacheAssumption DEF FlushPutFail
  <2>8. CallInv'
    BY <1>9, <2>4 DEF TypeInv, CallInv, FlushPutFail
  <2> QED
    BY <1>9, <2>4, <2>5, <2>6, <2>7, <2>8 DEF FlushPutFail, TypeInv, TypeOK, PinsExact, FlushPins, Flushing
<1>10. CASE FlushDone(f)
  <2>1. flush[f].pc = "scan" /\ flush' = [flush EXCEPT ![f] = NoFlush]
    BY <1>10 DEF FlushDone
  <2>2. flush' \in Flushing /\ Others(f) /\ flush'[f].pc = "idle"
    BY <1>0, <2>1, PassEnds
  <2>3. PinsExact' /\ pin_count' \in [Slots -> Nat]
    BY <1>a, <1>c, <1>10, <2>1, <2>2 DEF FlushDone, slotVars, Pins
  <2> QED
    BY <1>10, <2>2, <2>3, FlushType, Unchanged DEF FlushDone, slotVars, history
<1> QED
  BY <1>1, <1>2, <1>3, <1>6, <1>7, <1>8, <1>9, <1>10 DEF FlushStep

Truncating == [pc : {"idle", "scan", "clear"}, of : SUBSET Chunks, slot : 0..NumSlots, tag : Tags]

LEMMA TruncateType ==
  ASSUME TypeInv, trunc' \in Truncating, trunc'.pc = "clear" => trunc'.slot \in Slots,
         tag' \in [Slots -> Tags], dirty' \in [Slots -> BOOLEAN],
         data' \in [Slots -> Contents], linked' \subseteq Slots,
         flush' \in Flushing, FlushStays,
         latest' \in [Chunks -> BlockVersions], truncates' \in 0..MaxTruncates,
         torn' \subseteq Tags,
         UNCHANGED <<pin_count, store, call, stale, early, writes, failures>>
  PROVE  TypeInv'
<1>1. PinsExact'
  BY FlushPinStep, FlushPinsSame, Unchanged
<1>2. CallInv'
  BY DEF TypeInv, CallInv, FlushStays
<1> QED
  BY <1>1, <1>2 DEF TypeInv, TypeOK, PinsExact, FlushPins, Flushing, Truncating

LEMMA TruncateStepType ==
  ASSUME TypeInv, TruncateStep
  PROVE  TypeInv'
<1> DEFINE s == trunc.slot
<1>0. /\ trunc \in Truncating /\ s \in 0..NumSlots /\ truncates \in 0..MaxTruncates
      /\ trunc.pc = "clear" => s \in Slots
      /\ s < NumSlots => s \in Slots
  BY CacheAssumption DEF TypeInv, TypeOK, CallInv, Truncating, Slots
<1>00. s \in Slots => s + 1 \in 0..NumSlots
  BY CacheAssumption DEF Slots
<1>1. ASSUME NEW which \in Truncations, TruncateRelfork(which)
      PROVE  TypeInv'
  <2>1. which \subseteq Chunks
    BY CacheAssumption
  <2>2. trunc' \in Truncating /\ trunc'.pc = "scan"
    <3>1. NoTag \in Tags /\ 0 \in 0..NumSlots
      BY Basics, CacheAssumption
    <3> QED
      BY <1>1, <2>1, <3>1 DEF TruncateRelfork, NoTrunc, Truncating
  <2>5. truncates' \in 0..MaxTruncates
    BY <1>0, <1>1, CacheAssumption DEF TruncateRelfork
  <2>3. flush' \in Flushing /\ FlushStays
    <3>1. flush' = Excuse(which) /\ which \in SUBSET Tags /\ flush \in Flushing
      BY <1>1, <2>1, Unchanged, Basics DEF TruncateRelfork
    <3> QED
      BY <3>1, ExcuseIs DEF FlushStays
  <2>4. latest' \in [Chunks -> BlockVersions]
    BY <1>1, Unchanged, Basics DEF TruncateRelfork
  <2> QED
    BY <1>1, <2>2, <2>3, <2>4, <2>5, TruncateType, Unchanged DEF TruncateRelfork, slotVars
<1>2. CASE TruncateScan
  <2>1. linked' \subseteq Slots
    BY <1>2, Unchanged DEF TruncateScan
  <2>2. trunc' \in Truncating /\ (trunc'.pc = "clear" => trunc'.slot \in Slots)
    <3>1. s \in Slots /\ tag[s] \in Tags
      BY <1>0, <1>2, Unchanged DEF TruncateScan
    <3> QED
      BY <1>0, <1>00, <1>2, <3>1 DEF TruncateScan, Truncating
  <2> QED
    BY <1>0, <1>2, <2>1, <2>2, TruncateType, Unchanged DEF TruncateScan, history, FlushStays
<1>3. CASE TruncateClear
  <2>1. linked' \subseteq Slots
    BY <1>3, Unchanged DEF TruncateClear
  <2>2. trunc' \in Truncating /\ trunc'.pc = "scan"
    <3>1. s \in Slots /\ NoTag \in Tags
      BY <1>0, <1>3, Basics DEF TruncateClear
    <3> QED
      BY <1>0, <1>00, <1>3, <3>1 DEF TruncateClear, Truncating
  <2>3. dirty' \in [Slots -> BOOLEAN]
    BY <1>3, Unchanged DEF TruncateClear
  <2>4. tag' \in [Slots -> Tags] /\ data' \in [Slots -> Contents]
    BY <1>3, Unchanged, Basics, ZerosType DEF TruncateClear
  <2>5. torn' \subseteq Tags
    <3>1. s \in Slots /\ tag[s] \in Tags /\ torn \subseteq Tags
      BY <1>0, <1>3, Unchanged DEF TruncateClear
    <3> QED
      BY <1>3, <3>1, Basics DEF TruncateClear, Tears
  <2> QED
    BY <1>0, <1>3, <2>1, <2>2, <2>3, <2>4, <2>5, TruncateType, Unchanged DEF TruncateClear, FlushStays
<1>4. CASE TruncateDone
  <2>1. trunc' \in Truncating /\ trunc'.pc = "idle"
    BY <1>4, Basics, CacheAssumption DEF TruncateDone, NoTrunc, Truncating
  <2> QED
    BY <1>0, <1>4, <2>1, TruncateType, Unchanged DEF TruncateDone, slotVars, history, FlushStays
<1> QED
  BY <1>1, <1>2, <1>3, <1>4 DEF TruncateStep

LEMMA StutterType ==
  ASSUME TypeInv, UNCHANGED vars
  PROVE  TypeInv'
<1>1. CallInv'
  BY DEF TypeInv, CallInv, vars, slotVars, history
<1>2. \A r \in Slots : Pinners(r)' = Pinners(r) /\ FlushPins(r)' = FlushPins(r)
  BY DEF Pinners, FlushPins, FlushPinners, vars, slotVars, history
<1> QED
  BY <1>1, <1>2 DEF TypeInv, TypeOK, FlushPins, vars, slotVars, history

LEMMA NextType == TypeInv /\ [Next]_vars => TypeInv'
BY BackendStepType, FlushStepType, TruncateStepType, StutterType DEF Next

\* However many backends, evictions, flushes and truncations there are, the pin
\* count of a slot (chunk.rs, the atomics in lookup_and_pin, evict_and_pin,
\* insert and flush_dirty_chunks) is exactly the number of processes that are
\* using it: no path of any of them, an error path included, leaks a pin, drops
\* one twice or takes the count below zero.
THEOREM CacheTypeCorrect == Spec => []TypeOK
<1>1. TypeInv => TypeOK
  BY DEF TypeInv
<1> QED
  BY <1>1, InitType, NextType, PTL DEF Spec

-----------------------------------------------------------------------------
(* The coherence invariant *)

Placing == {"evict", "flush", "put", "check_pin", "check_dirty", "fill", "link"}
Sound(t) == t \notin Broken
AtLeast(d, v) == \A k \in Blocks : d.ver[k] >= v[k]

\* The slot that a call c of b has pinned: one it has found keeps its chunk, and its place
\* unless its chain is torn, and one it takes over has no other user from the last check on.
Alone(b, c) == \A o \in Backends \ {b} : call[o].pc \in Pinning => call[o].slot # c.slot
Placed(b, c) ==
  /\ c.pc = "hit" => (c.slot \in linked \/ c.tag \in torn) /\ tag[c.slot] = c.tag
  /\ c.pc \in {"check_dirty", "fill", "link"} => Alone(b, c)
  /\ c.pc \in {"fill", "link"} => c.slot \notin linked
  /\ c.pc \in {"flush", "put"} => tag[c.slot] \in Chunks
  /\ c.pc = "link" => tag[c.slot] = NoTag /\ data[c.slot] = c.data

\* A patch in progress is newer than all that was acknowledged for its blocks.
Recent(b, c) ==
  c.pc # "idle" =>
    /\ c.blocks = {} \/ <<b, c.tag, c.blocks>> \in Patches
    /\ \A k \in c.blocks : c.ver > latest[c.tag][k]
    /\ \A k \in Blocks : c.floor[k] <= latest[c.tag][k]

\* What a call holds is its chunk, and up to date if nobody has patched it since its lookup.
Current(c) == Sound(c.tag) /\ c.floor = latest[c.tag]
Fetched(c) ==
  /\ c.pc \in Placing \cup {"got"} => c.data.of = c.tag
  /\ c.pc = "fetch" /\ Current(c) => AtLeast(store[c.tag], latest[c.tag])
  /\ c.pc \in Placing => \A k \in c.blocks : c.data.ver[k] = c.ver
  /\ c.pc \in Placing /\ Current(c) =>
       \A k \in Blocks \ c.blocks : c.data.ver[k] >= latest[c.tag][k]
  /\ c.pc = "got" /\ Sound(c.tag) => AtLeast(c.data, c.floor)

CallsOk ==
  \A b \in Backends : Placed(b, call[b]) /\ Recent(b, call[b]) /\ Fetched(call[b])

LinkedOnce ==
  /\ \A s1, s2 \in linked : tag[s1] = tag[s2] => s1 = s2
  /\ \A s \in linked : tag[s] \in Chunks

\* What is dirty or being written back is in its chain, unless it is being truncated or
\* was unlinked too early or with its chain.
Kept(s) ==
  dirty[s] \/ IoHeld(s) =>
    /\ tag[s] \in Chunks
    /\ \/ s \in linked
       \/ trunc.pc = "clear" /\ trunc.slot = s /\ tag[s] = trunc.tag
       \/ tag[s] \in early \cup torn
SlotsOk == \A s \in Slots : Kept(s) /\ (tag[s] # NoTag => data[s].of = tag[s])

\* A chunk in the cache has every acknowledged patch; the store has them too unless the slot
\* is dirty or being written back.
Stored(t) ==
  /\ store[t].of = t
  /\ Sound(t) =>
       /\ \A s \in linked : tag[s] = t =>
            /\ AtLeast(data[s], latest[t])
            /\ dirty[s] \/ IoHeld(s) \/ AtLeast(store[t], latest[t])
       /\ (\A s \in linked : tag[s] # t) => AtLeast(store[t], latest[t])
ChunksOk == \A t \in Chunks : Stored(t)

\* A truncation has its chunks to itself.
TruncOk ==
  /\ \A b \in Backends : call[b].tag \notin trunc.of
  /\ \A t \in trunc.of, k \in Blocks : latest[t][k] = 0
  /\ trunc.pc = "clear" => trunc.tag \in trunc.of

Bounded ==
  /\ \A b \in Backends : call[b].ver <= writes
  /\ \A t \in Chunks, k \in Blocks : latest[t][k] <= writes

\* A chunk that a flush has to cover is in the store, on its way there, or in a slot that
\* the flush has yet to reach.
Covered(f, t) ==
  \/ t \in flush[f].excused
  \/ ~Sound(t)
  \/ AtLeast(store[t], flush[f].due[t])
  \/ PuttingBack(t)
  \/ \E s \in linked : tag[s] = t /\ dirty[s] /\ flush[f].slot <= s
Due(f) == \A t \in Chunks \ flush[f].excused : \A k \in Blocks : flush[f].due[t][k] <= latest[t][k]
ScanOk ==
  \A f \in Flushers : flush[f].pc # "idle" => Due(f) /\ \A t \in flush[f].of : Covered(f, t)

Linkage == LinkedOnce /\ SlotsOk /\ TruncOk
CacheInv == TypeInv /\ Linkage /\ CallsOk /\ ChunksOk /\ Bounded /\ ScanOk

\* The numbers in the state are numbers.
Numeric ==
  /\ \A t \in Chunks, k \in Blocks :
       latest[t][k] \in Nat /\ store[t].ver[k] \in Nat
  /\ \A f \in Flushers, t \in Chunks, k \in Blocks : flush[f].due[t][k] \in Nat
  /\ \A s \in Slots, k \in Blocks : data[s].ver[k] \in Nat
  /\ \A b \in Backends : call[b].ver \in Nat
  /\ \A b \in Backends, k \in Blocks : call[b].floor[k] \in Nat /\ call[b].data.ver[k] \in Nat
  /\ writes \in Nat
  /\ \A f \in Flushers : flush[f].slot \in Nat
  /\ trunc.slot \in Nat

LEMMA Numbers == TypeInv => Numeric
<1> SUFFICES ASSUME TypeInv PROVE Numeric
  OBVIOUS
<1>1. Versions \subseteq Nat /\ 0..NumSlots \subseteq Nat
  BY Basics, CacheAssumption
<1>2. \A d \in Contents, k \in Blocks : d.ver[k] \in Nat
  BY <1>1 DEF Contents, BlockVersions
<1>3. \A t \in Chunks, k \in Blocks :
        latest[t][k] \in Nat /\ store[t].ver[k] \in Nat
  BY <1>1, <1>2, Unchanged DEF BlockVersions
<1>33. ASSUME NEW f \in Flushers
       PROVE  /\ \A t \in Chunks, k \in Blocks : flush[f].due[t][k] \in Nat
              /\ flush[f].slot \in Nat
  <2>1. flush[f] \in Passes
    BY Unchanged DEF Flushing
  <2> QED
    BY <1>1, <2>1 DEF Passes, BlockVersions
<1>4. \A s \in Slots, k \in Blocks : data[s].ver[k] \in Nat
  BY <1>2, Unchanged
<1>5. ASSUME NEW b \in Backends
      PROVE  /\ call[b].ver \in Nat
             /\ \A k \in Blocks : call[b].floor[k] \in Nat /\ call[b].data.ver[k] \in Nat
  BY <1>1, <1>2, Unchanged DEF Calls, BlockVersions
<1>6. writes \in Nat /\ trunc.slot \in Nat
  BY <1>1, CacheAssumption DEF TypeInv, TypeOK
<1> QED
  BY <1>3, <1>33, <1>4, <1>5, <1>6 DEF Numeric

LEMMA NumbersNext == TypeInv' => Numeric'
  BY Numbers, PTL

-----------------------------------------------------------------------------
(* Steps that only move a call *)

\* A step that changes neither slots nor the store: what its own call has to show.
LEMMA Quiet ==
  ASSUME CacheInv, TypeInv', NEW b \in Backends, NEW c \in Calls,
         call' = [call EXCEPT ![b] = c], call[b].pc # "put", c.pc # "put",
         UNCHANGED <<tag, dirty, data, linked, store, flush, trunc, latest, stale, early, torn>>,
         writes <= writes', c.ver <= writes', c.tag \notin trunc.of,
         Placed(b, c), Recent(b, c), Fetched(c),
         c.pc \in Pinning =>
           \A o \in Backends \ {b} :
             call[o].pc \in {"check_dirty", "fill", "link"} => call[o].slot # c.slot
  PROVE  CacheInv'
<1>1. /\ call'[b] = c
      /\ \A o \in Backends \ {b} : call'[o] = call[o]
      /\ call \in [Backends -> Calls]
  BY Unchanged DEF CacheInv
<1>2. \A s \in Slots : IoHeld(s)' = IoHeld(s)
  BY <1>1 DEF IoHeld
<1>3. Linkage'
  <2>1. LinkedOnce'
    BY DEF CacheInv, Linkage, LinkedOnce
  <2>2. SlotsOk'
    BY <1>2 DEF CacheInv, Linkage, SlotsOk, Kept
  <2>3. TruncOk'
    BY <1>1 DEF CacheInv, Linkage, TruncOk
  <2> QED
    BY <2>1, <2>2, <2>3 DEF Linkage
<1>4. CallsOk'
  <2> SUFFICES ASSUME NEW o \in Backends
               PROVE  Placed(o, call[o])' /\ Recent(o, call[o])' /\ Fetched(call[o])'
    BY DEF CallsOk
  <2>1. CASE o = b
    <3>1. Alone(b, c) => Alone(b, call[b])'
      BY <1>1 DEF Alone
    <3>2. Placed(b, call[b])'
      BY <1>1, <3>1 DEF Placed
    <3>3. Recent(b, call[b])' /\ Fetched(call[b])'
      BY <1>1 DEF Recent, Fetched, Current, Sound, AtLeast, Broken
    <3> QED
      BY <2>1, <3>2, <3>3
  <2>2. CASE o # b
    <3>1. Placed(o, call[o]) /\ Recent(o, call[o]) /\ Fetched(call[o]) /\ call'[o] = call[o]
      BY <1>1, <2>2 DEF CacheInv, CallsOk
    <3>2. call[o].pc \in {"check_dirty", "fill", "link"} => Alone(o, call[o])'
      BY <1>1, <2>2, <3>1 DEF Placed, Alone
    <3>3. Placed(o, call[o])'
      BY <3>1, <3>2 DEF Placed
    <3>4. Recent(o, call[o])' /\ Fetched(call[o])'
      BY <3>1 DEF Recent, Fetched, Current, Sound, AtLeast, Broken
    <3> QED
      BY <3>3, <3>4
  <2> QED
    BY <2>1, <2>2
<1>5. ChunksOk'
  <2>1. linked \subseteq Slots
    BY Unchanged DEF CacheInv
  <2> QED
    BY <1>2, <2>1 DEF CacheInv, ChunksOk, Stored, Sound, AtLeast, Broken
<1>6. Bounded'
  <2>1. Numeric /\ Numeric'
    BY Numbers, NumbersNext DEF CacheInv
  <2>2. \A o \in Backends : call'[o].ver <= writes'
    BY <1>1, <2>1 DEF CacheInv, Bounded, Numeric
  <2>3. \A t \in Chunks, k \in Blocks : latest'[t][k] <= writes'
    BY <2>1 DEF CacheInv, Bounded, Numeric
  <2> QED
    BY <2>2, <2>3 DEF Bounded
<1>7. ScanOk'
  <2> SUFFICES ASSUME NEW f \in Flushers, NEW t \in flush[f].of, flush[f].pc # "idle" PROVE Covered(f, t)'
    BY DEF CacheInv, ScanOk, Due
  <2>1. Covered(f, t)
    BY DEF CacheInv, ScanOk, Due
  <2>2. ASSUME NEW o \in Backends, call[o].pc = "put", tag[call[o].slot] = t
        PROVE  call'[o].pc = "put" /\ tag'[call'[o].slot] = t
    BY <1>1, <2>2
  <2> QED
    BY <2>1, <2>2 DEF Covered, PuttingBack, Sound, AtLeast, Broken
<1> QED
  BY <1>3, <1>4, <1>5, <1>6, <1>7 DEF CacheInv

\* A chain with the chunk's slot in it is not changed under a lookup: nobody is about to
\* unlink the slot that it finds.
LEMMA LookupKeeps ==
  ASSUME CacheInv, TypeInv', NEW b \in Backends, NEW c \in Calls, c.tag \in Chunks,
         c.tag \notin trunc.of, call[b].pc \notin Pinning, LookupAndPin(b, c),
         writes <= writes', c.ver <= writes',
         c.blocks = {} \/ <<b, c.tag, c.blocks>> \in Patches,
         \A k \in c.blocks : c.ver > latest[c.tag][k]
  PROVE  CacheInv'
<1>1. /\ latest[c.tag] \in BlockVersions /\ c.tag \in Tags /\ Numeric
      /\ UNCHANGED <<tag, dirty, data, linked, store, flush, trunc, latest, stale, early, torn>>
  BY Unchanged, Basics, Numbers DEF CacheInv, LookupAndPin
<1>2. \A k \in Blocks : latest[c.tag][k] <= latest[c.tag][k]
  BY <1>1 DEF Numeric
<1>3. CASE \E s \in Found(c.tag) :
             /\ Pin(s)
             /\ call' = [call EXCEPT ![b] = [c EXCEPT !.pc = "hit", !.floor = latest[c.tag], !.slot = s]]
  <2>1. PICK s \in Found(c.tag) :
             call' = [call EXCEPT ![b] = [c EXCEPT !.pc = "hit", !.floor = latest[c.tag], !.slot = s]]
    BY <1>3
  <2>2. s \in linked /\ s \in Slots /\ tag[s] = c.tag
    BY Unchanged DEF Found, CacheInv
  <2> DEFINE d == [c EXCEPT !.pc = "hit", !.floor = latest[c.tag], !.slot = s]
  <2>3. /\ d \in Calls /\ d.pc = "hit" /\ d.tag = c.tag /\ d.slot = s /\ d.floor = latest[c.tag]
        /\ d.ver = c.ver /\ d.blocks = c.blocks
    BY <1>1, <2>2 DEF Calls
  <2> HIDE DEF d
  <2>4. call' = [call EXCEPT ![b] = d]
    BY <2>1 DEF d
  <2>5. ASSUME NEW o \in Backends \ {b}, call[o].pc \in {"check_dirty", "fill", "link"}
        PROVE  call[o].slot # s
    <3>1. Placed(o, call[o])
      BY DEF CacheInv, CallsOk
    <3>2. ~BucketHeld(BucketOf[c.tag])
      BY DEF LookupAndPin
    <3> QED
      BY <2>2, <2>5, <3>1, <3>2 DEF Placed, BucketHeld
  <2>6. Placed(b, d) /\ Recent(b, d) /\ Fetched(d)
    BY <1>2, <2>2, <2>3 DEF Placed, Recent, Fetched, Placing
  <2>7. call[b].pc # "put"
    BY DEF Pinning
  <2> QED
    BY <1>1, <2>3, <2>4, <2>5, <2>6, <2>7, Quiet
<1>4. CASE /\ Found(c.tag) = {}
           /\ call' = [call EXCEPT ![b] =
                IF c.blocks = Blocks
                THEN [c EXCEPT !.pc = "evict", !.floor = latest[c.tag], !.data = Patched(c, Zeros(c.tag))]
                ELSE [c EXCEPT !.pc = "fetch", !.floor = latest[c.tag]]]
  <2> DEFINE d == IF c.blocks = Blocks
                  THEN [c EXCEPT !.pc = "evict", !.floor = latest[c.tag], !.data = Patched(c, Zeros(c.tag))]
                  ELSE [c EXCEPT !.pc = "fetch", !.floor = latest[c.tag]]
             z == Patched(c, Zeros(c.tag))
  <2>1. z \in Contents /\ z.of = c.tag /\ \A k \in Blocks : k \in c.blocks => z.ver[k] = c.ver
    BY <1>1, ZerosType, PatchedType
  <2> HIDE DEF z
  <2>2. /\ d \in Calls /\ d.pc \in {"evict", "fetch"} /\ d.tag = c.tag /\ d.floor = latest[c.tag]
        /\ d.ver = c.ver /\ d.blocks = c.blocks
        /\ d.pc = "evict" => c.blocks = Blocks /\ d.data = z
    BY <1>1, <2>1 DEF Calls, z
  <2> HIDE DEF d
  <2>3. call' = [call EXCEPT ![b] = d]
    BY <1>4 DEF d
  <2>4. Sound(c.tag) => AtLeast(store[c.tag], latest[c.tag])
    <3>1. \A s \in linked : tag[s] # c.tag
      BY <1>4 DEF Found
    <3> QED
      BY <3>1 DEF CacheInv, ChunksOk, Stored
  <2>5. Placed(b, d) /\ Recent(b, d)
    BY <1>2, <2>2 DEF Placed, Recent
  <2>6. Fetched(d)
    BY <2>1, <2>2, <2>4 DEF Fetched, Current, Placing
  <2>7. call[b].pc # "put" /\ d.pc \notin Pinning /\ d.pc # "put"
    BY <2>2 DEF Pinning
  <2> QED
    BY <1>1, <2>2, <2>3, <2>5, <2>6, <2>7, Quiet
<1> QED
  BY <1>3, <1>4 DEF LookupAndPin

LEMMA CallStarts ==
  ASSUME CacheInv, TypeInv', NEW b \in Backends,
         \/ \E r \in Reads : r[1] = b /\ GetChunk(b, r[2])
         \/ \E p \in Patches : p[1] = b /\ PatchChunk(b, p[2], p[3])
         \/ Retry(b)
  PROVE  CacheInv'
<1>0. Numeric /\ call[b] \in Calls /\ 0 \in Versions
  BY Numbers, Unchanged, Basics DEF CacheInv
<1>1. ASSUME NEW r \in Reads, r[1] = b, GetChunk(b, r[2]) PROVE CacheInv'
  <2> DEFINE c == [Idle EXCEPT !.tag = r[2]]
  <2>1. r[2] \in Chunks
    BY CacheAssumption
  <2>2. c \in Calls /\ c.tag = r[2] /\ c.blocks = {} /\ c.ver = 0
    BY <2>1, IdleType, Basics DEF Calls, Idle
  <2> HIDE DEF c
  <2>3. /\ call[b].pc \notin Pinning /\ r[2] \notin trunc.of /\ LookupAndPin(b, c) /\ writes' = writes
    BY <1>1 DEF GetChunk, MayAccess, Pinning, c
  <2>4. writes <= writes' /\ c.ver <= writes'
    BY <1>0, <2>2, <2>3 DEF Numeric
  <2> QED
    BY <2>1, <2>2, <2>3, <2>4, LookupKeeps
<1>2. ASSUME NEW p \in Patches, p[1] = b, PatchChunk(b, p[2], p[3]) PROVE CacheInv'
  <2> DEFINE c == [Idle EXCEPT !.tag = p[2], !.blocks = p[3], !.ver = writes + 1]
  <2>0. p \in Backends \X Chunks \X (SUBSET Blocks \ {{}})
    BY CacheAssumption
  <2>1. /\ p[2] \in Chunks /\ p[3] \in SUBSET Blocks /\ p = <<b, p[2], p[3]>>
        /\ call[b].pc = "idle" /\ p[2] \notin trunc.of /\ LookupAndPin(b, c)
        /\ writes < MaxWrites /\ writes' = writes + 1
    <3>1. p[2] \in Chunks /\ p[3] \in SUBSET Blocks /\ p = <<p[1], p[2], p[3]>>
      BY <2>0
    <3>2. /\ call[b].pc = "idle" /\ p[2] \notin trunc.of /\ LookupAndPin(b, c)
          /\ writes < MaxWrites /\ writes' = writes + 1
      BY <1>2 DEF PatchChunk, MayAccess
    <3> HIDE DEF c
    <3> QED
      BY <1>2, <3>1, <3>2
  <2>2. writes + 1 \in Versions /\ writes <= writes' /\ writes + 1 <= writes'
    BY <1>0, <2>1, CacheAssumption DEF Versions, Numeric
  <2>3. c \in Calls /\ c.tag = p[2] /\ c.blocks = p[3] /\ c.ver = writes + 1
    BY <2>1, <2>2, IdleType, Basics DEF Calls, Idle
  <2> HIDE DEF c
  <2>4. \A k \in c.blocks : c.ver > latest[c.tag][k]
    BY <1>0, <2>1, <2>3 DEF CacheInv, Bounded, Numeric
  <2>5. call[b].pc \notin Pinning
    BY <2>1 DEF Pinning
  <2> QED
    BY <2>1, <2>2, <2>3, <2>4, <2>5, LookupKeeps
<1>3. CASE Retry(b)
  <2> DEFINE c == call[b]
  <2>1. /\ c \in Calls /\ c.pc = "lookup" /\ LookupAndPin(b, c) /\ writes' = writes
    BY <1>0, <1>3 DEF Retry
  <2>2. c.tag \in Chunks /\ c.tag \notin trunc.of /\ Recent(b, c) /\ c.ver <= writes
    BY <2>1, Unchanged DEF CacheInv, CallInv, Linkage, TruncOk, CallsOk, Bounded
  <2>3. c.pc \notin Pinning /\ writes <= writes'
    BY <1>0, <2>1 DEF Pinning, Numeric
  <2> HIDE DEF c
  <2>4. call[b].pc \notin Pinning
    BY <2>3 DEF c
  <2> QED
    BY <2>1, <2>2, <2>3, <2>4, LookupKeeps DEF Recent
<1> QED
  BY <1>1, <1>2, <1>3

\* A call that ends leaves nothing behind.
LEMMA IdleKeeps ==
  ASSUME CacheInv, TypeInv', NEW b \in Backends, call' = [call EXCEPT ![b] = Idle],
         call[b].pc # "put", writes' = writes,
         UNCHANGED <<tag, dirty, data, linked, store, flush, trunc, latest, stale, early, torn>>
  PROVE  CacheInv'
<1>1. Numeric /\ NoTag \notin trunc.of
  BY Numbers, CacheAssumption DEF CacheInv, TypeInv, TypeOK
<1>2. /\ Idle \in Calls /\ Idle.pc = "idle" /\ Idle.tag = NoTag /\ Idle.ver = 0
      /\ Idle.pc # "put" /\ Idle.pc \notin Pinning
  BY IdleType DEF Idle, Pinning
<1>3. Placed(b, Idle) /\ Recent(b, Idle) /\ Fetched(Idle)
  BY <1>2 DEF Placed, Recent, Fetched, Placing
<1>4. writes <= writes' /\ Idle.ver <= writes'
  BY <1>1, <1>2 DEF Numeric
<1> QED
  BY <1>1, <1>2, <1>3, <1>4, Quiet

\* The steps of a call that change neither slots nor the store.
LEMMA CallMoves ==
  ASSUME CacheInv, TypeInv', NEW b \in Backends,
         \/ ReadHit(b) \/ HitFail(b) \/ Fetch(b) \/ Return(b)
         \/ \E s \in Slots : Claim(b, s)
         \/ CheckPin(b) \/ GiveUp(b)
         \/ CheckDirty(b) /\ dirty[call[b].slot]
  PROVE  CacheInv'
<1> DEFINE c == call[b]
<1>0. /\ Numeric /\ c \in Calls /\ call \in [Backends -> Calls] /\ 0 \in Slots
      /\ c.pc # "idle" => c.tag \in Chunks
      /\ c.tag \notin trunc.of /\ c.ver <= writes
      /\ Placed(b, c) /\ Recent(b, c) /\ Fetched(c)
      /\ writes <= writes
  BY Numbers, Unchanged, Basics
  DEF CacheInv, CallInv, Linkage, TruncOk, CallsOk, Bounded, Numeric
<1> HIDE DEF c
<1>1. ASSUME NEW d \in Calls, call' = [call EXCEPT ![b] = d], c.pc # "put", d.pc # "put",
             d.tag = c.tag, d.ver = c.ver, d.blocks = c.blocks, d.floor = c.floor, c.pc # "idle",
             UNCHANGED <<tag, dirty, data, linked, store, flush, trunc, latest, stale, early, torn, writes>>,
             Placed(b, d), Fetched(d),
             \/ d.pc \notin Pinning
             \/ c.pc \in Pinning /\ d.slot = c.slot
             \/ d.slot \in Slots /\ pin_count[d.slot] = 0
      PROVE  CacheInv'
  <2>1. Recent(b, d)
    BY <1>0, <1>1 DEF Recent
  <2>2. call[b].pc # "put" /\ writes <= writes' /\ d.ver <= writes' /\ d.tag \notin trunc.of
    BY <1>0, <1>1 DEF c
  <2>3. ASSUME d.pc \in Pinning, NEW o \in Backends \ {b}, call[o].pc \in {"check_dirty", "fill", "link"}
        PROVE  call[o].slot # d.slot
    <3>1. CASE c.pc \in Pinning /\ d.slot = c.slot
      <4>1. Alone(o, call[o])
        BY <2>3 DEF CacheInv, CallsOk, Placed
      <4> QED
        BY <3>1, <4>1 DEF Alone, c
    <3>2. CASE d.slot \in Slots /\ pin_count[d.slot] = 0
      <4>1. Pinners(d.slot) = {}
        BY <3>2, PinFacts, Unchanged DEF CacheInv
      <4> QED
        BY <2>3, <4>1 DEF Pinners, Pinning
    <3> QED
      BY <1>1, <2>3, <3>1, <3>2
  <2> QED
    BY <1>1, <2>1, <2>2, <2>3, Quiet
<1>2. CASE HitFail(b) \/ Return(b) \/ GiveUp(b)
  BY <1>2, IdleKeeps DEF HitFail, Return, GiveUp, slotVars, history
<1>3. CASE ReadHit(b)
  <2> DEFINE d == [c EXCEPT !.pc = "got", !.data = data[c.slot], !.slot = 0]
  <2>1. c.slot \in Slots /\ c.pc = "hit" /\ data[c.slot] \in Contents
    BY <1>0, <1>3, Unchanged DEF ReadHit, c, Calls, CacheInv
  <2>2. /\ d \in Calls /\ d.pc = "got" /\ d.tag = c.tag /\ d.ver = c.ver /\ d.blocks = c.blocks
        /\ d.floor = c.floor /\ d.data = data[c.slot]
    BY <1>0, <2>1 DEF Calls
  <2> HIDE DEF d
  <2>3. call' = [call EXCEPT ![b] = d]
    BY <1>0, <1>3 DEF ReadHit, d, c
  <2>4. /\ c.slot \in linked \/ c.tag \in torn
        /\ tag[c.slot] = c.tag /\ c.tag \in Chunks /\ c.tag # NoTag
    BY <1>0, <2>1, CacheAssumption DEF Placed
  <2>5. data[c.slot].of = c.tag
    BY <2>1, <2>4 DEF CacheInv, Linkage, SlotsOk
  <2>6. Sound(c.tag) => AtLeast(data[c.slot], c.floor)
    <3>1. Sound(c.tag) => AtLeast(data[c.slot], latest[c.tag])
      BY <2>4 DEF CacheInv, ChunksOk, Stored, Sound, Broken
    <3>2. \A k \in Blocks : c.floor[k] <= latest[c.tag][k]
      BY <1>0, <2>1 DEF Recent
    <3>3. \A k \in Blocks : c.floor[k] \in Nat /\ latest[c.tag][k] \in Nat /\ data[c.slot].ver[k] \in Nat
      BY <1>0, <2>1, <2>4 DEF Numeric, c
    <3> QED
      BY <3>1, <3>2, <3>3 DEF AtLeast
  <2>7. Placed(b, d) /\ Fetched(d) /\ d.pc \notin Pinning /\ d.pc # "put" /\ c.pc # "put" /\ c.pc # "idle"
    BY <2>1, <2>2, <2>5, <2>6 DEF Placed, Fetched, Placing, Pinning
  <2> QED
    BY <1>1, <1>3, <2>2, <2>3, <2>7 DEF ReadHit, history
<1>4. CASE Fetch(b)
  <2>1. CASE call' = [call EXCEPT ![b] = Idle]
    BY <1>4, <2>1, IdleKeeps DEF Fetch, slotVars, history
  <2>2. CASE call' = [call EXCEPT ![b] = [c EXCEPT !.pc = "evict", !.data = Patched(c, store[c.tag])]]
    <3> DEFINE z == Patched(c, store[c.tag])
               d == [c EXCEPT !.pc = "evict", !.data = z]
    <3>1. c.pc = "fetch" /\ c.tag \in Chunks /\ store[c.tag] \in Contents /\ store[c.tag].of = c.tag
      BY <1>0, <1>4, Unchanged DEF Fetch, c, CacheInv, ChunksOk, Stored
    <3>2. /\ z \in Contents /\ z.of = c.tag
          /\ \A k \in Blocks : z.ver[k] = IF k \in c.blocks THEN c.ver ELSE store[c.tag].ver[k]
      BY <1>0, <3>1, PatchedType
    <3> HIDE DEF z
    <3>3. /\ d \in Calls /\ d.pc = "evict" /\ d.tag = c.tag /\ d.ver = c.ver /\ d.blocks = c.blocks
          /\ d.floor = c.floor /\ d.data = z
      BY <1>0, <3>2 DEF Calls
    <3> HIDE DEF d
    <3>4. call' = [call EXCEPT ![b] = d]
      BY <2>2 DEF d, z
    <3>5. Fetched(d)
      <4>1. \A k \in c.blocks : z.ver[k] = c.ver
        BY <1>0, <3>2 DEF Calls
      <4>2. Current(d) => \A k \in Blocks \ c.blocks : z.ver[k] >= latest[c.tag][k]
        BY <1>0, <3>1, <3>2, <3>3 DEF Fetched, Current, AtLeast
      <4> QED
        BY <3>2, <3>3, <4>1, <4>2 DEF Fetched
    <3>6. Placed(b, d) /\ d.pc \notin Pinning /\ d.pc # "put" /\ c.pc # "put" /\ c.pc # "idle"
      BY <3>1, <3>3 DEF Placed, Pinning
    <3> QED
      BY <1>1, <1>4, <3>3, <3>4, <3>5, <3>6 DEF Fetch, slotVars, history
  <2> QED
    BY <1>4, <2>1, <2>2 DEF Fetch, c
<1>5. ASSUME NEW s \in Slots, Claim(b, s) PROVE CacheInv'
  <2> DEFINE d == [c EXCEPT !.slot = s, !.pc = IF tag[s] = NoTag THEN "check_pin" ELSE "flush"]
  <2>1. c.pc = "evict" /\ pin_count[s] = 0 /\ tag[s] \in Tags
    BY <1>5, Unchanged DEF Claim, c, CacheInv
  <2>2. /\ d \in Calls /\ d.pc \in {"check_pin", "flush"} /\ d.tag = c.tag /\ d.ver = c.ver /\ d.blocks = c.blocks
        /\ d.floor = c.floor /\ d.data = c.data /\ d.slot = s
        /\ d.pc = "flush" => tag[s] # NoTag
    BY <1>0, <1>5 DEF Calls
  <2> HIDE DEF d
  <2>3. call' = [call EXCEPT ![b] = d]
    BY <1>0, <1>5 DEF Claim, d, c
  <2>4. Placed(b, d)
    BY <2>1, <2>2 DEF Placed, Tags
  <2>5. Fetched(d)
    BY <1>0, <2>1, <2>2 DEF Fetched, Current, Placing
  <2> QED
    BY <1>1, <1>5, <2>1, <2>2, <2>3, <2>4, <2>5 DEF Claim, history
<1>6. ASSUME c.pc \in {"check_pin", "check_dirty"},
             call' = [call EXCEPT ![b].pc = "evict", ![b].slot = 0],
             UNCHANGED <<tag, dirty, data, linked, store, flush, trunc, latest, stale, early, torn, writes>>
      PROVE  CacheInv'
  <2> DEFINE d == [c EXCEPT !.pc = "evict", !.slot = 0]
  <2>1. /\ d \in Calls /\ d.pc = "evict" /\ d.tag = c.tag /\ d.ver = c.ver /\ d.blocks = c.blocks
        /\ d.floor = c.floor /\ d.data = c.data
    BY <1>0 DEF Calls
  <2> HIDE DEF d
  <2>2. call' = [call EXCEPT ![b] = d]
    BY <1>0, <1>6 DEF d, c
  <2>3. Placed(b, d) /\ d.pc \notin Pinning
    BY <2>1 DEF Placed, Pinning
  <2>4. Fetched(d)
    BY <1>0, <1>6, <2>1 DEF Fetched, Current, Placing
  <2> QED
    BY <1>1, <1>6, <2>1, <2>2, <2>3, <2>4
<1>7. CASE CheckPin(b)
  <2>0. c.pc = "check_pin" /\ c.slot \in Slots
    BY <1>0, <1>7 DEF CheckPin, c, Calls
  <2>1. CASE pin_count[c.slot] = 1 /\ call' = [call EXCEPT ![b].pc = "check_dirty"]
    <3> DEFINE d == [c EXCEPT !.pc = "check_dirty"]
    <3>1. /\ d \in Calls /\ d.pc = "check_dirty" /\ d.tag = c.tag /\ d.ver = c.ver /\ d.blocks = c.blocks
          /\ d.floor = c.floor /\ d.data = c.data /\ d.slot = c.slot
      BY <1>0 DEF Calls
    <3> HIDE DEF d
    <3>2. call' = [call EXCEPT ![b] = d]
      BY <1>0, <2>1 DEF d, c
    <3>3. Alone(b, d)
      <4>1. b \in Pinners(c.slot)
        BY <2>0 DEF Pinners, Pinning, c
      <4>2. Pinners(c.slot) = {b}
        BY <2>0, <2>1, <4>1, PinFacts, Unchanged DEF CacheInv
      <4> QED
        BY <3>1, <4>2 DEF Pinners, Alone
    <3>4. Placed(b, d) /\ c.pc \in Pinning
      BY <2>0, <3>1, <3>3 DEF Placed, Pinning
    <3>5. Fetched(d)
      BY <1>0, <2>0, <3>1 DEF Fetched, Current, Placing
    <3> QED
      BY <1>1, <1>7, <2>0, <3>1, <3>2, <3>4, <3>5 DEF CheckPin, history
  <2>2. CASE call' = [call EXCEPT ![b].pc = "evict", ![b].slot = 0]
    BY <1>6, <1>7, <2>0, <2>2 DEF CheckPin, history
  <2> QED
    BY <1>7, <2>1, <2>2 DEF CheckPin, c
<1>8. CASE CheckDirty(b) /\ dirty[call[b].slot]
  BY <1>6, <1>8 DEF CheckDirty, c
<1> QED
  BY <1>2, <1>3, <1>4, <1>5, <1>7, <1>8

-----------------------------------------------------------------------------
(* What a step leaves to the calls it does not make *)

\* b's call goes on with the same request.
Moves(b, p, s, d) ==
  /\ call'[b].pc = p /\ call'[b].slot = s /\ call'[b].data = d
  /\ call'[b].tag = call[b].tag /\ call'[b].blocks = call[b].blocks
  /\ call'[b].ver = call[b].ver /\ call'[b].floor = call[b].floor
  /\ \A o \in Backends \ {b} : call'[o] = call[o]
Ends(b) == call'[b] = Idle /\ \A o \in Backends \ {b} : call'[o] = call[o]

\* Nobody pins a slot.
NoNewPin ==
  \A q \in Backends : call'[q].pc \in Pinning => call[q].pc \in Pinning /\ call'[q].slot = call[q].slot

LEMMA OtherPlaced ==
  ASSUME CacheInv, NEW o \in Backends, call'[o] = call[o], NoNewPin,
         call[o].pc \in Pinning => tag'[call[o].slot] = tag[call[o].slot],
         call[o].pc = "hit" => call[o].slot \in linked' \/ call[o].tag \in torn',
         call[o].pc \in {"fill", "link"} => call[o].slot \notin linked',
         call[o].pc = "link" => data'[call[o].slot] = data[call[o].slot]
  PROVE  Placed(o, call[o])'
<1>1. Placed(o, call[o])
  BY DEF CacheInv, CallsOk
<1>2. call[o].pc \in {"check_dirty", "fill", "link"} => Alone(o, call[o])'
  BY <1>1 DEF Placed, Alone, NoNewPin
<1> QED
  BY <1>1, <1>2 DEF Placed, Pinning

\* What a call holds stays good while nobody else's patch is acknowledged.
LEMMA OtherData ==
  ASSUME CacheInv, NEW o \in Backends, call'[o] = call[o],
         stale \subseteq stale', early \subseteq early', torn \subseteq torn',
         call[o].pc # "idle" =>
           /\ latest'[call[o].tag] = latest[call[o].tag]
           /\ Sound(call[o].tag) /\ AtLeast(store[call[o].tag], latest[call[o].tag]) =>
                AtLeast(store'[call[o].tag], latest[call[o].tag])
  PROVE  Recent(o, call[o])' /\ Fetched(call[o])'
<1>1. Recent(o, call[o]) /\ Fetched(call[o])
  BY DEF CacheInv, CallsOk
<1>2. CASE call[o].pc = "idle"
  BY <1>2 DEF Recent, Fetched, Placing
<1>3. CASE call[o].pc # "idle"
  <2>1. Recent(o, call[o])'
    BY <1>1, <1>3 DEF Recent
  <2>2. Sound(call[o].tag)' => Sound(call[o].tag)
    BY DEF Sound, Broken
  <2>3. Current(call[o])' => Current(call[o])
    BY <1>3, <2>2 DEF Current
  <2>4. Fetched(call[o])'
    BY <1>1, <1>3, <2>2, <2>3 DEF Fetched, Current, AtLeast
  <2> QED
    BY <2>1, <2>4
<1> QED
  BY <1>2, <1>3

LEMMA OwnData ==
  ASSUME CacheInv, NEW b \in Backends, NEW p \in Placing, NEW s, Moves(b, p, s, call[b].data),
         call[b].pc \in Placing, latest' = latest, stale \subseteq stale', early \subseteq early', torn \subseteq torn'
  PROVE  Recent(b, call[b])' /\ Fetched(call[b])'
<1>1. Recent(b, call[b]) /\ Fetched(call[b]) /\ call[b].pc # "idle" /\ call[b].pc # "got" /\ call[b].pc # "fetch"
  BY DEF CacheInv, CallsOk, Placing
<1>2. p # "idle" /\ p # "got" /\ p # "fetch"
  BY DEF Placing
<1>3. Recent(b, call[b])'
  BY <1>1, <1>2 DEF Recent, Moves
<1>4. Current(call[b])' => Current(call[b])
  BY DEF Current, Sound, Moves, Broken
<1> QED
  BY <1>1, <1>2, <1>3, <1>4 DEF Fetched, Moves

LEMMA OwnIdle ==
  ASSUME NEW b \in Backends, Ends(b)
  PROVE  /\ Placed(b, call[b])' /\ Recent(b, call[b])' /\ Fetched(call[b])'
         /\ call'[b].pc = "idle" /\ call'[b].tag = NoTag /\ call'[b].ver = 0
<1>1. call'[b].pc = "idle" /\ call'[b].tag = NoTag /\ call'[b].ver = 0
  BY IdleType DEF Ends, Idle
<1> QED
  BY <1>1 DEF Placed, Recent, Fetched, Placing

LEMMA BoundedKept ==
  ASSUME CacheInv, NEW b \in Backends, latest' = latest, writes' = writes,
         \/ \E p, s, d : Moves(b, p, s, d)
         \/ Ends(b)
         \/ call' = call
  PROVE  Bounded'
<1>1. \A o \in Backends : call'[o].ver = call[o].ver \/ call'[o].ver = 0
  BY DEF Moves, Ends, Idle
<1>2. Numeric
  BY Numbers DEF CacheInv
<1> QED
  BY <1>1, <1>2 DEF CacheInv, Bounded, Numeric

LEMMA TruncKept ==
  ASSUME CacheInv, NEW b \in Backends, trunc' = trunc, latest' = latest, linked' \subseteq linked,
         \/ \E p, s, d : Moves(b, p, s, d)
         \/ Ends(b)
         \/ call' = call
  PROVE  TruncOk'
<1>1. \A o \in Backends : call'[o].tag = call[o].tag \/ call'[o].tag = NoTag
  BY IdleType DEF Moves, Ends
<1>2. NoTag \notin trunc.of
  BY CacheAssumption DEF CacheInv, TypeInv, TypeOK
<1> QED
  BY <1>1, <1>2 DEF CacheInv, Linkage, TruncOk

\* What is being written back has every acknowledged patch.
LEMMA WriteBack ==
  ASSUME CacheInv, NEW s \in Slots, IoHeld(s)
  PROVE  /\ tag[s] \in Chunks /\ data[s].of = tag[s]
         /\ Sound(tag[s]) => AtLeast(data[s], latest[tag[s]])
<1>1. tag[s] \in Chunks /\ data[s].of = tag[s] /\ Kept(s)
  BY CacheAssumption DEF CacheInv, Linkage, SlotsOk, Kept
<1>2. ASSUME Sound(tag[s]) PROVE AtLeast(data[s], latest[tag[s]])
  <2>1. CASE s \in linked
    BY <1>1, <1>2, <2>1 DEF CacheInv, ChunksOk, Stored
  <2>2. CASE trunc.pc = "clear" /\ tag[s] = trunc.tag
    <3>1. \A k \in Blocks : latest[tag[s]][k] = 0
      BY <2>2 DEF CacheInv, Linkage, TruncOk
    <3>2. \A k \in Blocks : data[s].ver[k] \in Nat
      BY Numbers DEF CacheInv, Numeric
    <3> QED
      BY <3>1, <3>2 DEF AtLeast
  <2> QED
    BY <1>1, <1>2, <2>1, <2>2 DEF Kept, Sound, Broken
<1> QED
  BY <1>1, <1>2

\* A PUT of a slot.
LEMMA PutKeeps ==
  ASSUME CacheInv, NEW s \in Slots, IoHeld(s), store' = [store EXCEPT ![tag[s]] = data[s]],
         \A r \in Slots : IoHeld(r)' => IoHeld(r),
         \A r \in Slots \ {s} : IoHeld(r)' = IoHeld(r),
         UNCHANGED <<tag, dirty, data, linked, trunc, latest, stale, early, torn>>
  PROVE  /\ LinkedOnce' /\ SlotsOk' /\ ChunksOk'
         /\ \A t \in Chunks \ {tag[s]} : store'[t] = store[t]
         /\ Sound(tag[s]) => AtLeast(store'[tag[s]], latest[tag[s]])
         /\ \A t \in Chunks : Sound(t) /\ AtLeast(store[t], latest[t]) => AtLeast(store'[t], latest[t])
<1>1. /\ tag[s] \in Chunks /\ data[s].of = tag[s]
      /\ Sound(tag[s]) => AtLeast(data[s], latest[tag[s]])
  BY WriteBack
<1>2. /\ store'[tag[s]] = data[s] /\ \A t \in Chunks \ {tag[s]} : store'[t] = store[t]
      /\ linked \subseteq Slots
  BY <1>1, Unchanged DEF CacheInv
<1>3. LinkedOnce' /\ SlotsOk'
  BY DEF CacheInv, Linkage, LinkedOnce, SlotsOk, Kept
<1>4. ChunksOk'
  <2> SUFFICES ASSUME NEW t \in Chunks PROVE Stored(t)'
    BY DEF ChunksOk
  <2>0. Stored(t) /\ Sound(t)' = Sound(t)
    BY DEF CacheInv, ChunksOk, Sound, Broken
  <2>1. CASE t = tag[s]
    BY <1>1, <1>2, <2>0, <2>1 DEF Stored, AtLeast
  <2>2. CASE t # tag[s]
    <3>1. \A r \in linked : tag[r] = t => IoHeld(r)' = IoHeld(r)
      BY <1>2, <2>2
    <3> QED
      BY <1>2, <2>0, <2>2, <3>1 DEF Stored, AtLeast
  <2> QED
    BY <2>1, <2>2
<1> QED
  BY <1>1, <1>2, <1>3, <1>4

-----------------------------------------------------------------------------
(* Evictions *)

\* What the invariant says of a call that has a slot.
LEMMA CallFacts ==
  ASSUME CacheInv, NEW b \in Backends, call[b].pc # "idle"
  PROVE  /\ call \in [Backends -> Calls] /\ call[b].slot \in Slots /\ call[b].tag \in Chunks
         /\ call[b].tag \notin trunc.of
         /\ Placed(b, call[b]) /\ Recent(b, call[b]) /\ Fetched(call[b])
  BY Unchanged DEF CacheInv, CallInv, Calls, CallsOk, Linkage, TruncOk

LEMMA EvictSwapKeeps ==
  ASSUME CacheInv, TypeInv', NEW b \in Backends, EvictSwapDirty(b)
  PROVE  CacheInv'
<1>0. PICK s \in Slots : s = call[b].slot
  BY CallFacts DEF EvictSwapDirty
<1>1. /\ call[b].pc = "flush" /\ ~IoHeld(s) /\ Placed(b, call[b])
      /\ call \in [Backends -> Calls] /\ dirty \in [Slots -> BOOLEAN]
      /\ linked \subseteq Slots
  BY <1>0, CallFacts, Unchanged DEF EvictSwapDirty, CacheInv
<1>2. PICK p : /\ p = (IF dirty[s] THEN "put" ELSE "check_pin")
               /\ Moves(b, p, s, call[b].data)
               /\ UNCHANGED <<tag, data, linked, store, flush, trunc, latest, stale, early, torn, writes>>
  BY <1>0, <1>1 DEF EvictSwapDirty, Moves, Calls, history
<1>3. /\ dirty'[s] = FALSE /\ \A r \in Slots \ {s} : dirty'[r] = dirty[r]
  BY <1>0, <1>1 DEF EvictSwapDirty
<1>4. /\ \A r \in Slots \ {s} : IoHeld(r)' = IoHeld(r)
      /\ IoHeld(s)' <=> dirty[s]
  <2>1. \A r \in Slots \ {s} : IoHeld(r)' = IoHeld(r)
    BY <1>0, <1>1, <1>2 DEF IoHeld, Moves
  <2>2. IoHeld(s)' <=> dirty[s]
    BY <1>0, <1>1, <1>2 DEF IoHeld, Moves
  <2> QED
    BY <2>1, <2>2
<1>5. Linkage'
  <2>1. LinkedOnce'
    BY <1>2 DEF CacheInv, Linkage, LinkedOnce
  <2>2. SlotsOk'
    BY <1>2, <1>3, <1>4 DEF CacheInv, Linkage, SlotsOk, Kept
  <2> QED
    BY <1>2, <2>1, <2>2, TruncKept DEF Linkage
<1>6. CallsOk'
  <2>1. NoNewPin
    BY <1>0, <1>1, <1>2 DEF NoNewPin, Moves, Pinning
  <2>2. ASSUME NEW o \in Backends \ {b} PROVE Placed(o, call[o])' /\ Recent(o, call[o])' /\ Fetched(call[o])'
    <3>1. call'[o] = call[o] /\ Placed(o, call[o])
      BY <1>2 DEF Moves, CacheInv, CallsOk
    <3>2. Placed(o, call[o])'
      BY <1>2, <2>1, <3>1, OtherPlaced DEF Placed
    <3> QED
      BY <1>2, <3>1, <3>2, OtherData
  <2>3. Placed(b, call[b])'
    BY <1>0, <1>1, <1>2 DEF Moves, Placed
  <2>4. Recent(b, call[b])' /\ Fetched(call[b])'
    BY <1>1, <1>2, OwnData DEF Placing
  <2> QED
    BY <2>2, <2>3, <2>4 DEF CallsOk
<1>7. ChunksOk'
  <2> SUFFICES ASSUME NEW t \in Chunks PROVE Stored(t)'
    BY DEF ChunksOk
  <2>1. Stored(t) /\ Sound(t)' = Sound(t)
    BY <1>2 DEF CacheInv, ChunksOk, Sound, Broken
  <2>2. \A r \in linked : dirty[r] \/ IoHeld(r) => dirty'[r] \/ IoHeld(r)'
    BY <1>1, <1>3, <1>4
  <2> QED
    BY <1>2, <2>1, <2>2 DEF Stored, AtLeast
<1>8. ScanOk'
  <2> SUFFICES ASSUME NEW f \in Flushers, NEW t \in flush[f].of, flush[f].pc # "idle" PROVE Covered(f, t)'
    BY <1>2 DEF CacheInv, ScanOk, Due
  <2>1. Covered(f, t)
    BY DEF CacheInv, ScanOk, Due
  <2>2. ASSUME NEW o \in Backends, call[o].pc = "put", tag[call[o].slot] = t
        PROVE  call'[o].pc = "put" /\ tag'[call'[o].slot] = t
    BY <1>1, <1>2, <2>2 DEF Moves
  <2>3. ASSUME tag[s] = t, dirty[s]
        PROVE  call'[b].pc = "put" /\ tag'[call'[b].slot] = t
    BY <1>2, <2>3 DEF Moves
  <2> QED
    BY <1>1, <1>2, <1>3, <2>1, <2>2, <2>3 DEF Covered, PuttingBack, Sound, AtLeast, Broken
<1> QED
  BY <1>2, <1>5, <1>6, <1>7, <1>8, BoundedKept DEF CacheInv

LEMMA EvictPutKeeps ==
  ASSUME CacheInv, TypeInv', NEW b \in Backends, EvictPut(b)
  PROVE  CacheInv'
<1>0. PICK s \in Slots : s = call[b].slot
  BY CallFacts DEF EvictPut
<1>1. /\ call[b].pc = "put" /\ Placed(b, call[b]) /\ call \in [Backends -> Calls]
      /\ store' = [store EXCEPT ![tag[s]] = data[s]]
      /\ UNCHANGED <<tag, dirty, data, linked, flush, trunc, latest, stale, early, torn, writes>>
  BY <1>0, CallFacts DEF EvictPut, slotVars, history
<1>2. Moves(b, "check_pin", s, call[b].data)
  BY <1>0, <1>1 DEF EvictPut, Moves, Calls
<1>3. /\ IoHeld(s)
      /\ \A r \in Slots : IoHeld(r)' => IoHeld(r)
      /\ \A r \in Slots \ {s} : IoHeld(r)' = IoHeld(r)
  BY <1>0, <1>1, <1>2 DEF IoHeld, Moves
<1>4. /\ LinkedOnce' /\ SlotsOk' /\ ChunksOk'
      /\ \A t \in Chunks \ {tag[s]} : store'[t] = store[t]
      /\ Sound(tag[s]) => AtLeast(store'[tag[s]], latest[tag[s]])
      /\ \A t \in Chunks : Sound(t) /\ AtLeast(store[t], latest[t]) => AtLeast(store'[t], latest[t])
  BY <1>1, <1>3, PutKeeps
<1>5. Linkage'
  BY <1>1, <1>2, <1>4, TruncKept DEF Linkage
<1>6. CallsOk'
  <2>1. NoNewPin
    BY <1>0, <1>1, <1>2 DEF NoNewPin, Moves, Pinning
  <2>2. ASSUME NEW o \in Backends \ {b} PROVE Placed(o, call[o])' /\ Recent(o, call[o])' /\ Fetched(call[o])'
    <3>1. call'[o] = call[o] /\ Placed(o, call[o]) /\ (call[o].pc # "idle" => call[o].tag \in Chunks)
      BY <1>2, CallFacts DEF Moves, CacheInv, CallsOk
    <3>2. Placed(o, call[o])'
      BY <1>1, <2>1, <3>1, OtherPlaced DEF Placed
    <3> QED
      BY <1>1, <1>4, <3>1, <3>2, OtherData
  <2>3. Placed(b, call[b])'
    BY <1>0, <1>1, <1>2 DEF Moves, Placed
  <2>4. Recent(b, call[b])' /\ Fetched(call[b])'
    BY <1>1, <1>2, OwnData DEF Placing
  <2> QED
    BY <2>2, <2>3, <2>4 DEF CallsOk
<1>7. ScanOk'
  <2> SUFFICES ASSUME NEW f \in Flushers, NEW t \in flush[f].of, flush[f].pc # "idle" PROVE Covered(f, t)'
    BY <1>1 DEF CacheInv, ScanOk, Due
  <2>0. t \in Chunks
    BY DEF CacheInv, TypeInv, TypeOK, Passes
  <2>1. Covered(f, t)
    BY DEF CacheInv, ScanOk, Due
  <2>2. CASE t = tag[s]
    <3>1. ASSUME Sound(t), t \notin flush[f].excused PROVE AtLeast(store'[t], flush[f].due[t])
      <4>1. AtLeast(store'[t], latest[t]) /\ \A k \in Blocks : flush[f].due[t][k] <= latest[t][k]
        BY <1>4, <2>0, <2>2, <3>1 DEF CacheInv, ScanOk, Due
      <4>2. Numeric /\ Numeric'
        BY Numbers, NumbersNext DEF CacheInv
      <4>3. \A k \in Blocks : store'[t].ver[k] \in Nat /\ latest[t][k] \in Nat /\ flush[f].due[t][k] \in Nat
        BY <2>0, <4>2 DEF Numeric
      <4> QED
        BY <4>1, <4>3 DEF AtLeast
    <3> QED
      BY <1>1, <3>1 DEF Covered, PuttingBack, Sound, Broken
  <2>3. CASE t # tag[s]
    <3>1. ASSUME NEW o \in Backends, call[o].pc = "put", tag[call[o].slot] = t
          PROVE  call'[o].pc = "put" /\ tag'[call'[o].slot] = t
      BY <1>0, <1>1, <1>2, <2>3, <3>1 DEF Moves
    <3>2. store'[t] = store[t]
      BY <1>4, <2>0, <2>3
    <3> QED
      BY <1>1, <2>1, <3>1, <3>2 DEF Covered, PuttingBack, Sound, AtLeast, Broken
  <2> QED
    BY <2>2, <2>3
<1> QED
  BY <1>1, <1>2, <1>4, <1>5, <1>6, <1>7, BoundedKept DEF CacheInv

LEMMA EvictPutFailKeeps ==
  ASSUME CacheInv, TypeInv', NEW b \in Backends, EvictPutFail(b)
  PROVE  CacheInv'
<1>0. PICK s \in Slots : s = call[b].slot
  BY CallFacts DEF EvictPutFail
<1>1. /\ call[b].pc = "put" /\ Placed(b, call[b]) /\ call \in [Backends -> Calls]
      /\ dirty \in [Slots -> BOOLEAN] /\ linked \subseteq Slots /\ flush \in Flushing
      /\ UNCHANGED <<tag, data, linked, store, trunc, latest, stale, early, torn, writes>>
  BY <1>0, CallFacts, Unchanged DEF EvictPutFail, CacheInv
<1>e. flush' = Excuse({tag[s]}) /\ {tag[s]} \in SUBSET Tags /\ flush \in Flushing
  BY <1>0, <1>1, Unchanged DEF EvictPutFail, CacheInv
<1>2. Moves(b, "evict", 0, call[b].data)
  BY <1>0, <1>1 DEF EvictPutFail, Moves, Calls
<1>3. /\ IoHeld(s)
      /\ \A r \in Slots \ {s} : IoHeld(r)' = IoHeld(r)
      /\ dirty'[s] = TRUE /\ \A r \in Slots \ {s} : dirty'[r] = dirty[r]
  <2>1. FlushStays
    BY <1>e, ExcuseIs DEF FlushStays
  <2>2. dirty'[s] = TRUE /\ \A r \in Slots \ {s} : dirty'[r] = dirty[r]
    BY <1>0, <1>1 DEF EvictPutFail
  <2> QED
    BY <1>0, <1>1, <1>2, <2>1, <2>2 DEF IoHeld, Moves, FlushStays
<1>4. Linkage'
  <2>1. LinkedOnce'
    BY <1>1 DEF CacheInv, Linkage, LinkedOnce
  <2>2. SlotsOk'
    BY <1>1, <1>3 DEF CacheInv, Linkage, SlotsOk, Kept
  <2> QED
    BY <1>1, <1>2, <2>1, <2>2, TruncKept DEF Linkage
<1>5. CallsOk'
  <2>1. NoNewPin
    BY <1>0, <1>1, <1>2 DEF NoNewPin, Moves, Pinning
  <2>2. ASSUME NEW o \in Backends \ {b} PROVE Placed(o, call[o])' /\ Recent(o, call[o])' /\ Fetched(call[o])'
    <3>1. call'[o] = call[o] /\ Placed(o, call[o])
      BY <1>2 DEF Moves, CacheInv, CallsOk
    <3>2. Placed(o, call[o])'
      BY <1>1, <2>1, <3>1, OtherPlaced DEF Placed
    <3> QED
      BY <1>1, <3>1, <3>2, OtherData
  <2>3. Placed(b, call[b])'
    BY <1>2 DEF Moves, Placed
  <2>4. Recent(b, call[b])' /\ Fetched(call[b])'
    BY <1>1, <1>2, OwnData DEF Placing
  <2> QED
    BY <2>2, <2>3, <2>4 DEF CallsOk
<1>6. ChunksOk'
  <2> SUFFICES ASSUME NEW t \in Chunks PROVE Stored(t)'
    BY DEF ChunksOk
  <2>1. Stored(t) /\ Sound(t)' = Sound(t)
    BY <1>1 DEF CacheInv, ChunksOk, Sound, Broken
  <2>2. \A r \in linked : dirty[r] \/ IoHeld(r) => dirty'[r] \/ IoHeld(r)'
    BY <1>1, <1>3
  <2> QED
    BY <1>1, <2>1, <2>2 DEF Stored, AtLeast
<1>7. ScanOk'
  <2>e. \A f \in Flushers :
          /\ flush'[f].pc = flush[f].pc /\ flush'[f].of = flush[f].of
          /\ flush'[f].slot = flush[f].slot /\ flush'[f].due = flush[f].due
          /\ flush[f].pc # "idle" => flush'[f].excused = flush[f].excused \cup {tag[s]}
    BY <1>e, ExcuseIs
  <2> SUFFICES ASSUME NEW f \in Flushers, NEW t \in flush[f].of, flush[f].pc # "idle" PROVE Covered(f, t)'
    BY <1>1, <2>e DEF CacheInv, ScanOk, Due
  <2>0. /\ flush'[f].pc = flush[f].pc /\ flush'[f].of = flush[f].of
        /\ flush'[f].slot = flush[f].slot /\ flush'[f].due = flush[f].due
        /\ flush'[f].excused = flush[f].excused \cup {tag[s]}
    BY <2>e
  <2>1. Covered(f, t)
    BY DEF CacheInv, ScanOk, Due
  <2>2. CASE t = tag[s]
    BY <2>0, <2>2 DEF Covered, PuttingBack
  <2>3. CASE t # tag[s]
    <3>1. ASSUME NEW o \in Backends, call[o].pc = "put", tag[call[o].slot] = t
          PROVE  call'[o].pc = "put" /\ tag'[call'[o].slot] = t
      BY <1>0, <1>1, <1>2, <2>3, <3>1 DEF Moves
    <3>2. \A r \in linked : tag[r] = t => dirty'[r] = dirty[r]
      BY <1>1, <1>3, <2>3
    <3> QED
      BY <1>1, <2>0, <2>1, <2>e, <3>1, <3>2 DEF Covered, PuttingBack, Sound, AtLeast, Broken
  <2> QED
    BY <2>2, <2>3
<1> QED
  BY <1>1, <1>2, <1>4, <1>5, <1>6, <1>7, BoundedKept DEF CacheInv

\* A clean slot leaves its chain.
LEMMA UnlinkKeeps ==
  ASSUME CacheInv, TypeInv', NEW b \in Backends, CheckDirty(b), ~dirty[call[b].slot]
  PROVE  CacheInv'
<1>0. PICK s \in Slots : s = call[b].slot
  BY CallFacts DEF CheckDirty
<1>1. /\ call[b].pc = "check_dirty" /\ Placed(b, call[b]) /\ call \in [Backends -> Calls]
      /\ ~dirty[s] /\ linked' = linked \ {s} /\ linked \subseteq Slots
      /\ early' = IF IoHeld(s) THEN early \cup {tag[s]} ELSE early
      /\ UNCHANGED <<tag, dirty, data, store, flush, trunc, latest, stale, torn, writes>>
  BY <1>0, CallFacts, Unchanged DEF CheckDirty, CacheInv
<1>2. Moves(b, "fill", s, call[b].data)
  BY <1>0, <1>1 DEF CheckDirty, Moves, Calls
<1>3. \A r \in Slots : IoHeld(r)' = IoHeld(r)
  BY <1>0, <1>1, <1>2 DEF IoHeld, Moves
<1>4. \A o \in Backends \ {b} : call[o].pc \in Pinning => call[o].slot # s
  BY <1>0, <1>1 DEF Placed, Alone
<1>5. Linkage'
  <2>1. LinkedOnce'
    BY <1>1 DEF CacheInv, Linkage, LinkedOnce
  <2>2. SlotsOk'
    BY <1>1, <1>3 DEF CacheInv, Linkage, SlotsOk, Kept
  <2> QED
    BY <1>1, <1>2, <2>1, <2>2, TruncKept DEF Linkage
<1>6. CallsOk'
  <2>1. NoNewPin
    BY <1>0, <1>1, <1>2 DEF NoNewPin, Moves, Pinning
  <2>2. ASSUME NEW o \in Backends \ {b} PROVE Placed(o, call[o])' /\ Recent(o, call[o])' /\ Fetched(call[o])'
    <3>1. call'[o] = call[o] /\ Placed(o, call[o])
      BY <1>2 DEF Moves, CacheInv, CallsOk
    <3>2. Placed(o, call[o])'
      BY <1>1, <1>4, <2>1, <3>1, OtherPlaced DEF Placed, Pinning
    <3> QED
      BY <1>1, <3>1, <3>2, OtherData
  <2>3. Placed(b, call[b])'
    <3>1. Alone(b, call[b])'
      BY <1>2, <1>4 DEF Moves, Alone
    <3> QED
      BY <1>1, <1>2, <3>1 DEF Moves, Placed
  <2>4. Recent(b, call[b])' /\ Fetched(call[b])'
    BY <1>1, <1>2, OwnData DEF Placing
  <2> QED
    BY <2>2, <2>3, <2>4 DEF CallsOk
<1>7. ChunksOk'
  <2> SUFFICES ASSUME NEW t \in Chunks PROVE Stored(t)'
    BY DEF ChunksOk
  <2>1. Stored(t) /\ (Sound(t)' => Sound(t))
    BY <1>1 DEF CacheInv, ChunksOk, Sound, Broken
  <2>2. ASSUME Sound(t)', \A r \in linked' : tag[r] # t
        PROVE  AtLeast(store[t], latest[t])
    <3>1. CASE s \in linked /\ tag[s] = t
      BY <1>1, <2>1, <2>2, <3>1 DEF Stored, Sound, Broken
    <3>2. CASE ~(s \in linked /\ tag[s] = t)
      BY <1>1, <2>1, <2>2, <3>2 DEF Stored
    <3> QED
      BY <3>1, <3>2
  <2>3. \A r \in linked' : r \in linked /\ IoHeld(r)' = IoHeld(r)
    BY <1>1, <1>3
  <2> QED
    BY <1>1, <2>1, <2>2, <2>3 DEF Stored, AtLeast
<1>8. ScanOk'
  <2> SUFFICES ASSUME NEW f \in Flushers, NEW t \in flush[f].of, flush[f].pc # "idle" PROVE Covered(f, t)'
    BY <1>1 DEF CacheInv, ScanOk, Due
  <2>1. Covered(f, t) /\ (Sound(t)' => Sound(t))
    BY <1>1 DEF CacheInv, ScanOk, Due, Sound, Broken
  <2>2. ASSUME NEW o \in Backends, call[o].pc = "put", tag[call[o].slot] = t
        PROVE  call'[o].pc = "put" /\ tag'[call'[o].slot] = t
    BY <1>1, <1>2, <2>2 DEF Moves
  <2> QED
    BY <1>1, <2>1, <2>2 DEF Covered, PuttingBack, AtLeast
<1> QED
  BY <1>1, <1>2, <1>5, <1>6, <1>7, <1>8, BoundedKept DEF CacheInv

-----------------------------------------------------------------------------
(* Insertions *)

\* What a call does to the slot it has taken over concerns nobody else.
LEMMA OwnSlot ==
  ASSUME CacheInv, NEW b \in Backends, NEW s \in Slots, s = call[b].slot,
         call[b].pc \in {"fill", "link"}, call'[b].pc # "put", ~IoHeld(s),
         tag'[s] = NoTag, dirty'[s] = FALSE,
         \A r \in Slots \ {s} : tag'[r] = tag[r] /\ dirty'[r] = dirty[r] /\ data'[r] = data[r],
         UNCHANGED <<linked, store, flush, trunc, latest, stale, early, torn, writes>>,
         Ends(b) \/ \E p, r, d : Moves(b, p, r, d),
         call'[b].pc \in Pinning => call'[b].slot = s,
         Placed(b, call[b])', Recent(b, call[b])', Fetched(call[b])', TypeInv'
  PROVE  CacheInv'
<1>1. /\ s \notin linked /\ linked \subseteq Slots
      /\ \A o \in Backends \ {b} : call'[o] = call[o]
      /\ \A o \in Backends \ {b} : call[o].pc \in Pinning => call[o].slot # s
      /\ \A o \in Backends : call[o].slot \in Slots
      /\ call[b].pc \in Pinning /\ call[b].pc # "put"
  <2>1. Placed(b, call[b]) /\ call \in [Backends -> Calls] /\ linked \subseteq Slots
    BY Unchanged DEF CacheInv, CallsOk
  <2>2. \A o \in Backends : call[o].slot \in Slots
    BY <2>1 DEF Calls
  <2> QED
    BY <2>1, <2>2 DEF Placed, Alone, Pinning, Moves, Ends
<1>2. \A r \in Slots : IoHeld(r)' = IoHeld(r)
  BY <1>1 DEF IoHeld
<1>3. Linkage'
  <2>1. LinkedOnce'
    BY <1>1 DEF CacheInv, Linkage, LinkedOnce
  <2>2. SlotsOk'
    BY <1>2 DEF CacheInv, Linkage, SlotsOk, Kept
  <2> QED
    BY <2>1, <2>2, TruncKept DEF Linkage
<1>4. CallsOk'
  <2>1. NoNewPin
    BY <1>1 DEF NoNewPin
  <2>2. ASSUME NEW o \in Backends \ {b} PROVE Placed(o, call[o])' /\ Recent(o, call[o])' /\ Fetched(call[o])'
    <3>1. call'[o] = call[o] /\ Placed(o, call[o])
      BY <1>1 DEF CacheInv, CallsOk
    <3>2. Placed(o, call[o])'
      BY <1>1, <2>1, <3>1, OtherPlaced DEF Placed, Pinning
    <3> QED
      BY <3>1, <3>2, OtherData
  <2> QED
    BY <2>2 DEF CallsOk
<1>5. ChunksOk'
  <2> SUFFICES ASSUME NEW t \in Chunks PROVE Stored(t)'
    BY DEF ChunksOk
  <2>1. Stored(t) /\ Sound(t)' = Sound(t)
    BY DEF CacheInv, ChunksOk, Sound, Broken
  <2>2. \A r \in linked : IoHeld(r)' = IoHeld(r) /\ tag'[r] = tag[r] /\ dirty'[r] = dirty[r] /\ data'[r] = data[r]
    BY <1>1, <1>2
  <2> QED
    BY <2>1, <2>2 DEF Stored, AtLeast
<1>6. ScanOk'
  <2> SUFFICES ASSUME NEW f \in Flushers, NEW t \in flush[f].of, flush[f].pc # "idle" PROVE Covered(f, t)'
    BY DEF CacheInv, ScanOk, Due
  <2>1. Covered(f, t)
    BY DEF CacheInv, ScanOk, Due
  <2>2. ASSUME NEW o \in Backends, call[o].pc = "put", tag[call[o].slot] = t
        PROVE  call'[o].pc = "put" /\ tag'[call'[o].slot] = t
    BY <1>1, <2>2 DEF Pinning
  <2>3. \A h \in Flushers : flush[h].pc = "put" => tag'[flush[h].slot] = tag[flush[h].slot]
    <3>1. \A h \in Flushers : flush[h].pc = "put" => flush[h].slot \in Slots /\ flush[h].slot # s
      BY Unchanged DEF IoHeld, CacheInv, CallInv
    <3> QED
      BY <3>1
  <2>4. \A r \in linked : tag'[r] = tag[r] /\ dirty'[r] = dirty[r]
    BY <1>1
  <2> QED
    BY <2>1, <2>2, <2>3, <2>4 DEF Covered, PuttingBack, Sound, AtLeast, Broken
<1> QED
  BY <1>3, <1>4, <1>5, <1>6, BoundedKept DEF CacheInv

LEMMA FillKeeps ==
  ASSUME CacheInv, TypeInv', NEW b \in Backends, Fill(b) \/ FillFail(b)
  PROVE  CacheInv'
<1>0. PICK s \in Slots : s = call[b].slot
  BY CallFacts DEF Fill, FillFail
<1>1. /\ call[b].pc = "fill" /\ ~IoHeld(s) /\ Placed(b, call[b])
      /\ call \in [Backends -> Calls]
      /\ UNCHANGED <<linked, store, flush, trunc, latest, stale, early, torn, writes>>
  BY <1>0, CallFacts DEF Fill, FillFail, history
<1>2. /\ tag'[s] = NoTag /\ dirty'[s] = FALSE
      /\ \A r \in Slots \ {s} : tag'[r] = tag[r] /\ dirty'[r] = dirty[r] /\ data'[r] = data[r]
  BY <1>0, Unchanged DEF Fill, FillFail, CacheInv
<1>3. CASE Fill(b)
  <2>1. Moves(b, "link", s, call[b].data)
    BY <1>0, <1>1, <1>3 DEF Fill, Moves, Calls
  <2>2. Recent(b, call[b])' /\ Fetched(call[b])'
    BY <1>1, <2>1, OwnData DEF Placing
  <2>3. data'[s] = call[b].data
    BY <1>0, <1>3, Unchanged DEF Fill, CacheInv
  <2>4. Placed(b, call[b])'
    <3>1. Alone(b, call[b])'
      BY <1>0, <1>1, <2>1 DEF Moves, Placed, Alone
    <3> QED
      BY <1>0, <1>1, <1>2, <2>1, <2>3, <3>1 DEF Moves, Placed
  <2>5. call'[b].pc # "put" /\ call'[b].slot = s
    BY <2>1 DEF Moves
  <2> QED
    BY <1>0, <1>1, <1>2, <2>1, <2>2, <2>4, <2>5, OwnSlot
<1>4. CASE FillFail(b)
  <2>1. Ends(b)
    BY <1>1, <1>4 DEF FillFail, Ends
  <2>2. /\ Placed(b, call[b])' /\ Recent(b, call[b])' /\ Fetched(call[b])'
        /\ call'[b].pc # "put" /\ call'[b].pc \notin Pinning
    BY <2>1, OwnIdle DEF Pinning
  <2> QED
    BY <1>0, <1>1, <1>2, <2>1, <2>2, OwnSlot
<1> QED
  BY <1>3, <1>4

\* Another backend was first.
LEMMA LinkLostKeeps ==
  ASSUME CacheInv, TypeInv', NEW b \in Backends, Link(b), Found(call[b].tag) # {}
  PROVE  CacheInv'
<1>0. PICK s \in Slots : s = call[b].slot
  BY CallFacts DEF Link
<1>1. /\ call[b].pc = "link" /\ Placed(b, call[b]) /\ Recent(b, call[b])
      /\ call \in [Backends -> Calls] /\ tag[s] = NoTag
      /\ data' = [data EXCEPT ![s] = Zeros(NoTag)]
      /\ UNCHANGED <<tag, dirty, linked, store, flush, trunc, latest, stale, early, torn, writes>>
  BY <1>0, CallFacts DEF Link, Placed
<1>2. ~IoHeld(s) /\ ~dirty[s]
  BY <1>1, CacheAssumption DEF CacheInv, Linkage, SlotsOk, Kept
<1>3. /\ tag'[s] = NoTag /\ dirty'[s] = FALSE
      /\ \A r \in Slots \ {s} : tag'[r] = tag[r] /\ dirty'[r] = dirty[r] /\ data'[r] = data[r]
  BY <1>1, <1>2, Unchanged DEF CacheInv
<1>4. Moves(b, "lookup", 0, Zeros(NoTag))
  BY <1>0, <1>1 DEF Link, Moves, Calls
<1>5. Placed(b, call[b])' /\ Recent(b, call[b])' /\ Fetched(call[b])'
  BY <1>1, <1>4 DEF Moves, Placed, Recent, Fetched, Placing
<1>6. call'[b].pc # "put" /\ call'[b].pc \notin Pinning
  BY <1>4 DEF Moves, Pinning
<1> QED
  BY <1>0, <1>1, <1>2, <1>3, <1>4, <1>5, <1>6, OwnSlot

-----------------------------------------------------------------------------
(* Acknowledged patches *)

\* A patch is newer than what it replaces, and of blocks that no other call writes: others
\* find their floor overtaken, unless nothing was written.
LEMMA AckFacts ==
  ASSUME CacheInv, NEW b \in Backends, call[b].pc # "idle", Acknowledge(call[b])
  PROVE  /\ \A t \in Chunks, k \in Blocks :
              latest'[t][k] = IF t = call[b].tag /\ k \in call[b].blocks THEN call[b].ver ELSE latest[t][k]
         /\ \A t \in Chunks \ {call[b].tag} : latest'[t] = latest[t]
         /\ \A t \in Chunks, k \in Blocks : latest[t][k] <= latest'[t][k] /\ latest'[t][k] <= writes
         /\ call[b].blocks = {} => latest' = latest
         /\ \A o \in Backends \ {b} :
              call[o].pc # "idle" =>
                /\ \A k \in call[o].blocks : call[o].ver > latest'[call[o].tag][k]
                /\ \A k \in Blocks : call[o].floor[k] <= latest'[call[o].tag][k]
                /\ call[o].floor = latest'[call[o].tag] =>
                     latest'[call[o].tag] = latest[call[o].tag]
<1> DEFINE c == call[b]
<1>0. /\ c \in Calls /\ c.tag \in Chunks /\ Recent(b, c) /\ Numeric /\ c.ver <= writes
      /\ latest \in [Chunks -> BlockVersions] /\ call \in [Backends -> Calls] /\ c.ver \in Nat
  BY CallFacts, Unchanged, Numbers DEF CacheInv, Bounded, Numeric
<1>1. /\ latest' \in [Chunks -> BlockVersions]
      /\ \A t \in Chunks, k \in Blocks :
           latest'[t][k] = IF t = c.tag /\ k \in c.blocks THEN c.ver ELSE latest[t][k]
  BY <1>0, AcknowledgeType
<1> HIDE DEF c
<1>2. \A t \in Chunks \ {c.tag} : latest'[t] = latest[t]
  BY <1>0 DEF Acknowledge, c
<1>3. c.pc # "idle" /\ c.blocks \subseteq Blocks
  BY <1>0 DEF c, Calls
<1>4. ASSUME NEW t \in Chunks, NEW k \in Blocks
      PROVE  latest[t][k] <= latest'[t][k] /\ latest'[t][k] <= writes
  <2>1. latest[t][k] \in Nat /\ latest[t][k] <= writes /\ writes \in Nat
    BY <1>0 DEF CacheInv, Bounded, Numeric
  <2>2. t = c.tag /\ k \in c.blocks => c.ver > latest[t][k]
    BY <1>0, <1>3 DEF Recent
  <2> QED
    BY <1>0, <1>1, <2>1, <2>2
<1>5. ASSUME c.blocks = {} PROVE latest' = latest
  <2>1. latest'[c.tag] = latest[c.tag]
    <3>1. \A k \in Blocks : latest'[c.tag][k] = latest[c.tag][k]
      BY <1>0, <1>1, <1>5
    <3>2. latest'[c.tag] \in BlockVersions /\ latest[c.tag] \in BlockVersions
      BY <1>0, <1>1
    <3> QED
      BY <3>1, <3>2 DEF BlockVersions
  <2>2. \A t \in Chunks : latest'[t] = latest[t]
    BY <1>2, <2>1
  <2> QED
    BY <1>0, <1>1, <2>2
<1>6. ASSUME NEW o \in Backends \ {b}, call[o].pc # "idle"
      PROVE  /\ \A k \in call[o].blocks : call[o].ver > latest'[call[o].tag][k]
             /\ \A k \in Blocks : call[o].floor[k] <= latest'[call[o].tag][k]
             /\ call[o].floor = latest'[call[o].tag] =>
                  latest'[call[o].tag] = latest[call[o].tag]
  <2>1. /\ call[o].tag \in Chunks /\ Recent(o, call[o]) /\ call[o].blocks \subseteq Blocks
        /\ call[o].ver \in Nat /\ \A k \in Blocks : call[o].floor[k] \in Nat
    BY <1>0, <1>6, CallFacts DEF Calls, Numeric
  <2>2. ASSUME NEW k \in call[o].blocks PROVE ~(call[o].tag = c.tag /\ k \in c.blocks)
    <3> SUFFICES ASSUME call[o].tag = c.tag, k \in c.blocks PROVE FALSE
      OBVIOUS
    <3>1. <<o, call[o].tag, call[o].blocks>> \in Patches /\ <<b, c.tag, c.blocks>> \in Patches
      BY <1>0, <1>3, <1>6, <2>1, <2>2 DEF Recent
    <3>2. PICK p \in Patches : p = <<o, call[o].tag, call[o].blocks>>
      BY <3>1
    <3>3. PICK q \in Patches : q = <<b, c.tag, c.blocks>>
      BY <3>1
    <3>4. p[2] = q[2] /\ p[3] \cap q[3] # {} /\ p[1] # q[1]
      BY <2>2, <3>2, <3>3
    <3> QED
      BY <3>4, CacheAssumption
  <2>3. \A k \in call[o].blocks : call[o].ver > latest'[call[o].tag][k]
    BY <1>1, <1>6, <2>1, <2>2 DEF Recent
  <2>4. \A k \in Blocks : call[o].floor[k] <= latest[call[o].tag][k]
    BY <1>6, <2>1 DEF Recent
  <2>5. \A k \in Blocks : latest[call[o].tag][k] \in Nat /\ latest'[call[o].tag][k] \in Nat
    BY <1>0, <1>1, <2>1 DEF Numeric
  <2>6. \A k \in Blocks : call[o].floor[k] <= latest'[call[o].tag][k]
    BY <1>4, <2>1, <2>4, <2>5
  <2>7. ASSUME call[o].floor = latest'[call[o].tag]
        PROVE  latest'[call[o].tag] = latest[call[o].tag]
    <3>1. \A k \in Blocks : latest'[call[o].tag][k] = latest[call[o].tag][k]
      BY <1>4, <2>1, <2>4, <2>5, <2>7
    <3>2. latest'[call[o].tag] \in BlockVersions /\ latest[call[o].tag] \in BlockVersions
      BY <1>0, <1>1, <2>1
    <3> QED
      BY <3>1, <3>2 DEF BlockVersions
  <2> QED
    BY <2>3, <2>6, <2>7
<1> QED
  BY <1>1, <1>2, <1>4, <1>5, <1>6 DEF c

LEMMA AckOthers ==
  ASSUME CacheInv, NEW b \in Backends, call[b].pc # "idle", Acknowledge(call[b]),
         NEW o \in Backends \ {b}, call'[o] = call[o], store' = store,
         stale \subseteq stale', early \subseteq early', torn \subseteq torn'
  PROVE  Recent(o, call[o])' /\ Fetched(call[o])'
<1>1. CASE call[o].pc = "idle"
  BY <1>1 DEF Recent, Fetched, Placing
<1>2. CASE call[o].pc # "idle"
  <2>1. Recent(o, call[o]) /\ Fetched(call[o])
    BY DEF CacheInv, CallsOk
  <2>2. Recent(o, call[o])'
    BY <1>2, <2>1, AckFacts DEF Recent
  <2>3. (Current(call[o])' => Current(call[o]) /\ latest'[call[o].tag] = latest[call[o].tag])
    BY <1>2, AckFacts DEF Current, Sound, Broken
  <2>4. Sound(call[o].tag)' => Sound(call[o].tag)
    BY DEF Sound, Broken
  <2> QED
    BY <2>1, <2>2, <2>3, <2>4 DEF Fetched, AtLeast
<1> QED
  BY <1>1, <1>2

LEMMA AckRest ==
  ASSUME CacheInv, NEW b \in Backends, call[b].pc # "idle", Acknowledge(call[b]),
         \/ \E p, s, d : Moves(b, p, s, d)
         \/ Ends(b),
         UNCHANGED <<flush, trunc, writes>>
  PROVE  /\ Bounded' /\ TruncOk'
         /\ \A f \in Flushers : flush[f].pc # "idle" => Due(f)'
<1>1. \A o \in Backends : /\ call'[o].ver = call[o].ver \/ call'[o].ver = 0
                          /\ call'[o].tag = call[o].tag \/ call'[o].tag = NoTag
  BY IdleType DEF Moves, Ends, Idle
<1>2. Numeric /\ NoTag \notin trunc.of /\ trunc.of \subseteq Chunks /\ call[b].tag \notin trunc.of
  BY Numbers, CacheAssumption, CallFacts DEF CacheInv, TypeInv, TypeOK
<1>3. Bounded'
  BY <1>1, <1>2, AckFacts DEF CacheInv, Bounded, Numeric
<1>4. TruncOk'
  <2>1. \A t \in trunc.of : latest'[t] = latest[t]
    BY <1>2, AckFacts
  <2> QED
    BY <1>1, <1>2, <2>1 DEF CacheInv, Linkage, TruncOk
<1>5. ASSUME NEW f \in Flushers, NEW t \in Chunks \ flush[f].excused, NEW k \in Blocks, flush[f].pc # "idle"
      PROVE  flush[f].due[t][k] <= latest'[t][k]
  <2>1. flush[f].due[t][k] <= latest[t][k] /\ latest[t][k] <= latest'[t][k]
    BY <1>5, AckFacts DEF CacheInv, ScanOk, Due
  <2>2. flush[f].due[t][k] \in Nat /\ latest[t][k] \in Nat
    BY <1>2 DEF Numeric
  <2>3. latest'[t][k] \in Nat
    BY <1>2, <2>2, AckFacts DEF Numeric
  <2> QED
    BY <2>1, <2>2, <2>3
<1> QED
  BY <1>3, <1>4, <1>5 DEF Due

LEMMA PatchHitKeeps ==
  ASSUME CacheInv, TypeInv', NEW b \in Backends, PatchHit(b)
  PROVE  CacheInv'
<1>0. PICK s \in Slots : s = call[b].slot
  BY CallFacts DEF PatchHit
<1>1. /\ call[b].pc = "hit" /\ call[b].pc # "idle" /\ ~IoHeld(s) /\ Acknowledge(call[b])
      /\ s \in linked \/ tag[s] \in torn
      /\ tag[s] = call[b].tag /\ tag[s] \in Chunks
      /\ call \in [Backends -> Calls] /\ linked \subseteq Slots /\ data[s] \in Contents
      /\ UNCHANGED <<tag, linked, store, flush, trunc, stale, early, torn, writes>>
  BY <1>0, CallFacts, Unchanged DEF PatchHit, Placed, CacheInv
<1>2. /\ dirty'[s] = TRUE /\ \A r \in Slots \ {s} : dirty'[r] = dirty[r] /\ data'[r] = data[r]
      /\ data'[s] = Patched(call[b], data[s])
  BY <1>0, Unchanged DEF PatchHit, CacheInv
<1>3. /\ data'[s].of = data[s].of
      /\ \A k \in Blocks : data'[s].ver[k] = IF k \in call[b].blocks THEN call[b].ver ELSE data[s].ver[k]
  BY <1>1, <1>2, PatchedType
<1>4. Ends(b)
  BY <1>1 DEF PatchHit, Ends
<1>5. call'[b].pc = "idle"
  BY <1>4, OwnIdle
<1>6. \A r \in Slots : IoHeld(r)' = IoHeld(r)
  BY <1>1, <1>4, <1>5 DEF IoHeld, Ends
<1>8. /\ Bounded' /\ TruncOk'
      /\ \A f \in Flushers : flush[f].pc # "idle" => Due(f)'
  BY <1>1, <1>4, AckRest
<1>9. Linkage'
  <2>1. LinkedOnce'
    BY <1>1 DEF CacheInv, Linkage, LinkedOnce
  <2>2. SlotsOk'
    <3> SUFFICES ASSUME NEW r \in Slots PROVE Kept(r)' /\ (tag'[r] # NoTag => data'[r].of = tag'[r])
      BY DEF SlotsOk
    <3>1. Kept(r) /\ (tag[r] # NoTag => data[r].of = tag[r])
      BY DEF CacheInv, Linkage, SlotsOk
    <3>2. CASE r = s
      BY <1>1, <1>3, <3>1, <3>2 DEF Kept
    <3>3. CASE r # s
      BY <1>1, <1>2, <1>6, <3>1, <3>3 DEF Kept
    <3> QED
      BY <3>2, <3>3
  <2> QED
    BY <1>8, <2>1, <2>2 DEF Linkage
<1>10. CallsOk'
  <2>1. NoNewPin
    BY <1>4, <1>5 DEF NoNewPin, Ends, Pinning
  <2>2. ASSUME NEW o \in Backends \ {b} PROVE Placed(o, call[o])' /\ Recent(o, call[o])' /\ Fetched(call[o])'
    <3>1. call'[o] = call[o] /\ Placed(o, call[o]) /\ call[o].slot \in Slots
      BY <1>1, <1>4 DEF Ends, CacheInv, CallsOk, Calls
    <3>2. call[o].pc = "link" => data'[call[o].slot] = data[call[o].slot]
      BY <1>0, <1>1, <1>2, <3>1 DEF Placed, Alone, Pinning
    <3>3. Placed(o, call[o])'
      BY <1>1, <2>1, <3>1, <3>2, OtherPlaced DEF Placed
    <3> QED
      BY <1>1, <3>1, <3>3, AckOthers
  <2> QED
    BY <1>4, <2>2, OwnIdle DEF CallsOk
<1>11. ChunksOk'
  <2> SUFFICES ASSUME NEW t \in Chunks PROVE Stored(t)'
    BY DEF ChunksOk
  <2>1. Stored(t) /\ Sound(t)' = Sound(t)
    BY <1>1 DEF CacheInv, ChunksOk, Sound, Broken
  <2>2. CASE t = tag[s] /\ ~Sound(t)
    BY <1>1, <2>1, <2>2 DEF Stored
  <2>4. CASE t = tag[s] /\ Sound(t)
    <3>0. s \in linked
      BY <1>1, <2>4 DEF Sound, Broken
    <3>1. \A r \in linked : tag[r] = t => r = s
      BY <2>4, <3>0 DEF CacheInv, Linkage, LinkedOnce
    <3>2. ASSUME Sound(t) PROVE AtLeast(data'[s], latest'[t])
      <4>1. AtLeast(data[s], latest[t])
        BY <1>1, <2>1, <2>4, <3>0, <3>2 DEF Stored
      <4>2. call[b].ver \in Nat
        BY Numbers DEF CacheInv, Numeric
      <4>3. \A k \in Blocks : latest'[t][k] = IF k \in call[b].blocks THEN call[b].ver ELSE latest[t][k]
        BY <1>1, <2>4, AckFacts
      <4> QED
        BY <1>3, <4>1, <4>2, <4>3 DEF AtLeast
    <3> QED
      BY <1>1, <1>2, <2>1, <2>4, <3>0, <3>1, <3>2 DEF Stored
  <2>3. CASE t # tag[s]
    <3>1. latest'[t] = latest[t]
      BY <1>1, <2>3, AckFacts
    <3>2. \A r \in linked : tag[r] = t => data'[r] = data[r] /\ dirty'[r] = dirty[r] /\ IoHeld(r)' = IoHeld(r)
      BY <1>1, <1>2, <1>6, <2>3
    <3> QED
      BY <1>1, <2>1, <3>1, <3>2 DEF Stored, AtLeast
  <2> QED
    BY <2>2, <2>3, <2>4
<1>12. ScanOk'
  <2> SUFFICES ASSUME NEW f \in Flushers, NEW t \in flush[f].of, flush[f].pc # "idle" PROVE Covered(f, t)'
    BY <1>1, <1>8 DEF ScanOk, Due
  <2>1. Covered(f, t)
    BY DEF CacheInv, ScanOk, Due
  <2>2. ASSUME NEW o \in Backends, call[o].pc = "put", tag[call[o].slot] = t
        PROVE  call'[o].pc = "put" /\ tag'[call'[o].slot] = t
    BY <1>1, <1>4, <2>2 DEF Ends
  <2>3. \A r \in linked : dirty[r] => dirty'[r]
    BY <1>1, <1>2
  <2> QED
    BY <1>1, <2>1, <2>2, <2>3 DEF Covered, PuttingBack, Sound, AtLeast, Broken
<1> QED
  BY <1>8, <1>9, <1>10, <1>11, <1>12 DEF CacheInv

\* The slot enters the chain.
LEMMA LinkWonKeeps ==
  ASSUME CacheInv, TypeInv', NEW b \in Backends, Link(b), Found(call[b].tag) = {}
  PROVE  CacheInv'
<1>0. PICK s \in Slots : s = call[b].slot
  BY CallFacts DEF Link
<1>1. /\ call[b].pc = "link" /\ call[b].pc # "idle" /\ Placed(b, call[b]) /\ Recent(b, call[b]) /\ Fetched(call[b])
      /\ call \in [Backends -> Calls] /\ tag[s] = NoTag /\ data[s] = call[b].data /\ s \notin linked
      /\ call[b].tag \in Chunks /\ call[b].tag \notin trunc.of
      /\ ~BucketHeld(BucketOf[call[b].tag])
      /\ linked' = linked \cup {s} /\ linked \subseteq Slots
      /\ stale' = IF call[b].blocks # Blocks /\ call[b].floor # latest[call[b].tag]
                    THEN stale \cup {call[b].tag} ELSE stale
      /\ Acknowledge(call[b])
      /\ UNCHANGED <<data, store, flush, trunc, early, torn, writes>>
  BY <1>0, CallFacts, Unchanged DEF Link, Placed, CacheInv
<1>g. PICK g \in Chunks : g = call[b].tag
  BY <1>1
<1>2. ~IoHeld(s) /\ ~dirty[s]
  BY <1>1, CacheAssumption DEF CacheInv, Linkage, SlotsOk, Kept
<1>3. /\ tag'[s] = call[b].tag /\ dirty'[s] = (call[b].blocks # {})
      /\ \A r \in Slots \ {s} : tag'[r] = tag[r] /\ dirty'[r] = dirty[r]
  BY <1>0, <1>2, Unchanged DEF Link, CacheInv
<1>4. \A r \in linked : tag[r] # call[b].tag
  BY DEF Found
<1>5. \/ Ends(b) /\ call[b].blocks # {}
      \/ Moves(b, "got", 0, call[b].data) /\ call[b].blocks = {}
  <2>1. call' = [call EXCEPT ![b] = IF call[b].blocks = {} THEN [call[b] EXCEPT !.pc = "got", !.slot = 0] ELSE Idle]
    BY DEF Link
  <2>2. CASE call[b].blocks = {}
    <3>1. call' = [call EXCEPT ![b] = [call[b] EXCEPT !.pc = "got", !.slot = 0]]
      BY <2>1, <2>2
    <3> QED
      BY <1>1, <2>2, <3>1 DEF Moves, Calls
  <2>3. CASE call[b].blocks # {}
    BY <1>1, <2>1, <2>3 DEF Ends
  <2> QED
    BY <2>2, <2>3
<1>6. call'[b].pc \in {"idle", "got"} /\ \A o \in Backends \ {b} : call'[o] = call[o]
  BY <1>5, OwnIdle DEF Moves, Ends
<1>7. /\ \A r \in Slots : IoHeld(r)' = IoHeld(r)
      /\ \A o \in Backends \ {b} : call[o].pc \in Pinning => call[o].slot # s
  <2>1. \A r \in Slots : IoHeld(r)' = IoHeld(r)
    BY <1>1, <1>6 DEF IoHeld
  <2>2. \A o \in Backends \ {b} : call[o].pc \in Pinning => call[o].slot # s
    BY <1>0, <1>1 DEF Placed, Alone
  <2> QED
    BY <2>1, <2>2
<1>9. /\ Bounded' /\ TruncOk'
      /\ \A f \in Flushers : flush[f].pc # "idle" => Due(f)'
  BY <1>1, <1>5, AckRest
<1>10. Linkage'
  <2>1. LinkedOnce'
    <3>1. \A r \in linked : tag'[r] = tag[r] /\ tag[r] # call[b].tag
      BY <1>1, <1>3, <1>4
    <3> QED
      BY <1>1, <1>3, <3>1 DEF CacheInv, Linkage, LinkedOnce
  <2>2. SlotsOk'
    <3> SUFFICES ASSUME NEW r \in Slots PROVE Kept(r)' /\ (tag'[r] # NoTag => data'[r].of = tag'[r])
      BY DEF SlotsOk
    <3>1. Kept(r) /\ (tag[r] # NoTag => data[r].of = tag[r])
      BY DEF CacheInv, Linkage, SlotsOk
    <3>2. CASE r = s
      <4>1. data'[s].of = call[b].tag
        BY <1>1 DEF Fetched, Placing
      <4> QED
        BY <1>1, <1>3, <3>2, <4>1 DEF Kept
    <3>3. CASE r # s
      BY <1>1, <1>3, <1>7, <3>1, <3>3 DEF Kept
    <3> QED
      BY <3>2, <3>3
  <2> QED
    BY <1>9, <2>1, <2>2 DEF Linkage
<1>11. ASSUME Sound(g)'
       PROVE  /\ AtLeast(data[s], latest'[call[b].tag])
              /\ call[b].blocks = {} => call[b].floor = latest[call[b].tag] /\ AtLeast(call[b].data, call[b].floor)
  <2>1. Sound(call[b].tag) /\ (call[b].blocks = Blocks \/ call[b].floor = latest[call[b].tag])
    BY <1>1, <1>g, <1>11 DEF Sound, Broken
  <2>2. \A k \in Blocks : latest'[call[b].tag][k] = IF k \in call[b].blocks THEN call[b].ver ELSE latest[call[b].tag][k]
    BY <1>1, AckFacts
  <2>3. /\ \A k \in call[b].blocks : call[b].data.ver[k] = call[b].ver
        /\ Current(call[b]) => \A k \in Blocks \ call[b].blocks : call[b].data.ver[k] >= latest[call[b].tag][k]
    BY <1>1 DEF Fetched, Placing
  <2>4. call[b].ver \in Nat
    BY Numbers DEF CacheInv, Numeric
  <2>5. AtLeast(data[s], latest'[call[b].tag])
    BY <1>1, <2>1, <2>2, <2>3, <2>4 DEF AtLeast, Current
  <2>6. ASSUME call[b].blocks = {}
        PROVE  call[b].floor = latest[call[b].tag] /\ AtLeast(call[b].data, call[b].floor)
    <3>1. call[b].floor = latest[call[b].tag]
      BY <2>1, <2>6, CacheAssumption
    <3> QED
      BY <2>1, <2>3, <2>6, <3>1 DEF AtLeast, Current
  <2> QED
    BY <2>5, <2>6
<1>12. CallsOk'
  <2>1. NoNewPin
    BY <1>6 DEF NoNewPin, Pinning
  <2>2. ASSUME NEW o \in Backends \ {b} PROVE Placed(o, call[o])' /\ Recent(o, call[o])' /\ Fetched(call[o])'
    <3>1. call'[o] = call[o] /\ Placed(o, call[o]) /\ call[o].slot \in Slots
      BY <1>1, <1>6 DEF CacheInv, CallsOk, Calls
    <3>2. call[o].pc \in Pinning => tag'[call[o].slot] = tag[call[o].slot] /\ call[o].slot # s
      BY <1>3, <1>7, <3>1
    <3>3. Placed(o, call[o])'
      BY <1>1, <2>1, <3>1, <3>2, OtherPlaced DEF Placed, Pinning
    <3>4. Recent(o, call[o])' /\ Fetched(call[o])'
      BY <1>1, <3>1, AckOthers
    <3> QED
      BY <3>3, <3>4
  <2>3. ASSUME Moves(b, "got", 0, call[b].data), call[b].blocks = {}
        PROVE  Placed(b, call[b])' /\ Recent(b, call[b])' /\ Fetched(call[b])'
    <3>1. latest' = latest
      BY <1>1, <2>3, AckFacts
    <3>2. Placed(b, call[b])' /\ Recent(b, call[b])'
      BY <1>1, <2>3, <3>1 DEF Moves, Placed, Recent
    <3>3. call[b].data.of = call[b].tag
      BY <1>1 DEF Fetched, Placing
    <3>5. Fetched(call[b])'
      <4>1. call'[b].pc = "got" /\ call'[b].data = call[b].data /\ call'[b].tag = call[b].tag /\ call'[b].floor = call[b].floor
        BY <2>3 DEF Moves
      <4>2. Sound(g)' => AtLeast(call'[b].data, call'[b].floor)
        BY <1>11, <2>3, <4>1
      <4>3. call'[b].tag = g
        BY <1>g, <4>1
      <4>4. Sound(call[b].tag)' => Sound(g)'
        BY <4>3 DEF Sound, Broken
      <4>5. AtLeast(call'[b].data, call'[b].floor) => AtLeast(call[b].data, call[b].floor)'
        BY DEF AtLeast
      <4> QED
        BY <3>3, <4>1, <4>2, <4>4, <4>5 DEF Fetched, Placing
    <3> QED
      BY <3>2, <3>5
  <2> QED
    BY <1>5, <2>2, <2>3, OwnIdle DEF CallsOk
<1>13. ChunksOk'
  <2> SUFFICES ASSUME NEW t \in Chunks PROVE Stored(t)'
    BY DEF ChunksOk
  <2>1. Stored(t) /\ (Sound(t)' => Sound(t))
    BY <1>1 DEF CacheInv, ChunksOk, Sound, Broken
  <2>2. CASE t = call[b].tag
    <3>1. \A r \in linked' : tag'[r] = t <=> r = s
      BY <1>1, <1>3, <1>4, <2>2
    <3>2. ASSUME Sound(t)' PROVE AtLeast(data'[s], latest'[t])
      BY <1>1, <1>g, <1>11, <2>2, <3>2
    <3>3. ASSUME Sound(t)', ~dirty'[s] PROVE AtLeast(store'[t], latest'[t])
      <4>1. latest' = latest
        BY <1>1, <1>3, <3>3, AckFacts
      <4>2. AtLeast(store[t], latest[t])
        BY <1>4, <2>1, <2>2, <3>3 DEF Stored
      <4> QED
        BY <1>1, <4>1, <4>2
    <3>4. s \in linked'
      BY <1>1
    <3> QED
      BY <1>1, <2>1, <3>1, <3>2, <3>3, <3>4 DEF Stored
  <2>3. CASE t # call[b].tag
    <3>1. latest'[t] = latest[t]
      BY <1>1, <2>3, AckFacts
    <3>2. \A r \in linked' : tag'[r] = t =>
             r \in linked /\ tag[r] = t /\ dirty'[r] = dirty[r] /\ IoHeld(r)' = IoHeld(r)
      BY <1>1, <1>3, <1>7, <2>3
    <3>3. \A r \in linked : r \in linked' /\ tag'[r] = tag[r]
      BY <1>1, <1>3
    <3> QED
      BY <1>1, <2>1, <3>1, <3>2, <3>3 DEF Stored, AtLeast
  <2> QED
    BY <2>2, <2>3
<1>14. ScanOk'
  <2> SUFFICES ASSUME NEW f \in Flushers, NEW t \in flush[f].of, flush[f].pc # "idle" PROVE Covered(f, t)'
    BY <1>1, <1>9 DEF ScanOk, Due
  <2>1. Covered(f, t) /\ (Sound(t)' => Sound(t))
    BY <1>1 DEF CacheInv, ScanOk, Due, Sound, Broken
  <2>2. ASSUME NEW o \in Backends, call[o].pc = "put", tag[call[o].slot] = t
        PROVE  call'[o].pc = "put" /\ tag'[call'[o].slot] = t
    <3>1. o # b /\ call[o].slot \in Slots
      BY <1>1, <2>2 DEF Calls
    <3> QED
      BY <1>3, <1>6, <1>7, <2>2, <3>1 DEF Pinning
  <2>3. \A r \in linked : r \in linked' /\ dirty'[r] = dirty[r] /\ tag'[r] = tag[r]
    BY <1>1, <1>3
  <2>4. \A h \in Flushers : flush[h].pc = "put" => tag'[flush[h].slot] = tag[flush[h].slot]
    <3>1. \A h \in Flushers : flush[h].pc = "put" => flush[h].slot \in Slots /\ flush[h].slot # s
      BY <1>2, Unchanged DEF IoHeld, CacheInv, CallInv
    <3> QED
      BY <1>3, <3>1
  <2> QED
    BY <1>1, <2>1, <2>2, <2>3, <2>4 DEF Covered, PuttingBack, AtLeast
<1> QED
  BY <1>9, <1>10, <1>12, <1>13, <1>14 DEF CacheInv

-----------------------------------------------------------------------------
(* The flush *)

FlushGoes(f, p, s) ==
  /\ Others(f)
  /\ flush'[f].pc = p /\ flush'[f].slot = s
  /\ flush'[f].of = flush[f].of /\ flush'[f].due = flush[f].due
  /\ flush'[f].excused = flush[f].excused

LEMMA FlushGoing ==
  ASSUME CacheInv, NEW f \in Flushers
  PROVE  /\ \A p \in {"pin", "recheck", "flush", "put"} :
              FlushGoesTo(f, p) => FlushGoes(f, p, flush[f].slot)
         /\ NextSlot(f) /\ flush[f].slot \in Slots => FlushGoes(f, "scan", flush[f].slot + 1)
BY PassMoves, Unchanged DEF CacheInv, FlushGoes

\* A flush changes the store and dirty flags only.
LEMMA FlushFrame ==
  ASSUME CacheInv, UNCHANGED <<call, tag, data, linked, trunc, latest, stale, early, torn, writes>>,
         \A t \in Chunks : Sound(t) /\ AtLeast(store[t], latest[t]) => AtLeast(store'[t], latest[t])
  PROVE  LinkedOnce' /\ TruncOk' /\ CallsOk' /\ Bounded'
<1>1. LinkedOnce' /\ TruncOk' /\ Bounded'
  BY DEF CacheInv, Linkage, LinkedOnce, TruncOk, Bounded
<1>2. CallsOk'
  <2> SUFFICES ASSUME NEW o \in Backends PROVE Placed(o, call[o])' /\ Recent(o, call[o])' /\ Fetched(call[o])'
    BY DEF CallsOk
  <2>1. Placed(o, call[o]) /\ (call[o].pc # "idle" => call[o].tag \in Chunks)
    BY CallFacts DEF CacheInv, CallsOk
  <2>2. Placed(o, call[o])'
    BY <2>1, OtherPlaced DEF Placed, NoNewPin
  <2> QED
    BY <2>1, <2>2, OtherData
<1> QED
  BY <1>1, <1>2

\* Steps that change neither.
LEMMA FlushQuiet ==
  ASSUME CacheInv, TypeInv', UNCHANGED <<call, tag, dirty, data, linked, store, trunc, latest, stale, early, torn, writes>>,
         NEW f \in Flushers, Others(f), flush[f].pc # "put", flush'[f].pc # "put",
         flush'[f].pc # "idle" => Due(f)' /\ \A t \in flush'[f].of : Covered(f, t)'
  PROVE  CacheInv'
<1>0. \A g \in Flushers : flush'[g].pc = "put" <=> flush[g].pc = "put"
  BY DEF Others
<1>00. \A g \in Flushers : flush[g].pc = "put" => flush'[g].slot = flush[g].slot
  BY DEF Others
<1>1. \A r \in Slots : IoHeld(r)' = IoHeld(r)
  BY <1>0, <1>00 DEF IoHeld
<1>5. ScanOk'
  <2> SUFFICES ASSUME NEW g \in Flushers \ {f}, flush[g].pc # "idle"
               PROVE  Due(g)' /\ \A t \in flush[g].of : Covered(g, t)'
    BY DEF ScanOk, Others
  <2>1. flush'[g] = flush[g] /\ Due(g)'
    BY DEF Others, CacheInv, ScanOk, Due
  <2>2. ASSUME NEW t \in flush[g].of PROVE Covered(g, t)'
    <3>1. Covered(g, t) /\ Sound(t)' = Sound(t)
      BY DEF CacheInv, ScanOk, Sound, Broken
    <3>2. PuttingBack(t) => PuttingBack(t)'
      BY <1>0, <1>00 DEF PuttingBack
    <3> QED
      BY <2>1, <3>1, <3>2 DEF Covered, AtLeast
  <2> QED
    BY <2>1, <2>2
<1>2. LinkedOnce' /\ TruncOk' /\ CallsOk' /\ Bounded'
  BY FlushFrame
<1>3. SlotsOk'
  BY <1>1 DEF CacheInv, Linkage, SlotsOk, Kept
<1>4. ChunksOk'
  <2>1. linked \subseteq Slots
    BY Unchanged DEF CacheInv
  <2> QED
    BY <1>1, <2>1 DEF CacheInv, ChunksOk, Stored, Sound, AtLeast, Broken
<1> QED
  BY <1>2, <1>3, <1>4, <1>5 DEF CacheInv, Linkage

LEMMA FlushStarts ==
  ASSUME CacheInv, TypeInv', NEW f \in Flushers, NEW w \in Flushes, FlushDirtyChunks(f, w[2])
  PROVE  CacheInv'
<1>0. flush \in Flushing /\ flush' = [flush EXCEPT ![f] = [NoFlush EXCEPT !.pc = "scan", !.of = w[2], !.due = latest]]
  BY Unchanged DEF FlushDirtyChunks, CacheInv
<1>1. /\ flush[f].pc = "idle" /\ flush'[f].pc = "scan" /\ flush'[f].of = w[2] /\ flush'[f].slot = 0
      /\ flush'[f].due = latest /\ flush'[f].excused = {} /\ Others(f)
      /\ UNCHANGED <<call, tag, dirty, data, linked, store, trunc, latest, stale, early, torn, writes>>
  BY <1>0 DEF FlushDirtyChunks, NoFlush, slotVars, history, Flushing, Others
<1>2. w[2] \subseteq Chunks /\ Numeric /\ linked \subseteq Slots /\ Slots \subseteq Nat
  BY CacheAssumption, Numbers, Unchanged, Basics DEF CacheInv
<1>3. Due(f)'
  BY <1>1, <1>2 DEF Numeric, Due
<1>4. ASSUME NEW t \in w[2] PROVE Covered(f, t)'
  <2>1. Stored(t) /\ t \in Chunks
    BY <1>2 DEF CacheInv, ChunksOk
  <2>2. CASE ~Sound(t)
    BY <1>1, <2>2 DEF Covered, Sound, Broken
  <2>3. CASE AtLeast(store[t], latest[t])
    BY <1>1, <2>3 DEF Covered, AtLeast
  <2>4. ASSUME NEW r \in linked, tag[r] = t, dirty[r] PROVE Covered(f, t)'
    <3>1. r \in Nat /\ flush'[f].slot = 0
      BY <1>1, <1>2, <2>4
    <3>2. flush'[f].slot <= r
      BY <3>1
    <3> QED
      BY <1>1, <2>4, <3>2 DEF Covered
  <2>5. ASSUME NEW r \in linked, tag[r] = t, IoHeld(r) PROVE Covered(f, t)'
    <3>1. PuttingBack(t)'
      <4>1. ASSUME NEW o \in Backends, call[o].pc = "put", call[o].slot = r PROVE PuttingBack(t)'
        BY <1>1, <2>5, <4>1 DEF PuttingBack
      <4>2. ASSUME NEW g \in Flushers, flush[g].pc = "put", flush[g].slot = r PROVE PuttingBack(t)'
        <5>1. flush'[g] = flush[g]
          BY <1>1, <4>2 DEF Others
        <5> QED
          BY <1>1, <2>5, <4>2, <5>1 DEF PuttingBack
      <4> QED
        BY <2>5, <4>1, <4>2 DEF IoHeld
    <3> QED
      BY <3>1 DEF Covered
  <2>6. \/ ~Sound(t) \/ AtLeast(store[t], latest[t])
        \/ \E r \in linked : tag[r] = t /\ (dirty[r] \/ IoHeld(r))
    BY <2>1 DEF Stored
  <2> QED
    BY <2>2, <2>3, <2>4, <2>5, <2>6
<1> QED
  BY <1>1, <1>3, <1>4, FlushQuiet

\* A flush may leave a slot behind that is clean or that it was not asked for.
LEMMA FlushPasses ==
  ASSUME CacheInv, NEW f \in Flushers, NEW s \in Slots, s = flush[f].slot, flush[f].pc \notin {"idle", "put"},
         FlushGoes(f, "scan", s + 1), ~(dirty'[s] /\ tag[s] \in flush[f].of),
         UNCHANGED <<call, tag, dirty, linked, store, latest, stale, early, torn>>
  PROVE  Due(f)' /\ \A t \in flush'[f].of : Covered(f, t)'
<1>1. linked \subseteq Slots /\ Slots \subseteq Nat
  BY Unchanged, Basics DEF CacheInv
<1>0. Due(f)'
  BY DEF CacheInv, ScanOk, Due, FlushGoes
<1> SUFFICES ASSUME NEW t \in flush[f].of PROVE Covered(f, t)'
  BY <1>0 DEF FlushGoes
<1>2. Covered(f, t) /\ Sound(t)' = Sound(t)
  BY DEF CacheInv, ScanOk, Sound, Broken
<1>3. ASSUME NEW r \in linked, tag[r] = t, dirty[r], flush[f].slot <= r
      PROVE  flush'[f].slot <= r
  BY <1>1, <1>3 DEF FlushGoes
<1>4. PuttingBack(t) => PuttingBack(t)'
  BY DEF PuttingBack, FlushGoes, Others
<1> QED
  BY <1>2, <1>3, <1>4 DEF Covered, AtLeast, FlushGoes

LEMMA FlushMoves ==
  ASSUME CacheInv, TypeInv', NEW f \in Flushers, FlushScan(f) \/ FlushPin(f) \/ FlushRecheck(f) \/ FlushDone(f)
  PROVE  CacheInv'
<1>0. flush \in Flushing /\ (flush[f].pc \in {"pin", "recheck"} => flush[f].slot \in Slots)
      /\ dirty \in [Slots -> BOOLEAN]
  BY Unchanged DEF CacheInv, CallInv
<1>1. UNCHANGED <<call, tag, dirty, data, linked, store, trunc, latest, stale, early, torn, writes>>
  BY DEF FlushScan, FlushPin, FlushRecheck, FlushDone, slotVars, history
<1>2. ASSUME NEW p \in {"pin", "recheck", "flush"}, FlushGoes(f, p, flush[f].slot), flush[f].pc \notin {"idle", "put"}
      PROVE  CacheInv'
  <2>1. Due(f)' /\ \A t \in flush'[f].of : Covered(f, t)'
    <3>0. Due(f)'
      BY <1>1, <1>2 DEF CacheInv, ScanOk, Due, FlushGoes
    <3> SUFFICES ASSUME NEW t \in flush[f].of PROVE Covered(f, t)'
      BY <1>2, <3>0 DEF FlushGoes
    <3>1. Covered(f, t) /\ Sound(t)' = Sound(t)
      BY <1>1, <1>2 DEF CacheInv, ScanOk, Sound, Broken, Broken
    <3>2. PuttingBack(t) => PuttingBack(t)'
      BY <1>1, <1>2 DEF PuttingBack, FlushGoes, Others
    <3> QED
      BY <1>1, <1>2, <3>1, <3>2 DEF Covered, AtLeast, FlushGoes
  <2>2. flush'[f].pc # "put" /\ flush[f].pc # "put" /\ Others(f)
    BY <1>2 DEF FlushGoes
  <2> QED
    BY <1>1, <2>1, <2>2, FlushQuiet
<1>3. ASSUME NEW s \in Slots, s = flush[f].slot, FlushGoes(f, "scan", s + 1), flush[f].pc \notin {"idle", "put"},
             ~(dirty'[s] /\ tag[s] \in flush[f].of)
      PROVE  CacheInv'
  <2>1. Due(f)' /\ \A t \in flush'[f].of : Covered(f, t)'
    BY <1>1, <1>3, FlushPasses
  <2>2. flush'[f].pc # "put" /\ flush[f].pc # "put" /\ Others(f)
    BY <1>3 DEF FlushGoes
  <2> QED
    BY <1>1, <2>1, <2>2, FlushQuiet
<1>4. CASE FlushScan(f)
  <2>1. PICK s \in Slots : s = flush[f].slot
    <3>1. flush[f].slot \in 0..NumSlots /\ flush[f].slot < NumSlots
      BY <1>0, <1>4 DEF FlushScan, Flushing, Passes
    <3> QED
      BY <3>1, CacheAssumption DEF Slots
  <2>2. flush[f].pc = "scan"
    BY <1>4 DEF FlushScan
  <2>3. CASE dirty[s]
    <3>1. FlushGoes(f, "pin", flush[f].slot)
      BY <1>4, <2>1, <2>3, FlushGoing DEF FlushScan
    <3> QED
      BY <1>2, <2>2, <3>1
  <2>4. CASE ~dirty[s]
    <3>1. FlushGoes(f, "scan", s + 1)
      BY <1>4, <2>1, <2>4, FlushGoing DEF FlushScan
    <3> QED
      BY <1>1, <1>3, <2>1, <2>2, <2>4, <3>1
  <2> QED
    BY <2>3, <2>4
<1>5. CASE FlushPin(f)
  <2>1. FlushGoes(f, "recheck", flush[f].slot) /\ flush[f].pc = "pin"
    BY <1>5, FlushGoing DEF FlushPin
  <2> QED
    BY <1>2, <2>1
<1>6. CASE FlushRecheck(f)
  <2>1. PICK s \in Slots : s = flush[f].slot
    BY <1>0, <1>6 DEF FlushRecheck
  <2>2. flush[f].pc = "recheck"
    BY <1>6 DEF FlushRecheck
  <2>3. CASE dirty[s] /\ tag[s] \in flush[f].of
    <3>1. FlushGoes(f, "flush", flush[f].slot)
      BY <1>6, <2>1, <2>3, FlushGoing DEF FlushRecheck
    <3> QED
      BY <1>2, <2>2, <3>1
  <2>4. CASE ~(dirty[s] /\ tag[s] \in flush[f].of)
    <3>1. FlushGoes(f, "scan", s + 1)
      BY <1>6, <2>1, <2>4, FlushGoing DEF FlushRecheck
    <3> QED
      BY <1>1, <1>3, <2>1, <2>2, <2>4, <3>1
  <2> QED
    BY <2>3, <2>4
<1>7. CASE FlushDone(f)
  <2>1. flush[f].pc = "scan" /\ flush'[f].pc = "idle" /\ Others(f)
    BY <1>0, <1>7, PassEnds DEF FlushDone
  <2> QED
    BY <1>1, <2>1, FlushQuiet
<1> QED
  BY <1>4, <1>5, <1>6, <1>7

LEMMA FlushSwapKeeps ==
  ASSUME CacheInv, TypeInv', NEW f \in Flushers, FlushSwapDirty(f)
  PROVE  CacheInv'
<1>0. PICK s \in Slots : s = flush[f].slot
  BY Unchanged DEF CacheInv, CallInv, FlushSwapDirty
<1>1. /\ flush[f].pc = "flush" /\ ~IoHeld(s) /\ flush \in Flushing /\ dirty \in [Slots -> BOOLEAN]
      /\ linked \subseteq Slots
      /\ UNCHANGED <<call, tag, data, linked, store, trunc, latest, stale, early, torn, writes>>
  BY <1>0, Unchanged DEF CacheInv, FlushSwapDirty, history
<1>2. dirty'[s] = FALSE /\ \A r \in Slots \ {s} : dirty'[r] = dirty[r]
  BY <1>0, <1>1 DEF FlushSwapDirty
<1>3. CASE ~dirty[s]
  <2>1. dirty' = dirty
    <3>1. dirty' \in [Slots -> BOOLEAN]
      BY DEF TypeInv, TypeOK
    <3> QED
      BY <1>1, <1>2, <1>3, <3>1
  <2>2. FlushGoes(f, "scan", s + 1)
    BY <1>0, <1>3, FlushGoing DEF FlushSwapDirty
  <2>3. Due(f)' /\ \A t \in flush'[f].of : Covered(f, t)'
    BY <1>0, <1>1, <1>2, <2>1, <2>2, FlushPasses
  <2>4. flush[f].pc # "put" /\ flush'[f].pc # "put" /\ Others(f)
    BY <1>1, <2>2 DEF FlushGoes
  <2> QED
    BY <1>1, <2>1, <2>3, <2>4, FlushQuiet
<1>4. CASE dirty[s]
  <2>1. FlushGoes(f, "put", s)
    BY <1>0, <1>4, FlushGoing DEF FlushSwapDirty
  <2>2. IoHeld(s)' /\ \A r \in Slots \ {s} : IoHeld(r)' = IoHeld(r)
    BY <1>0, <1>1, <2>1 DEF IoHeld, FlushGoes, Others
  <2>3. LinkedOnce' /\ TruncOk' /\ CallsOk' /\ Bounded'
    BY <1>1, FlushFrame
  <2>4. SlotsOk'
    BY <1>1, <1>2, <1>4, <2>2 DEF CacheInv, Linkage, SlotsOk, Kept
  <2>5. ChunksOk'
    <3> SUFFICES ASSUME NEW t \in Chunks PROVE Stored(t)'
      BY DEF ChunksOk
    <3>1. Stored(t) /\ Sound(t)' = Sound(t)
      BY <1>1 DEF CacheInv, ChunksOk, Sound, Broken
    <3>2. \A r \in linked : dirty[r] \/ IoHeld(r) => dirty'[r] \/ IoHeld(r)'
      BY <1>1, <1>2, <2>2
    <3> QED
      BY <1>1, <3>1, <3>2 DEF Stored, AtLeast
  <2>6. ScanOk'
    <3>1. \A g \in Flushers :
            /\ flush[g].pc # "idle" <=> flush'[g].pc # "idle"
            /\ flush'[g].of = flush[g].of /\ flush'[g].due = flush[g].due
            /\ flush'[g].slot = flush[g].slot /\ flush'[g].excused = flush[g].excused
      BY <1>0, <1>1, <2>1 DEF FlushGoes, Others
    <3> SUFFICES ASSUME NEW g \in Flushers, flush[g].pc # "idle", NEW t \in flush[g].of PROVE Covered(g, t)'
      BY <1>1, <3>1 DEF CacheInv, ScanOk, Due
    <3>2. Covered(g, t) /\ Sound(t)' = Sound(t)
      BY <1>1 DEF CacheInv, ScanOk, Sound, Broken
    <3>3. tag[s] = t => PuttingBack(t)'
      BY <1>1, <2>1 DEF FlushGoes, PuttingBack
    <3>4. PuttingBack(t) => PuttingBack(t)'
      <4>1. ASSUME NEW h \in Flushers, flush[h].pc = "put", tag[flush[h].slot] = t PROVE PuttingBack(t)'
        <5>1. flush'[h] = flush[h]
          BY <1>1, <2>1, <4>1 DEF FlushGoes, Others
        <5> QED
          BY <1>1, <4>1, <5>1 DEF PuttingBack
      <4> QED
        BY <1>1, <4>1 DEF PuttingBack
    <3>5. \A r \in linked \ {s} : dirty'[r] = dirty[r]
      BY <1>1, <1>2
    <3> QED
      BY <1>1, <3>1, <3>2, <3>3, <3>4, <3>5 DEF Covered, AtLeast
  <2> QED
    BY <2>3, <2>4, <2>5, <2>6 DEF CacheInv, Linkage
<1> QED
  BY <1>3, <1>4

LEMMA FlushPutKeeps ==
  ASSUME CacheInv, TypeInv', NEW f \in Flushers, FlushPut(f)
  PROVE  CacheInv'
<1>0. PICK s \in Slots : s = flush[f].slot
  BY Unchanged DEF CacheInv, CallInv, FlushPut
<1>1. /\ flush[f].pc = "put" /\ flush \in Flushing
      /\ store' = [store EXCEPT ![tag[s]] = data[s]]
      /\ UNCHANGED <<call, tag, dirty, data, linked, trunc, latest, stale, early, torn, writes>>
  BY <1>0, Unchanged DEF CacheInv, FlushPut, history
<1>2. FlushGoes(f, "scan", s + 1)
  BY <1>0, FlushGoing DEF FlushPut
<1>3. /\ IoHeld(s)
      /\ \A r \in Slots : IoHeld(r)' => IoHeld(r)
      /\ \A r \in Slots \ {s} : IoHeld(r)' = IoHeld(r)
  BY <1>0, <1>1, <1>2 DEF IoHeld, FlushGoes, Others
<1>4. /\ LinkedOnce' /\ SlotsOk' /\ ChunksOk'
      /\ \A t \in Chunks \ {tag[s]} : store'[t] = store[t]
      /\ Sound(tag[s]) => AtLeast(store'[tag[s]], latest[tag[s]])
      /\ \A t \in Chunks : Sound(t) /\ AtLeast(store[t], latest[t]) => AtLeast(store'[t], latest[t])
  BY <1>1, <1>3, PutKeeps
<1>5. TruncOk' /\ CallsOk' /\ Bounded'
  BY <1>1, <1>4, FlushFrame
<1>6. ScanOk'
  <2>e. \A g \in Flushers :
          /\ flush[g].pc # "idle" <=> flush'[g].pc # "idle"
          /\ flush'[g].of = flush[g].of /\ flush'[g].due = flush[g].due
          /\ flush'[g].excused = flush[g].excused
          /\ flush'[g].slot = flush[g].slot \/ (flush[g].slot = s /\ flush'[g].slot = s + 1)
    <3> SUFFICES ASSUME NEW g \in Flushers
                 PROVE  /\ flush[g].pc # "idle" <=> flush'[g].pc # "idle"
                        /\ flush'[g].of = flush[g].of /\ flush'[g].due = flush[g].due
                        /\ flush'[g].excused = flush[g].excused
                        /\ flush'[g].slot = flush[g].slot \/ (flush[g].slot = s /\ flush'[g].slot = s + 1)
      OBVIOUS
    <3>1. CASE g = f
      BY <1>0, <1>1, <1>2, <3>1 DEF FlushGoes
    <3>2. CASE g # f
      <4>1. flush'[g] = flush[g]
        BY <1>2, <3>2 DEF FlushGoes, Others
      <4> QED
        BY <4>1
    <3> QED
      BY <3>1, <3>2
  <2> SUFFICES ASSUME NEW g \in Flushers, flush[g].pc # "idle", NEW t \in flush[g].of PROVE Covered(g, t)'
    BY <1>1, <2>e DEF CacheInv, ScanOk, Due
  <2>0. t \in Chunks /\ linked \subseteq Slots /\ Slots \subseteq Nat
    BY Basics DEF CacheInv, TypeInv, TypeOK, Passes
  <2>1. Covered(g, t) /\ Sound(t)' = Sound(t) /\ Due(g)
    BY <1>1 DEF CacheInv, ScanOk, Sound, Broken
  <2>2. CASE t = tag[s]
    <3>1. ASSUME Sound(t), t \notin flush[g].excused PROVE AtLeast(store'[t], flush[g].due[t])
      <4>1. AtLeast(store'[t], latest[t]) /\ \A k \in Blocks : flush[g].due[t][k] <= latest[t][k]
        BY <1>4, <2>0, <2>1, <2>2, <3>1 DEF Due
      <4>2. Numeric /\ Numeric'
        BY Numbers, NumbersNext DEF CacheInv
      <4>3. \A k \in Blocks : store'[t].ver[k] \in Nat /\ latest[t][k] \in Nat /\ flush[g].due[t][k] \in Nat
        BY <2>0, <4>2 DEF Numeric
      <4> QED
        BY <4>1, <4>3 DEF AtLeast
    <3> QED
      BY <2>1, <2>e, <3>1 DEF Covered, AtLeast
  <2>3. CASE t # tag[s]
    <3>1. store'[t] = store[t]
      BY <1>4, <2>0, <2>3
    <3>2. ASSUME NEW r \in linked, tag[r] = t, flush[g].slot <= r PROVE flush'[g].slot <= r
      BY <2>0, <2>3, <2>e, <3>2
    <3>3. PuttingBack(t) => PuttingBack(t)'
      <4>1. ASSUME NEW h \in Flushers, flush[h].pc = "put", tag[flush[h].slot] = t PROVE PuttingBack(t)'
        <5>1. flush'[h] = flush[h]
          BY <1>0, <1>2, <2>3, <4>1 DEF FlushGoes, Others
        <5> QED
          BY <1>1, <4>1, <5>1 DEF PuttingBack
      <4> QED
        BY <1>1, <4>1 DEF PuttingBack
    <3> QED
      BY <1>1, <2>1, <2>e, <3>1, <3>2, <3>3 DEF Covered, AtLeast
  <2> QED
    BY <2>2, <2>3
<1> QED
  BY <1>4, <1>5, <1>6 DEF CacheInv, Linkage

LEMMA FlushPutFailKeeps ==
  ASSUME CacheInv, TypeInv', NEW f \in Flushers, FlushPutFail(f)
  PROVE  CacheInv'
<1>0. PICK s \in Slots : s = flush[f].slot
  BY Unchanged DEF CacheInv, CallInv, FlushPutFail
<1>e. PICK e \in Flushing : e = Excuse({tag[s]})
  <2>1. {tag[s]} \in SUBSET Tags /\ flush \in Flushing
    BY Unchanged DEF CacheInv
  <2> QED
    BY <2>1, ExcuseIs
<1>f. /\ flush' = [e EXCEPT ![f] = NoFlush]
      /\ \A g \in Flushers :
           /\ e[g].pc = flush[g].pc /\ e[g].slot = flush[g].slot
           /\ e[g].of = flush[g].of /\ e[g].due = flush[g].due
           /\ flush[g].pc # "idle" => e[g].excused = flush[g].excused \cup {tag[s]}
  <2>1. {tag[s]} \in SUBSET Tags /\ flush \in Flushing
    BY Unchanged DEF CacheInv
  <2> QED
    BY <1>0, <1>e, <2>1, ExcuseIs DEF FlushPutFail
<1>g. /\ flush'[f].pc = "idle"
      /\ \A g \in Flushers \ {f} :
           /\ flush'[g].pc = flush[g].pc /\ flush'[g].slot = flush[g].slot
           /\ flush'[g].of = flush[g].of /\ flush'[g].due = flush[g].due
           /\ flush[g].pc # "idle" => flush'[g].excused = flush[g].excused \cup {tag[s]}
  BY <1>e, <1>f, NoFlushType DEF Flushing
<1>1. /\ flush[f].pc = "put" /\ dirty \in [Slots -> BOOLEAN]
      /\ linked \subseteq Slots
      /\ UNCHANGED <<call, tag, data, linked, store, trunc, latest, stale, early, torn, writes>>
  BY <1>0, Unchanged, NoFlushType DEF CacheInv, FlushPutFail
<1>2. dirty'[s] = TRUE /\ \A r \in Slots \ {s} : dirty'[r] = dirty[r]
  BY <1>0, <1>1 DEF FlushPutFail
<1>3. IoHeld(s) /\ \A r \in Slots \ {s} : IoHeld(r)' = IoHeld(r)
  BY <1>0, <1>1, <1>g DEF IoHeld
<1>4. LinkedOnce' /\ TruncOk' /\ CallsOk' /\ Bounded'
  BY <1>1, FlushFrame
<1>5. SlotsOk'
  BY <1>1, <1>2, <1>3 DEF CacheInv, Linkage, SlotsOk, Kept
<1>6. ChunksOk'
  <2> SUFFICES ASSUME NEW t \in Chunks PROVE Stored(t)'
    BY DEF ChunksOk
  <2>1. Stored(t) /\ Sound(t)' = Sound(t)
    BY <1>1 DEF CacheInv, ChunksOk, Sound, Broken
  <2>2. \A r \in linked : dirty[r] \/ IoHeld(r) => dirty'[r] \/ IoHeld(r)'
    BY <1>1, <1>2, <1>3
  <2> QED
    BY <1>1, <2>1, <2>2 DEF Stored, AtLeast
<1>7. ScanOk'
  <2> SUFFICES ASSUME NEW g \in Flushers \ {f}, flush[g].pc # "idle", NEW t \in flush[g].of
               PROVE  Covered(g, t)'
    BY <1>1, <1>g DEF CacheInv, ScanOk, Due
  <2>1. Covered(g, t) /\ Sound(t)' = Sound(t)
    BY <1>1 DEF CacheInv, ScanOk, Sound, Broken
  <2>2. CASE t = tag[s]
    BY <1>g, <2>2 DEF Covered
  <2>3. CASE t # tag[s]
    <3>1. PuttingBack(t) => PuttingBack(t)'
      <4>1. ASSUME NEW h \in Flushers, flush[h].pc = "put", tag[flush[h].slot] = t PROVE PuttingBack(t)'
        <5>1. flush'[h].pc = "put" /\ flush'[h].slot = flush[h].slot
          BY <1>0, <1>g, <2>3, <4>1
        <5> QED
          BY <1>1, <4>1, <5>1 DEF PuttingBack
      <4> QED
        BY <1>1, <4>1 DEF PuttingBack
    <3>2. \A r \in linked : dirty[r] => dirty'[r]
      BY <1>1, <1>2
    <3> QED
      BY <1>1, <1>g, <2>1, <3>1, <3>2 DEF Covered, AtLeast
  <2> QED
    BY <2>2, <2>3
<1> QED
  BY <1>4, <1>5, <1>6, <1>7 DEF CacheInv, Linkage

-----------------------------------------------------------------------------
(* Truncations *)

LEMMA TruncateStarts ==
  ASSUME CacheInv, TypeInv', NEW which \in Truncations, TruncateRelfork(which)
  PROVE  CacheInv'
<1>1. /\ trunc.pc = "idle" /\ trunc'.pc = "scan" /\ trunc'.of = which
      /\ \A o \in Backends : call[o].tag \notin which
      /\ UNCHANGED <<call, tag, dirty, data, linked, store, stale, early, torn, writes>>
      /\ which \subseteq Chunks /\ linked \subseteq Slots /\ Numeric
  BY CacheAssumption, Unchanged, Numbers DEF TruncateRelfork, NoTrunc, slotVars, CacheInv
<1>2. /\ \A t \in which, k \in Blocks : latest'[t][k] = 0
      /\ \A t \in Chunks \ which : latest'[t] = latest[t]
  BY <1>1 DEF TruncateRelfork
<1>3. \A f \in Flushers :
        /\ flush'[f].pc = flush[f].pc /\ flush'[f].of = flush[f].of
        /\ flush'[f].slot = flush[f].slot /\ flush'[f].due = flush[f].due
        /\ flush[f].pc # "idle" => flush'[f].excused = flush[f].excused \cup which
  <2>1. flush' = Excuse(which) /\ which \in SUBSET Tags /\ flush \in Flushing
    BY <1>1, Basics, Unchanged DEF TruncateRelfork, CacheInv
  <2> QED
    BY <2>1, ExcuseIs
<1>4. \A r \in Slots : IoHeld(r)' = IoHeld(r)
  BY <1>1, <1>3 DEF IoHeld
<1>5. Linkage'
  <2>1. LinkedOnce'
    BY <1>1 DEF CacheInv, Linkage, LinkedOnce
  <2>2. SlotsOk'
    BY <1>1, <1>4 DEF CacheInv, Linkage, SlotsOk, Kept
  <2>3. TruncOk'
    BY <1>1, <1>2 DEF TruncOk
  <2> QED
    BY <2>1, <2>2, <2>3 DEF Linkage
<1>6. CallsOk'
  <2> SUFFICES ASSUME NEW o \in Backends PROVE Placed(o, call[o])' /\ Recent(o, call[o])' /\ Fetched(call[o])'
    BY DEF CallsOk
  <2>1. /\ Placed(o, call[o])
        /\ call[o].pc # "idle" => call[o].tag \in Chunks \ which
    BY <1>1, CallFacts DEF CacheInv, CallsOk
  <2>2. Placed(o, call[o])'
    BY <1>1, <2>1, OtherPlaced DEF Placed, NoNewPin
  <2> QED
    BY <1>1, <1>2, <2>1, <2>2, OtherData
<1>7. ChunksOk'
  <2> SUFFICES ASSUME NEW t \in Chunks PROVE Stored(t)'
    BY DEF ChunksOk
  <2>1. Stored(t) /\ Sound(t)' = Sound(t)
    BY <1>1 DEF CacheInv, ChunksOk, Sound, Broken
  <2>2. CASE t \in which
    <3>1. AtLeast(store[t], latest'[t]) /\ \A r \in linked : AtLeast(data[r], latest'[t])
      BY <1>1, <1>2, <2>2 DEF AtLeast, Numeric
    <3> QED
      BY <1>1, <2>1, <3>1 DEF Stored
  <2>3. CASE t \notin which
    BY <1>1, <1>2, <1>4, <2>1, <2>3 DEF Stored, AtLeast
  <2> QED
    BY <2>2, <2>3
<1>8. Bounded'
  <2>1. ASSUME NEW t \in Chunks, NEW k \in Blocks PROVE latest'[t][k] <= writes'
    BY <1>1, <1>2 DEF CacheInv, Bounded, Numeric
  <2> QED
    BY <1>1, <2>1 DEF CacheInv, Bounded
<1>9. ScanOk'
  <2> SUFFICES ASSUME NEW f \in Flushers, flush[f].pc # "idle"
               PROVE  Due(f)' /\ \A t \in flush[f].of : Covered(f, t)'
    BY <1>3 DEF ScanOk
  <2>0. /\ flush'[f].pc = flush[f].pc /\ flush'[f].of = flush[f].of
        /\ flush'[f].slot = flush[f].slot /\ flush'[f].due = flush[f].due
        /\ flush'[f].excused = flush[f].excused \cup which
    BY <1>3
  <2>1. Due(f)'
    <3>1. Due(f)
      BY DEF CacheInv, ScanOk
    <3> QED
      BY <1>2, <2>0, <3>1 DEF Due
  <2>2. ASSUME NEW t \in flush[f].of PROVE Covered(f, t)'
    <3>1. Covered(f, t) /\ Sound(t)' = Sound(t)
      BY <1>1 DEF CacheInv, ScanOk, Sound, Broken
    <3>2. PuttingBack(t) => PuttingBack(t)'
      BY <1>1, <1>3 DEF PuttingBack
    <3> QED
      BY <1>1, <2>0, <3>1, <3>2 DEF Covered, AtLeast
  <2> QED
    BY <2>1, <2>2
<1> QED
  BY <1>5, <1>6, <1>7, <1>8, <1>9 DEF CacheInv

\* What a truncation cuts off need not be kept.
LEMMA TruncateScanKeeps ==
  ASSUME CacheInv, TypeInv', TruncateScan
  PROVE  CacheInv'
<1>0. PICK s \in Slots : s = trunc.slot
  BY CacheAssumption DEF CacheInv, TypeInv, TypeOK, TruncateScan, Slots
<1>1. /\ trunc.pc = "scan" /\ linked \subseteq Slots /\ Numeric /\ trunc \in Truncating
      /\ UNCHANGED <<call, tag, dirty, data, store, flush, latest, stale, early, torn, writes>>
  BY Unchanged, Numbers DEF CacheInv, TruncateScan, history, TypeInv, TypeOK, Truncating
<1>2. /\ trunc'.of = trunc.of
      /\ \/ /\ tag[s] \in trunc.of /\ linked' = linked \ {s}
            /\ trunc'.pc = "clear" /\ trunc'.slot = s /\ trunc'.tag = tag[s]
         \/ linked' = linked /\ trunc'.pc = "scan"
  BY <1>0, <1>1 DEF TruncateScan, Truncating
<1>3. \A r \in Slots : IoHeld(r)' = IoHeld(r)
  BY <1>1 DEF IoHeld
<1>4. \A r \in linked \ linked' : r = s /\ tag[s] \in trunc.of
  BY <1>2
<1>5. Linkage'
  <2>1. LinkedOnce'
    BY <1>1, <1>2 DEF CacheInv, Linkage, LinkedOnce
  <2>2. SlotsOk'
    BY <1>1, <1>2, <1>3 DEF CacheInv, Linkage, SlotsOk, Kept
  <2>3. TruncOk'
    BY <1>1, <1>2 DEF CacheInv, Linkage, TruncOk
  <2> QED
    BY <2>1, <2>2, <2>3 DEF Linkage
<1>6. CallsOk'
  <2> SUFFICES ASSUME NEW o \in Backends PROVE Placed(o, call[o])' /\ Recent(o, call[o])' /\ Fetched(call[o])'
    BY DEF CallsOk
  <2>1. Placed(o, call[o]) /\ call[o].tag \notin trunc.of
    BY DEF CacheInv, CallsOk, Linkage, TruncOk
  <2>2. /\ call[o].pc = "hit" => call[o].slot \in linked' \/ call[o].tag \in torn'
        /\ call[o].pc \in {"fill", "link"} => call[o].slot \notin linked'
    BY <1>1, <1>2, <1>4, <2>1 DEF Placed
  <2>3. Placed(o, call[o])'
    BY <1>1, <2>2, OtherPlaced DEF NoNewPin
  <2> QED
    BY <1>1, <2>3, OtherData
<1>7. \A t \in trunc.of, k \in Blocks : latest[t][k] = 0
  BY DEF CacheInv, Linkage, TruncOk
<1>8. ChunksOk'
  <2> SUFFICES ASSUME NEW t \in Chunks PROVE Stored(t)'
    BY DEF ChunksOk
  <2>1. Stored(t) /\ Sound(t)' = Sound(t)
    BY <1>1 DEF CacheInv, ChunksOk, Sound, Broken
  <2>2. linked' \subseteq linked
    BY <1>2
  <2>3. CASE t \in trunc.of
    <3>1. AtLeast(store[t], latest[t]) /\ \A r \in linked : AtLeast(data[r], latest[t])
      BY <1>1, <1>7, <2>3 DEF AtLeast, Numeric
    <3> QED
      BY <1>1, <2>1, <2>2, <3>1 DEF Stored
  <2>4. CASE t \notin trunc.of
    <3>1. \A r \in linked : tag[r] = t => r \in linked'
      BY <1>4, <2>4
    <3> QED
      BY <1>1, <1>3, <2>1, <2>2, <2>4, <3>1 DEF Stored, AtLeast
  <2> QED
    BY <2>3, <2>4
<1>9. Bounded'
  BY <1>1 DEF CacheInv, Bounded
<1>10. ScanOk'
  <2> SUFFICES ASSUME NEW f \in Flushers, NEW t \in flush[f].of, flush[f].pc # "idle" PROVE Covered(f, t)'
    BY <1>1 DEF CacheInv, ScanOk, Due
  <2>1. Covered(f, t) /\ t \in Chunks
    BY DEF CacheInv, ScanOk, TypeInv, TypeOK, Passes
  <2>2. CASE t \in trunc.of /\ t \notin flush[f].excused
    <3>1. \A k \in Blocks : flush[f].due[t][k] <= latest[t][k] /\ latest[t][k] = 0
      BY <1>7, <2>1, <2>2 DEF CacheInv, ScanOk, Due
    <3>2. AtLeast(store[t], flush[f].due[t])
      BY <1>1, <2>1, <3>1 DEF AtLeast, Numeric
    <3> QED
      BY <1>1, <3>2 DEF Covered, PuttingBack, AtLeast
  <2>3. CASE t \in flush[f].excused
    BY <1>1, <2>3 DEF Covered, PuttingBack
  <2>4. CASE t \notin trunc.of
    <3>1. \A r \in linked : tag[r] = t => r \in linked'
      BY <1>4, <2>4
    <3> QED
      BY <1>1, <2>1, <3>1 DEF Covered, PuttingBack, Sound, AtLeast, Broken
  <2> QED
    BY <2>2, <2>3, <2>4
<1> QED
  BY <1>5, <1>6, <1>8, <1>9, <1>10 DEF CacheInv

LEMMA TruncateClearKeeps ==
  ASSUME CacheInv, TypeInv', TruncateClear
  PROVE  CacheInv'
<1>0. PICK s \in Slots : s = trunc.slot
  BY Unchanged DEF CacheInv, CallInv, TruncateClear
<1>1. /\ trunc.pc = "clear" /\ ~IoHeld(s) /\ linked \subseteq Slots /\ trunc \in Truncating
      /\ call \in [Backends -> Calls]
      /\ UNCHANGED <<call, store, flush, latest, stale, early, writes>>
  BY <1>0, Unchanged DEF CacheInv, Linkage, TruncOk, TruncateClear, history, TypeInv, TypeOK, Truncating
<1>2. /\ torn \subseteq torn' /\ linked' \subseteq linked
      /\ \A r \in linked : r \in linked' \/ tag[r] \in torn'
      /\ s \in linked => tag[s] \in torn'
      /\ s \in linked' => tag' = tag /\ data' = data
  <2>0. torn' = torn \cup Tears(s)
    BY <1>0 DEF TruncateClear
  <2>1. s \in linked => tag[s] \in torn'
    BY <2>0 DEF Tears
  <2>2. CASE pin_count[s] = 0
    <3>1. PICK cut \in SUBSET Behind(s) : linked' = linked \ ({s} \cup cut)
      BY <1>0, <2>2 DEF TruncateClear
    <3>2. ASSUME NEW r \in cut PROVE tag[r] \in torn'
      <4>1. s \in linked /\ r \in linked /\ BucketOf[tag[r]] = BucketOf[tag[s]]
        BY <3>1, <3>2 DEF Behind
      <4>2. tag[r] \in Chunks
        BY <4>1 DEF CacheInv, Linkage, LinkedOnce
      <4> QED
        BY <2>0, <2>2, <4>1, <4>2 DEF Tears
    <3> QED
      BY <2>0, <2>1, <3>1, <3>2
  <2>3. CASE pin_count[s] # 0
    BY <1>0, <2>0, <2>1, <2>3 DEF TruncateClear
  <2> QED
    BY <2>2, <2>3
<1>3. trunc'.pc = "scan" /\ trunc'.of = trunc.of
  BY <1>0, <1>1 DEF TruncateClear, Truncating
<1>4. /\ dirty'[s] = FALSE
      /\ \A r \in Slots \ {s} : dirty'[r] = dirty[r] /\ tag'[r] = tag[r] /\ data'[r] = data[r]
      /\ \/ pin_count[s] = 0 /\ tag'[s] = NoTag
         \/ tag' = tag /\ data' = data
  BY <1>0, Unchanged DEF TruncateClear, CacheInv
<1>5. \A o \in Backends : call[o].pc \in Pinning =>
        tag'[call[o].slot] = tag[call[o].slot] /\ data'[call[o].slot] = data[call[o].slot]
  <2> SUFFICES ASSUME NEW o \in Backends, call[o].pc \in Pinning
               PROVE  tag'[call[o].slot] = tag[call[o].slot] /\ data'[call[o].slot] = data[call[o].slot]
    OBVIOUS
  <2>1. call[o].slot \in Slots
    BY <1>1 DEF Calls
  <2>2. ASSUME pin_count[s] = 0 PROVE call[o].slot # s
    <3>1. Pinners(s) = {}
      BY <2>2, PinFacts, Unchanged DEF CacheInv
    <3> QED
      BY <3>1 DEF Pinners
  <2> QED
    BY <1>4, <2>1, <2>2
<1>6. \A r \in Slots : IoHeld(r)' = IoHeld(r)
  BY <1>1 DEF IoHeld
<1>7. Linkage'
  <2>1. LinkedOnce'
    <3>1. \A r \in linked' : tag'[r] = tag[r]
      BY <1>1, <1>2, <1>4
    <3> QED
      BY <1>2, <3>1 DEF CacheInv, Linkage, LinkedOnce
  <2>2. SlotsOk'
    <3> SUFFICES ASSUME NEW r \in Slots PROVE Kept(r)' /\ (tag'[r] # NoTag => data'[r].of = tag'[r])
      BY DEF SlotsOk
    <3>1. Kept(r) /\ (tag[r] # NoTag => data[r].of = tag[r])
      BY DEF CacheInv, Linkage, SlotsOk
    <3>2. CASE r = s
      BY <1>1, <1>4, <1>6, <3>1, <3>2 DEF Kept
    <3>3. CASE r # s
      BY <1>0, <1>1, <1>2, <1>4, <1>6, <3>1, <3>3 DEF Kept
    <3> QED
      BY <3>2, <3>3
  <2>3. TruncOk'
    BY <1>1, <1>3 DEF CacheInv, Linkage, TruncOk
  <2> QED
    BY <2>1, <2>2, <2>3 DEF Linkage
<1>8. CallsOk'
  <2> SUFFICES ASSUME NEW o \in Backends PROVE Placed(o, call[o])' /\ Recent(o, call[o])' /\ Fetched(call[o])'
    BY DEF CallsOk
  <2>1. Placed(o, call[o])
    BY DEF CacheInv, CallsOk
  <2>2. Placed(o, call[o])'
    <3>1. call[o].pc = "hit" => call[o].slot \in linked' \/ call[o].tag \in torn'
      BY <1>2, <2>1 DEF Placed
    <3>2. call[o].pc \in {"fill", "link"} => call[o].slot \notin linked'
      BY <1>2, <2>1 DEF Placed
    <3> QED
      BY <1>1, <1>5, <3>1, <3>2, OtherPlaced DEF NoNewPin, Pinning
  <2> QED
    BY <1>1, <1>2, <2>2, OtherData
<1>9. ChunksOk'
  <2> SUFFICES ASSUME NEW t \in Chunks PROVE Stored(t)'
    BY DEF ChunksOk
  <2>1. Stored(t) /\ (Sound(t)' => Sound(t) /\ t \notin torn')
    BY <1>1, <1>2 DEF CacheInv, ChunksOk, Sound, Broken
  <2>2. ASSUME Sound(t)', NEW r \in linked, tag[r] = t
        PROVE  /\ r \in linked' /\ r # s
               /\ IoHeld(r)' = IoHeld(r) /\ dirty'[r] = dirty[r] /\ data'[r] = data[r]
    BY <1>1, <1>2, <1>4, <1>6, <2>1, <2>2
  <2>3. \A r \in linked' : r \in linked /\ tag'[r] = tag[r]
    BY <1>1, <1>2, <1>4
  <2>4. \A r \in linked' : Sound(t)' /\ tag'[r] = t =>
          tag[r] = t /\ IoHeld(r)' = IoHeld(r) /\ dirty'[r] = dirty[r] /\ data'[r] = data[r]
    BY <2>2, <2>3
  <2>5. Sound(t)' /\ (\A r \in linked' : tag'[r] # t) => \A r \in linked : tag[r] # t
    BY <2>2, <2>3
  <2> QED
    BY <1>1, <2>1, <2>3, <2>4, <2>5 DEF Stored, AtLeast
<1>10. Bounded'
  BY <1>1 DEF CacheInv, Bounded
<1>11. ScanOk'
  <2> SUFFICES ASSUME NEW f \in Flushers, NEW t \in flush[f].of, flush[f].pc # "idle" PROVE Covered(f, t)'
    BY <1>1 DEF CacheInv, ScanOk, Due
  <2>1. Covered(f, t) /\ (Sound(t)' => Sound(t) /\ t \notin torn')
    BY <1>1, <1>2 DEF CacheInv, ScanOk, Sound, Broken
  <2>2. ASSUME Sound(t)', NEW r \in linked, tag[r] = t
        PROVE  r \in linked' /\ tag'[r] = t /\ dirty'[r] = dirty[r]
    BY <1>1, <1>2, <1>4, <2>1, <2>2
  <2>3. \A h \in Flushers : flush[h].pc = "put" => tag'[flush[h].slot] = tag[flush[h].slot]
    <3>1. \A h \in Flushers : flush[h].pc = "put" => flush[h].slot \in Slots /\ flush[h].slot # s
      BY <1>1, Unchanged DEF IoHeld, CacheInv, CallInv
    <3> QED
      BY <1>4, <3>1
  <2>4. \A o \in Backends : call[o].pc = "put" => tag'[call[o].slot] = tag[call[o].slot]
    BY <1>5 DEF Pinning
  <2>5. PuttingBack(t) => PuttingBack(t)'
    BY <1>1, <2>3, <2>4 DEF PuttingBack
  <2> QED
    BY <1>1, <2>1, <2>2, <2>5 DEF Covered, AtLeast
<1> QED
  BY <1>7, <1>8, <1>9, <1>10, <1>11 DEF CacheInv

LEMMA TruncateEnds ==
  ASSUME CacheInv, TypeInv', TruncateDone
  PROVE  CacheInv'
<1>1. /\ trunc.pc = "scan" /\ trunc'.pc = "idle" /\ trunc'.of = {}
      /\ UNCHANGED <<call, tag, dirty, data, linked, store, flush, latest, stale, early, torn, writes>>
  BY DEF TruncateDone, NoTrunc, slotVars, history
<1>2. \A r \in Slots : IoHeld(r)' = IoHeld(r)
  BY <1>1 DEF IoHeld
<1>3. Linkage'
  BY <1>1, <1>2 DEF CacheInv, Linkage, LinkedOnce, SlotsOk, Kept, TruncOk
<1>4. CallsOk'
  BY <1>1 DEF CacheInv, CallsOk, Placed, Alone, Recent, Fetched, Current, Sound, AtLeast, Broken
<1>5. ChunksOk'
  <2>1. linked \subseteq Slots
    BY Unchanged DEF CacheInv
  <2> QED
    BY <1>1, <1>2, <2>1 DEF CacheInv, ChunksOk, Stored, Sound, AtLeast, Broken
<1>6. Bounded'
  BY <1>1 DEF CacheInv, Bounded
<1>7. ScanOk'
  BY <1>1 DEF CacheInv, ScanOk, Due, Covered, PuttingBack, Sound, AtLeast, Broken
<1> QED
  BY <1>3, <1>4, <1>5, <1>6, <1>7 DEF CacheInv

-----------------------------------------------------------------------------
(* The theorems *)

LEMMA InitKeeps == Init => CacheInv
<1> SUFFICES ASSUME Init PROVE CacheInv
  OBVIOUS
<1>1. /\ TypeInv /\ linked = {} /\ call = [b \in Backends |-> Idle] /\ (\A f \in Flushers : flush[f].pc = "idle")
      /\ trunc.pc = "idle" /\ trunc.of = {} /\ stale = {} /\ early = {} /\ torn = {} /\ writes = 0
      /\ Idle.pc = "idle" /\ Idle.tag = NoTag /\ Idle.ver = 0
  BY InitType, IdleType, NoFlushType DEF Init, NoTrunc, Idle
<1>2. /\ \A s \in Slots : tag[s] = NoTag /\ dirty[s] = FALSE
      /\ \A t \in Chunks : store[t] = Zeros(t)
      /\ \A t \in Chunks, k \in Blocks : latest[t][k] = 0
  BY DEF Init
<1>3. \A s \in Slots : ~IoHeld(s)
  BY <1>1 DEF IoHeld
<1>4. Linkage
  BY <1>1, <1>2, <1>3 DEF Linkage, LinkedOnce, SlotsOk, Kept, TruncOk
<1>5. CallsOk
  BY <1>1 DEF CallsOk, Placed, Recent, Fetched, Placing
<1>6. ChunksOk
  <2>1. \A t \in Chunks : store[t].of = t /\ \A k \in Blocks : store[t].ver[k] = 0
    <3>1. ASSUME NEW t \in Chunks, NEW k \in Blocks PROVE Zeros(t).of = t /\ Zeros(t).ver[k] = 0
      BY DEF Zeros
    <3>2. \A t \in Chunks : Zeros(t).of = t
      BY ZerosType, Basics
    <3> QED
      BY <1>2, <3>1, <3>2
  <2> QED
    BY <1>1, <1>2, <2>1 DEF ChunksOk, Stored, AtLeast
<1>7. Bounded
  BY <1>1, <1>2 DEF Bounded
<1>8. ScanOk
  BY <1>1 DEF ScanOk, Due
<1> QED
  BY <1>1, <1>4, <1>5, <1>6, <1>7, <1>8 DEF CacheInv

LEMMA BackendKeeps ==
  ASSUME CacheInv, TypeInv', NEW b \in Backends, BackendStep(b)
  PROVE  CacheInv'
<1>1. CASE \/ \E r \in Reads : r[1] = b /\ GetChunk(b, r[2])
           \/ \E p \in Patches : p[1] = b /\ PatchChunk(b, p[2], p[3])
           \/ Retry(b)
  BY <1>1, CallStarts
<1>2. CASE \/ ReadHit(b) \/ HitFail(b) \/ Fetch(b) \/ Return(b)
           \/ \E s \in Slots : Claim(b, s)
           \/ CheckPin(b) \/ GiveUp(b)
           \/ CheckDirty(b) /\ dirty[call[b].slot]
  BY <1>2, CallMoves
<1>3. CASE PatchHit(b)
  BY <1>3, PatchHitKeeps
<1>4. CASE EvictSwapDirty(b) \/ EvictPut(b) \/ EvictPutFail(b)
  BY <1>4, EvictSwapKeeps, EvictPutKeeps, EvictPutFailKeeps
<1>5. CASE CheckDirty(b) /\ ~dirty[call[b].slot]
  BY <1>5, UnlinkKeeps
<1>6. CASE Fill(b) \/ FillFail(b)
  BY <1>6, FillKeeps
<1>7. CASE Link(b)
  BY <1>7, LinkLostKeeps, LinkWonKeeps
<1> QED
  BY <1>1, <1>2, <1>3, <1>4, <1>5, <1>6, <1>7 DEF BackendStep

LEMMA CacheStep == CacheInv /\ [Next]_vars => CacheInv'
<1> SUFFICES ASSUME CacheInv, [Next]_vars PROVE CacheInv'
  OBVIOUS
<1>1. TypeInv'
  BY NextType DEF CacheInv
<1>2. CASE UNCHANGED vars
  <2>1. UNCHANGED <<call, tag, dirty, data, linked, store, flush, trunc, latest, stale, early, torn, writes>>
    BY <1>2 DEF vars, slotVars, history
  <2>2. \A r \in Slots : IoHeld(r)' = IoHeld(r)
    BY <2>1 DEF IoHeld
  <2>3. LinkedOnce' /\ TruncOk' /\ CallsOk' /\ Bounded'
    BY <2>1, FlushFrame
  <2>4. SlotsOk'
    BY <2>1, <2>2 DEF CacheInv, Linkage, SlotsOk, Kept
  <2>5. linked \subseteq Slots
    BY Unchanged DEF CacheInv
  <2>6. ChunksOk'
    BY <2>1, <2>2, <2>5 DEF CacheInv, ChunksOk, Stored, Sound, AtLeast, Broken
  <2>7. ScanOk'
    BY <2>1 DEF CacheInv, ScanOk, Due, Covered, PuttingBack, Sound, AtLeast, Broken
  <2> QED
    BY <1>1, <2>3, <2>4, <2>6, <2>7 DEF CacheInv, Linkage
<1>3. CASE \E b \in Backends : BackendStep(b)
  BY <1>1, <1>3, BackendKeeps
<1>4. ASSUME NEW f \in Flushers, FlushStep(f) PROVE CacheInv'
  BY <1>1, <1>4, FlushStarts, FlushMoves, FlushSwapKeeps, FlushPutKeeps, FlushPutFailKeeps DEF FlushStep
<1>5. CASE TruncateStep
  BY <1>1, <1>5, TruncateStarts, TruncateScanKeeps, TruncateClearKeeps, TruncateEnds DEF TruncateStep
<1> QED
  BY <1>2, <1>3, <1>4, <1>5 DEF Next

LEMMA CacheInvariant ==
  Spec => []CacheInv
<1>1. CacheInv /\ [Next]_vars => CacheInv'
  BY CacheStep
<1> QED
  BY <1>1, InitKeeps, PTL DEF Spec

\* In every interleaving of reads, patches, evictions, flushes by several processes, failed
\* PUTs and truncations, and for every number of backends, flushers, slots, buckets, chunks
\* and blocks: a chunk is in one slot at most that lookups find (chunk.rs, insert), and what
\* they find has every acknowledged patch, unless the chunk is in Broken: inserted from a
\* fetch that a patch had overtaken (stale), unlinked while a flush was writing it back
\* (early), or in a slot or chain that a truncation of other chunks has cleared (torn).
THEOREM CacheCoherent ==
  Spec => []Coherent
<1>1. CacheInv => Coherent
  <2> SUFFICES ASSUME CacheInv PROVE Coherent
    OBVIOUS
  <2>1. \A s1, s2 \in linked : tag[s1] = tag[s2] => s1 = s2
    BY DEF CacheInv, Linkage, LinkedOnce
  <2>2. ASSUME NEW t \in Chunks, t \notin Broken PROVE Holds(Visible(t), t, latest[t])
    <3>1. Stored(t) /\ Sound(t) /\ linked \subseteq Slots
      BY <2>2, Unchanged DEF CacheInv, ChunksOk, Sound, Broken
    <3>2. CASE Found(t) = {}
      <4>1. AtLeast(store[t], latest[t]) /\ store[t].of = t
        BY <3>1, <3>2 DEF Stored, Found
      <4> QED
        BY <3>2, <4>1 DEF Visible, Holds, AtLeast
    <3>3. CASE Found(t) # {}
      <4>1. PICK s : s = CHOOSE x \in Found(t) : TRUE
        OBVIOUS
      <4>2. s \in Found(t)
        BY <3>3, <4>1
      <4>3. s \in linked /\ s \in Slots /\ tag[s] = t /\ t # NoTag
        BY <3>1, <4>2, CacheAssumption DEF Found
      <4>4. AtLeast(data[s], latest[t]) /\ data[s].of = t
        BY <3>1, <4>3 DEF Stored, CacheInv, Linkage, SlotsOk
      <4>5. Visible(t) = data[s]
        BY <3>3, <4>1 DEF Visible
      <4> QED
        BY <4>4, <4>5 DEF Holds, AtLeast
    <3> QED
      BY <3>2, <3>3
  <2> QED
    BY <2>1, <2>2 DEF Coherent
<1> QED
  BY <1>1, CacheInvariant, PTL

\* get_chunk returns the chunk it was asked for, whatever happened to the slot in between,
\* and unless the chunk is in Broken it has every patch acknowledged before the lookup.
THEOREM CacheReadsRight ==
  Spec => []ReadsRight
<1>1. CacheInv => ReadsRight
  BY DEF CacheInv, CallsOk, Fetched, Sound, AtLeast, Holds, ReadsRight, Broken
<1> QED
  BY <1>1, CacheInvariant, PTL

\* A flush_dirty_chunks that ends without error has brought every patch acknowledged before
\* it to the store, although it scans the slots without a lock while they are patched,
\* evicted, inserted and flushed by others; except for a chunk that an eviction or another
\* flush is writing back when it ends, or failed to write back meanwhile, for truncated
\* chunks and for those in Broken.
THEOREM CacheFlushCovers ==
  Spec => []FlushCovers
<1>1. CacheInv => FlushCovers
  <2> SUFFICES ASSUME CacheInv, NEW f \in Flushers, flush[f].pc = "scan", flush[f].slot = NumSlots,
                      NEW t \in flush[f].of \ (flush[f].excused \cup Broken)
               PROVE  Holds(store[t], t, flush[f].due[t]) \/ PuttingBack(t)
    BY DEF FlushCovers
  <2>1. Covered(f, t) /\ Sound(t) /\ t \in Chunks /\ linked \subseteq Slots
    BY DEF CacheInv, ScanOk, Sound, TypeInv, TypeOK, Passes
  <2>2. store[t].of = t
    BY <2>1 DEF CacheInv, ChunksOk, Stored
  <2>3. \A s \in Slots : ~(flush[f].slot <= s)
    BY CacheAssumption DEF Slots
  <2> QED
    BY <2>1, <2>2, <2>3 DEF Covered, Holds, AtLeast
<1> QED
  BY <1>1, CacheInvariant, PTL
=============================================================================
