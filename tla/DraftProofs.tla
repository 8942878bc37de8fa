----------------------------- MODULE DraftProofs -----------------------------
(***************************************************************************)
(* The draft buffer keeps its contract, for every number of backends,      *)
(* chunks, forks and shards and every capacity: no interleaving of records *)
(* and spills loses an entry, lets an older version of a fork win, or      *)
(* makes a drain return anything but what was recorded.                    *)
(***************************************************************************)
EXTENDS Draft, FiniteSetTheorems, TLAPS

\* A spilling backend's frame holds no forks before it has emptied their table,
\* and nothing once it is on file.
FrameInv ==
  \A b \in Backends :
    /\ call[b].pc = "shards" => frame[b].relforks = NoRelforks
    /\ call[b].pc = "flag" => frame[b] = EmptyFrame

\* The versions of a fork grow from the file over the frame to the table.
VersionInv ==
  \A f \in Forks :
    /\ spill_file.relforks[f] <= versions
    /\ InFlight.relforks[f] <= versions
    /\ relforks[f] <= versions
    /\ InFlight.relforks[f] # 0 => spill_file.relforks[f] <= InFlight.relforks[f]
    /\ relforks[f] # 0 => /\ spill_file.relforks[f] <= relforks[f]
                          /\ InFlight.relforks[f] <= relforks[f]

DraftInv == TypeOK /\ FrameInv /\ VersionInv

-----------------------------------------------------------------------------
(* Frames *)

\* The constants are what they should be.
LEMMA Basics ==
  /\ EmptyFrame \in Frames
  /\ NoRelforks \in [Forks -> Versions]
  /\ EmptyShards \in [Shards -> SUBSET Chunks]
  /\ 0 \in Versions /\ Versions \subseteq Nat
  /\ Idle \in Calls /\ Idle.pc = "idle"
BY DraftAssumption DEF EmptyFrame, Frames, NoRelforks, EmptyShards, Versions, Idle, Calls, Shards

\* A merge is a frame.
LEMMA MergeType ==
  ASSUME NEW a \in Frames, NEW b \in Frames
  PROVE  /\ MergeFrame(a, b) \in Frames
         /\ MergeFrame(a, b).chunks = a.chunks \cup b.chunks
         /\ \A f \in Forks : MergeFrame(a, b).relforks[f]
                             = IF b.relforks[f] # 0 THEN b.relforks[f] ELSE a.relforks[f]
BY DEF MergeFrame, Frames

\* Two frames with the same entries are equal.
LEMMA FrameEq ==
  ASSUME NEW a \in Frames, NEW b \in Frames,
         a.chunks = b.chunks, \A f \in Forks : a.relforks[f] = b.relforks[f]
  PROVE  a = b
<1>1. a.relforks = b.relforks
  BY DEF Frames
<1> QED
  BY <1>1 DEF Frames

\* The tables, and what a spill has in hand, are frames.
LEMMA TablesType ==
  ASSUME shards \in [Shards -> SUBSET Chunks], relforks \in [Forks -> Versions]
  PROVE  /\ Tables \in Frames
         /\ Tables.chunks = UNION {shards[s] : s \in Shards}
         /\ Tables.relforks = relforks
BY DEF Tables, Frames

LEMMA InFlightType ==
  ASSUME frame \in [Backends -> Frames], spill_lock \in Backends \cup {Free}
  PROVE  InFlight \in Frames
BY Basics DEF InFlight

-----------------------------------------------------------------------------
(* Type correctness *)

\* The next call of b decides the clauses about calls: any well-typed call does,
\* if the lock moves with it.
LEMMA CallStep ==
  ASSUME TypeOK, NEW b \in Backends, NEW c \in Calls,
         call' = [call EXCEPT ![b] = c],
         \/ /\ spill_lock' = spill_lock
            /\ c.pc \in Spilling <=> call[b].pc \in Spilling
         \/ /\ spill_lock = Free /\ spill_lock' = b
            /\ c.pc \in Spilling
         \/ /\ spill_lock = b /\ spill_lock' = Free
            /\ c.pc \notin Spilling
  PROVE  /\ call' \in [Backends -> Calls]
         /\ spill_lock' \in Backends \cup {Free}
         /\ \A o \in Backends : call'[o].pc \in Spilling <=> spill_lock' = o
<1>1. call' \in [Backends -> Calls] /\ call'[b] = c
  BY DEF TypeOK
<1>2. spill_lock' \in Backends \cup {Free}
  BY DEF TypeOK
<1>3. ASSUME NEW o \in Backends
      PROVE  call'[o].pc \in Spilling <=> spill_lock' = o
  <2>1. call[o].pc \in Spilling <=> spill_lock = o
    BY DEF TypeOK
  <2>2. call[b].pc \in Spilling <=> spill_lock = b
    BY DEF TypeOK
  <2>3. o # b => call'[o] = call[o]
    BY DEF TypeOK
  <2>4. Free \notin Backends
    BY DraftAssumption
  <2> QED
    BY <1>1, <2>1, <2>2, <2>3, <2>4
<1> QED
  BY <1>1, <1>2, <1>3

\* What the kinds of calls consist of.
LEMMA CallKinds ==
  ASSUME NEW c \in Calls
  PROVE  /\ c.pc \in {"spill", "insert"} => c.item \in Items
         /\ c.pc \in Spilling =>
              /\ c \in [pc : Spilling, next : 0..NumShards, item : Items \cup {NoItem}]
              /\ c.next \in 0..NumShards /\ c.item \in Items \cup {NoItem}
         /\ c.pc = "contains" => c.key \in Chunks /\ c.floor \in BOOLEAN
         /\ c.pc \in {"get", "read"} => c.key \in Forks /\ c.floor \in Versions
BY DEF Calls, Spilling

\* An inserting call stays well typed, and so does the table.
LEMMA InsertChunkType ==
  ASSUME TypeOK, NEW b \in Backends, NEW t \in Chunks, call[b].pc \in {"idle", "insert"},
         InsertChunk(b, t)
  PROVE  TypeOK'
<1> USE DEF TypeOK
<1>1. PICK c \in Calls : call' = [call EXCEPT ![b] = c] /\ c.pc \notin Spilling
  <2>1. /\ Idle \in Calls /\ Idle.pc \notin Spilling
        /\ [pc |-> "try_spill"] \in Calls
        /\ [pc |-> "spill", item |-> [zone |-> "chunks", key |-> t]] \in Calls
    BY DEF Idle, Calls, Items, Spilling
  <2> QED
    BY <2>1 DEF InsertChunk, Inserted, Spilling
<1>2. spill_lock' = spill_lock /\ call[b].pc \notin Spilling
  BY DEF InsertChunk, Spilling
<1>3. /\ call' \in [Backends -> Calls]
      /\ \A o \in Backends : call'[o].pc \in Spilling <=> spill_lock' = o
  BY <1>1, <1>2, CallStep
<1>4. /\ shards' \in [Shards -> SUBSET Chunks]
      /\ \A s \in Shards, u \in Chunks : u \in shards'[s] => ShardOf[u] = s
  BY DraftAssumption DEF InsertChunk
<1> QED
  BY <1>3, <1>4 DEF InsertChunk, file, history

LEMMA InsertRelforkType ==
  ASSUME TypeOK, NEW b \in Backends, NEW f \in Forks, call[b].pc \in {"idle", "insert"},
         InsertRelfork(b, f)
  PROVE  TypeOK'
<1> USE DEF TypeOK
<1>1. PICK c \in Calls : call' = [call EXCEPT ![b] = c] /\ c.pc \notin Spilling
  <2>1. /\ Idle \in Calls /\ Idle.pc \notin Spilling
        /\ [pc |-> "try_spill"] \in Calls
        /\ [pc |-> "spill", item |-> [zone |-> "relforks", key |-> f]] \in Calls
    BY DEF Idle, Calls, Items, Spilling
  <2> QED
    BY <2>1 DEF InsertRelfork, Inserted, Spilling
<1>2. spill_lock' = spill_lock /\ call[b].pc \notin Spilling
  BY DEF InsertRelfork, Spilling
<1>3. /\ call' \in [Backends -> Calls]
      /\ \A o \in Backends : call'[o].pc \in Spilling <=> spill_lock' = o
  BY <1>1, <1>2, CallStep
<1>4. versions' \in Versions /\ relforks' \in [Forks -> Versions]
  BY DraftAssumption DEF InsertRelfork, Versions
<1> QED
  BY <1>3, <1>4 DEF InsertRelfork, file, history

\* Where a spill leaves its call.
LEMMA ResumeType ==
  ASSUME TypeOK, NEW b \in Backends, call[b].pc \in Spilling
  PROVE  Resume(b) \in Calls /\ Resume(b).pc \notin Spilling
<1>1. call[b].item \in Items \cup {NoItem}
  BY CallKinds DEF TypeOK
<1> QED
  BY <1>1 DEF Resume, Calls, Idle, Spilling

LEMMA InitType == Init => TypeOK
<1> SUFFICES ASSUME Init PROVE TypeOK
  OBVIOUS
<1>1. \A b \in Backends : call[b] = Idle /\ spill_lock # b
  BY DraftAssumption DEF Init
<1>2. call \in [Backends -> Calls]
  BY Basics DEF Init
<1>3. \A b \in Backends : call[b].pc \in Spilling <=> spill_lock = b
  BY <1>1, Basics DEF Spilling
<1>4. \A s \in Shards : shards[s] = {}
  BY DEF Init, EmptyShards
<1>5. /\ frame \in [Backends -> Frames] /\ spill_file \in Frames /\ drained \in Frames
      /\ shards \in [Shards -> SUBSET Chunks] /\ relforks \in [Forks -> Versions]
      /\ versions \in Versions
  BY Basics DEF Init
<1>6. failures \in 0..MaxFailures
  BY DraftAssumption DEF Init
<1>7. damaged \in BOOLEAN /\ has_spilled \in BOOLEAN /\ spill_lock \in Backends \cup {Free}
  BY DEF Init
<1> QED
  BY <1>2, <1>3, <1>4, <1>5, <1>6, <1>7 DEF TypeOK

LEMMA NextType == TypeOK /\ [Next]_vars => TypeOK'
<1> SUFFICES ASSUME TypeOK, [Next]_vars PROVE TypeOK'
  OBVIOUS
<1>1. ASSUME NEW b \in Backends, NEW t \in Chunks, RecordChunk(b, t) PROVE TypeOK'
  BY <1>1, InsertChunkType DEF RecordChunk, Start
<1>2. ASSUME NEW b \in Backends, NEW f \in Forks, RecordRelfork(b, f) PROVE TypeOK'
  BY <1>2, InsertRelforkType DEF RecordRelfork, Start
<1>3. ASSUME NEW b \in Backends, Retry(b) PROVE TypeOK'
  <2>1. call[b].pc = "insert" /\ call[b].item \in Items
    BY <1>3, CallKinds DEF Retry, TypeOK
  <2>2. call[b].item.zone = "chunks" => call[b].item.key \in Chunks
    BY <2>1 DEF Items
  <2>3. call[b].item.zone # "chunks" => call[b].item.key \in Forks
    BY <2>1 DEF Items
  <2> QED
    BY <1>3, <2>1, <2>2, <2>3, InsertChunkType, InsertRelforkType DEF Retry
<1>4. ASSUME NEW b \in Backends, TrySpill(b) PROVE TypeOK'
  <2>1. /\ Idle \in Calls /\ Idle.pc \notin Spilling
        /\ [pc |-> "shards", next |-> 0, item |-> NoItem] \in Calls
    BY DraftAssumption DEF Idle, Calls, Spilling
  <2>2. /\ call' \in [Backends -> Calls] /\ spill_lock' \in Backends \cup {Free}
        /\ \A o \in Backends : call'[o].pc \in Spilling <=> spill_lock' = o
    BY <1>4, <2>1, CallStep DEF TrySpill, Spilling
  <2>3. frame' \in [Backends -> Frames]
    BY <1>4, Basics DEF TrySpill, TypeOK
  <2> QED
    BY <1>4, <2>2, <2>3 DEF TrySpill, TypeOK, memory, file, history
<1>5. ASSUME NEW b \in Backends, SpillToFile(b) PROVE TypeOK'
  <2>1. [pc |-> "shards", next |-> 0, item |-> call[b].item] \in Calls
    <3>1. call[b].item \in Items
      BY <1>5, CallKinds DEF SpillToFile, TypeOK
    <3> QED
      BY <3>1, DraftAssumption DEF Calls, Spilling
  <2>2. /\ call' \in [Backends -> Calls] /\ spill_lock' \in Backends \cup {Free}
        /\ \A o \in Backends : call'[o].pc \in Spilling <=> spill_lock' = o
    BY <1>5, <2>1, CallStep DEF SpillToFile, Spilling
  <2>3. frame' \in [Backends -> Frames]
    BY <1>5, Basics DEF SpillToFile, TypeOK
  <2> QED
    BY <1>5, <2>2, <2>3 DEF SpillToFile, TypeOK, memory, file, history
<1>6. ASSUME NEW b \in Backends, DrainShard(b) PROVE TypeOK'
  <2> DEFINE c == [call[b] EXCEPT !.next = @ + 1]
  <2>1. call[b].pc \in Spilling /\ call[b].next \in Shards
    BY <1>6, CallKinds, DraftAssumption DEF DrainShard, TypeOK, Spilling, Shards
  <2>2. c \in Calls /\ c.pc = call[b].pc
    <3>1. call[b] \in [pc : Spilling, next : 0..NumShards, item : Items \cup {NoItem}]
      BY <2>1, CallKinds DEF TypeOK
    <3>2. call[b].next + 1 \in 0..NumShards
      BY <2>1, DraftAssumption DEF Shards
    <3>3. /\ c \in [pc : Spilling, next : 0..NumShards, item : Items \cup {NoItem}]
          /\ c.pc = call[b].pc
      BY <3>1, <3>2
    <3> HIDE DEF c
    <3> QED
      BY <3>3 DEF Calls
  <2>3. call' = [call EXCEPT ![b] = c]
    BY <1>6 DEF DrainShard
  <2> HIDE DEF c
  <2>4. /\ call' \in [Backends -> Calls]
        /\ \A o \in Backends : call'[o].pc \in Spilling <=> spill_lock' = o
    BY <1>6, <2>2, <2>3, CallStep DEF DrainShard
  <2>5. frame' \in [Backends -> Frames]
    BY <1>6, <2>1 DEF DrainShard, TypeOK, Frames
  <2>6. /\ shards' \in [Shards -> SUBSET Chunks]
        /\ \A s \in Shards, t \in Chunks : t \in shards'[s] => ShardOf[t] = s
    BY <1>6, <2>1 DEF DrainShard, TypeOK
  <2> QED
    BY <1>6, <2>4, <2>5, <2>6 DEF DrainShard, TypeOK, file, history
<1>7. ASSUME NEW b \in Backends, DrainRelforks(b) PROVE TypeOK'
  <2>1. call[b].pc \in Spilling /\ spill_lock = b
    BY <1>7 DEF DrainRelforks, TypeOK, Spilling
  <2>2. [call[b] EXCEPT !.pc = "length"] \in Calls
    BY <2>1, CallKinds DEF TypeOK, Calls, Spilling
  <2>3. Resume(b) \in Calls /\ Resume(b).pc \notin Spilling
    BY <2>1, ResumeType
  <2>4. /\ call' \in [Backends -> Calls] /\ spill_lock' \in Backends \cup {Free}
        /\ \A o \in Backends : call'[o].pc \in Spilling <=> spill_lock' = o
    <3>1. CASE [frame[b] EXCEPT !.relforks = relforks] = EmptyFrame
      BY <1>7, <2>1, <2>3, <3>1, CallStep DEF DrainRelforks
    <3>2. CASE [frame[b] EXCEPT !.relforks = relforks] # EmptyFrame
      <4>1. call' = [call EXCEPT ![b] = [call[b] EXCEPT !.pc = "length"]] /\ spill_lock' = spill_lock
        BY <1>7, <3>2 DEF DrainRelforks
      <4>2. [call[b] EXCEPT !.pc = "length"].pc \in Spilling
        BY <2>1, CallKinds DEF TypeOK, Spilling
      <4> QED
        BY <2>1, <2>2, <4>1, <4>2, CallStep
    <3> QED
      BY <3>1, <3>2
  <2>5. frame' \in [Backends -> Frames] /\ relforks' \in [Forks -> Versions]
    BY <1>7, Basics DEF DrainRelforks, TypeOK, Frames
  <2> QED
    BY <1>7, <2>4, <2>5 DEF DrainRelforks, TypeOK, file, history
<1>8. ASSUME NEW b \in Backends, AppendLength(b) PROVE TypeOK'
  <2> DEFINE c == [call[b] EXCEPT !.pc = "body"]
  <2>1. call[b].pc \in Spilling
    BY <1>8 DEF AppendLength, Spilling
  <2>2. c \in Calls /\ c.pc \in Spilling
    BY <2>1, CallKinds DEF TypeOK, Calls, Spilling
  <2>3. call' = [call EXCEPT ![b] = c] /\ spill_lock' = spill_lock
    BY <1>8 DEF AppendLength
  <2> HIDE DEF c
  <2>4. /\ call' \in [Backends -> Calls]
        /\ \A o \in Backends : call'[o].pc \in Spilling <=> spill_lock' = o
    BY <2>1, <2>2, <2>3, CallStep
  <2> QED
    BY <1>8, <2>4 DEF AppendLength, TypeOK, memory, file, history
<1>9. ASSUME NEW b \in Backends, AppendBody(b) PROVE TypeOK'
  <2> DEFINE c == [call[b] EXCEPT !.pc = "flag"]
  <2>1. call[b].pc \in Spilling
    BY <1>9 DEF AppendBody, Spilling
  <2>2. c \in Calls /\ c.pc \in Spilling
    BY <2>1, CallKinds DEF TypeOK, Calls, Spilling
  <2>3. call' = [call EXCEPT ![b] = c] /\ spill_lock' = spill_lock
    BY <1>9 DEF AppendBody
  <2> HIDE DEF c
  <2>4. /\ call' \in [Backends -> Calls]
        /\ \A o \in Backends : call'[o].pc \in Spilling <=> spill_lock' = o
    BY <2>1, <2>2, <2>3, CallStep
  <2>5. spill_file' \in Frames /\ frame' \in [Backends -> Frames]
    BY <1>9, MergeType, Basics DEF AppendBody, TypeOK
  <2> QED
    BY <1>9, <2>4, <2>5 DEF AppendBody, TypeOK, memory, history
<1>10. ASSUME NEW b \in Backends, SetSpilled(b) PROVE TypeOK'
  <2>1. call[b].pc \in Spilling /\ spill_lock = b
    BY <1>10 DEF SetSpilled, TypeOK, Spilling
  <2>2. /\ call' \in [Backends -> Calls] /\ spill_lock' \in Backends \cup {Free}
        /\ \A o \in Backends : call'[o].pc \in Spilling <=> spill_lock' = o
    BY <1>10, <2>1, ResumeType, CallStep DEF SetSpilled
  <2> QED
    BY <1>10, <2>2 DEF SetSpilled, TypeOK, memory, file, history
<1>11. ASSUME NEW b \in Backends, AppendFail(b) PROVE TypeOK'
  <2>1. call[b].pc \in Spilling /\ spill_lock = b
    BY <1>11 DEF AppendFail, TypeOK, Spilling
  <2>2. /\ call' \in [Backends -> Calls] /\ spill_lock' \in Backends \cup {Free}
        /\ \A o \in Backends : call'[o].pc \in Spilling <=> spill_lock' = o
    BY <1>11, <2>1, Basics, CallStep DEF AppendFail, Spilling
  <2>3. frame' \in [Backends -> Frames]
    BY <1>11, Basics DEF AppendFail, TypeOK
  <2>4. failures' \in 0..MaxFailures
    BY <1>11, DraftAssumption DEF AppendFail, TypeOK
  <2>5. damaged' \in BOOLEAN
    BY <1>11 DEF AppendFail
  <2> QED
    BY <1>11, <2>2, <2>3, <2>4, <2>5 DEF AppendFail, TypeOK, memory
<1>12. ASSUME NEW b \in Backends, NEW c \in Calls, call' = [call EXCEPT ![b] = c],
              call[b].pc \notin Spilling, c.pc \notin Spilling,
              UNCHANGED <<memory, file, has_spilled, spill_lock, frame, history>>
       PROVE  TypeOK'
  <2>1. /\ call' \in [Backends -> Calls]
        /\ \A o \in Backends : call'[o].pc \in Spilling <=> spill_lock' = o
    BY <1>12, CallStep
  <2> QED
    BY <1>12, <2>1 DEF TypeOK, memory, file, history
<1>13. ASSUME NEW b \in Backends, Lookup(b) PROVE TypeOK'
  <2>1. /\ UNCHANGED <<memory, file, has_spilled, spill_lock, frame, history>>
        /\ call[b].pc \notin Spilling
    BY <1>13 DEF Lookup, ContainsChunk, GetRelfork, ContainsFlag, GetFlag, GetRead, Return,
                 Start, Spilling
  <2>2. Floor \in Frames
    <3>1. Contents \in Frames
      BY MergeType, TablesType, InFlightType DEF Contents, TypeOK
    <3> QED
      BY <3>1, Basics DEF Floor
  <2>3. PICK c \in Calls : call' = [call EXCEPT ![b] = c] /\ c.pc \notin Spilling
    <3>1. ASSUME NEW t \in Chunks, ContainsChunk(b, t)
          PROVE  \E c \in Calls : call' = [call EXCEPT ![b] = c] /\ c.pc \notin Spilling
      <4> DEFINE fl == t \in Floor.chunks
                 c1 == [pc |-> "contained", key |-> t, floor |-> fl, val |-> TRUE]
                 c2 == [pc |-> "contains", key |-> t, floor |-> fl]
      <4>1. c1 \in Calls /\ c2 \in Calls /\ c1.pc \notin Spilling /\ c2.pc \notin Spilling
        <5>1. fl \in BOOLEAN
          OBVIOUS
        <5> HIDE DEF fl
        <5> QED
          BY <5>1 DEF Calls, Spilling
      <4>2. call' = [call EXCEPT ![b] = c1] \/ call' = [call EXCEPT ![b] = c2]
        BY <3>1 DEF ContainsChunk
      <4> HIDE DEF c1, c2
      <4> QED
        BY <4>1, <4>2
    <3>2. ASSUME NEW f \in Forks, GetRelfork(b, f)
          PROVE  \E c \in Calls : call' = [call EXCEPT ![b] = c] /\ c.pc \notin Spilling
      <4> DEFINE c0 == [pc |-> "get", key |-> f, floor |-> Floor.relforks[f]]
      <4>1. Floor.relforks[f] \in Versions /\ relforks[f] \in Versions
        BY <2>2 DEF Frames, TypeOK
      <4>2. c0 \in Calls /\ Got(c0, relforks[f]) \in Calls
        BY <4>1 DEF Calls, Got
      <4>3. c0.pc \notin Spilling /\ Got(c0, relforks[f]).pc \notin Spilling
        BY DEF Got, Spilling
      <4>4. call' = [call EXCEPT ![b] = c0] \/ call' = [call EXCEPT ![b] = Got(c0, relforks[f])]
        BY <3>2 DEF GetRelfork
      <4> HIDE DEF c0
      <4> QED
        BY <4>2, <4>3, <4>4
    <3>3. ASSUME ContainsFlag(b)
          PROVE  \E c \in Calls : call' = [call EXCEPT ![b] = c] /\ c.pc \notin Spilling
      <4> DEFINE c0 == [pc |-> "contained", key |-> call[b].key, floor |-> call[b].floor,
                        val |-> has_spilled]
      <4>1. call[b].key \in Chunks /\ call[b].floor \in BOOLEAN /\ has_spilled \in BOOLEAN
        BY <3>3, CallKinds DEF ContainsFlag, TypeOK
      <4>2. c0 \in Calls /\ c0.pc \notin Spilling
        BY <4>1 DEF Calls, Spilling
      <4>3. call' = [call EXCEPT ![b] = c0]
        BY <3>3 DEF ContainsFlag
      <4> HIDE DEF c0
      <4> QED
        BY <4>2, <4>3
    <3>4. ASSUME GetFlag(b)
          PROVE  \E c \in Calls : call' = [call EXCEPT ![b] = c] /\ c.pc \notin Spilling
      <4> DEFINE c0 == [call[b] EXCEPT !.pc = "read"]
      <4>1. c0 \in Calls /\ c0.pc \notin Spilling
        BY <3>4 DEF GetFlag, TypeOK, Calls, Spilling
      <4>2. Got(call[b], 0) \in Calls /\ Got(call[b], 0).pc \notin Spilling
        BY <3>4, CallKinds, Basics DEF GetFlag, TypeOK, Got, Calls, Spilling
      <4>3. call' = [call EXCEPT ![b] = c0] \/ call' = [call EXCEPT ![b] = Got(call[b], 0)]
        BY <3>4 DEF GetFlag
      <4> HIDE DEF c0
      <4> QED
        BY <4>1, <4>2, <4>3
    <3>5. ASSUME GetRead(b)
          PROVE  \E c \in Calls : call' = [call EXCEPT ![b] = c] /\ c.pc \notin Spilling
      <4> DEFINE c0 == [pc |-> "error"]
                 c1 == Got(call[b], spill_file.relforks[call[b].key])
      <4>1. c0 \in Calls /\ c0.pc \notin Spilling
        BY DEF Calls, Spilling
      <4>2. c1 \in Calls /\ c1.pc \notin Spilling
        BY <3>5, CallKinds DEF GetRead, TypeOK, Frames, Got, Calls, Spilling
      <4>3. call' = [call EXCEPT ![b] = c0] \/ call' = [call EXCEPT ![b] = c1]
        BY <3>5 DEF GetRead
      <4> HIDE DEF c0, c1
      <4> QED
        BY <4>1, <4>2, <4>3
    <3>6. ASSUME Return(b)
          PROVE  \E c \in Calls : call' = [call EXCEPT ![b] = c] /\ c.pc \notin Spilling
      BY <3>6, Basics DEF Return, Spilling
    <3> QED
      BY <1>13, <3>1, <3>2, <3>3, <3>4, <3>5, <3>6 DEF Lookup
  <2> QED
    BY <1>12, <2>1, <2>3
<1>14. ASSUME \/ Drain \/ CommitDrained \/ DrainSpillFail \/ DrainReadFail PROVE TypeOK'
  <2>1. Tables \in Frames /\ MergeFrame(spill_file, Tables) \in Frames
    BY TablesType, MergeType DEF TypeOK
  <2>2. \A s \in Shards : EmptyShards[s] = {}
    BY DEF EmptyShards
  <2>3. CASE Drain
    BY <2>1, <2>2, <2>3, Basics DEF Drain, TypeOK
  <2>4. CASE CommitDrained
    BY <2>4, Basics DEF CommitDrained, TypeOK, memory, file
  <2>5. CASE DrainSpillFail
    <3>1. damaged' \in BOOLEAN
      BY <2>5 DEF DrainSpillFail, TypeOK
    <3>2. failures' \in 0..MaxFailures
      BY <2>5, DraftAssumption DEF DrainSpillFail, TypeOK
    <3> QED
      BY <2>2, <2>5, <3>1, <3>2, Basics DEF DrainSpillFail, TypeOK
  <2>6. CASE DrainReadFail
    <3>1. has_spilled' \in BOOLEAN
      BY <2>6 DEF DrainReadFail
    <3> QED
      BY <2>1, <2>2, <2>6, <3>1, Basics DEF DrainReadFail, TypeOK, history
  <2> QED
    BY <1>14, <2>3, <2>4, <2>5, <2>6
<1>15. CASE UNCHANGED vars
  BY <1>15 DEF TypeOK, vars, memory, file, history
<1> QED
  BY <1>1, <1>2, <1>3, <1>4, <1>5, <1>6, <1>7, <1>8, <1>9, <1>10, <1>11, <1>13, <1>14, <1>15
  DEF Next, SpillStep

-----------------------------------------------------------------------------
(* The contract *)

\* c consists of a file, a frame in flight and the tables, later entries winning.
IsWhole(c, fl, inf, tb) ==
  /\ c.chunks = fl.chunks \cup inf.chunks \cup tb.chunks
  /\ \A f \in Forks : c.relforks[f] =
       IF tb.relforks[f] # 0 THEN tb.relforks[f]
       ELSE IF inf.relforks[f] # 0 THEN inf.relforks[f] ELSE fl.relforks[f]

\* The draft as a whole is that, before and after a step.
LEMMA WholeType ==
  ASSUME NEW fl \in Frames, NEW inf \in Frames, NEW tb \in Frames
  PROVE  /\ MergeFrame(MergeFrame(fl, inf), tb) \in Frames
         /\ IsWhole(MergeFrame(MergeFrame(fl, inf), tb), fl, inf, tb)
<1>1. MergeFrame(fl, inf) \in Frames
  BY MergeType
<1> QED
  BY <1>1, MergeType DEF IsWhole

LEMMA ContentsWhole ==
  ASSUME TypeOK
  PROVE  /\ InFlight \in Frames /\ Tables \in Frames /\ Contents \in Frames
         /\ Tables.chunks = UNION {shards[s] : s \in Shards} /\ Tables.relforks = relforks
         /\ IsWhole(Contents, spill_file, InFlight, Tables)
<1>1. InFlight \in Frames /\ Tables \in Frames
  BY InFlightType, TablesType DEF TypeOK
<1> QED
  BY <1>1, WholeType DEF Contents, TypeOK, Tables

LEMMA ContentsWholePrime ==
  ASSUME TypeOK'
  PROVE  /\ InFlight' \in Frames /\ Tables' \in Frames /\ Contents' \in Frames
         /\ Tables'.chunks = UNION {shards'[s] : s \in Shards} /\ Tables'.relforks = relforks'
         /\ IsWhole(Contents', spill_file', InFlight', Tables')
<1>1. InFlight' \in Frames
  BY Basics DEF InFlight, TypeOK
<1>2. Tables' \in Frames
  BY DEF Tables, TypeOK, Frames
<1>3. spill_file' \in Frames
  BY DEF TypeOK
<1>4. Contents' = MergeFrame(MergeFrame(spill_file', InFlight'), Tables')
  BY DEF Contents
<1> QED
  BY <1>1, <1>2, <1>3, <1>4, WholeType DEF Tables

\* An empty frame adds nothing.
LEMMA MergeEmpty ==
  ASSUME NEW a \in Frames
  PROVE  MergeFrame(a, EmptyFrame) = a
<1>1. MergeFrame(a, EmptyFrame) \in Frames
  BY MergeType, Basics
<1>2. /\ EmptyFrame.chunks = {}
      /\ \A f \in Forks : EmptyFrame.relforks[f] = 0
  BY DEF EmptyFrame
<1>3. MergeFrame(a, EmptyFrame).chunks = a.chunks
  <2>1. MergeFrame(a, EmptyFrame).chunks = a.chunks \cup {}
    BY <1>2 DEF MergeFrame
  <2> QED
    BY <2>1
<1>4. \A f \in Forks : MergeFrame(a, EmptyFrame).relforks[f] = a.relforks[f]
  BY <1>2, MergeType, Basics
<1> QED
  BY <1>1, <1>3, <1>4, FrameEq

\* What a step may do to the contract's variables.
ContractStep == Contract!Next \/ UNCHANGED <<Contents, drained, failures>>

LEMMA InitDraft == Init => DraftInv /\ Contract!Init
<1> SUFFICES ASSUME Init PROVE DraftInv /\ Contract!Init
  OBVIOUS
<1>1. TypeOK
  BY InitType
<1>2. InFlight = EmptyFrame /\ relforks = NoRelforks /\ spill_file = EmptyFrame
  BY DEF Init, InFlight
<1>3. FrameInv
  BY DEF Init, FrameInv, Idle
<1>4. VersionInv
  BY <1>2 DEF Init, VersionInv, EmptyFrame, NoRelforks
<1>5. Contents = EmptyFrame
  <2>1. Tables \in Frames /\ Tables.chunks = {} /\ Tables.relforks = relforks
    BY TablesType, <1>1 DEF TypeOK, Init, EmptyShards
  <2>2. Tables = EmptyFrame
    BY <2>1, <1>2, FrameEq, Basics DEF EmptyFrame, NoRelforks
  <2> QED
    BY <1>2, <2>2, MergeEmpty, Basics DEF Contents
<1> QED
  BY <1>1, <1>3, <1>4, <1>5 DEF DraftInv, Contract!Init, Init, EmptyFrame, Contract!EmptyFrame

\* A step that leaves tables, file and frames alone.
LEMMA QuietStep ==
  ASSUME DraftInv, TypeOK', NEW b \in Backends, call[b].pc \notin Spilling,
         call' \in [Backends -> Calls], call'[b].pc \notin Spilling,
         \A o \in Backends \ {b} : call'[o] = call[o],
         UNCHANGED <<memory, file, has_spilled, spill_lock, frame, history>>
  PROVE  DraftInv' /\ ContractStep
<1>1. FrameInv'
  BY DEF FrameInv, DraftInv, Spilling
<1>2. VersionInv'
  BY DEF VersionInv, DraftInv, InFlight, memory, file, history
<1>3. UNCHANGED <<Contents, drained, failures>>
  BY DEF Contents, InFlight, Tables, memory, file, history
<1> QED
  BY <1>1, <1>2, <1>3 DEF DraftInv, ContractStep

LEMMA RecordChunkStep ==
  ASSUME DraftInv, TypeOK', NEW b \in Backends, NEW t \in Chunks,
         call[b].pc \in {"idle", "insert"}, InsertChunk(b, t)
  PROVE  DraftInv' /\ ContractStep
<1>1. FrameInv'
  BY DEF FrameInv, DraftInv, TypeOK, InsertChunk, Inserted, Idle
<1>2. VersionInv'
  BY DEF VersionInv, DraftInv, InFlight, InsertChunk, file, history
<1>3. /\ spill_file' = spill_file /\ InFlight' = InFlight /\ relforks' = relforks
      /\ drained' = drained /\ failures' = failures
  BY DEF InsertChunk, InFlight, file, history
<1>4. /\ Contents \in Frames /\ IsWhole(Contents, spill_file, InFlight, Tables)
      /\ Contents' \in Frames /\ IsWhole(Contents', spill_file', InFlight', Tables')
      /\ Tables.chunks = UNION {shards[s] : s \in Shards}
      /\ Tables'.chunks = UNION {shards'[s] : s \in Shards}
  BY ContentsWhole, ContentsWholePrime DEF DraftInv
<1>5. Tables'.relforks = Tables.relforks
  BY <1>3 DEF Tables
<1>6. CASE shards' = shards
  BY <1>1, <1>2, <1>3, <1>6 DEF DraftInv, ContractStep, Contents, Tables
<1>7. CASE shards' = [shards EXCEPT ![ShardOf[t]] = @ \cup {t}]
  <2>1. Tables'.chunks = Tables.chunks \cup {t}
    <3>1. ShardOf[t] \in Shards
      BY DraftAssumption
    <3>2. \A s \in Shards : shards'[s] = IF s = ShardOf[t] THEN shards[s] \cup {t} ELSE shards[s]
      BY <1>7 DEF DraftInv, TypeOK
    <3>3. \A u : u \in UNION {shards'[s] : s \in Shards} <=> \E s \in Shards : u \in shards'[s]
      OBVIOUS
    <3>4. \A u : u \in UNION {shards[s] : s \in Shards} <=> \E s \in Shards : u \in shards[s]
      OBVIOUS
    <3>5. UNION {shards'[s] : s \in Shards} = (UNION {shards[s] : s \in Shards}) \cup {t}
      BY <3>1, <3>2, <3>3, <3>4
    <3> QED
      BY <3>5, <1>4
  <2>2. /\ Contents'.chunks = Contents.chunks \cup {t}
        /\ \A f \in Forks : Contents'.relforks[f] = Contents.relforks[f]
    BY <1>3, <1>4, <1>5, <2>1 DEF IsWhole
  <2>3. Contents'.relforks = Contents.relforks
    BY <1>4, <2>2 DEF Frames
  <2>4. Contents' = [Contents EXCEPT !.chunks = @ \cup {t}]
    BY <1>4, <2>2, <2>3 DEF Frames
  <2>5. Contract!RecordChunk(t)
    BY <1>3, <2>4 DEF Contract!RecordChunk
  <2> QED
    BY <1>1, <1>2, <2>5 DEF DraftInv, ContractStep, Contract!Next
<1> QED
  BY <1>6, <1>7 DEF InsertChunk

LEMMA RecordRelforkStep ==
  ASSUME DraftInv, TypeOK', NEW b \in Backends, NEW g \in Forks,
         call[b].pc \in {"idle", "insert"}, InsertRelfork(b, g)
  PROVE  DraftInv' /\ ContractStep
<1>1. FrameInv'
  BY DEF FrameInv, DraftInv, TypeOK, InsertRelfork, Inserted, Idle
<1>2. /\ spill_file' = spill_file /\ InFlight' = InFlight /\ shards' = shards
      /\ drained' = drained /\ failures' = failures
  BY DEF InsertRelfork, InFlight, file
<1>3. /\ Contents \in Frames /\ IsWhole(Contents, spill_file, InFlight, Tables)
      /\ Contents' \in Frames /\ IsWhole(Contents', spill_file', InFlight', Tables')
      /\ Tables.relforks = relforks /\ Tables'.relforks = relforks'
      /\ Tables'.chunks = Tables.chunks
  BY <1>2, ContentsWhole, ContentsWholePrime DEF DraftInv
<1>4. CASE relforks' = relforks /\ versions' = versions
  <2>1. VersionInv'
    BY <1>2, <1>4 DEF VersionInv, DraftInv
  <2>2. UNCHANGED <<Contents, drained, failures>>
    BY <1>2, <1>4 DEF Contents, Tables
  <2> QED
    BY <1>1, <2>1, <2>2 DEF DraftInv, ContractStep
<1>5. CASE relforks' = [relforks EXCEPT ![g] = versions + 1] /\ versions' = versions + 1
  <2>1. \A f \in Forks : relforks'[f] = IF f = g THEN versions + 1 ELSE relforks[f]
    BY <1>5 DEF DraftInv, TypeOK
  <2>2. versions \in Nat /\ versions + 1 \in Versions /\ relforks \in [Forks -> Versions]
    BY <1>5, Basics DEF DraftInv, TypeOK
  <2>3. \A f \in Forks : /\ relforks[f] \in Nat /\ spill_file.relforks[f] \in Nat
                         /\ InFlight.relforks[f] \in Nat
    BY Basics, ContentsWhole DEF DraftInv, TypeOK, Frames
  <2>4. VersionInv'
    BY <1>2, <1>5, <2>1, <2>2, <2>3 DEF VersionInv, DraftInv
  <2>5. Contents'.chunks = Contents.chunks
    BY <1>2, <1>3 DEF IsWhole
  <2>6. \A f \in Forks : Contents'.relforks[f] = IF f = g THEN versions + 1 ELSE Contents.relforks[f]
    BY <1>2, <1>3, <2>1, <2>2 DEF IsWhole
  <2>7. Contents' = [Contents EXCEPT !.relforks[g] = versions + 1]
    <3> DEFINE n == [Contents EXCEPT !.relforks[g] = versions + 1]
    <3>1. /\ n \in Frames /\ n.chunks = Contents.chunks
          /\ \A f \in Forks : n.relforks[f] = IF f = g THEN versions + 1 ELSE Contents.relforks[f]
      BY <1>3, <2>2 DEF Frames
    <3> HIDE DEF n
    <3>2. n.chunks = Contents'.chunks /\ \A f \in Forks : n.relforks[f] = Contents'.relforks[f]
      BY <2>5, <2>6, <3>1
    <3>3. n = Contents'
      BY <1>3, <3>1, <3>2, FrameEq
    <3> QED
      BY <3>3 DEF n
  <2>8. versions + 1 > Contents.relforks[g]
    BY <1>3, <2>2, <2>3 DEF IsWhole, VersionInv, DraftInv
  <2>9. Contract!RecordRelfork(g, versions + 1)
    BY <1>2, <2>7, <2>8 DEF Contract!RecordRelfork
  <2> QED
    BY <1>1, <2>2, <2>4, <2>9 DEF DraftInv, ContractStep, Contract!Next
<1> QED
  BY <1>4, <1>5 DEF InsertRelfork

\* Taking the lock, or giving up, with an empty frame.
LEMMA LockStep ==
  ASSUME DraftInv, TypeOK', NEW b \in Backends, TrySpill(b) \/ SpillToFile(b)
  PROVE  DraftInv' /\ ContractStep
<1>1. FrameInv'
  <2>1. frame'[b] = EmptyFrame /\ \A o \in Backends \ {b} : frame'[o] = frame[o] /\ call'[o] = call[o]
    BY DEF DraftInv, TypeOK, TrySpill, SpillToFile
  <2>2. EmptyFrame.relforks = NoRelforks
    BY DEF EmptyFrame, NoRelforks
  <2> QED
    BY <2>1, <2>2 DEF FrameInv, DraftInv
<1>2. /\ spill_file' = spill_file /\ shards' = shards /\ relforks' = relforks
      /\ versions' = versions /\ drained' = drained /\ failures' = failures
  BY DEF TrySpill, SpillToFile, memory, file, history
<1>3. InFlight' = InFlight
  <2>1. CASE spill_lock = Free
    <3>1. spill_lock' = b /\ frame'[b] = EmptyFrame
      BY <2>1 DEF TrySpill, SpillToFile, DraftInv, TypeOK
    <3> QED
      BY <2>1, <3>1, DraftAssumption DEF InFlight
  <2>2. CASE spill_lock # Free
    <3>1. spill_lock \in Backends /\ spill_lock' = spill_lock /\ call[b].pc = "try_spill"
      BY <2>2 DEF TrySpill, SpillToFile, DraftInv, TypeOK
    <3>2. spill_lock # b
      BY <3>1 DEF DraftInv, TypeOK, Spilling
    <3>3. frame'[spill_lock] = frame[spill_lock]
      BY <2>2, <3>1, <3>2 DEF TrySpill, SpillToFile, DraftInv, TypeOK
    <3> QED
      BY <3>1, <3>3 DEF InFlight
  <2> QED
    BY <2>1, <2>2
<1>4. VersionInv'
  BY <1>2, <1>3 DEF VersionInv, DraftInv
<1>5. UNCHANGED <<Contents, drained, failures>>
  BY <1>2, <1>3 DEF Contents, Tables
<1> QED
  BY <1>1, <1>4, <1>5 DEF DraftInv, ContractStep

\* The backend that spills is the one whose frame is in flight.
LEMMA Spiller ==
  ASSUME DraftInv, NEW b \in Backends, call[b].pc \in Spilling
  PROVE  spill_lock = b /\ InFlight = frame[b] /\ frame[b] \in Frames
<1>1. spill_lock = b /\ b # Free
  BY DraftAssumption DEF DraftInv, TypeOK
<1> QED
  BY <1>1 DEF InFlight, DraftInv, TypeOK

LEMMA DrainShardStep ==
  ASSUME DraftInv, TypeOK', NEW b \in Backends, DrainShard(b)
  PROVE  DraftInv' /\ ContractStep
<1> DEFINE n == call[b].next
<1>1. n \in Shards /\ call[b].pc = "shards"
  <2>1. n \in 0..NumShards
    BY CallKinds DEF DrainShard, DraftInv, TypeOK, Spilling
  <2> QED
    BY <2>1, DraftAssumption DEF DrainShard, Shards
<1>2. spill_lock = b /\ InFlight = frame[b] /\ frame[b] \in Frames
  BY <1>1, Spiller DEF Spilling
<1>3. /\ spill_file' = spill_file /\ relforks' = relforks /\ spill_lock' = spill_lock
      /\ versions' = versions /\ drained' = drained /\ failures' = failures
  BY DEF DrainShard, file, history
<1>4. /\ InFlight' = [frame[b] EXCEPT !.chunks = @ \cup shards[n]]
      /\ frame'[b] = InFlight'
  <2>1. frame'[b] = [frame[b] EXCEPT !.chunks = @ \cup shards[n]]
    BY DEF DrainShard, DraftInv, TypeOK
  <2> QED
    BY <1>2, <1>3, <2>1, DraftAssumption DEF InFlight
<1>5. InFlight'.relforks = InFlight.relforks /\ InFlight'.chunks = InFlight.chunks \cup shards[n]
  BY <1>2, <1>4 DEF Frames
<1>6. FrameInv'
  <2>1. \A o \in Backends \ {b} : frame'[o] = frame[o] /\ call'[o] = call[o]
    BY DEF DrainShard, DraftInv, TypeOK
  <2>2. call'[b].pc = "shards"
    <3>1. call[b] \in [pc : Spilling, next : 0..NumShards, item : Items \cup {NoItem}]
      BY <1>1, CallKinds DEF DraftInv, TypeOK, Spilling
    <3> QED
      BY <1>1, <3>1 DEF DrainShard, DraftInv, TypeOK
  <2>3. frame'[b].relforks = frame[b].relforks
    BY <1>2, <1>4, <1>5
  <2> QED
    BY <1>1, <2>1, <2>2, <2>3 DEF FrameInv, DraftInv
<1>7. VersionInv'
  BY <1>3, <1>5 DEF VersionInv, DraftInv
<1>8. /\ Contents \in Frames /\ IsWhole(Contents, spill_file, InFlight, Tables)
      /\ Contents' \in Frames /\ IsWhole(Contents', spill_file', InFlight', Tables')
      /\ Tables.chunks = UNION {shards[s] : s \in Shards}
      /\ Tables'.chunks = UNION {shards'[s] : s \in Shards}
      /\ Tables.relforks = relforks /\ Tables'.relforks = relforks'
  BY ContentsWhole, ContentsWholePrime DEF DraftInv
<1>9. Contents' = Contents
  <2>1. InFlight'.chunks \cup Tables'.chunks = InFlight.chunks \cup Tables.chunks
    <3>1. \A s \in Shards : shards'[s] = IF s = n THEN {} ELSE shards[s]
      BY DEF DrainShard, DraftInv, TypeOK
    <3>2. \A u : u \in UNION {shards'[s] : s \in Shards} <=> \E s \in Shards : u \in shards'[s]
      OBVIOUS
    <3>3. \A u : u \in UNION {shards[s] : s \in Shards} <=> \E s \in Shards : u \in shards[s]
      OBVIOUS
    <3> HIDE DEF n
    <3>4. shards[n] \cup (UNION {shards'[s] : s \in Shards}) = UNION {shards[s] : s \in Shards}
      BY <1>1, <3>1, <3>2, <3>3
    <3> QED
      BY <1>5, <1>8, <3>4
  <2>2. Contents'.chunks = Contents.chunks
    BY <1>3, <1>8, <2>1 DEF IsWhole
  <2>3. \A f \in Forks : Contents'.relforks[f] = Contents.relforks[f]
    BY <1>3, <1>5, <1>8 DEF IsWhole
  <2> QED
    BY <1>8, <2>2, <2>3, FrameEq
<1> QED
  BY <1>3, <1>6, <1>7, <1>9 DEF DraftInv, ContractStep

LEMMA DrainRelforksStep ==
  ASSUME DraftInv, TypeOK', NEW b \in Backends, DrainRelforks(b)
  PROVE  DraftInv' /\ ContractStep
<1> DEFINE full == [frame[b] EXCEPT !.relforks = relforks]
<1>1. call[b].pc = "shards" /\ call[b].pc \in Spilling
  BY DEF DrainRelforks, Spilling
<1>2. /\ spill_lock = b /\ InFlight = frame[b] /\ frame[b] \in Frames
      /\ frame[b].relforks = NoRelforks
  BY <1>1, Spiller DEF DraftInv, FrameInv
<1>3. /\ spill_file' = spill_file /\ shards' = shards /\ relforks' = NoRelforks
      /\ versions' = versions /\ drained' = drained /\ failures' = failures
  BY DEF DrainRelforks, file, history
<1>4. full \in Frames /\ full.chunks = frame[b].chunks /\ full.relforks = relforks
  BY <1>2 DEF DraftInv, TypeOK, Frames
<1>5. frame'[b] = full /\ \A o \in Backends \ {b} : frame'[o] = frame[o] /\ call'[o] = call[o]
  BY DEF DrainRelforks, DraftInv, TypeOK
<1>6. call'[b].pc \notin {"shards", "flag"}
  <2>1. Resume(b).pc \notin Spilling
    BY <1>1, ResumeType DEF DraftInv
  <2>2. call[b] \in [pc : Spilling, next : 0..NumShards, item : Items \cup {NoItem}]
    BY <1>1, CallKinds DEF DraftInv, TypeOK
  <2>3. [call[b] EXCEPT !.pc = "length"].pc = "length"
    BY <2>2
  <2>4. call'[b] = Resume(b) \/ call'[b] = [call[b] EXCEPT !.pc = "length"]
    BY DEF DrainRelforks, DraftInv, TypeOK
  <2> QED
    BY <2>1, <2>3, <2>4 DEF Spilling
<1>7. FrameInv'
  BY <1>5, <1>6 DEF FrameInv, DraftInv
<1>8. InFlight' = full
  <2>1. CASE full = EmptyFrame
    BY <2>1 DEF DrainRelforks, InFlight
  <2>2. CASE full # EmptyFrame
    BY <1>2, <1>5, <2>2, DraftAssumption DEF DrainRelforks, InFlight
  <2> QED
    BY <2>1, <2>2
<1> HIDE DEF full
<1>9. \A f \in Forks : /\ NoRelforks[f] = 0 /\ InFlight'.relforks[f] = relforks[f]
                       /\ InFlight.relforks[f] = 0
  BY <1>2, <1>4, <1>8 DEF NoRelforks
<1>10. VersionInv'
  <2>1. \A f \in Forks : relforks[f] \in Nat /\ spill_file.relforks[f] \in Nat
    BY Basics DEF DraftInv, TypeOK, Frames
  <2>2. versions \in Nat
    BY Basics DEF DraftInv, TypeOK
  <2> QED
    BY <1>3, <1>9, <2>1, <2>2 DEF VersionInv, DraftInv
<1>11. Contents' = Contents
  <2>1. /\ Contents \in Frames /\ IsWhole(Contents, spill_file, InFlight, Tables)
        /\ Contents' \in Frames /\ IsWhole(Contents', spill_file', InFlight', Tables')
        /\ Tables'.chunks = Tables.chunks
        /\ Tables.relforks = relforks /\ Tables'.relforks = relforks'
    BY <1>3, ContentsWhole, ContentsWholePrime DEF DraftInv
  <2>2. Contents'.chunks = Contents.chunks
    BY <1>2, <1>3, <1>4, <1>8, <2>1 DEF IsWhole
  <2>3. \A f \in Forks : Contents'.relforks[f] = Contents.relforks[f]
    BY <1>3, <1>9, <2>1 DEF IsWhole
  <2> QED
    BY <2>1, <2>2, <2>3, FrameEq
<1> QED
  BY <1>3, <1>7, <1>10, <1>11 DEF DraftInv, ContractStep

LEMMA AppendLengthStep ==
  ASSUME DraftInv, TypeOK', NEW b \in Backends, AppendLength(b)
  PROVE  DraftInv' /\ ContractStep
<1>1. call'[b].pc = "body" /\ \A o \in Backends \ {b} : call'[o] = call[o]
  <2>1. call[b] \in [pc : Spilling, next : 0..NumShards, item : Items \cup {NoItem}]
    BY CallKinds DEF AppendLength, DraftInv, TypeOK, Spilling
  <2> QED
    BY <2>1 DEF AppendLength, DraftInv, TypeOK
<1>2. /\ frame' = frame /\ spill_lock' = spill_lock /\ spill_file' = spill_file
      /\ shards' = shards /\ relforks' = relforks
      /\ versions' = versions /\ drained' = drained /\ failures' = failures
  BY DEF AppendLength, memory, file, history
<1>3. FrameInv'
  BY <1>1, <1>2 DEF FrameInv, DraftInv
<1>4. InFlight' = InFlight /\ Contents' = Contents
  BY <1>2 DEF InFlight, Contents, Tables
<1>5. VersionInv'
  BY <1>2, <1>4 DEF VersionInv, DraftInv
<1> QED
  BY <1>2, <1>3, <1>4, <1>5 DEF DraftInv, ContractStep

LEMMA AppendBodyStep ==
  ASSUME DraftInv, TypeOK', NEW b \in Backends, AppendBody(b)
  PROVE  DraftInv' /\ ContractStep
<1>1. call[b].pc \in Spilling
  BY DEF AppendBody, Spilling
<1>2. spill_lock = b /\ InFlight = frame[b] /\ frame[b] \in Frames /\ spill_file \in Frames
  BY <1>1, Spiller DEF DraftInv, TypeOK
<1>3. /\ spill_file' = MergeFrame(spill_file, InFlight) /\ shards' = shards /\ relforks' = relforks
      /\ versions' = versions /\ drained' = drained /\ failures' = failures
      /\ spill_lock' = spill_lock
  BY <1>2 DEF AppendBody, memory, history
<1>4. frame'[b] = EmptyFrame /\ \A o \in Backends \ {b} : frame'[o] = frame[o] /\ call'[o] = call[o]
  BY DEF AppendBody, DraftInv, TypeOK
<1>5. call'[b].pc = "flag"
  <2>1. call[b] \in [pc : Spilling, next : 0..NumShards, item : Items \cup {NoItem}]
    BY <1>1, CallKinds DEF DraftInv, TypeOK
  <2> QED
    BY <2>1 DEF AppendBody, DraftInv, TypeOK
<1>6. FrameInv'
  BY <1>4, <1>5 DEF FrameInv, DraftInv
<1>7. InFlight' = EmptyFrame
  BY <1>2, <1>3, <1>4, DraftAssumption DEF InFlight
<1>8. /\ EmptyFrame.chunks = {} /\ \A f \in Forks : EmptyFrame.relforks[f] = 0
  BY DEF EmptyFrame
<1>9. /\ spill_file'.chunks = spill_file.chunks \cup InFlight.chunks
      /\ \A f \in Forks : spill_file'.relforks[f] =
           IF InFlight.relforks[f] # 0 THEN InFlight.relforks[f] ELSE spill_file.relforks[f]
  BY <1>2, <1>3, MergeType
<1>10. VersionInv'
  <2>1. /\ \A f \in Forks : relforks[f] \in Nat /\ spill_file.relforks[f] \in Nat
                            /\ InFlight.relforks[f] \in Nat
        /\ versions \in Nat
    BY <1>2, Basics DEF DraftInv, TypeOK, Frames
  <2> QED
    BY <1>3, <1>7, <1>8, <1>9, <2>1 DEF VersionInv, DraftInv
<1>11. Contents' = Contents
  <2>1. /\ Contents \in Frames /\ IsWhole(Contents, spill_file, InFlight, Tables)
        /\ Contents' \in Frames /\ IsWhole(Contents', spill_file', InFlight', Tables')
    BY ContentsWhole, ContentsWholePrime DEF DraftInv
  <2>2. Tables' = Tables
    BY <1>3 DEF Tables
  <2>3. Contents'.chunks = Contents.chunks
    BY <1>7, <1>8, <1>9, <2>1, <2>2 DEF IsWhole
  <2>4. \A f \in Forks : Contents'.relforks[f] = Contents.relforks[f]
    BY <1>7, <1>8, <1>9, <2>1, <2>2 DEF IsWhole
  <2> QED
    BY <2>1, <2>3, <2>4, FrameEq
<1> QED
  BY <1>3, <1>6, <1>10, <1>11 DEF DraftInv, ContractStep

LEMMA SetSpilledStep ==
  ASSUME DraftInv, TypeOK', NEW b \in Backends, SetSpilled(b)
  PROVE  DraftInv' /\ ContractStep
<1>1. call[b].pc \in Spilling /\ call[b].pc = "flag"
  BY DEF SetSpilled, Spilling
<1>2. InFlight = EmptyFrame
  BY <1>1, Spiller DEF DraftInv, FrameInv
<1>3. InFlight' = EmptyFrame
  BY DEF SetSpilled, InFlight
<1>4. /\ frame' = frame /\ spill_file' = spill_file /\ shards' = shards /\ relforks' = relforks
      /\ versions' = versions /\ drained' = drained /\ failures' = failures
  BY DEF SetSpilled, memory, file, history
<1>5. call'[b] = Resume(b) /\ \A o \in Backends \ {b} : call'[o] = call[o]
  BY DEF SetSpilled, DraftInv, TypeOK
<1>6. FrameInv'
  BY <1>1, <1>4, <1>5, ResumeType DEF FrameInv, DraftInv, Spilling
<1>7. VersionInv'
  BY <1>2, <1>3, <1>4 DEF VersionInv, DraftInv
<1>8. Contents' = Contents
  BY <1>2, <1>3, <1>4 DEF Contents, Tables
<1> QED
  BY <1>4, <1>6, <1>7, <1>8 DEF DraftInv, ContractStep

LEMMA AppendFailStep ==
  ASSUME DraftInv, TypeOK', NEW b \in Backends, AppendFail(b)
  PROVE  DraftInv' /\ ContractStep
<1>1. InFlight' = EmptyFrame
  BY DEF AppendFail, InFlight
<1>2. /\ spill_file' = spill_file /\ shards' = shards /\ relforks' = relforks
      /\ versions' = versions /\ drained' = drained /\ failures' = failures + 1
  BY DEF AppendFail, memory
<1>3. call'[b] = Idle /\ \A o \in Backends \ {b} : call'[o] = call[o] /\ frame'[o] = frame[o]
  BY DEF AppendFail, DraftInv, TypeOK
<1>4. FrameInv'
  BY <1>3 DEF FrameInv, DraftInv, Idle
<1>5. /\ EmptyFrame.chunks = {} /\ \A f \in Forks : EmptyFrame.relforks[f] = 0
  BY DEF EmptyFrame
<1>6. /\ \A f \in Forks : relforks[f] \in Nat /\ spill_file.relforks[f] \in Nat
                          /\ InFlight.relforks[f] \in Nat
      /\ versions \in Nat
  BY Basics, ContentsWhole DEF DraftInv, TypeOK, Frames
<1>7. VersionInv'
  BY <1>1, <1>2, <1>5, <1>6 DEF VersionInv, DraftInv
<1>8. Contract!Lose
  <2>1. /\ IsWhole(Contents, spill_file, InFlight, Tables)
        /\ IsWhole(Contents', spill_file', InFlight', Tables')
        /\ Tables.relforks = relforks
    BY ContentsWhole, ContentsWholePrime DEF DraftInv
  <2>2. Tables' = Tables
    BY <1>2 DEF Tables
  <2>3. Contents'.chunks \subseteq Contents.chunks
    BY <1>1, <1>2, <1>5, <2>1, <2>2 DEF IsWhole
  <2>4. \A f \in Forks : Contents'.relforks[f] <= Contents.relforks[f]
    BY <1>1, <1>2, <1>5, <1>6, <2>1, <2>2 DEF IsWhole, VersionInv, DraftInv
  <2> QED
    BY <1>2, <2>3, <2>4 DEF Contract!Lose
<1> QED
  BY <1>4, <1>7, <1>8 DEF DraftInv, ContractStep, Contract!Next

\* The drain meets no spill: nothing is in flight.
LEMMA DrainAlone ==
  ASSUME DraftInv, Alone
  PROVE  spill_lock = Free /\ InFlight = EmptyFrame
<1>1. spill_lock \notin Backends
  BY DEF Alone, DraftInv, TypeOK, Spilling
<1> QED
  BY <1>1 DEF InFlight, DraftInv, TypeOK

\* All of it: the drain, the commit that takes its frame, and its failures.
LEMMA DrainStep ==
  ASSUME DraftInv, TypeOK', \/ Drain \/ CommitDrained \/ DrainSpillFail \/ DrainReadFail
  PROVE  DraftInv' /\ ContractStep
<1>1. /\ call' = call /\ frame' = frame /\ spill_lock' = spill_lock /\ versions' = versions
      /\ InFlight' = InFlight
  BY DEF Drain, CommitDrained, DrainSpillFail, DrainReadFail, InFlight, history
<1>2. FrameInv'
  BY <1>1 DEF FrameInv, DraftInv
<1>3. /\ EmptyFrame.chunks = {} /\ \A f \in Forks : EmptyFrame.relforks[f] = 0
      /\ \A f \in Forks : NoRelforks[f] = 0
  BY DEF EmptyFrame, NoRelforks
<1>4. /\ \A f \in Forks : relforks[f] \in Nat /\ spill_file.relforks[f] \in Nat
                          /\ InFlight.relforks[f] \in Nat
      /\ versions \in Nat
  BY Basics, ContentsWhole DEF DraftInv, TypeOK, Frames
<1>5. /\ spill_file \in Frames /\ Tables \in Frames
      /\ Contents \in Frames /\ IsWhole(Contents, spill_file, InFlight, Tables)
      /\ Contents' \in Frames /\ IsWhole(Contents', spill_file', InFlight', Tables')
      /\ Tables.relforks = relforks /\ Tables'.relforks = relforks'
      /\ Tables'.chunks = UNION {shards'[s] : s \in Shards}
  BY ContentsWhole, ContentsWholePrime DEF DraftInv, TypeOK
<1>6. ASSUME shards' = EmptyShards, relforks' = NoRelforks
      PROVE  Tables'.chunks = {} /\ \A f \in Forks : Tables'.relforks[f] = 0
  BY <1>3, <1>5, <1>6 DEF EmptyShards
<1>7. CASE Drain
  <2>1. InFlight = EmptyFrame
    BY <1>7, DrainAlone DEF Drain
  <2>2. /\ spill_file' = EmptyFrame /\ shards' = EmptyShards /\ relforks' = NoRelforks
        /\ drained' = MergeFrame(spill_file, Tables) /\ failures' = failures
    BY <1>7 DEF Drain
  <2>3. VersionInv'
    BY <1>1, <1>3, <1>4, <2>1, <2>2 DEF VersionInv
  <2>4. drained' = Contents
    BY <1>5, <2>1, <2>2, MergeEmpty DEF Contents
  <2>5. Contents' = EmptyFrame
    <3>1. Contents'.chunks = EmptyFrame.chunks
      BY <1>1, <1>3, <1>5, <1>6, <2>1, <2>2 DEF IsWhole
    <3>2. \A f \in Forks : Contents'.relforks[f] = EmptyFrame.relforks[f]
      BY <1>1, <1>3, <1>5, <1>6, <2>1, <2>2 DEF IsWhole
    <3> QED
      BY <1>5, <3>1, <3>2, FrameEq, Basics
  <2>6. Contract!Drain
    BY <2>2, <2>4, <2>5 DEF Contract!Drain, Contract!EmptyFrame, EmptyFrame
  <2> QED
    BY <1>2, <2>3, <2>6 DEF DraftInv, ContractStep, Contract!Next
<1>8. CASE CommitDrained
  <2>1. /\ spill_file' = spill_file /\ shards' = shards /\ relforks' = relforks
        /\ drained' = EmptyFrame /\ failures' = failures
    BY <1>8 DEF CommitDrained, memory, file
  <2>2. VersionInv'
    BY <1>1, <2>1 DEF VersionInv, DraftInv
  <2>3. Contents' = Contents
    BY <1>1, <2>1 DEF Contents, Tables
  <2>4. Contract!Commit
    BY <2>1, <2>3 DEF Contract!Commit, Contract!EmptyFrame, EmptyFrame
  <2> QED
    BY <1>2, <2>2, <2>4 DEF DraftInv, ContractStep, Contract!Next
<1>9. CASE DrainSpillFail
  <2>1. InFlight = EmptyFrame
    BY <1>9, DrainAlone DEF DrainSpillFail
  <2>2. /\ spill_file' = spill_file /\ shards' = EmptyShards /\ relforks' = NoRelforks
        /\ drained' = drained /\ failures' = failures + 1
    BY <1>9 DEF DrainSpillFail
  <2>3. VersionInv'
    BY <1>1, <1>3, <1>4, <2>1, <2>2 DEF VersionInv, DraftInv
  <2>4. Contents'.chunks \subseteq Contents.chunks
    BY <1>1, <1>3, <1>5, <1>6, <2>1, <2>2 DEF IsWhole
  <2>5. \A f \in Forks : Contents'.relforks[f] <= Contents.relforks[f]
    BY <1>1, <1>3, <1>4, <1>5, <1>6, <2>1, <2>2 DEF IsWhole, VersionInv, DraftInv
  <2>6. Contract!Lose
    BY <2>2, <2>4, <2>5 DEF Contract!Lose
  <2> QED
    BY <1>2, <2>3, <2>6 DEF DraftInv, ContractStep, Contract!Next
<1>10. CASE DrainReadFail
  <2>1. InFlight = EmptyFrame
    BY <1>10, DrainAlone DEF DrainReadFail
  <2>2. /\ spill_file' = MergeFrame(spill_file, Tables) /\ shards' = EmptyShards
        /\ relforks' = NoRelforks /\ drained' = drained /\ failures' = failures
    BY <1>10 DEF DrainReadFail, history
  <2>3. /\ spill_file'.chunks = spill_file.chunks \cup Tables.chunks
        /\ \A f \in Forks : spill_file'.relforks[f] =
             IF relforks[f] # 0 THEN relforks[f] ELSE spill_file.relforks[f]
    BY <1>5, <2>2, MergeType
  <2>4. VersionInv'
    BY <1>1, <1>3, <1>4, <2>1, <2>2, <2>3 DEF VersionInv, DraftInv
  <2>5. Contents' = Contents
    <3>1. Contents'.chunks = Contents.chunks
      BY <1>1, <1>3, <1>5, <1>6, <2>1, <2>2, <2>3 DEF IsWhole
    <3>2. \A f \in Forks : Contents'.relforks[f] = Contents.relforks[f]
      BY <1>1, <1>3, <1>5, <1>6, <2>1, <2>2, <2>3 DEF IsWhole
    <3> QED
      BY <1>5, <3>1, <3>2, FrameEq
  <2> QED
    BY <1>2, <2>2, <2>4, <2>5 DEF DraftInv, ContractStep
<1> QED
  BY <1>7, <1>8, <1>9, <1>10

LEMMA LookupStep ==
  ASSUME DraftInv, TypeOK', NEW b \in Backends, Lookup(b)
  PROVE  DraftInv' /\ ContractStep
<1>1. /\ UNCHANGED <<memory, file, has_spilled, spill_lock, frame, history>>
      /\ call[b].pc \notin Spilling
  BY DEF Lookup, ContainsChunk, GetRelfork, ContainsFlag, GetFlag, GetRead, Return, Start, Spilling
<1>2. \A o \in Backends \ {b} : call'[o] = call[o]
  BY DEF Lookup, ContainsChunk, GetRelfork, ContainsFlag, GetFlag, GetRead, Return, DraftInv, TypeOK
<1>3. call' \in [Backends -> Calls] /\ call'[b].pc \notin Spilling
  <2>1. spill_lock # b /\ spill_lock' = spill_lock
    BY <1>1 DEF DraftInv, TypeOK
  <2> QED
    BY <2>1 DEF TypeOK
<1> QED
  BY <1>1, <1>2, <1>3, QuietStep

LEMMA NextDraft == DraftInv /\ [Next]_vars => DraftInv' /\ ContractStep
<1> SUFFICES ASSUME DraftInv, [Next]_vars PROVE DraftInv' /\ ContractStep
  OBVIOUS
<1>1. TypeOK'
  BY NextType DEF DraftInv
<1>2. ASSUME NEW b \in Backends, NEW t \in Chunks, RecordChunk(b, t)
      PROVE  DraftInv' /\ ContractStep
  BY <1>1, <1>2, RecordChunkStep DEF RecordChunk, Start
<1>3. ASSUME NEW b \in Backends, NEW f \in Forks, RecordRelfork(b, f)
      PROVE  DraftInv' /\ ContractStep
  BY <1>1, <1>3, RecordRelforkStep DEF RecordRelfork, Start
<1>4. ASSUME NEW b \in Backends, Retry(b) PROVE DraftInv' /\ ContractStep
  <2>1. call[b].pc = "insert" /\ call[b].item \in Items
    BY <1>4, CallKinds DEF Retry, DraftInv, TypeOK
  <2>2. /\ call[b].item.zone = "chunks" => call[b].item.key \in Chunks
        /\ call[b].item.zone # "chunks" => call[b].item.key \in Forks
    BY <2>1 DEF Items
  <2> QED
    BY <1>1, <1>4, <2>1, <2>2, RecordChunkStep, RecordRelforkStep DEF Retry
<1>5. ASSUME NEW b \in Backends, SpillStep(b) PROVE DraftInv' /\ ContractStep
  BY <1>1, <1>5, LockStep, DrainShardStep, DrainRelforksStep, AppendLengthStep, AppendBodyStep,
     SetSpilledStep DEF SpillStep
<1>6. ASSUME NEW b \in Backends, AppendFail(b) PROVE DraftInv' /\ ContractStep
  BY <1>1, <1>6, AppendFailStep
<1>7. ASSUME NEW b \in Backends, Lookup(b) PROVE DraftInv' /\ ContractStep
  BY <1>1, <1>7, LookupStep
<1>8. CASE Drain \/ CommitDrained \/ DrainSpillFail \/ DrainReadFail
  BY <1>1, <1>8, DrainStep
<1>9. CASE UNCHANGED vars
  <2>1. FrameInv' /\ VersionInv'
    BY <1>9 DEF vars, memory, file, history, DraftInv, FrameInv, VersionInv, InFlight
  <2>2. UNCHANGED <<Contents, drained, failures>>
    BY <1>9 DEF vars, memory, file, history, Contents, InFlight, Tables
  <2> QED
    BY <1>1, <2>1, <2>2 DEF DraftInv, ContractStep
<1> QED
  BY <1>2, <1>3, <1>4, <1>5, <1>6, <1>7, <1>8, <1>9 DEF Next

\* The tables, the file, the frames and the calls keep their shape, every tag is
\* in its own shard, and the spill lock belongs to the one backend that spills,
\* also after a spill that failed.
THEOREM DraftTypeCorrect == Spec => []TypeOK
<1>1. Init => TypeOK
  BY InitType
<1>2. TypeOK /\ [Next]_vars => TypeOK'
  BY NextType
<1> QED
  BY <1>1, <1>2, PTL DEF Spec

\* The sharded, spilling draft implements the contract the store builds on:
\* nothing recorded is forgotten or overtaken by an older version, and a drain
\* returns exactly what was recorded, unless a spill fails.
THEOREM DraftKeepsContract == Spec => KeepsContract
<1>1. Init => DraftInv /\ Contract!Init
  BY InitDraft
<1>2. DraftInv /\ [Next]_vars => DraftInv' /\ [Contract!Next]_<<Contents, drained, failures>>
  BY NextDraft DEF ContractStep
<1> QED
  BY <1>1, <1>2, PTL DEF Spec, KeepsContract, Contract!Spec

-----------------------------------------------------------------------------
(* Lookups *)

\* What is on file is announced by the flag, or by the spill that is about to raise it.
FlagInv ==
  spill_file # EmptyFrame => has_spilled \/ \E o \in Backends : call[o].pc = "flag"

\* A lookup that has not found its entry in the table will find it on file: the flag is
\* up, and stays so, and the file has the version recorded last or a later one.
PendingInv ==
  \A b \in Backends :
    /\ call[b].pc = "contains" => (call[b].floor => has_spilled)
    /\ call[b].pc \in {"get", "read"} =>
         \/ call[b].floor = 0
         \/ has_spilled /\ spill_file.relforks[call[b].key] >= call[b].floor

LookupInv == FlagInv /\ PendingInv /\ LookupsRegular

\* Every lookup that is right and under way stays so, if the flag is not lowered and no
\* version on file decreases under it, and the one that steps is right itself.
LEMMA PendingKept ==
  ASSUME DraftInv, TypeOK', LookupInv, NEW b \in Backends,
         \A o \in Backends \ {b} : call'[o] = call[o],
         has_spilled => has_spilled',
         \A f \in Forks : spill_file'.relforks[f] >= spill_file.relforks[f],
         call'[b].pc \notin {"contains", "contained", "get", "read", "got"}
  PROVE  PendingInv' /\ LookupsRegular'
<1>1. ASSUME NEW o \in Backends
      PROVE  /\ call'[o].pc = "contains" => (call'[o].floor => has_spilled')
             /\ call'[o].pc \in {"get", "read"} =>
                  \/ call'[o].floor = 0
                  \/ has_spilled' /\ spill_file'.relforks[call'[o].key] >= call'[o].floor
             /\ call'[o].pc = "contained" => (call'[o].floor => call'[o].val)
             /\ call'[o].pc = "got" => call'[o].val >= call'[o].floor
  <2>1. CASE o = b
    BY <2>1
  <2>2. CASE o # b
    <3>1. call'[o] = call[o] /\ call[o] \in Calls
      BY <2>2 DEF DraftInv, TypeOK
    <3>2. call[o].pc \in {"get", "read"} => call[o].key \in Forks /\ call[o].floor \in Nat
      BY <3>1, CallKinds, Basics
    <3>3. \A f \in Forks : spill_file.relforks[f] \in Nat /\ spill_file'.relforks[f] \in Nat
      BY Basics DEF DraftInv, TypeOK, Frames
    <3>4. call[o].pc = "contains" => (call[o].floor => has_spilled')
      BY DEF LookupInv, PendingInv
    <3>5. call[o].pc \in {"get", "read"} =>
            \/ call[o].floor = 0
            \/ has_spilled' /\ spill_file.relforks[call[o].key] >= call[o].floor
      BY DEF LookupInv, PendingInv
    <3>6. call[o].pc \in {"get", "read"} =>
            \/ call[o].floor = 0
            \/ has_spilled' /\ spill_file'.relforks[call[o].key] >= call[o].floor
      BY <3>2, <3>3, <3>5
    <3>7. /\ call[o].pc = "contained" => (call[o].floor => call[o].val)
          /\ call[o].pc = "got" => call[o].val >= call[o].floor
      BY DEF LookupInv, LookupsRegular
    <3> QED
      BY <3>1, <3>4, <3>6, <3>7
  <2> QED
    BY <2>1, <2>2
<1> QED
  BY <1>1 DEF PendingInv, LookupsRegular

\* A record, and a spill before and after it writes, leaves file and flag alone and never
\* withdraws an announcement.
LEMMA RecordLookups ==
  ASSUME DraftInv, TypeOK', LookupInv, NEW b \in Backends,
         \/ \E t \in Chunks : InsertChunk(b, t)
         \/ \E f \in Forks : InsertRelfork(b, f)
         \/ TrySpill(b) \/ SpillToFile(b) \/ DrainShard(b) \/ DrainRelforks(b)
         \/ AppendLength(b) \/ AppendFail(b),
         call[b].pc # "flag"
  PROVE  LookupInv'
<1>1. spill_file' = spill_file /\ has_spilled' = has_spilled
  BY DEF InsertChunk, InsertRelfork, TrySpill, SpillToFile, DrainShard, DrainRelforks,
         AppendLength, AppendFail, file
<1>2. \A o \in Backends \ {b} : call'[o] = call[o]
  <2>1. ASSUME NEW c, call' = [call EXCEPT ![b] = c]
        PROVE  \A o \in Backends \ {b} : call'[o] = call[o]
    BY <2>1 DEF DraftInv, TypeOK
  <2>2. CASE \E t \in Chunks : InsertChunk(b, t)
    BY <2>1, <2>2 DEF InsertChunk, Inserted
  <2>3. CASE \E f \in Forks : InsertRelfork(b, f)
    BY <2>1, <2>3 DEF InsertRelfork, Inserted
  <2>4. CASE TrySpill(b)
    BY <2>1, <2>4 DEF TrySpill
  <2>5. CASE SpillToFile(b)
    BY <2>1, <2>5 DEF SpillToFile
  <2>6. CASE DrainShard(b)
    BY <2>1, <2>6 DEF DrainShard
  <2>7. CASE DrainRelforks(b)
    BY <2>1, <2>7 DEF DrainRelforks
  <2>8. CASE AppendLength(b)
    BY <2>1, <2>8 DEF AppendLength
  <2>9. CASE AppendFail(b)
    BY <2>1, <2>9 DEF AppendFail
  <2> QED
    BY <2>2, <2>3, <2>4, <2>5, <2>6, <2>7, <2>8, <2>9
<1>3. call'[b].pc \notin {"contains", "contained", "get", "read", "got"}
  <2>1. /\ call'[b] \in Calls /\ call[b] \in Calls
        /\ \A c : call' = [call EXCEPT ![b] = c] => call'[b] = c
    BY DEF DraftInv, TypeOK
  <2>2. CASE \E t \in Chunks : InsertChunk(b, t)
    BY <2>1, <2>2 DEF InsertChunk, Inserted, Idle
  <2>3. CASE \E f \in Forks : InsertRelfork(b, f)
    BY <2>1, <2>3 DEF InsertRelfork, Inserted, Idle
  <2>4. CASE TrySpill(b)
    BY <2>1, <2>4 DEF TrySpill, Idle
  <2>5. CASE SpillToFile(b)
    BY <2>1, <2>5 DEF SpillToFile
  <2>6. CASE DrainShard(b)
    <3>1. call'[b] = [call[b] EXCEPT !.next = @ + 1] /\ call[b].pc = "shards"
      BY <2>1, <2>6 DEF DrainShard
    <3>2. call[b] \in [pc : Spilling, next : 0..NumShards, item : Items \cup {NoItem}]
      BY <2>1, <3>1, CallKinds DEF Spilling
    <3> QED
      BY <3>1, <3>2
  <2>7. CASE DrainRelforks(b)
    <3>1. call[b].pc = "shards"
      BY <2>7 DEF DrainRelforks
    <3>2. call[b] \in [pc : Spilling, next : 0..NumShards, item : Items \cup {NoItem}]
      BY <2>1, <3>1, CallKinds DEF Spilling
    <3>3. call'[b] = Resume(b) \/ call'[b] = [call[b] EXCEPT !.pc = "length"]
      BY <2>1, <2>7 DEF DrainRelforks
    <3> QED
      BY <3>2, <3>3 DEF Resume, Idle
  <2>8. CASE AppendLength(b)
    <3>1. call'[b] = [call[b] EXCEPT !.pc = "body"] /\ call[b].pc = "length"
      BY <2>1, <2>8 DEF AppendLength
    <3>2. call[b] \in [pc : Spilling, next : 0..NumShards, item : Items \cup {NoItem}]
      BY <2>1, <3>1, CallKinds DEF Spilling
    <3> QED
      BY <3>1, <3>2
  <2>9. CASE AppendFail(b)
    BY <2>1, <2>9 DEF AppendFail, Idle
  <2> QED
    BY <2>2, <2>3, <2>4, <2>5, <2>6, <2>7, <2>8, <2>9
<1>4. \A f \in Forks : spill_file'.relforks[f] >= spill_file.relforks[f]
  <2>1. \A f \in Forks : spill_file.relforks[f] \in Nat
    BY Basics DEF DraftInv, TypeOK, Frames
  <2> QED
    BY <1>1, <2>1
<1>5. PendingInv' /\ LookupsRegular'
  BY <1>1, <1>2, <1>3, <1>4, PendingKept
<1>6. FlagInv'
  BY <1>1, <1>2 DEF LookupInv, FlagInv
<1> QED
  BY <1>5, <1>6 DEF LookupInv

\* A frame that reaches the file hides no later version, and its spill is about to raise
\* the flag.
LEMMA AppendLookups ==
  ASSUME DraftInv, TypeOK', LookupInv, NEW b \in Backends, AppendBody(b)
  PROVE  LookupInv'
<1>1. call[b].pc = "body" /\ call[b].pc \in Spilling /\ call[b] \in Calls
  BY DEF AppendBody, Spilling, DraftInv, TypeOK
<1>2. call[b] \in [pc : Spilling, next : 0..NumShards, item : Items \cup {NoItem}]
  BY <1>1, CallKinds
<1>3. call'[b] = [call[b] EXCEPT !.pc = "flag"] /\ \A o \in Backends \ {b} : call'[o] = call[o]
  BY DEF AppendBody, DraftInv, TypeOK
<1>4. call'[b].pc = "flag"
  BY <1>2, <1>3
<1>5. frame[b] \in Frames /\ spill_file \in Frames /\ frame[b] = InFlight
  BY <1>1, Spiller DEF DraftInv, TypeOK
<1>6. \A f \in Forks : spill_file'.relforks[f]
        = IF frame[b].relforks[f] # 0 THEN frame[b].relforks[f] ELSE spill_file.relforks[f]
  BY <1>5, MergeType DEF AppendBody
<1>7. \A f \in Forks : spill_file.relforks[f] \in Nat /\ frame[b].relforks[f] \in Nat
  BY <1>5, Basics DEF Frames
<1>8. \A f \in Forks : spill_file'.relforks[f] >= spill_file.relforks[f]
  BY <1>5, <1>6, <1>7 DEF DraftInv, VersionInv
<1>9. has_spilled' = has_spilled
  BY DEF AppendBody
<1>10. PendingInv' /\ LookupsRegular'
  BY <1>3, <1>4, <1>8, <1>9, PendingKept
<1>11. FlagInv'
  BY <1>4 DEF FlagInv
<1> QED
  BY <1>10, <1>11 DEF LookupInv

LEMMA FlagLookups ==
  ASSUME DraftInv, TypeOK', LookupInv, NEW b \in Backends, SetSpilled(b)
  PROVE  LookupInv'
<1>1. has_spilled' = TRUE /\ spill_file' = spill_file
  BY DEF SetSpilled, file
<1>2. call'[b] = Resume(b) /\ \A o \in Backends \ {b} : call'[o] = call[o]
  BY DEF SetSpilled, DraftInv, TypeOK
<1>3. call'[b].pc \notin {"contains", "contained", "get", "read", "got"}
  BY <1>2 DEF Resume, Idle
<1>4. \A f \in Forks : spill_file'.relforks[f] >= spill_file.relforks[f]
  <2>1. \A f \in Forks : spill_file.relforks[f] \in Nat
    BY Basics DEF DraftInv, TypeOK, Frames
  <2> QED
    BY <1>1, <2>1
<1>5. PendingInv' /\ LookupsRegular'
  BY <1>1, <1>2, <1>3, <1>4, PendingKept
<1> QED
  BY <1>1, <1>5 DEF LookupInv, FlagInv

\* Between two spills everything recorded is in a table, or on file with the flag up.
LEMMA FloorFound ==
  ASSUME DraftInv, LookupInv
  PROVE  /\ \A t \in Chunks : t \in Floor.chunks =>
              t \in shards[ShardOf[t]] \/ has_spilled
         /\ \A f \in Forks :
              /\ Floor.relforks[f] \in Nat /\ relforks[f] \in Nat
              /\ relforks[f] # 0 => relforks[f] >= Floor.relforks[f]
              /\ relforks[f] = 0 =>
                   \/ Floor.relforks[f] = 0
                   \/ has_spilled /\ spill_file.relforks[f] >= Floor.relforks[f]
<1>1. CASE spill_lock # Free
  <2>1. Floor.chunks = {} /\ \A f \in Forks : Floor.relforks[f] = 0
    BY <1>1 DEF Floor, EmptyFrame
  <2>2. \A f \in Forks : relforks[f] \in Nat
    BY Basics DEF DraftInv, TypeOK
  <2> QED
    BY <2>1, <2>2
<1>2. CASE spill_lock = Free
  <2>1. Floor = Contents /\ InFlight = EmptyFrame
    BY <1>2 DEF Floor, InFlight
  <2>2. /\ spill_file \in Frames /\ Tables \in Frames /\ Contents \in Frames
        /\ IsWhole(Contents, spill_file, InFlight, Tables)
        /\ Tables.relforks = relforks
        /\ Tables.chunks = UNION {shards[s] : s \in Shards}
    BY ContentsWhole, TablesType DEF DraftInv, TypeOK
  <2>3. EmptyFrame.chunks = {} /\ \A f \in Forks : EmptyFrame.relforks[f] = 0
    BY DEF EmptyFrame
  <2>4. \A o \in Backends : call[o].pc # "flag"
    BY <1>2, DraftAssumption DEF DraftInv, TypeOK, Spilling
  <2>5. spill_file # EmptyFrame => has_spilled
    BY <2>4 DEF LookupInv, FlagInv
  <2>6. ASSUME NEW t \in Chunks, t \in Floor.chunks
        PROVE  t \in shards[ShardOf[t]] \/ has_spilled
    <3>1. t \in spill_file.chunks \/ t \in Tables.chunks
      BY <2>1, <2>2, <2>3, <2>6 DEF IsWhole
    <3>2. t \in spill_file.chunks => has_spilled
      BY <2>3, <2>5
    <3>3. t \in Tables.chunks => t \in shards[ShardOf[t]]
      BY <2>2 DEF DraftInv, TypeOK
    <3> QED
      BY <3>1, <3>2, <3>3
  <2>7. ASSUME NEW f \in Forks
        PROVE  /\ Floor.relforks[f] \in Nat /\ relforks[f] \in Nat
               /\ relforks[f] # 0 => relforks[f] >= Floor.relforks[f]
               /\ relforks[f] = 0 =>
                    \/ Floor.relforks[f] = 0
                    \/ has_spilled /\ spill_file.relforks[f] >= Floor.relforks[f]
    <3>1. Floor.relforks[f] = IF relforks[f] # 0 THEN relforks[f] ELSE spill_file.relforks[f]
      BY <2>1, <2>2, <2>3 DEF IsWhole
    <3>2. relforks[f] \in Nat /\ spill_file.relforks[f] \in Nat
      BY <2>2, Basics DEF DraftInv, TypeOK, Frames
    <3>3. spill_file.relforks[f] # 0 => has_spilled
      BY <2>3, <2>5
    <3> QED
      BY <3>1, <3>2, <3>3
  <2> QED
    BY <2>6, <2>7
<1> QED
  BY <1>1, <1>2

LEMMA StepLookups ==
  ASSUME DraftInv, TypeOK', LookupInv, NEW b \in Backends, Lookup(b)
  PROVE  LookupInv'
<1>1. /\ spill_file' = spill_file /\ has_spilled' = has_spilled /\ call[b].pc # "flag"
      /\ \A o \in Backends \ {b} : call'[o] = call[o]
  BY DEF Lookup, ContainsChunk, GetRelfork, ContainsFlag, GetFlag, GetRead, Return, Start, file,
         DraftInv, TypeOK
<1>2. FlagInv'
  BY <1>1 DEF LookupInv, FlagInv
<1>3. \A c : call' = [call EXCEPT ![b] = c] => call'[b] = c
  BY DEF DraftInv, TypeOK
<1>4. \A f \in Forks : spill_file.relforks[f] \in Nat
  BY Basics DEF DraftInv, TypeOK, Frames
<1>5. /\ call'[b].pc = "contains" => (call'[b].floor => has_spilled)
      /\ call'[b].pc \in {"get", "read"} =>
           \/ call'[b].floor = 0
           \/ has_spilled /\ spill_file.relforks[call'[b].key] >= call'[b].floor
      /\ call'[b].pc = "contained" => (call'[b].floor => call'[b].val)
      /\ call'[b].pc = "got" => call'[b].val >= call'[b].floor
  <2>1. ASSUME NEW t \in Chunks, ContainsChunk(b, t) PROVE <1>5!:
    <3>1. CASE t \in shards[ShardOf[t]]
      <4>1. call'[b] = [pc |-> "contained", key |-> t, floor |-> (t \in Floor.chunks), val |-> TRUE]
        BY <1>3, <2>1, <3>1 DEF ContainsChunk
      <4> QED
        BY <4>1
    <3>2. CASE t \notin shards[ShardOf[t]]
      <4> DEFINE floor == t \in Floor.chunks
      <4>1. call'[b] = [pc |-> "contains", key |-> t, floor |-> floor]
        BY <1>3, <2>1, <3>2 DEF ContainsChunk
      <4>2. floor => has_spilled
        BY <3>2, FloorFound
      <4> HIDE DEF floor
      <4>3. call'[b].pc = "contains" /\ call'[b].floor = floor
        BY <4>1
      <4> QED
        BY <4>2, <4>3
    <3> QED
      BY <3>1, <3>2
  <2>2. ASSUME NEW f \in Forks, GetRelfork(b, f) PROVE <1>5!:
    <3>1. CASE relforks[f] # 0
      <4>1. call'[b] = [pc |-> "got", key |-> f, floor |-> Floor.relforks[f], val |-> relforks[f]]
        BY <1>3, <2>2, <3>1 DEF GetRelfork, Got
      <4> QED
        BY <3>1, <4>1, FloorFound
    <3>2. CASE relforks[f] = 0
      <4>1. call'[b] = [pc |-> "get", key |-> f, floor |-> Floor.relforks[f]]
        BY <1>3, <2>2, <3>2 DEF GetRelfork
      <4> QED
        BY <3>2, <4>1, FloorFound
    <3> QED
      BY <3>1, <3>2
  <2>3. CASE ContainsFlag(b)
    <3>1. call'[b] = [pc |-> "contained", key |-> call[b].key, floor |-> call[b].floor,
                      val |-> has_spilled]
      BY <1>3, <2>3 DEF ContainsFlag
    <3>2. call[b].floor => has_spilled
      BY <2>3 DEF ContainsFlag, LookupInv, PendingInv
    <3> QED
      BY <3>1, <3>2
  <2>4. CASE GetFlag(b)
    <3>1. call[b].pc = "get" /\ call[b] \in Calls
      BY <2>4 DEF GetFlag, DraftInv, TypeOK
    <3>2. call[b] \in [pc : {"get", "read"}, key : Forks, floor : Versions]
      BY <3>1 DEF Calls, Spilling
    <3>3. \/ call[b].floor = 0
          \/ has_spilled /\ spill_file.relforks[call[b].key] >= call[b].floor
      BY <3>1 DEF LookupInv, PendingInv
    <3>4. CASE has_spilled
      <4>1. call'[b] = [call[b] EXCEPT !.pc = "read"]
        BY <1>3, <2>4, <3>4 DEF GetFlag
      <4> QED
        BY <3>2, <3>3, <4>1
    <3>5. CASE ~has_spilled
      <4>1. call'[b] = [pc |-> "got", key |-> call[b].key, floor |-> call[b].floor, val |-> 0]
        BY <1>3, <2>4, <3>5 DEF GetFlag, Got
      <4> QED
        BY <3>3, <3>5, <4>1
    <3> QED
      BY <3>4, <3>5
  <2>5. CASE GetRead(b)
    <3>1. call[b].pc = "read" /\ call[b] \in Calls
      BY <2>5 DEF GetRead, DraftInv, TypeOK
    <3>2. call[b].key \in Forks /\ call[b].floor \in Nat
      BY <3>1, CallKinds, Basics
    <3>3. spill_file.relforks[call[b].key] >= call[b].floor
      BY <1>4, <3>1, <3>2 DEF LookupInv, PendingInv
    <3>4. \/ call'[b] = [pc |-> "error"]
          \/ call'[b] = [pc |-> "got", key |-> call[b].key, floor |-> call[b].floor,
                         val |-> spill_file.relforks[call[b].key]]
      BY <1>3, <2>5 DEF GetRead, Got
    <3> QED
      BY <3>3, <3>4
  <2>6. CASE Return(b)
    <3>1. call'[b] = [pc |-> "idle"]
      BY <1>3, <2>6 DEF Return, Idle
    <3> QED
      BY <3>1
  <2> QED
    BY <2>1, <2>2, <2>3, <2>4, <2>5, <2>6 DEF Lookup
<1>6. PendingInv' /\ LookupsRegular'
  BY <1>1, <1>5 DEF PendingInv, LookupsRegular, LookupInv
<1> QED
  BY <1>2, <1>6 DEF LookupInv

\* The drain meets no lookup.
LEMMA DrainLookups ==
  ASSUME DraftInv, LookupInv, Drain \/ CommitDrained \/ DrainSpillFail \/ DrainReadFail
  PROVE  LookupInv'
<1>1. CASE CommitDrained
  BY <1>1 DEF CommitDrained, file, LookupInv, FlagInv, PendingInv, LookupsRegular
<1>2. CASE Drain \/ DrainSpillFail \/ DrainReadFail
  <2>1. call' = call /\ \A o \in Backends : call[o].pc = "idle"
    BY <1>2 DEF Drain, DrainSpillFail, DrainReadFail, Alone
  <2>2. PendingInv' /\ LookupsRegular'
    BY <2>1 DEF PendingInv, LookupsRegular
  <2>3. spill_file # EmptyFrame => has_spilled
    BY <2>1 DEF LookupInv, FlagInv
  <2>4. spill_file' # EmptyFrame => has_spilled'
    <3>1. CASE Drain
      BY <3>1 DEF Drain
    <3>2. CASE DrainSpillFail
      BY <2>3, <3>2 DEF DrainSpillFail
    <3>3. CASE DrainReadFail
      <4>1. spill_file' = MergeFrame(spill_file, Tables)
            /\ has_spilled' = (has_spilled \/ Tables # EmptyFrame)
        BY <3>3 DEF DrainReadFail
      <4>2. MergeFrame(EmptyFrame, EmptyFrame) = EmptyFrame
        BY MergeEmpty, Basics
      <4> QED
        BY <2>3, <4>1, <4>2
    <3> QED
      BY <1>2, <3>1, <3>2, <3>3
  <2> QED
    BY <2>2, <2>4 DEF LookupInv, FlagInv
<1> QED
  BY <1>1, <1>2

LEMMA NextLookups == DraftInv /\ LookupInv /\ [Next]_vars => LookupInv'
<1> SUFFICES ASSUME DraftInv, LookupInv, [Next]_vars PROVE LookupInv'
  OBVIOUS
<1>1. TypeOK'
  BY NextType DEF DraftInv
<1>2. ASSUME NEW b \in Backends, NEW t \in Chunks, RecordChunk(b, t) PROVE LookupInv'
  BY <1>1, <1>2, RecordLookups DEF RecordChunk, Start
<1>3. ASSUME NEW b \in Backends, NEW f \in Forks, RecordRelfork(b, f) PROVE LookupInv'
  BY <1>1, <1>3, RecordLookups DEF RecordRelfork, Start
<1>4. ASSUME NEW b \in Backends, Retry(b) PROVE LookupInv'
  <2>1. call[b].pc = "insert" /\ call[b].item \in Items
    BY <1>4, CallKinds DEF Retry, DraftInv, TypeOK
  <2>2. /\ call[b].item.zone = "chunks" => call[b].item.key \in Chunks
        /\ call[b].item.zone # "chunks" => call[b].item.key \in Forks
    BY <2>1 DEF Items
  <2> QED
    BY <1>1, <1>4, <2>1, <2>2, RecordLookups DEF Retry
<1>5. ASSUME NEW b \in Backends, SpillStep(b) PROVE LookupInv'
  <2>1. ASSUME TrySpill(b) \/ SpillToFile(b) \/ DrainShard(b) \/ DrainRelforks(b) \/ AppendLength(b)
        PROVE  LookupInv'
    <3>1. call[b].pc # "flag"
      BY <2>1 DEF TrySpill, SpillToFile, DrainShard, DrainRelforks, AppendLength
    <3> QED
      BY <1>1, <2>1, <3>1, RecordLookups
  <2> QED
    BY <1>1, <1>5, <2>1, AppendLookups, FlagLookups DEF SpillStep
<1>6. ASSUME NEW b \in Backends, AppendFail(b) PROVE LookupInv'
  <2>1. call[b].pc # "flag"
    BY <1>6 DEF AppendFail
  <2> QED
    BY <1>1, <1>6, <2>1, RecordLookups
<1>7. ASSUME NEW b \in Backends, Lookup(b) PROVE LookupInv'
  BY <1>1, <1>7, StepLookups
<1>8. CASE Drain \/ CommitDrained \/ DrainSpillFail \/ DrainReadFail
  BY <1>8, DrainLookups
<1>9. CASE UNCHANGED vars
  BY <1>9 DEF vars, memory, file, history, LookupInv, FlagInv, PendingInv, LookupsRegular
<1> QED
  BY <1>2, <1>3, <1>4, <1>5, <1>6, <1>7, <1>8, <1>9 DEF Next

\* contains_chunk never denies a recorded chunk and get_relfork never returns metadata older
\* than the last record, if the lookup begins between two spills: whatever spills, failures
\* and records come between its looks at the table, at the flag and at the file.
THEOREM DraftLookupsRegular == Spec => []LookupsRegular
<1>1. Init => DraftInv /\ LookupInv
  <2>1. Init => LookupInv
    BY DEF Init, Idle, LookupInv, FlagInv, PendingInv, LookupsRegular
  <2> QED
    BY <2>1, InitDraft
<1>2. DraftInv /\ LookupInv /\ [Next]_vars => DraftInv' /\ LookupInv'
  BY NextDraft, NextLookups
<1>3. LookupInv => LookupsRegular
  BY DEF LookupInv
<1> QED
  BY <1>1, <1>2, <1>3, PTL DEF Spec
=============================================================================
