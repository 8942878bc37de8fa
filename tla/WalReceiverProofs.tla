-------------------------- MODULE WalReceiverProofs --------------------------
(***************************************************************************)
(* Proofs about the WAL archive, for every segment and chunk size, message *)
(* length and number of faults: the receiver's state keeps its shape, no   *)
(* buffer leaving its segment; a sealed object is a whole segment; what is *)
(* confirmed to PostgreSQL, and what was received when the tail was last   *)
(* flushed, is archived; and the recovery window then is right.            *)
(***************************************************************************)
EXTENDS WalReceiver, WellFoundedInduction, TLAPS

-----------------------------------------------------------------------------
(* Arithmetic of segments and chunks *)

\* An LSN is in its segment.
LEMMA SegBounds ==
  ASSUME NEW l \in Nat
  PROVE  /\ SegNo(l) \in Nat
         /\ SegStart(SegNo(l)) <= l
         /\ l < SegStart(SegNo(l) + 1)
  BY WalAssumption DEF SegNo, SegStart

\* ... and in no other.
LEMMA SegUnique ==
  ASSUME NEW l \in Nat, NEW s \in Nat, SegStart(s) <= l, l < SegStart(s + 1)
  PROVE  SegNo(l) = s
<1>1. SegNo(l) \in Nat /\ SegStart(SegNo(l)) <= l /\ l < SegStart(SegNo(l) + 1)
  BY SegBounds
<1>2. ASSUME NEW a \in Nat, NEW b \in Nat, a < b PROVE (a + 1) * SegSize <= b * SegSize
  BY <1>2, WalAssumption
<1>3. ~ SegNo(l) < s
  BY <1>1, <1>2, WalAssumption DEF SegStart
<1>4. ~ s < SegNo(l)
  BY <1>1, <1>2, WalAssumption DEF SegStart
<1> QED
  BY <1>1, <1>3, <1>4

\* Segment numbers grow with the LSN.
LEMMA SegNosOf ==
  ASSUME NEW l \in Lsn
  PROVE  SegNo(l) \in SegNos
<1>1. l \in Nat /\ MaxLsn \in Nat /\ l <= MaxLsn
  BY WalAssumption DEF Lsn
<1>2. /\ SegNo(l) \in Nat /\ SegStart(SegNo(l)) <= l
      /\ SegNo(MaxLsn) \in Nat /\ MaxLsn < SegStart(SegNo(MaxLsn) + 1)
  BY <1>1, SegBounds
<1>3. ASSUME NEW a \in Nat, NEW b \in Nat, a < b PROVE (a + 1) * SegSize <= b * SegSize
  BY <1>3, WalAssumption
<1>4. ~ SegNo(MaxLsn) < SegNo(l)
  BY <1>1, <1>2, <1>3, WalAssumption DEF SegStart
<1> QED
  BY <1>2, <1>4 DEF SegNos

SegStartNat == \A s \in Nat : SegStart(s) \in Nat

LEMMA SegStartIsNat == SegStartNat
  BY WalAssumption DEF SegStartNat, SegStart

\* The chunks that are complete end within the buffer.
LEMMA UploadedBound ==
  ASSUME NEW cur \in Segs, cur.uploaded <= cur.to
  PROVE  Uploaded(cur) \in Lsn /\ Uploaded(cur) <= cur.to
<1> DEFINE d == cur.to - cur.uploaded
           q == d \div ChunkBytes
<1>1. cur.to \in Nat /\ cur.uploaded \in Nat /\ cur.to <= MaxLsn /\ d \in Nat /\ MaxLsn \in Nat
  BY WalAssumption DEF Segs, Lsn
<1>2. q \in Nat /\ ChunkBytes * q <= d /\ ChunkBytes * q \in Nat
  <2> HIDE DEF d
  <2> QED BY <1>1, WalAssumption
<1>3. Uploaded(cur) = cur.uploaded + ChunkBytes * q
  BY DEF Uploaded
<1> HIDE DEF q
<1> QED
  BY <1>1, <1>2, <1>3 DEF Lsn

LEMMA MinOfTwo ==
  ASSUME NEW a \in Int, NEW b \in Int
  PROVE  Min({a, b}) = IF a <= b THEN a ELSE b
  BY DEF Min

LEMMA MaxOfTwo ==
  ASSUME NEW a \in Int, NEW b \in Int
  PROVE  Max({a, b}) \in {a, b} /\ Max({a, b}) >= a /\ Max({a, b}) >= b
  BY DEF Max

LEMMA MaxOfNats ==
  ASSUME NEW N \in Nat, NEW S \in SUBSET (0..N), S # {}
  PROVE  Max(S) \in S /\ \A y \in S : y <= Max(S)
<1> DEFINE T == {N - x : x \in S}
<1>1. T \subseteq Nat /\ T # {}
  <2>1. ASSUME NEW x \in S PROVE N - x \in Nat
    <3>1. x \in 0..N
      BY <2>1
    <3> QED
      BY <3>1
  <2>2. PICK x \in S : TRUE
    OBVIOUS
  <2>3. N - x \in T
    OBVIOUS
  <2> QED
    BY <2>1, <2>3
<1>2. PICK m \in T : \A y \in T : ~(<<y, m>> \in OpToRel(<, Nat))
  BY <1>1, WFMin, NatLessThanWellFounded, Zenon
<1>3. \A y \in T : ~(y < m)
  BY <1>1, <1>2, Zenon DEF OpToRel
<1>4. PICK x \in S : m = N - x
  OBVIOUS
<1>5. \A y \in S : y <= x
  <2> SUFFICES ASSUME NEW y \in S PROVE y <= x
    OBVIOUS
  <2>1. ~(N - y < N - x)
    BY <1>3, <1>4
  <2> QED
    BY <2>1
<1>6. \E z \in S : \A y \in S : z >= y
  BY <1>5
<1>7. Max(S) \in S /\ \A y \in S : Max(S) >= y
  BY <1>6 DEF Max
<1> QED
  BY <1>7

LEMMA MinOfNats ==
  ASSUME NEW S \in SUBSET Nat, S # {}
  PROVE  Min(S) \in S /\ \A y \in S : Min(S) <= y
<1>1. PICK x \in S : \A y \in S : ~(<<y, x>> \in OpToRel(<, Nat))
  BY WFMin, NatLessThanWellFounded, Zenon
<1>2. \A y \in S : ~(y < x)
  BY <1>1, Zenon DEF OpToRel
<1>3. \A y \in S : x <= y
  BY <1>2
<1> QED
  BY <1>3 DEF Min

LEMMA MinOfLsns ==
  ASSUME NEW S \in SUBSET Lsn, S # {}
  PROVE  Min(S) \in S /\ \A y \in S : Min(S) <= y
<1>1. S \in SUBSET Nat
  BY DEF Lsn
<1> QED
  BY <1>1, MinOfNats

\* Division by a positive number.
LEMMA DivBounds ==
  ASSUME NEW d \in Nat, NEW c \in Nat \ {0}
  PROVE  /\ d \div c \in Nat
         /\ c * (d \div c) \in Nat
         /\ c * (d \div c) <= d
         /\ d < c * (d \div c) + c
  OBVIOUS

LEMMA MultipleMod ==
  ASSUME NEW q \in Nat, NEW c \in Nat \ {0}
  PROVE  (c * q) % c = 0
  OBVIOUS

LEMMA MulMono ==
  ASSUME NEW q \in Nat, NEW r \in Nat, NEW c \in Nat \ {0}
  PROVE  /\ c * q \in Nat /\ c * r \in Nat
         /\ q < r => c * q + c <= c * r
         /\ r <= q => c * r <= c * q
  OBVIOUS

\* Sums of multiples of the chunk size.
LEMMA MultipleSum ==
  ASSUME NEW f \in Nat, NEW c \in Nat, NEW i \in Nat, NEW j \in Nat, NEW u, NEW k,
         u = f + c * i, k = u + c * j
  PROVE  k = f + c * (i + j)
  OBVIOUS

LEMMA DivExact ==
  ASSUME NEW d \in Nat, NEW c \in Nat \ {0}, d % c = 0
  PROVE  d \div c \in Nat /\ d = c * (d \div c)
  OBVIOUS

\* The complete windows are all of what is left to tasks, and less than a chunk remains.
LEMMA WindowsCover ==
  ASSUME NEW cur \in Segs, cur.uploaded <= cur.to
  PROVE  /\ cur.uploaded <= Uploaded(cur)
         /\ cur.to < Uploaded(cur) + ChunkBytes
         /\ \A b \in Lsn : cur.uploaded <= b /\ b < Uploaded(cur) =>
              \E t \in Windows(cur) : t.at <= b /\ b < t.to
<1> DEFINE u == cur.uploaded
           e == cur.to
           Q == (e - u) \div ChunkBytes
<1>1. /\ u \in Nat /\ e \in Nat /\ e <= MaxLsn /\ e - u \in Nat /\ MaxLsn \in Nat
      /\ ChunkBytes \in Nat \ {0}
  BY WalAssumption DEF Segs, Lsn
<1>2. Uploaded(cur) = u + ChunkBytes * Q
  BY DEF Uploaded
<1>3. Q \in Nat /\ ChunkBytes * Q \in Nat /\ ChunkBytes * Q <= e - u /\ e - u < ChunkBytes * Q + ChunkBytes
  <2> HIDE DEF u, e
  <2> QED
    BY <1>1, DivBounds
<1>4. ASSUME NEW b \in Lsn, u <= b, b < Uploaded(cur)
      PROVE  \E t \in Windows(cur) : t.at <= b /\ b < t.to
  <2> DEFINE q == (b - u) \div ChunkBytes
             k == u + ChunkBytes * q
  <2> HIDE DEF Q, u, e
  <2>1. b \in Nat /\ b - u \in Nat
    BY <1>1, <1>4 DEF Lsn
  <2>2. q \in Nat /\ ChunkBytes * q \in Nat /\ ChunkBytes * q <= b - u /\ b - u < ChunkBytes * q + ChunkBytes
    BY <1>1, <2>1, DivBounds
  <2> HIDE DEF q
  <2>3. k \in Nat /\ u <= k /\ k <= b /\ b < k + ChunkBytes
    BY <1>1, <2>1, <2>2
  <2>4. q < Q
    <3>1. ChunkBytes * q < ChunkBytes * Q
      BY <1>1, <1>2, <1>3, <1>4, <2>1, <2>2
    <3>2. ~ Q <= q
      BY <1>1, <1>3, <2>2, <3>1, MulMono
    <3> QED
      BY <1>3, <2>2, <3>2
  <2>5. ChunkBytes * q + ChunkBytes <= ChunkBytes * Q
    BY <1>1, <1>3, <2>2, <2>4, MulMono
  <2>6. k + ChunkBytes <= e
    BY <1>1, <1>3, <2>2, <2>5
  <2>7. (k - u) % ChunkBytes = 0
    <3>1. k - u = ChunkBytes * q
      BY <1>1, <2>2
    <3> QED
      BY <1>1, <2>2, <3>1, MultipleMod
  <2>8. k \in Lsn
    BY <1>1, <2>3, <2>6 DEF Lsn
  <2> HIDE DEF k
  <2> DEFINE t == [at |-> k, from |-> cur.from, to |-> k + ChunkBytes]
  <2>9. t \in Windows(cur)
    BY <2>3, <2>6, <2>7, <2>8 DEF Windows, u, e
  <2>10. t.at <= b /\ b < t.to
    BY <2>3
  <2> QED
    BY <2>9, <2>10
<1> QED
  <2> HIDE DEF Q
  <2>1. u <= Uploaded(cur) /\ e < Uploaded(cur) + ChunkBytes
    <3> HIDE DEF u, e
    <3> QED BY <1>1, <1>2, <1>3
  <2> QED
    BY <1>4, <2>1

-----------------------------------------------------------------------------
(* The invariant *)

\* The buffer of a segment ends where the message has been consumed up to, and a segment
\* that is being sealed is one that the stream has left.
StreamInv ==
  /\ at <= to
  /\ pc \in {"down", "identified"} => cur_seg = NoSeg
  /\ cur_seg # NoSeg =>
       /\ SegStart(cur_seg.seg) <= cur_seg.from
       /\ cur_seg.from < cur_seg.to
       /\ cur_seg.uploaded <= cur_seg.to
       /\ cur_seg.to = at
  /\ pc \in {"seal", "sealed"} => cur_seg # NoSeg /\ cur_seg.seg # SegNo(at)

WalInv == TypeOK /\ StreamInv /\ SealedWhole

LEMMA InitInv == Init => WalInv
<1> SUFFICES ASSUME Init PROVE WalInv
  OBVIOUS
<1>1. 0 \in Lsn /\ StartLsn \in Lsn /\ 0 \in SegNos /\ SegStart(1) \in Nat
  <2>1. 0 \in Lsn /\ StartLsn \in Lsn
    BY WalAssumption DEF Lsn
  <2>2. SegNo(MaxLsn) \in Nat
    BY SegBounds, WalAssumption
  <2> QED
    BY <2>1, <2>2, SegStartIsNat DEF SegNos, SegStartNat
<1>2. TypeOK
  <2>1. NoSeg \in Segs /\ NoObject \in Object
    BY <1>1 DEF NoSeg, Segs, NoObject, Object
  <2>2. /\ walEnd \in Lsn /\ slot \in {Absent, Null} /\ saved \in {Absent, Null}
        /\ wire = {} /\ chunk_tasks = {} /\ strays = {} /\ deletes = {} /\ starts = {}
        /\ pc = "down" /\ xlogpos = 0 /\ at = 0 /\ to = 0 /\ cur_seg = NoSeg
        /\ confirmed_lsn = 0 /\ origin = 0 /\ flushed = 0
    BY <1>1 DEF Init
  <2>3. sealed \in [SegNos -> Object] /\ chunks \in [Lsn -> Object]
    BY <2>1 DEF Init
  <2>4. due \in BOOLEAN /\ failed \in BOOLEAN
    BY DEF Init
  <2>5. faults \in 0..MaxFaults /\ checkpoints \in 0..MaxCheckpoints
    BY WalAssumption DEF Init
  <2> QED
    BY <1>1, <2>1, <2>2, <2>3, <2>4, <2>5 DEF TypeOK
<1>3. StreamInv
  BY DEF Init, StreamInv
<1>4. SealedWhole
  BY DEF Init, SealedWhole
<1> QED
  BY <1>2, <1>3, <1>4 DEF WalInv

\* The sealed segment is whole: where it began it was entered at its first byte, and where it
\* ended the stream has gone on to another segment.
LEMMA SealedEnds ==
  ASSUME WalInv, pc \in {"seal", "sealed"}
  PROVE  cur_seg.to = SegStart(cur_seg.seg + 1)
<1>1. /\ cur_seg.seg \in Nat /\ cur_seg.from \in Nat /\ cur_seg.to \in Nat /\ at \in Nat
      /\ cur_seg.to = at /\ cur_seg.from < cur_seg.to
      /\ SegStart(cur_seg.seg) <= cur_seg.from
      /\ cur_seg.to <= SegStart(cur_seg.seg + 1)
      /\ cur_seg.seg # SegNo(at)
  <2>1. SegNo(MaxLsn) \in Nat
    BY SegBounds, WalAssumption
  <2> QED
    BY <2>1 DEF WalInv, TypeOK, StreamInv, Segs, SegNos, Lsn
<1>2. SegStart(cur_seg.seg) \in Nat /\ SegStart(cur_seg.seg + 1) \in Nat
  BY <1>1, SegStartIsNat DEF SegStartNat
<1>3. SegStart(cur_seg.seg) <= at
  BY <1>1, <1>2
<1>4. ~ at < SegStart(cur_seg.seg + 1)
  BY <1>1, <1>3, SegUnique
<1> QED
  BY <1>1, <1>2, <1>4

-----------------------------------------------------------------------------
(* One lemma for each group of actions *)

\* What PostgreSQL and the storage tasks do leaves the stream and sealed objects alone.
LEMMA FrameInv ==
  ASSUME WalInv, UNCHANGED <<pc, at, to, cur_seg, sealed>>
  PROVE  StreamInv' /\ SealedWhole'
  BY DEF WalInv, StreamInv, SealedWhole

LEMMA ServerInv ==
  ASSUME WalInv, WriteWal \/ Checkpoint \/ ServerStatus
  PROVE  WalInv'
<1>1. StreamInv' /\ SealedWhole'
  BY FrameInv DEF WriteWal, Checkpoint, ServerStatus, archive, receiver
<1>2. CASE WriteWal
  <2>1. walEnd' \in Lsn
    <3>1. walEnd \in Lsn
      BY DEF WalInv, TypeOK
    <3> QED
      BY <1>2, <3>1, WalAssumption DEF WriteWal, Lsn
  <2> QED
    BY <1>1, <1>2, <2>1 DEF WriteWal, WalInv, TypeOK, archive, receiver, tasks, history
<1>3. CASE Checkpoint
  <2>1. checkpoints' \in 0..MaxCheckpoints /\ due' \in BOOLEAN
    BY <1>3, WalAssumption DEF Checkpoint, WalInv, TypeOK
  <2> QED
    BY <1>1, <1>3, <2>1 DEF Checkpoint, WalInv, TypeOK, archive, tasks
<1>4. CASE ServerStatus
  <2>1. slot' \in Lsn /\ wire' \subseteq Lsn
    BY <1>4, MinOfLsns DEF ServerStatus, WalInv, TypeOK
  <2> QED
    BY <1>1, <1>4, <2>1 DEF ServerStatus, WalInv, TypeOK, archive, receiver, tasks, history
<1> QED
  BY <1>2, <1>3, <1>4

LEMMA TaskInv ==
  ASSUME WalInv, ChunkPut \/ ChunkPutFail \/ StrayPut \/ DeleteChunks
  PROVE  WalInv'
<1>1. StreamInv' /\ SealedWhole'
  BY FrameInv DEF ChunkPut, ChunkPutFail, StrayPut, DeleteChunks, archive, receiver
<1>2. ASSUME NEW t \in Puts, PutChunk(t.at, [from |-> t.from, to |-> t.to])
      PROVE  chunks' \in [Lsn -> Object]
  BY <1>2 DEF PutChunk, Puts, Object, WalInv, TypeOK
<1>3. CASE ChunkPut
  <2>1. chunks' \in [Lsn -> Object] /\ chunk_tasks' \subseteq Puts
    BY <1>2, <1>3 DEF ChunkPut, WalInv, TypeOK
  <2> QED
    BY <1>1, <1>3, <2>1 DEF ChunkPut, WalInv, TypeOK, server, receiver, history
<1>4. CASE ChunkPutFail
  <2>1. faults' \in 0..MaxFaults /\ failed' \in BOOLEAN /\ chunk_tasks' \subseteq Puts
    BY <1>4, WalAssumption DEF ChunkPutFail, WalInv, TypeOK
  <2> QED
    BY <1>1, <1>4, <2>1 DEF ChunkPutFail, WalInv, TypeOK, server, archive, receiver
<1>5. CASE StrayPut
  <2>1. chunks' \in [Lsn -> Object] /\ strays' \subseteq Puts
    BY <1>2, <1>5 DEF StrayPut, WalInv, TypeOK
  <2> QED
    BY <1>1, <1>5, <2>1 DEF StrayPut, WalInv, TypeOK, server, receiver, history
<1>6. CASE DeleteChunks
  <2>1. NoObject \in Object
    BY WalAssumption DEF NoObject, Object, Lsn
  <2>2. chunks' \in [Lsn -> Object] /\ deletes' \subseteq SegNos
    BY <1>6, <2>1 DEF DeleteChunks, WalInv, TypeOK
  <2> QED
    BY <1>1, <1>6, <2>2 DEF DeleteChunks, WalInv, TypeOK, server, receiver, history
<1> QED
  BY <1>3, <1>4, <1>5, <1>6

\* Wherever the connection ends, the receiver starts afresh.
LEMMA FreshInv ==
  ASSUME WalInv, pc' \in {"down", "identified"}, at' = 0, to' = 0, cur_seg' = NoSeg,
         UNCHANGED sealed
  PROVE  StreamInv' /\ SealedWhole'
  BY DEF WalInv, StreamInv, SealedWhole

LEMMA ConnectInv ==
  ASSUME WalInv, Identify \/ StartReplication
  PROVE  WalInv'
<1>1. CASE Identify
  <2>1. StreamInv' /\ SealedWhole'
    BY <1>1 DEF Identify, WalInv, StreamInv, SealedWhole, archive
  <2>2. xlogpos' \in Lsn /\ pc' = "identified"
    BY <1>1 DEF Identify, WalInv, TypeOK
  <2> QED
    BY <1>1, <2>1, <2>2 DEF Identify, WalInv, TypeOK, server, archive, tasks, history
<1>2. CASE StartReplication
  <2> DEFINE start == IF slot \in Lsn THEN slot ELSE xlogpos
  <2>1. start \in Lsn
    BY DEF WalInv, TypeOK
  <2>2. /\ pc' = "stream" /\ at' = start /\ to' = start /\ confirmed_lsn' = start
        /\ xlogpos' = 0 /\ due' = FALSE /\ starts' = starts \cup {start}
        /\ UNCHANGED <<walEnd, wire, sealed, chunks, cur_seg, chunk_tasks, failed, strays, deletes,
                      faults, checkpoints>>
        /\ cur_seg = NoSeg /\ flushed' = 0
    BY <1>2 DEF StartReplication, archive, tasks, WalInv, StreamInv
  <2>3. 0 \in Lsn
    BY WalAssumption DEF Lsn
  <2>4. /\ slot' \in Lsn \cup {Null} /\ saved' \in Lsn \cup {Absent, Null}
        /\ slot \notin Lsn => slot' \in Int
    <3>1. ASSUME NEW redo \in 0..walEnd PROVE redo \in Lsn
      BY <3>1, WalAssumption DEF WalInv, TypeOK, Lsn
    <3> QED
      BY <1>2, <3>1 DEF StartReplication, WalInv, TypeOK, Null, Absent, Lsn
  <2>5. origin' \in Lsn
    <3>1. CASE slot \in Lsn
      BY <1>2, <3>1 DEF StartReplication, WalInv, TypeOK
    <3>2. CASE slot \notin Lsn
      <4>1. origin' = Max({start, slot'})
        BY <1>2, <3>2 DEF StartReplication
      <4>2. start \in Int /\ slot' \in Int
        BY <2>1, <2>4, <3>2 DEF Lsn
      <4>3. origin' \in {start, slot'} /\ origin' >= start
        BY <4>1, <4>2, MaxOfTwo
      <4> QED
        BY <2>1, <2>4, <4>3 DEF Lsn, Null
    <3> QED
      BY <3>1, <3>2
  <2>6. StreamInv' /\ SealedWhole'
    BY <2>1, <2>2 DEF StreamInv, SealedWhole, WalInv, Lsn
  <2>7. TypeOK'
    BY <2>1, <2>2, <2>3, <2>4, <2>5 DEF WalInv, TypeOK
  <2> QED
    BY <2>6, <2>7 DEF WalInv
<1> QED
  BY <1>1, <1>2

LEMMA KeptInv ==
  ASSUME WalInv, FlushKept
  PROVE  flushed' \in Lsn
<1>1. 0 \in Lsn
  BY WalAssumption DEF Lsn
<1> QED
  BY <1>1 DEF FlushKept, WalInv, TypeOK

LEMMA DisconnectedInv ==
  ASSUME WalInv, NEW running \in SUBSET chunk_tasks, Disconnected(running)
  PROVE  /\ StreamInv' /\ SealedWhole'
         /\ pc' = "down" /\ at' \in Lsn /\ to' \in Lsn /\ xlogpos' \in Lsn
         /\ confirmed_lsn' \in Lsn /\ cur_seg' \in Segs /\ cur_seg' = NoSeg
         /\ due' \in BOOLEAN /\ failed' \in BOOLEAN
         /\ chunk_tasks' \subseteq Puts /\ strays' \subseteq Puts /\ wire' \subseteq Lsn
         /\ UNCHANGED <<sealed, chunks>> /\ flushed' \in Lsn
<1>1. 0 \in Lsn /\ NoSeg \in Segs
  <2>1. 0 \in Lsn
    BY WalAssumption DEF Lsn
  <2>2. SegNo(MaxLsn) \in Nat
    BY SegBounds, WalAssumption
  <2> QED
    BY <2>1, <2>2 DEF NoSeg, Segs, SegNos
<1>2. StreamInv' /\ SealedWhole'
  BY FreshInv DEF Disconnected, archive
<1>3. strays \subseteq Puts /\ chunk_tasks \subseteq Puts
  BY DEF WalInv, TypeOK
<1>4. flushed' \in Lsn
  BY KeptInv DEF Disconnected
<1> QED
  BY <1>1, <1>2, <1>3, <1>4 DEF Disconnected, archive

LEMMA EndInv ==
  ASSUME WalInv, ConnectionFail \/ JoinFailed \/ StreamEnd
  PROVE  WalInv'
<1>1. CASE ConnectionFail
  <2>1. PICK running \in SUBSET chunk_tasks : Disconnected(running)
    BY <1>1 DEF ConnectionFail
  <2>2. faults' \in 0..MaxFaults
    BY <1>1, WalAssumption DEF ConnectionFail, WalInv, TypeOK
  <2> QED
    BY <1>1, <2>1, <2>2, DisconnectedInv DEF ConnectionFail, WalInv, TypeOK, server
<1>2. CASE JoinFailed
  <2>1. PICK running \in SUBSET chunk_tasks : Disconnected(running)
    BY <1>2 DEF JoinFailed
  <2> QED
    BY <1>2, <2>1, DisconnectedInv DEF JoinFailed, WalInv, TypeOK, server
<1>3. CASE StreamEnd
  <2>1. {} \in SUBSET chunk_tasks /\ Disconnected({})
    BY <1>3 DEF StreamEnd
  <2> QED
    BY <1>3, <2>1, DisconnectedInv DEF StreamEnd, WalInv, TypeOK, server
<1> QED
  BY <1>1, <1>2, <1>3

LEMMA CrashInv ==
  ASSUME WalInv, Crash
  PROVE  WalInv'
<1>1. 0 \in Lsn /\ NoSeg \in Segs
  <2>1. 0 \in Lsn
    BY WalAssumption DEF Lsn
  <2>2. SegNo(MaxLsn) \in Nat
    BY SegBounds, WalAssumption
  <2> QED
    BY <2>1, <2>2 DEF NoSeg, Segs, SegNos
<1>2. StreamInv' /\ SealedWhole'
  BY FreshInv DEF Crash, archive
<1>3. faults' \in 0..MaxFaults
  BY WalAssumption DEF Crash, WalInv, TypeOK
<1>4. slot' \in Lsn \cup {Absent, Null}
  BY DEF Crash, WalInv, TypeOK
<1>5. flushed' \in Lsn
  BY KeptInv DEF Crash
<1> QED
  BY <1>1, <1>2, <1>3, <1>4, <1>5 DEF Crash, WalInv, TypeOK, archive

\* Steps that only move between points of the loop, or take the tail to storage.
LEMMA TailInv ==
  ASSUME WalInv, PutTail \/ UNCHANGED chunks
  PROVE  chunks' \in [Lsn -> Object]
  BY DEF PutTail, PutChunk, Object, Segs, WalInv, TypeOK

LEMMA LoopInv ==
  ASSUME WalInv,
         \/ Receive \/ SealBegin \/ SealJoin \/ SendStandbyStatus \/ MaybeFlushOnCheckpoint
         \/ CopyDone \/ FlushPartialTail
  PROVE  WalInv'
<1>1. CASE Receive
  <2>1. to' \in Lsn /\ at <= to'
    BY <1>1, WalAssumption DEF Receive, WalInv, TypeOK, Lsn
  <2>2. StreamInv' /\ SealedWhole'
    BY <1>1, <2>1 DEF Receive, WalInv, StreamInv, SealedWhole, archive
  <2> QED
    BY <1>1, <2>1, <2>2 DEF Receive, WalInv, TypeOK, server, archive, tasks, history
<1>2. CASE SealBegin
  <2>1. StreamInv' /\ SealedWhole'
    BY <1>2 DEF SealBegin, WalInv, StreamInv, SealedWhole, archive
  <2> QED
    BY <1>2, <2>1 DEF SealBegin, WalInv, TypeOK, server, archive, tasks, history
<1>3. CASE SealJoin
  <2>1. StreamInv' /\ SealedWhole'
    BY <1>3 DEF SealJoin, JoinChunksAndFlushTail, WalInv, StreamInv, SealedWhole
  <2>2. chunks' \in [Lsn -> Object]
    BY <1>3, TailInv DEF SealJoin, JoinChunksAndFlushTail
  <2> QED
    BY <1>3, <2>1, <2>2 DEF SealJoin, JoinChunksAndFlushTail, WalInv, TypeOK, server, tasks
<1>4. CASE SendStandbyStatus
  <2>1. StreamInv' /\ SealedWhole'
    BY <1>4 DEF SendStandbyStatus, WalInv, StreamInv, SealedWhole, archive
  <2> QED
    BY <1>4, <2>1 DEF SendStandbyStatus, WalInv, TypeOK, server, archive, tasks, history
<1>5. CASE MaybeFlushOnCheckpoint
  <2>1. StreamInv' /\ SealedWhole'
    BY <1>5 DEF MaybeFlushOnCheckpoint, FlushOnCheckpoint, WalInv, StreamInv, SealedWhole
  <2>2. chunks' \in [Lsn -> Object]
    BY <1>5, TailInv DEF MaybeFlushOnCheckpoint, FlushOnCheckpoint
  <2>3. due' \in BOOLEAN /\ flushed' \in Lsn
    BY <1>5 DEF MaybeFlushOnCheckpoint, FlushOnCheckpoint, WalInv, TypeOK
  <2> QED
    BY <1>5, <2>1, <2>2, <2>3
    DEF MaybeFlushOnCheckpoint, FlushOnCheckpoint, WalInv, TypeOK, server, tasks
<1>6. CASE CopyDone
  <2>1. StreamInv' /\ SealedWhole'
    BY <1>6 DEF CopyDone, WalInv, StreamInv, SealedWhole, archive
  <2>2. faults' \in 0..MaxFaults
    BY <1>6, WalAssumption DEF CopyDone, WalInv, TypeOK
  <2> QED
    BY <1>6, <2>1, <2>2 DEF CopyDone, WalInv, TypeOK, server, archive, tasks
<1>7. CASE FlushPartialTail
  <2>1. StreamInv' /\ SealedWhole'
    BY <1>7 DEF FlushPartialTail, JoinChunksAndFlushTail, WalInv, StreamInv, SealedWhole
  <2>2. chunks' \in [Lsn -> Object]
    BY <1>7, TailInv DEF FlushPartialTail, JoinChunksAndFlushTail
  <2> QED
    BY <1>7, <2>1, <2>2
    DEF FlushPartialTail, JoinChunksAndFlushTail, WalInv, TypeOK, server, tasks
<1> QED
  BY <1>1, <1>2, <1>3, <1>4, <1>5, <1>6, <1>7

\* A piece of a message goes to the segment it is in and does not leave it.
LEMMA AppendInv ==
  ASSUME WalInv, HandleXLogData
  PROVE  WalInv'
<1> DEFINE B   == SegStart(SegNo(at) + 1)
           l   == Min({to, B})
           cur == [SegFor(at) EXCEPT !.to = l]
<1>1. /\ at \in Lsn /\ to \in Lsn /\ at \in Nat /\ to \in Nat /\ at < to
      /\ cur_seg \in Segs
      /\ cur_seg = NoSeg \/ cur_seg.seg = SegNo(at)
  BY DEF HandleXLogData, AppendPiece, WalInv, TypeOK, Lsn
<1>2. SegNo(at) \in SegNos /\ SegNo(at) \in Nat /\ SegStart(SegNo(at)) <= at /\ at < B /\ B \in Nat
  BY <1>1, SegBounds, SegNosOf, SegStartIsNat DEF SegStartNat
<1>3. l \in Lsn /\ l \in Nat /\ at < l /\ l <= to /\ l <= B
  <2>1. l = IF to <= B THEN to ELSE B
    BY <1>1, <1>2, MinOfTwo
  <2> HIDE DEF l, B
  <2> QED
    BY <1>1, <1>2, <2>1, WalAssumption DEF Lsn
<1> HIDE DEF l
<1>4. /\ SegFor(at) \in Segs
      /\ SegFor(at).seg = SegNo(at)
      /\ SegStart(SegNo(at)) <= SegFor(at).from
      /\ SegFor(at).from <= at
      /\ SegFor(at).uploaded <= at
  <2>1. CASE cur_seg = NoSeg
    BY <1>1, <1>2, <2>1 DEF SegFor, Segs
  <2>2. CASE cur_seg # NoSeg
    <3>1. SegFor(at) = cur_seg
      BY <2>2 DEF SegFor
    <3>2. /\ cur_seg.from \in Nat /\ cur_seg.to \in Nat
          /\ SegStart(cur_seg.seg) <= cur_seg.from /\ cur_seg.from < cur_seg.to
          /\ cur_seg.uploaded <= cur_seg.to /\ cur_seg.to = at
      BY <1>1, <2>2 DEF WalInv, StreamInv, Segs, Lsn
    <3> QED
      BY <1>1, <2>2, <3>1, <3>2
  <2> QED
    BY <2>1, <2>2
<1>5. /\ cur \in Segs
      /\ cur.seg = SegNo(at) /\ cur.to = l /\ cur.from = SegFor(at).from
      /\ cur.uploaded = SegFor(at).uploaded
  BY <1>3, <1>4 DEF Segs
<1>6. /\ cur.from \in Nat /\ cur.uploaded \in Nat /\ cur.from < cur.to /\ cur.uploaded <= cur.to
      /\ SegStart(cur.seg) <= cur.from
  BY <1>1, <1>2, <1>3, <1>4, <1>5 DEF Segs, Lsn
<1>7. /\ cur_seg' = [cur EXCEPT !.uploaded = Uploaded(cur)]
      /\ chunk_tasks' = chunk_tasks \cup Windows(cur)
      /\ at' = l
      /\ pc' \in {"tail", "stream"}
      /\ UNCHANGED <<walEnd, slot, saved, wire, sealed, chunks, xlogpos, to, confirmed_lsn, due,
                    failed, strays, deletes, origin, starts, flushed, faults, checkpoints>>
  BY DEF HandleXLogData, AppendPiece, server, archive, history, l
<1> HIDE DEF cur
<1>8. Uploaded(cur) \in Lsn /\ Uploaded(cur) <= cur.to
  BY <1>5, <1>6, UploadedBound
<1>9. /\ cur_seg' \in Segs
      /\ cur_seg'.seg = SegNo(at) /\ cur_seg'.to = l /\ cur_seg'.from = cur.from
      /\ cur_seg'.uploaded <= l
  BY <1>5, <1>7, <1>8 DEF Segs
<1>10. Windows(cur) \subseteq Puts
  <2> SUFFICES ASSUME NEW k \in Lsn, k + ChunkBytes <= cur.to
               PROVE  [at |-> k, from |-> cur.from, to |-> k + ChunkBytes] \in Puts
    BY DEF Windows
  <2>1. cur.from \in Lsn /\ k + ChunkBytes \in Lsn
    BY <1>3, <1>5, WalAssumption DEF Segs, Lsn
  <2> QED
    BY <2>1 DEF Puts
<1>11. StreamInv'
  <2>1. cur_seg' # NoSeg
    BY <1>3, <1>5, <1>6, <1>9 DEF NoSeg
  <2> QED
    BY <1>3, <1>5, <1>6, <1>7, <1>9, <2>1 DEF StreamInv
<1>12. SealedWhole'
  BY <1>7 DEF WalInv, SealedWhole
<1>13. TypeOK'
  BY <1>3, <1>7, <1>9, <1>10 DEF WalInv, TypeOK
<1> QED
  BY <1>11, <1>12, <1>13 DEF WalInv

LEMMA SealInv ==
  ASSUME WalInv, SealSegment
  PROVE  WalInv'
<1> DEFINE s == cur_seg.seg
<1>1. /\ pc = "sealed" /\ pc' = "stream"
      /\ confirmed_lsn' = SegStart(s + 1) /\ wire' = wire \cup {confirmed_lsn'}
      /\ cur_seg' = NoSeg
      /\ UNCHANGED <<walEnd, slot, saved, chunks, xlogpos, at, to, due, chunk_tasks, failed, strays,
                    origin, starts, flushed, faults, checkpoints>>
      /\ \/ /\ ~PartialSeg(cur_seg)
            /\ sealed' = [sealed EXCEPT ![s] = [from |-> cur_seg.from, to |-> cur_seg.to]]
            /\ deletes' = deletes \cup {s}
         \/ UNCHANGED <<sealed, deletes>>
  BY DEF SealSegment, Seal, server, history
<1>2. cur_seg.to = SegStart(s + 1)
  BY <1>1, SealedEnds
<1>3. cur_seg \in Segs /\ cur_seg # NoSeg /\ SegStart(s) <= cur_seg.from
  BY <1>1 DEF WalInv, TypeOK, StreamInv
<1>4. ASSUME ~PartialSeg(cur_seg) PROVE cur_seg.from = SegStart(s)
  <2>1. s \in Nat /\ cur_seg.from \in Nat
    <3>1. SegNo(MaxLsn) \in Nat
      BY SegBounds, WalAssumption
    <3> QED
      BY <1>3, <3>1 DEF Segs, SegNos, Lsn
  <2>2. SegStart(s) \in Nat
    BY <2>1, SegStartIsNat DEF SegStartNat
  <2> QED
    BY <1>3, <1>4, <2>1, <2>2 DEF PartialSeg
<1>5. s \in SegNos /\ SegStart(s + 1) \in Lsn /\ [from |-> cur_seg.from, to |-> cur_seg.to] \in Object
  BY <1>2, <1>3 DEF Segs, Object
<1>6. sealed \in [SegNos -> Object] /\ SealedWhole
  BY DEF WalInv, TypeOK
<1>7. sealed' \in [SegNos -> Object] /\ deletes' \subseteq SegNos
  BY <1>1, <1>5, <1>6 DEF WalInv, TypeOK
<1>8. SealedWhole'
  BY <1>1, <1>2, <1>4, <1>5, <1>6 DEF SealedWhole
<1>9. NoSeg \in Segs
  <2>1. 0 \in Lsn
    BY WalAssumption DEF Lsn
  <2>2. SegNo(MaxLsn) \in Nat
    BY SegBounds, WalAssumption
  <2> QED
    BY <2>1, <2>2 DEF NoSeg, Segs, SegNos
<1>10. StreamInv'
  BY <1>1 DEF WalInv, StreamInv
<1>11. TypeOK'
  BY <1>1, <1>5, <1>7, <1>9 DEF WalInv, TypeOK
<1> QED
  BY <1>8, <1>10, <1>11 DEF WalInv

\* Every step keeps the invariant.
LEMMA WalInvariant == Spec => []WalInv
<1>1. WalInv /\ [Next]_vars => WalInv'
  <2> SUFFICES ASSUME WalInv, [Next]_vars PROVE WalInv'
    OBVIOUS
  <2>1. CASE UNCHANGED vars
    <3>1. StreamInv' /\ SealedWhole'
      BY <2>1, FrameInv DEF vars, receiver, archive
    <3>2. TypeOK'
      BY <2>1 DEF WalInv, TypeOK, vars, server, archive, receiver, tasks, history
    <3> QED
      BY <3>1, <3>2 DEF WalInv
  <2>2. CASE WriteWal \/ Checkpoint \/ ServerStatus
    BY <2>2, ServerInv
  <2>3. CASE ChunkPut \/ ChunkPutFail \/ StrayPut \/ DeleteChunks
    BY <2>3, TaskInv
  <2>4. CASE Identify \/ StartReplication
    BY <2>4, ConnectInv
  <2>5. CASE ConnectionFail \/ JoinFailed \/ StreamEnd
    BY <2>5, EndInv
  <2>6. CASE Crash
    BY <2>6, CrashInv
  <2>7. CASE \/ Receive \/ SealBegin \/ SealJoin \/ SendStandbyStatus \/ MaybeFlushOnCheckpoint
             \/ CopyDone \/ FlushPartialTail
    BY <2>7, LoopInv
  <2>8. CASE HandleXLogData
    BY <2>8, AppendInv
  <2>9. CASE SealSegment
    BY <2>9, SealInv
  <2> QED
    BY <2>1, <2>2, <2>3, <2>4, <2>5, <2>6, <2>7, <2>8, <2>9 DEF Next, StreamStep
<1> QED
  BY InitInv, <1>1, PTL DEF Spec

\* Whatever the lengths of messages, segments and chunks, the receiver's state keeps its
\* shape and no buffer goes past the end of its segment.
THEOREM WalTypeCorrect == Spec => []TypeOK
<1>1. WalInv => TypeOK
  BY DEF WalInv
<1> QED
  BY WalInvariant, <1>1, PTL

\* A sealed object, which restore prefers to chunks, always is a complete segment: one that
\* streaming entered half-way is never sealed, and none before its last byte.
THEOREM SealedSegmentsWhole == Spec => []SealedWhole
<1>1. WalInv => SealedWhole
  BY DEF WalInv
<1> QED
  BY WalInvariant, <1>1, PTL

-----------------------------------------------------------------------------
(* What is confirmed is archived *)

Online == pc \notin {"down", "identified"}

\* A byte is in the archive, under the receiver's own names of its objects.
Held(b) == sealed[SegNo(b)] # NoObject \/ \E l \in Lsn : l <= b /\ b < chunks[l].to

HeldTo(p) == \A b \in origin..(p - 1) : Held(b)

\* A chunk has no placeholder, is no longer than CHUNK_BYTES and stays in its segment.
Whole(l, o) ==
  /\ o.from <= l /\ l < o.to
  /\ o.to <= l + ChunkBytes
  /\ o.to <= SegStart(SegNo(l) + 1)

\* A task of this connection or of an earlier one writes a full chunk, so it can only add
\* to what its key holds; chunks are only deleted behind a sealed object.
ObjectsOk ==
  /\ \A l \in Lsn : chunks[l] # NoObject => Whole(l, chunks[l])
  /\ \A t \in chunk_tasks \cup strays : Whole(t.at, t) /\ t.to = t.at + ChunkBytes
  /\ \A s \in deletes : sealed[s] # NoObject

\* The order of positions, as far as they are past the start of the archive.
Before(p, q) == p <= q \/ p <= origin

\* What is on disk is behind the slot, the slot behind what is on the wire, that behind
\* confirmed_lsn.  The archive only starts anew when there is no position at all.
Positions ==
  /\ saved \in Lsn => slot \in Lsn
  /\ Before(saved, slot)
  /\ \A w \in wire : Before(slot, w) /\ Before(saved, w) /\ w <= confirmed_lsn
  /\ Online => Before(slot, confirmed_lsn) /\ Before(saved, confirmed_lsn)
  /\ ~Online => wire = {} /\ chunk_tasks = {} /\ ~failed
  /\ Online => flushed <= at

Secured ==
  /\ HeldTo(slot) /\ HeldTo(saved)
  /\ \A w \in wire : HeldTo(w)
  /\ Online => HeldTo(confirmed_lsn)

\* A byte is in the archive or a task is about to put it there.
Coming(b) == Held(b) \/ \E t \in chunk_tasks : t.at <= b /\ b < t.to

\* What the last flush of the tail left behind it.
Tailed == ~failed => \A b \in origin..(flushed - 1) : Coming(b)

\* The buffer goes on where confirmed_lsn ends.  Unless a task has failed, what is left to
\* tasks is archived or on its way, and after the join all of the buffer is archived.
Buffered ==
  /\ Online /\ cur_seg = NoSeg => at = confirmed_lsn /\ chunk_tasks = {}
  /\ cur_seg # NoSeg =>
       /\ cur_seg.from = confirmed_lsn /\ cur_seg.from <= cur_seg.uploaded
       /\ cur_seg.to < cur_seg.uploaded + ChunkBytes
       /\ \A t \in chunk_tasks : confirmed_lsn <= t.at
       /\ ~failed => \A b \in cur_seg.from..(cur_seg.uploaded - 1) :
                       Held(b) \/ \E t \in chunk_tasks : t.at <= b /\ b < t.to
       /\ pc \in {"sealed", "flushed"} => \A b \in cur_seg.from..(cur_seg.to - 1) : Held(b)
  /\ pc = "sealed" => chunk_tasks = {}
  /\ pc \in {"copy_done", "flushed"} => at = to

Data == ObjectsOk /\ Positions /\ Secured /\ Tailed /\ Buffered

Numeric ==
  /\ MaxLsn \in Nat /\ ChunkBytes \in Nat \ {0}
  /\ walEnd \in 0..MaxLsn /\ at \in 0..MaxLsn /\ to \in 0..MaxLsn
  /\ origin \in 0..MaxLsn /\ confirmed_lsn \in 0..MaxLsn /\ flushed \in 0..MaxLsn
  /\ slot \in Int /\ slot <= MaxLsn /\ saved \in Int /\ saved <= MaxLsn
  /\ \A w \in wire : w \in 0..MaxLsn
  /\ cur_seg.from \in 0..MaxLsn /\ cur_seg.to \in 0..MaxLsn /\ cur_seg.uploaded \in 0..MaxLsn
  /\ \A l \in Lsn : chunks[l].from \in 0..MaxLsn /\ chunks[l].to \in 0..MaxLsn
  /\ \A t \in chunk_tasks \cup strays : t.at \in 0..MaxLsn /\ t.from \in 0..MaxLsn /\ t.to \in 0..MaxLsn

LEMMA Numbers == WalInv => Numeric
<1> SUFFICES ASSUME WalInv PROVE Numeric
  OBVIOUS
<1>1. MaxLsn \in Nat /\ ChunkBytes \in Nat \ {0}
  BY WalAssumption
<1>2. /\ slot \in Int /\ slot <= MaxLsn /\ saved \in Int /\ saved <= MaxLsn
  BY <1>1 DEF WalInv, TypeOK, Lsn, Absent, Null
<1>3. cur_seg.from \in 0..MaxLsn /\ cur_seg.to \in 0..MaxLsn /\ cur_seg.uploaded \in 0..MaxLsn
  BY DEF WalInv, TypeOK, Lsn, Segs
<1>4. \A l \in Lsn : chunks[l].from \in 0..MaxLsn /\ chunks[l].to \in 0..MaxLsn
  <2> SUFFICES ASSUME NEW l \in Lsn PROVE chunks[l].from \in 0..MaxLsn /\ chunks[l].to \in 0..MaxLsn
    OBVIOUS
  <2>1. chunks[l] \in Object
    BY DEF WalInv, TypeOK
  <2> QED
    BY <2>1 DEF Object, Lsn
<1>5. \A t \in chunk_tasks \cup strays : t.at \in 0..MaxLsn /\ t.from \in 0..MaxLsn /\ t.to \in 0..MaxLsn
  <2>1. chunk_tasks \cup strays \subseteq Puts
    BY DEF WalInv, TypeOK
  <2> QED
    BY <2>1 DEF Puts, Lsn
<1> QED
  BY <1>1, <1>2, <1>3, <1>4, <1>5 DEF Numeric, WalInv, TypeOK, Lsn

LEMMA NumbersNext == WalInv' => Numeric'
  BY Numbers, PTL

\* A whole chunk and all its bytes are in one segment.
LEMMA WholeSegment ==
  ASSUME NEW l \in Nat, NEW b \in Nat, NEW e \in Nat, l <= b, b < e, e <= SegStart(SegNo(l) + 1)
  PROVE  SegNo(b) = SegNo(l)
<1>1. SegNo(l) \in Nat /\ SegStart(SegNo(l)) <= l
  BY SegBounds
<1>2. SegStart(SegNo(l)) \in Nat /\ SegStart(SegNo(l) + 1) \in Nat
  BY <1>1, SegStartIsNat DEF SegStartNat
<1> QED
  BY <1>1, <1>2, SegUnique

-----------------------------------------------------------------------------
(* What a step does to the archive *)

\* Nothing is lost from it.
Keeps == \A b \in Lsn : Held(b) => Held(b)'

LEMMA SameKeeps ==
  ASSUME UNCHANGED archive
  PROVE  Keeps /\ \A b : Held(b)' <=> Held(b)
  BY DEF archive, Held, Keeps

\* A PUT of a full chunk: what its key held before was a part of that.
LEMMA PutKeeps ==
  ASSUME WalInv, Data, NEW t \in chunk_tasks \cup strays,
         PutChunk(t.at, [from |-> t.from, to |-> t.to]), UNCHANGED sealed
  PROVE  /\ Keeps
         /\ \A b \in Lsn : t.at <= b /\ b < t.to => Held(b)'
         /\ \A l \in Lsn : chunks'[l] # NoObject => Whole(l, chunks'[l])
<1>1. Numeric
  BY Numbers
<1>2. /\ t.at \in Lsn /\ t.to \in Nat /\ t.from \in Nat /\ t.at \in Nat
      /\ Whole(t.at, t) /\ t.to = t.at + ChunkBytes
  BY <1>1 DEF Numeric, Data, ObjectsOk, Lsn
<1>3. chunks \in [Lsn -> Object] /\ chunks' = [chunks EXCEPT ![t.at] = [from |-> t.from, to |-> t.to]]
  BY DEF PutChunk, WalInv, TypeOK
<1>4. \A l \in Lsn : l # t.at => chunks'[l] = chunks[l]
  BY <1>3
<1>5. chunks'[t.at].from = t.from /\ chunks'[t.at].to = t.to
  BY <1>2, <1>3
<1>6. \A l \in Lsn : chunks'[l] # NoObject => Whole(l, chunks'[l])
  BY <1>2, <1>4, <1>5 DEF Whole, Data, ObjectsOk
<1>7. \A b \in Lsn : t.at <= b /\ b < t.to => Held(b)'
  BY <1>2, <1>5 DEF Held
<1>8. Keeps
  <2> SUFFICES ASSUME NEW b \in Lsn, Held(b) PROVE Held(b)'
    BY DEF Keeps
  <2>1. CASE sealed[SegNo(b)] # NoObject
    BY <2>1 DEF Held
  <2>2. ASSUME NEW l \in Lsn, l <= b, b < chunks[l].to PROVE Held(b)'
    <3>1. CASE l # t.at
      BY <1>4, <2>2, <3>1 DEF Held
    <3>2. CASE l = t.at
      <4>1. chunks[l] # NoObject /\ b \in Nat
        BY <2>2 DEF NoObject, Lsn
      <4>2. chunks[l].to <= t.to /\ chunks[l].to \in Nat
        BY <1>1, <1>2, <3>2, <4>1 DEF Data, ObjectsOk, Whole, Numeric
      <4>3. b < t.to
        BY <1>2, <2>2, <4>1, <4>2
      <4> QED
        BY <1>7, <2>2, <3>2, <4>3
    <3> QED
      BY <3>1, <3>2
  <2> QED
    BY <2>1, <2>2 DEF Held
<1> QED
  BY <1>6, <1>7, <1>8

\* The chunks of a sealed segment are not needed.
LEMMA DeleteKeeps ==
  ASSUME WalInv, Data, NEW s \in deletes, UNCHANGED sealed,
         chunks' = [l \in Lsn |-> IF SegNo(l) = s THEN NoObject ELSE chunks[l]]
  PROVE  /\ Keeps
         /\ \A l \in Lsn : chunks'[l] # NoObject => Whole(l, chunks'[l])
<1>1. Numeric
  BY Numbers
<1>2. \A l \in Lsn : chunks'[l] = IF SegNo(l) = s THEN NoObject ELSE chunks[l]
  OBVIOUS
<1>3. \A l \in Lsn : chunks'[l] # NoObject => Whole(l, chunks'[l])
  BY <1>2 DEF Data, ObjectsOk
<1>4. Keeps
  <2> SUFFICES ASSUME NEW b \in Lsn, Held(b) PROVE Held(b)'
    BY DEF Keeps
  <2>1. CASE sealed[SegNo(b)] # NoObject
    BY <2>1 DEF Held
  <2>2. ASSUME NEW l \in Lsn, l <= b, b < chunks[l].to PROVE Held(b)'
    <3>1. CASE SegNo(l) # s
      BY <1>2, <2>2, <3>1 DEF Held
    <3>2. CASE SegNo(l) = s
      <4>1. chunks[l] # NoObject /\ b \in Nat /\ l \in Nat
        BY <2>2 DEF NoObject, Lsn
      <4>2. Whole(l, chunks[l]) /\ chunks[l].to \in Nat
        BY <1>1, <4>1 DEF Data, ObjectsOk, Numeric
      <4>3. SegNo(b) = SegNo(l)
        BY <2>2, <4>1, <4>2, WholeSegment DEF Whole
      <4>4. sealed[s] # NoObject
        BY DEF Data, ObjectsOk
      <4> QED
        BY <3>2, <4>3, <4>4 DEF Held
    <3> QED
      BY <3>1, <3>2
  <2> QED
    BY <2>1, <2>2 DEF Held
<1> QED
  BY <1>3, <1>4

\* The tail of the buffer replaces what its key held, which was past confirmed_lsn.
Tail == PutChunk(cur_seg.uploaded, [from |-> cur_seg.from, to |-> cur_seg.to])

LEMMA TailKeeps ==
  ASSUME WalInv, Data, cur_seg # NoSeg, cur_seg.to > cur_seg.uploaded, Tail, UNCHANGED sealed
  PROVE  /\ \A b \in Lsn : b < cur_seg.uploaded /\ Held(b) => Held(b)'
         /\ \A b \in Lsn : cur_seg.uploaded <= b /\ b < cur_seg.to => Held(b)'
         /\ \A l \in Lsn : chunks'[l] # NoObject => Whole(l, chunks'[l])
<1> DEFINE u == cur_seg.uploaded
<1>1. Numeric
  BY Numbers
<1>2. /\ u \in Lsn /\ u \in Nat /\ cur_seg.to \in Nat /\ cur_seg.from \in Nat
      /\ cur_seg.from <= u /\ cur_seg.to < u + ChunkBytes /\ ChunkBytes \in Nat
  BY <1>1 DEF Numeric, Data, Buffered, Lsn
<1>3. chunks \in [Lsn -> Object] /\ chunks' = [chunks EXCEPT ![u] = [from |-> cur_seg.from, to |-> cur_seg.to]]
  BY DEF Tail, PutChunk, WalInv, TypeOK
<1>4. \A l \in Lsn : l # u => chunks'[l] = chunks[l]
  BY <1>3
<1>5. chunks'[u].from = cur_seg.from /\ chunks'[u].to = cur_seg.to
  BY <1>2, <1>3
<1>6. SegNo(u) = cur_seg.seg /\ cur_seg.to <= SegStart(cur_seg.seg + 1)
  <2>1. cur_seg.seg \in Nat
    <3>1. SegNo(MaxLsn) \in Nat
      BY SegBounds, WalAssumption
    <3> QED
      BY <3>1 DEF WalInv, TypeOK, Segs, SegNos
  <2>2. SegStart(cur_seg.seg) \in Nat /\ SegStart(cur_seg.seg + 1) \in Nat
    BY <2>1, SegStartIsNat DEF SegStartNat
  <2>3. SegStart(cur_seg.seg) <= cur_seg.from /\ cur_seg.to <= SegStart(cur_seg.seg + 1)
    BY DEF WalInv, TypeOK, StreamInv
  <2>4. SegStart(cur_seg.seg) <= u /\ u < SegStart(cur_seg.seg + 1)
    BY <1>2, <2>2, <2>3
  <2> HIDE DEF u
  <2> QED
    BY <1>2, <2>1, <2>3, <2>4, SegUnique
<1>7. Whole(u, chunks'[u])
  BY <1>2, <1>5, <1>6 DEF Whole
<1> HIDE DEF u
<1>8. \A l \in Lsn : chunks'[l] # NoObject => Whole(l, chunks'[l])
  BY <1>4, <1>7 DEF Data, ObjectsOk
<1>9. \A b \in Lsn : u <= b /\ b < cur_seg.to => Held(b)'
  BY <1>2, <1>5 DEF Held
<1>10. ASSUME NEW b \in Lsn, b < u, Held(b) PROVE Held(b)'
  <2>1. ASSUME NEW l \in Lsn, l <= b PROVE l # u
    BY <1>2, <1>10, <2>1 DEF Lsn
  <2> QED
    BY <1>4, <1>10, <2>1 DEF Held
<1> QED
  BY <1>8, <1>9, <1>10 DEF u

-----------------------------------------------------------------------------
(* Frames *)

\* What is secured stays so if the archive keeps it.
LEMMA KeptTo ==
  ASSUME WalInv, Keeps, NEW p \in Int, p <= MaxLsn, HeldTo(p)
  PROVE  \A b \in origin..(p - 1) : Held(b)'
<1> SUFFICES ASSUME NEW b \in origin..(p - 1) PROVE Held(b)'
  OBVIOUS
<1>1. Numeric
  BY Numbers
<1>2. b \in Lsn /\ Held(b)
  BY <1>1 DEF Numeric, Lsn, HeldTo
<1> QED
  BY <1>2 DEF Keeps

LEMMA SecuredFrame ==
  ASSUME WalInv, Data, Keeps, UNCHANGED <<origin, slot, saved, confirmed_lsn, pc, walEnd>>,
         wire' \subseteq wire
  PROVE  Secured'
<1>1. Numeric
  BY Numbers
<1>2. \A p \in Int : p <= MaxLsn /\ HeldTo(p) => \A b \in origin..(p - 1) : Held(b)'
  BY KeptTo
<1>3. HeldTo(slot)' /\ HeldTo(saved)'
  BY <1>1, <1>2 DEF HeldTo, Data, Secured, Numeric
<1>4. \A w \in wire' : HeldTo(w)'
  <2> SUFFICES ASSUME NEW w \in wire PROVE HeldTo(w)'
    OBVIOUS
  <2>1. w \in Int /\ w <= MaxLsn
    BY <1>1 DEF Numeric
  <2> QED
    BY <1>2, <2>1 DEF HeldTo, Data, Secured
<1>5. Online' => HeldTo(confirmed_lsn)'
  BY <1>1, <1>2 DEF HeldTo, Data, Secured, Numeric, Online
<1> QED
  BY <1>3, <1>4, <1>5 DEF Secured

LEMMA TailedFrame ==
  ASSUME WalInv, Data, Keeps, UNCHANGED <<origin, flushed, failed>>, chunk_tasks \subseteq chunk_tasks'
  PROVE  Tailed'
<1> SUFFICES ASSUME ~failed, NEW b \in origin..(flushed - 1) PROVE Coming(b)'
  BY DEF Tailed
<1>1. b \in Lsn
  BY Numbers DEF Numeric, Lsn
<1>2. Coming(b)
  BY DEF Data, Tailed
<1> QED
  BY <1>1, <1>2 DEF Coming, Keeps

LEMMA BufferedFrame ==
  ASSUME WalInv, Data, Keeps, UNCHANGED <<pc, at, to, cur_seg, confirmed_lsn, chunk_tasks, failed>>
  PROVE  Buffered'
<1>1. Numeric
  BY Numbers
<1>2. \A b \in cur_seg.from..(cur_seg.uploaded - 1) : b \in Lsn
  BY <1>1 DEF Numeric, Lsn
<1>3. \A b \in cur_seg.from..(cur_seg.to - 1) : b \in Lsn
  BY <1>1 DEF Numeric, Lsn
<1>4. ASSUME cur_seg # NoSeg, ~failed, NEW b \in cur_seg.from..(cur_seg.uploaded - 1)
      PROVE  Held(b)' \/ \E t \in chunk_tasks : t.at <= b /\ b < t.to
  BY <1>2, <1>4 DEF Data, Buffered, Keeps
<1>5. ASSUME cur_seg # NoSeg, pc \in {"sealed", "flushed"}, NEW b \in cur_seg.from..(cur_seg.to - 1)
      PROVE  Held(b)'
  BY <1>3, <1>5 DEF Data, Buffered, Keeps
<1> QED
  BY <1>4, <1>5 DEF Data, Buffered, Online

LEMMA ObjectsFrame ==
  ASSUME Data, UNCHANGED archive, chunk_tasks' \cup strays' \subseteq chunk_tasks \cup strays,
         deletes' \subseteq deletes
  PROVE  ObjectsOk'
<1>1. chunks' = chunks /\ sealed' = sealed
  BY DEF archive
<1> QED
  BY <1>1 DEF Data, ObjectsOk, Whole

-----------------------------------------------------------------------------
(* One lemma for each group of actions *)

LEMMA ServerData ==
  ASSUME WalInv, WalInv', Data, WriteWal \/ Checkpoint \/ ServerStatus
  PROVE  Data'
<1>1. Numeric
  BY Numbers
<1>2. Keeps /\ ObjectsOk' /\ \A b : Held(b)' <=> Held(b)
  BY SameKeeps, ObjectsFrame DEF WriteWal, Checkpoint, ServerStatus, tasks
<1>3. Buffered'
  BY <1>2, BufferedFrame DEF WriteWal, Checkpoint, ServerStatus, tasks, receiver
<1>0. Tailed'
  BY <1>2, TailedFrame DEF WriteWal, Checkpoint, ServerStatus, tasks, history
<1>4. CASE WriteWal
  <2>1. Positions'
    BY <1>4 DEF WriteWal, Data, Positions, Before, Online, receiver, tasks, history
  <2>2. UNCHANGED <<origin, slot, saved, confirmed_lsn, pc, wire>>
    BY <1>4 DEF WriteWal, receiver, history
  <2>3. Secured'
    BY <1>2, <2>2 DEF Data, Secured, HeldTo, Online
  <2> QED
    BY <1>0, <1>2, <1>3, <2>1, <2>3 DEF Data
<1>5. CASE Checkpoint
  <2>1. UNCHANGED <<origin, slot, confirmed_lsn, pc, wire, walEnd, flushed, failed, at, chunk_tasks>> /\ saved' = slot
    BY <1>5 DEF Checkpoint, tasks
  <2>2. Positions'
    BY <1>1, <2>1 DEF Data, Positions, Before, Online, Numeric
  <2>3. Secured'
    BY <1>2, <2>1 DEF Data, Secured, HeldTo, Online
  <2> QED
    BY <1>0, <1>2, <1>3, <2>2, <2>3 DEF Data
<1>6. CASE ServerStatus
  <2> DEFINE m == Min(wire)
  <2>1. /\ UNCHANGED <<origin, saved, confirmed_lsn, pc, walEnd, flushed, failed, at, chunk_tasks>>
        /\ slot' = m /\ wire' = wire \ {m} /\ wire # {}
    BY <1>6 DEF ServerStatus, tasks, history, receiver
  <2>2. m \in wire /\ m \in Lsn /\ \A w \in wire : m <= w
    BY <2>1, MinOfLsns DEF WalInv, TypeOK
  <2> HIDE DEF m
  <2>3. Online
    BY <2>1 DEF Data, Positions
  <2>4. Positions'
    <3>1. Before(saved, slot)'
      BY <1>1, <2>1, <2>2 DEF Data, Positions, Before, Numeric
    <3>2. \A w \in wire' : Before(slot, w)' /\ Before(saved, w)' /\ w <= confirmed_lsn'
      BY <1>1, <2>1, <2>2 DEF Data, Positions, Before, Numeric
    <3>3. Before(slot, confirmed_lsn)' /\ Before(saved, confirmed_lsn)'
      BY <1>1, <2>1, <2>2, <2>3 DEF Data, Positions, Before, Numeric
    <3> QED
      BY <2>1, <2>2, <2>3, <3>1, <3>2, <3>3 DEF Data, Positions, Online, Before
  <2>5. Secured'
    <3>1. HeldTo(slot)'
      BY <1>2, <2>1, <2>2 DEF Data, Secured, HeldTo
    <3> QED
      BY <1>2, <2>1, <3>1 DEF Data, Secured, HeldTo, Online
  <2> QED
    BY <1>0, <1>2, <1>3, <2>4, <2>5 DEF Data
<1> QED
  BY <1>4, <1>5, <1>6

LEMMA TaskData ==
  ASSUME WalInv, WalInv', Data, ChunkPut \/ ChunkPutFail \/ StrayPut \/ DeleteChunks
  PROVE  Data'
<1>1. Numeric
  BY Numbers
<1>2. /\ UNCHANGED <<origin, slot, saved, wire, confirmed_lsn, pc, walEnd, flushed, at, to, cur_seg, sealed>>
      /\ chunk_tasks' \subseteq chunk_tasks
      /\ ~Online => ~failed'
  <2>1. Online \/ (chunk_tasks = {} /\ ~failed)
    BY DEF Data, Positions
  <2>2. ~Online => failed' = failed
    BY <2>1 DEF ChunkPut, ChunkPutFail, StrayPut, DeleteChunks
  <2>3. /\ UNCHANGED <<origin, slot, saved, wire, confirmed_lsn, pc, walEnd, flushed, at, to, cur_seg, sealed>>
        /\ chunk_tasks' \subseteq chunk_tasks
    BY DEF ChunkPut, ChunkPutFail, StrayPut, DeleteChunks, server, receiver, history, archive
  <2> QED
    BY <2>1, <2>2, <2>3
<1>3. Positions'
  BY <1>2 DEF Data, Positions, Before, Online
<1>4. CASE ChunkPut
  <2>1. PICK t \in chunk_tasks : /\ PutChunk(t.at, [from |-> t.from, to |-> t.to])
                                 /\ chunk_tasks' = chunk_tasks \ {t}
    BY <1>4 DEF ChunkPut
  <2>2. /\ Keeps
        /\ \A b \in Lsn : t.at <= b /\ b < t.to => Held(b)'
        /\ \A l \in Lsn : chunks'[l] # NoObject => Whole(l, chunks'[l])
    BY <1>2, <2>1, PutKeeps
  <2>3. UNCHANGED <<strays, deletes, failed>>
    BY <1>4 DEF ChunkPut
  <2>4. ObjectsOk'
    BY <1>2, <2>2, <2>3 DEF Data, ObjectsOk, Whole
  <2>5. Secured'
    BY <1>2, <2>2, SecuredFrame
  <2>6. Buffered'
    <3>1. ASSUME cur_seg # NoSeg, ~failed, NEW b \in cur_seg.from..(cur_seg.uploaded - 1)
          PROVE  Held(b)' \/ \E u \in chunk_tasks' : u.at <= b /\ b < u.to
      <4>1. b \in Lsn
        BY <1>1 DEF Numeric, Lsn
      <4>2. Held(b) \/ \E u \in chunk_tasks : u.at <= b /\ b < u.to
        BY <3>1 DEF Data, Buffered
      <4> QED
        BY <2>1, <2>2, <4>1, <4>2 DEF Keeps
    <3>2. ASSUME cur_seg # NoSeg, pc \in {"sealed", "flushed"}, NEW b \in cur_seg.from..(cur_seg.to - 1)
          PROVE  Held(b)'
      <4>1. b \in Lsn
        BY <1>1 DEF Numeric, Lsn
      <4> QED
        BY <2>2, <3>2, <4>1 DEF Keeps, Data, Buffered
    <3>3. \A u \in chunk_tasks' : u \in chunk_tasks
      BY <2>1
    <3> QED
      BY <1>2, <2>1, <2>3, <3>1, <3>2, <3>3 DEF Data, Buffered, Online
  <2>7. Tailed'
    <3> SUFFICES ASSUME ~failed, NEW b \in origin..(flushed - 1) PROVE Coming(b)'
      BY <1>2, <2>3 DEF Tailed
    <3>1. b \in Lsn /\ Coming(b)
      BY <1>1 DEF Numeric, Lsn, Data, Tailed
    <3> QED
      BY <2>1, <2>2, <3>1 DEF Coming, Keeps
  <2> QED
    BY <1>3, <2>4, <2>5, <2>6, <2>7 DEF Data
<1>5. CASE ChunkPutFail
  <2>1. UNCHANGED archive /\ UNCHANGED <<strays, deletes>> /\ failed' = TRUE
    BY <1>5 DEF ChunkPutFail
  <2>2. Keeps /\ (\A b : Held(b)' <=> Held(b)) /\ ObjectsOk'
    BY <1>2, <2>1, SameKeeps, ObjectsFrame
  <2>3. Secured'
    BY <1>2, <2>2, SecuredFrame
  <2>4. Buffered'
    BY <1>2, <2>1, <2>2 DEF Data, Buffered, Online
  <2> QED
    BY <1>3, <2>1, <2>2, <2>3, <2>4 DEF Data, Tailed
<1>6. CASE StrayPut
  <2>1. PICK t \in strays : /\ PutChunk(t.at, [from |-> t.from, to |-> t.to])
                            /\ strays' = strays \ {t}
    BY <1>6 DEF StrayPut
  <2>2. /\ Keeps
        /\ \A l \in Lsn : chunks'[l] # NoObject => Whole(l, chunks'[l])
    BY <1>2, <2>1, PutKeeps
  <2>3. UNCHANGED <<chunk_tasks, deletes, failed>>
    BY <1>6 DEF StrayPut
  <2>4. ObjectsOk'
    BY <1>2, <2>1, <2>2, <2>3 DEF Data, ObjectsOk, Whole
  <2> QED
    BY <1>2, <1>3, <2>2, <2>3, <2>4, SecuredFrame, BufferedFrame, TailedFrame DEF Data
<1>7. CASE DeleteChunks
  <2>1. PICK s \in deletes :
          /\ chunks' = [l \in Lsn |-> IF SegNo(l) = s THEN NoObject ELSE chunks[l]]
          /\ deletes' = deletes \ {s}
    BY <1>7 DEF DeleteChunks
  <2>2. /\ Keeps
        /\ \A l \in Lsn : chunks'[l] # NoObject => Whole(l, chunks'[l])
    BY <1>2, <2>1, DeleteKeeps
  <2>3. UNCHANGED <<chunk_tasks, strays, failed>>
    BY <1>7 DEF DeleteChunks
  <2>4. ObjectsOk'
    BY <1>2, <2>1, <2>2, <2>3 DEF Data, ObjectsOk, Whole
  <2> QED
    BY <1>2, <1>3, <2>2, <2>3, <2>4, SecuredFrame, BufferedFrame, TailedFrame DEF Data
<1> QED
  BY <1>4, <1>5, <1>6, <1>7

LEMMA ConnectData ==
  ASSUME WalInv, WalInv', Data, Identify \/ StartReplication
  PROVE  Data'
<1>1. Numeric
  BY Numbers
<1>2. Keeps /\ ObjectsOk' /\ \A b : Held(b)' <=> Held(b)
  BY SameKeeps, ObjectsFrame DEF Identify, StartReplication, tasks
<1>3. CASE Identify
  <2>1. /\ UNCHANGED <<origin, slot, saved, wire, confirmed_lsn, walEnd, chunk_tasks, cur_seg, failed, flushed>>
        /\ pc = "down" /\ pc' = "identified" /\ cur_seg = NoSeg
    BY <1>3 DEF Identify, server, tasks, history, WalInv, StreamInv
  <2>2. Positions'
    BY <2>1 DEF Data, Positions, Before, Online
  <2>3. Secured'
    BY <1>2, <2>1 DEF Data, Secured, HeldTo, Online
  <2>4. Buffered'
    BY <2>1 DEF Buffered, Online
  <2>5. Tailed'
    BY <1>2, <2>1, TailedFrame
  <2> QED
    BY <1>2, <2>2, <2>3, <2>4, <2>5 DEF Data
<1>4. CASE StartReplication
  <2> DEFINE start == IF slot \in Lsn THEN slot ELSE xlogpos
  <2>1. /\ UNCHANGED <<wire, walEnd, chunk_tasks, cur_seg, failed>> /\ flushed' = 0
        /\ pc = "identified" /\ pc' = "stream" /\ cur_seg = NoSeg
        /\ at' = start /\ confirmed_lsn' = start
    BY <1>4 DEF StartReplication, tasks, WalInv, StreamInv
  <2>2. wire = {} /\ chunk_tasks = {} /\ ~failed
    BY <2>1 DEF Data, Positions, Online
  <2>3. start \in Lsn /\ start \in Int
    BY DEF WalInv, TypeOK, Lsn
  <2>4. Buffered'
    BY <2>1, <2>2 DEF Buffered
  <2>0. Tailed' /\ flushed' <= at'
    <3>1. origin'..(0 - 1) = {}
      BY NumbersNext DEF Numeric
    <3> QED
      BY <2>1, <2>3, <3>1 DEF Tailed, Lsn
  <2>5. CASE slot \in Lsn
    <3>1. UNCHANGED <<slot, saved, origin>> /\ start = slot
      BY <1>4, <2>5 DEF StartReplication, Absent, Lsn
    <3>2. Positions'
      BY <1>1, <2>0, <2>1, <2>2, <2>5, <3>1 DEF Data, Positions, Before, Online, Numeric
    <3>3. Secured'
      BY <1>2, <2>1, <2>2, <3>1 DEF Data, Secured, HeldTo, Online
    <3> QED
      BY <1>2, <2>0, <2>4, <3>2, <3>3 DEF Data
  <2>6. CASE slot \notin Lsn
    <3>1. slot \in {Absent, Null} /\ saved \in {Absent, Null}
      BY <2>6 DEF WalInv, TypeOK, Data, Positions
    <3>2. origin' = Max({start, slot'})
      BY <1>4, <2>6 DEF StartReplication
    <3>3. \/ slot' \in Lsn /\ saved' = slot'
          \/ slot' = Null /\ saved' \in {Absent, Null}
      <4>1. ASSUME NEW redo \in 0..walEnd PROVE redo \in Lsn
        BY <4>1, <1>1 DEF Numeric, Lsn
      <4> QED
        BY <1>4, <3>1, <4>1 DEF StartReplication, Absent, Null
    <3>4. slot' \in Int /\ saved' \in Int /\ saved' <= slot' /\ (saved' \in Lsn => slot' \in Lsn)
      BY <3>3 DEF Lsn, Absent, Null
    <3>5. origin' \in Int /\ origin' >= start /\ origin' >= slot'
      BY <2>3, <3>2, <3>4, MaxOfTwo
    <3> HIDE DEF start
    <3>6. Positions'
      BY <2>0, <2>1, <2>2, <3>4, <3>5 DEF Positions, Before, Online
    <3>7. Secured'
      <4>1. ASSUME NEW p \in Int, p <= origin' PROVE origin'..(p - 1) = {}
        BY <4>1, <3>5
      <4>2. /\ slot' \in Int /\ saved' \in Int /\ confirmed_lsn' \in Int
            /\ slot' <= origin' /\ saved' <= origin' /\ confirmed_lsn' <= origin'
        BY <2>1, <2>3, <3>4, <3>5
      <4>3. origin'..(slot' - 1) = {} /\ origin'..(saved' - 1) = {} /\ origin'..(confirmed_lsn' - 1) = {}
        BY <4>1, <4>2
      <4> QED
        BY <2>1, <2>2, <4>3 DEF Secured, HeldTo
    <3> QED
      BY <1>2, <2>0, <2>4, <3>6, <3>7 DEF Data
  <2> QED
    BY <2>5, <2>6
<1> QED
  BY <1>3, <1>4

\* Wherever the connection ends, the archive is as it was; a task that runs goes on as a stray.
LEMMA DownData ==
  ASSUME WalInv, WalInv', Data,
         pc' = "down", cur_seg' = NoSeg, chunk_tasks' = {}, failed' = FALSE, wire' = {},
         strays' \subseteq strays \cup chunk_tasks, deletes' \subseteq deletes,
         UNCHANGED <<archive, origin, walEnd>>,
         \/ slot' = slot /\ saved' = saved
         \/ slot' = saved /\ saved' = saved,
         FlushKept
  PROVE  Data'
<1>1. Numeric
  BY Numbers
<1>2. (\A b : Held(b)' <=> Held(b)) /\ ObjectsOk'
  BY SameKeeps, ObjectsFrame
<1>3. Positions'
  BY <1>1 DEF Data, Positions, Before, Online, Numeric
<1>4. Secured'
  <2>1. HeldTo(slot)' /\ HeldTo(saved)'
    BY <1>2 DEF Data, Secured, HeldTo
  <2> QED
    BY <2>1 DEF Secured, Online
<1>5. Buffered'
  BY DEF Buffered, Online
<1>6. Tailed'
  <2> SUFFICES ASSUME NEW b \in origin..(flushed' - 1) PROVE Coming(b)'
    BY DEF Tailed
  <2>1. chunk_tasks = {} /\ ~failed /\ flushed' = flushed
    <3>1. origin..(0 - 1) = {}
      BY <1>1 DEF Numeric
    <3> QED
      BY <3>1 DEF FlushKept
  <2>2. Held(b)
    BY <2>1 DEF Data, Tailed, Coming
  <2> QED
    BY <1>2, <2>2 DEF Coming
<1> QED
  BY <1>2, <1>3, <1>4, <1>5, <1>6 DEF Data

LEMMA EndData ==
  ASSUME WalInv, WalInv', Data, ConnectionFail \/ JoinFailed \/ StreamEnd \/ Crash
  PROVE  Data'
<1>1. CASE ConnectionFail \/ JoinFailed
  <2>1. PICK running \in SUBSET chunk_tasks : Disconnected(running)
    BY <1>1 DEF ConnectionFail, JoinFailed
  <2>2. UNCHANGED <<walEnd, slot, saved, deletes, origin>>
    BY <1>1 DEF ConnectionFail, JoinFailed, server
  <2> QED
    BY <2>1, <2>2, DownData DEF Disconnected
<1>2. CASE StreamEnd
  <2>1. Disconnected({}) /\ UNCHANGED <<walEnd, slot, saved, deletes, origin>>
    BY <1>2 DEF StreamEnd, server
  <2> QED
    BY <2>1, DownData DEF Disconnected
<1>3. CASE Crash
  BY <1>3, DownData DEF Crash
<1> QED
  BY <1>1, <1>2, <1>3

\* The tail is past all that is confirmed, so replacing its chunk loses nothing that is.
LEMMA TailSecured ==
  ASSUME WalInv, Data, cur_seg # NoSeg, cur_seg.to > cur_seg.uploaded, Tail, UNCHANGED sealed,
         UNCHANGED <<origin, slot, saved, wire, confirmed_lsn, walEnd>>, Online, Online'
  PROVE  Secured'
<1>1. Numeric
  BY Numbers
<1>2. cur_seg.from = confirmed_lsn /\ confirmed_lsn <= cur_seg.uploaded
  BY DEF Data, Buffered
<1>3. ASSUME NEW p \in Int, p <= confirmed_lsn \/ p <= origin, HeldTo(p), NEW b \in origin..(p - 1)
      PROVE  Held(b)'
  <2>1. b \in Lsn /\ b < cur_seg.uploaded /\ Held(b)
    BY <1>1, <1>2, <1>3 DEF Numeric, HeldTo, Lsn
  <2> QED
    BY <2>1, TailKeeps
<1>4. HeldTo(slot)' /\ HeldTo(saved)' /\ HeldTo(confirmed_lsn)'
  BY <1>1, <1>3 DEF HeldTo, Data, Secured, Positions, Before, Numeric
<1>5. \A w \in wire' : HeldTo(w)'
  <2> SUFFICES ASSUME NEW w \in wire PROVE HeldTo(w)'
    OBVIOUS
  <2>1. w \in Int /\ w <= confirmed_lsn /\ HeldTo(w)
    BY <1>1 DEF Numeric, Data, Positions, Secured
  <2> QED
    BY <1>3, <2>1 DEF HeldTo
<1> QED
  BY <1>4, <1>5 DEF Secured

\* The tail flush, after the join at the end of a segment and of a connection, and at a
\* checkpoint.
LEMMA TailData ==
  ASSUME WalInv, WalInv', Data,
         \/ cur_seg # NoSeg /\ cur_seg.to > cur_seg.uploaded /\ Tail
         \/ UNCHANGED chunks,
         UNCHANGED <<sealed, origin, slot, saved, wire, confirmed_lsn, walEnd, at, to,
                    cur_seg, chunk_tasks, strays, deletes, failed>>,
         Online, Online',
         \/ flushed' = flushed
         \/ flushed' = at /\ (cur_seg # NoSeg /\ cur_seg.to > cur_seg.uploaded => Tail),
         pc' = "sealed" => chunk_tasks = {},
         pc' \in {"copy_done", "flushed"} => at = to,
         pc' \in {"sealed", "flushed"} =>
           /\ chunk_tasks = {} /\ ~failed
           /\ cur_seg # NoSeg /\ cur_seg.to > cur_seg.uploaded => Tail
  PROVE  Data'
<1>1. Numeric
  BY Numbers
<1>2. Positions'
  BY <1>1 DEF Data, Positions, Before, Online, Numeric
<1>3. Secured' /\ ObjectsOk' /\ \A b \in Lsn : b < cur_seg.uploaded /\ Held(b) => Held(b)'
  <2>1. CASE UNCHANGED chunks
    <3>1. Keeps /\ ObjectsOk' /\ \A b : Held(b)' <=> Held(b)
      BY <2>1, SameKeeps, ObjectsFrame DEF archive
    <3>2. Secured'
      BY <3>1 DEF Data, Secured, HeldTo, Online
    <3> QED
      BY <3>1, <3>2
  <2>2. CASE cur_seg # NoSeg /\ cur_seg.to > cur_seg.uploaded /\ Tail
    <3>1. /\ \A b \in Lsn : b < cur_seg.uploaded /\ Held(b) => Held(b)'
          /\ \A l \in Lsn : chunks'[l] # NoObject => Whole(l, chunks'[l])
      BY <2>2, TailKeeps
    <3>2. ObjectsOk'
      BY <3>1 DEF Data, ObjectsOk, Whole
    <3> QED
      BY <2>2, <3>1, <3>2, TailSecured
  <2> QED
    BY <2>1, <2>2
<1>4. ASSUME cur_seg # NoSeg, ~failed, NEW b \in cur_seg.from..(cur_seg.uploaded - 1)
      PROVE  Held(b)' \/ \E t \in chunk_tasks : t.at <= b /\ b < t.to
  <2>1. b \in Lsn /\ b < cur_seg.uploaded
    BY <1>1 DEF Numeric, Lsn
  <2>2. Held(b) \/ \E t \in chunk_tasks : t.at <= b /\ b < t.to
    BY <1>4 DEF Data, Buffered
  <2> QED
    BY <1>3, <2>1, <2>2
<1>5. ASSUME cur_seg # NoSeg, pc' \in {"sealed", "flushed"}, NEW b \in cur_seg.from..(cur_seg.to - 1)
      PROVE  Held(b)'
  <2>1. b \in Lsn /\ chunk_tasks = {} /\ ~failed
    BY <1>1, <1>5 DEF Numeric, Lsn
  <2>2. CASE b < cur_seg.uploaded
    <3>1. b \in cur_seg.from..(cur_seg.uploaded - 1)
      BY <1>1, <2>2 DEF Numeric
    <3> QED
      BY <1>4, <1>5, <2>1, <3>1
  <2>3. CASE cur_seg.uploaded <= b
    <3>1. cur_seg.to > cur_seg.uploaded /\ b < cur_seg.to
      BY <1>1, <2>3 DEF Numeric
    <3>2. Tail
      BY <1>5, <3>1
    <3> QED
      BY <1>5, <2>1, <2>3, <3>1, <3>2, TailKeeps
  <2> QED
    BY <1>1, <2>1, <2>2, <2>3 DEF Numeric, Lsn
<1>6. Buffered'
  BY <1>4, <1>5 DEF Data, Buffered, Online
<1>7. Tailed'
  <2> SUFFICES ASSUME ~failed, NEW b \in origin..(flushed' - 1) PROVE Coming(b)'
    BY DEF Tailed
  <2>1. b \in Lsn /\ b < at /\ origin <= b
    BY <1>1 DEF Numeric, Lsn, Data, Positions
  <2>2. CASE cur_seg = NoSeg
    <3>1. at = confirmed_lsn /\ UNCHANGED chunks
      BY <2>2 DEF Data, Buffered
    <3>2. b \in origin..(confirmed_lsn - 1)
      BY <1>1, <2>1, <3>1 DEF Numeric
    <3>3. Held(b)
      BY <3>2 DEF Data, Secured, HeldTo
    <3> QED
      BY <3>1, <3>3 DEF Held, Coming
  <2>3. CASE cur_seg # NoSeg /\ b < cur_seg.uploaded
    <3>1. CASE b < cur_seg.from
      <4>1. b \in origin..(confirmed_lsn - 1)
        BY <1>1, <2>1, <2>3, <3>1 DEF Numeric, Data, Buffered
      <4>2. Held(b)
        BY <4>1 DEF Data, Secured, HeldTo
      <4> QED
        BY <1>3, <2>1, <2>3, <4>2 DEF Coming
    <3>2. CASE cur_seg.from <= b
      <4>1. b \in cur_seg.from..(cur_seg.uploaded - 1)
        BY <1>1, <2>1, <2>3, <3>2 DEF Numeric, Lsn
      <4> QED
        BY <1>4, <2>3, <4>1 DEF Coming
    <3> QED
      BY <1>1, <2>1, <3>1, <3>2 DEF Numeric, Lsn
  <2>4. CASE cur_seg # NoSeg /\ cur_seg.uploaded <= b
    <3>1. cur_seg.to = at /\ b < cur_seg.to /\ cur_seg.to > cur_seg.uploaded
      BY <1>1, <2>1, <2>4 DEF WalInv, StreamInv, Numeric, Lsn
    <3>2. CASE Tail
      BY <2>1, <2>4, <3>1, <3>2, TailKeeps DEF Coming
    <3>3. CASE ~Tail
      <4>1. UNCHANGED <<chunks, flushed>>
        BY <2>4, <3>1, <3>3
      <4>2. Coming(b)
        BY <4>1 DEF Data, Tailed
      <4> QED
        BY <4>1, <4>2 DEF Coming, Held
    <3> QED
      BY <3>2, <3>3
  <2> QED
    BY <1>1, <2>1, <2>2, <2>3, <2>4 DEF Numeric, Lsn
<1> QED
  BY <1>2, <1>3, <1>6, <1>7 DEF Data

LEMMA LoopData ==
  ASSUME WalInv, WalInv', Data,
         \/ Receive \/ SealBegin \/ SealJoin \/ SendStandbyStatus \/ MaybeFlushOnCheckpoint
         \/ CopyDone \/ FlushPartialTail
  PROVE  Data'
<1>1. CASE Receive
  <2>1. /\ UNCHANGED archive
        /\ UNCHANGED <<origin, slot, saved, wire, confirmed_lsn, walEnd, flushed, at, pc, cur_seg,
                      chunk_tasks, strays, deletes, failed>>
        /\ pc = "stream"
    BY <1>1 DEF Receive, server, tasks, history
  <2>2. Keeps /\ ObjectsOk' /\ \A b : Held(b)' <=> Held(b)
    BY <2>1, SameKeeps, ObjectsFrame
  <2>3. Secured'
    BY <2>1, <2>2 DEF Data, Secured, HeldTo, Online
  <2>4. Positions' /\ Buffered'
    BY <2>1, <2>2 DEF Data, Positions, Before, Buffered, Online
  <2>5. Tailed'
    BY <2>1, <2>2, TailedFrame
  <2> QED
    BY <2>2, <2>3, <2>4, <2>5 DEF Data
<1>2. CASE SendStandbyStatus
  <2>1. /\ UNCHANGED archive
        /\ UNCHANGED <<origin, slot, saved, confirmed_lsn, walEnd, flushed, at, to, cur_seg,
                      chunk_tasks, strays, deletes, failed>>
        /\ pc = "stream" /\ pc' = "tail" /\ wire' = wire \cup {confirmed_lsn}
    BY <1>2 DEF SendStandbyStatus, server, tasks, history
  <2>2. Keeps /\ ObjectsOk' /\ \A b : Held(b)' <=> Held(b)
    BY <2>1, SameKeeps, ObjectsFrame
  <2>3. Secured'
    BY <2>1, <2>2 DEF Data, Secured, HeldTo, Online
  <2>4. Positions'
    <3>1. confirmed_lsn \in Nat
      BY Numbers DEF Numeric
    <3> QED
      BY <2>1, <3>1 DEF Data, Positions, Before, Online
  <2>5. Buffered' /\ Tailed'
    BY <2>1, <2>2, TailedFrame DEF Data, Buffered, Online
  <2> QED
    BY <2>2, <2>3, <2>4, <2>5 DEF Data
<1>3. CASE SealBegin
  BY <1>3, TailData DEF SealBegin, server, archive, tasks, history, Online
<1>4. CASE CopyDone
  BY <1>4, TailData DEF CopyDone, server, archive, tasks, history, Online
<1>5. ASSUME PutTail
      PROVE  /\ cur_seg # NoSeg /\ cur_seg.to > cur_seg.uploaded => Tail
             /\ \/ cur_seg # NoSeg /\ cur_seg.to > cur_seg.uploaded /\ Tail
                \/ UNCHANGED chunks
  <2>1. ~(NoSeg.to > NoSeg.uploaded)
    BY DEF NoSeg
  <2> QED
    BY <1>5, <2>1 DEF PutTail, Tail
<1>6. CASE SealJoin
  BY <1>5, <1>6, TailData DEF SealJoin, JoinChunksAndFlushTail, server, tasks, Online
<1>7. CASE MaybeFlushOnCheckpoint
  BY <1>5, <1>7, TailData DEF MaybeFlushOnCheckpoint, FlushOnCheckpoint, server, tasks, Online
<1>8. CASE FlushPartialTail
  <2>1. at = to
    BY <1>8 DEF FlushPartialTail, JoinChunksAndFlushTail, Data, Buffered
  <2> QED
    BY <1>5, <1>8, <2>1, TailData DEF FlushPartialTail, JoinChunksAndFlushTail, server, tasks, Online
<1> QED
  BY <1>1, <1>2, <1>3, <1>4, <1>6, <1>7, <1>8

\* A piece: the buffer goes on where it ended, and what it leaves to tasks is handed to them.
LEMMA AppendData ==
  ASSUME WalInv, WalInv', Data, HandleXLogData
  PROVE  Data'
<1> DEFINE B   == SegStart(SegNo(at) + 1)
           l   == Min({to, B})
           cur == [SegFor(at) EXCEPT !.to = l]
<1>1. Numeric
  BY Numbers
<1>2. /\ at \in Lsn /\ to \in Lsn /\ at \in Nat /\ to \in Nat /\ at < to
      /\ cur_seg \in Segs /\ pc = "stream"
      /\ cur_seg = NoSeg \/ cur_seg.seg = SegNo(at)
  BY DEF HandleXLogData, AppendPiece, WalInv, TypeOK, Lsn
<1>3. SegNo(at) \in SegNos /\ SegNo(at) \in Nat /\ SegStart(SegNo(at)) <= at /\ at < B /\ B \in Nat
      /\ SegStart(SegNo(at)) \in Nat
  BY <1>2, SegBounds, SegNosOf, SegStartIsNat DEF SegStartNat
<1>4. l \in Lsn /\ l \in Nat /\ at < l /\ l <= to /\ l <= B
  <2>1. l = IF to <= B THEN to ELSE B
    BY <1>2, <1>3, MinOfTwo
  <2> HIDE DEF l, B
  <2> QED
    BY <1>2, <1>3, <2>1, WalAssumption DEF Lsn
<1> HIDE DEF l
<1>5. /\ SegFor(at) \in Segs
      /\ SegFor(at).seg = SegNo(at)
      /\ SegStart(SegNo(at)) <= SegFor(at).from
      /\ SegFor(at).from = confirmed_lsn
      /\ SegFor(at).from <= SegFor(at).uploaded
      /\ SegFor(at).uploaded <= at
  <2>1. CASE cur_seg = NoSeg
    <3>1. at = confirmed_lsn
      BY <1>2, <2>1 DEF Data, Buffered, Online
    <3> QED
      BY <1>2, <1>3, <2>1, <3>1 DEF SegFor, Segs
  <2>2. CASE cur_seg # NoSeg
    <3>1. SegFor(at) = cur_seg
      BY <2>2 DEF SegFor
    <3> QED
      BY <1>2, <2>2, <3>1 DEF WalInv, StreamInv, Data, Buffered
  <2> QED
    BY <2>1, <2>2
<1>6. /\ cur \in Segs
      /\ cur.seg = SegNo(at) /\ cur.to = l /\ cur.from = confirmed_lsn
      /\ cur.uploaded = SegFor(at).uploaded
  BY <1>4, <1>5 DEF Segs
<1>7. /\ confirmed_lsn \in Nat /\ cur.uploaded \in Nat
      /\ SegStart(SegNo(at)) <= confirmed_lsn /\ confirmed_lsn <= cur.uploaded /\ cur.uploaded <= l
  BY <1>1, <1>2, <1>3, <1>4, <1>5, <1>6 DEF Segs, Lsn, Numeric
<1>8. /\ cur_seg' = [cur EXCEPT !.uploaded = Uploaded(cur)]
      /\ chunk_tasks' = chunk_tasks \cup Windows(cur)
      /\ at' = l
      /\ pc' \in {"tail", "stream"}
      /\ UNCHANGED archive
      /\ UNCHANGED <<walEnd, slot, saved, wire, confirmed_lsn, failed, strays, deletes, origin, flushed>>
  BY DEF HandleXLogData, AppendPiece, server, archive, history, l
<1> HIDE DEF cur
<1>9. Keeps /\ \A b : Held(b)' <=> Held(b)
  BY <1>8, SameKeeps
<1>10. /\ cur.uploaded <= Uploaded(cur)
       /\ cur.to < Uploaded(cur) + ChunkBytes
       /\ \A b \in Lsn : cur.uploaded <= b /\ b < Uploaded(cur) =>
            \E t \in Windows(cur) : t.at <= b /\ b < t.to
  BY <1>6, <1>7, WindowsCover
<1>11. Uploaded(cur) \in Lsn /\ Uploaded(cur) \in Nat
  BY <1>6, <1>7, UploadedBound DEF Lsn
<1>12. /\ cur_seg'.to = l /\ cur_seg'.from = confirmed_lsn
       /\ cur_seg'.uploaded = Uploaded(cur)
  BY <1>6, <1>8, <1>11 DEF Segs
<1>13. \A t \in Windows(cur) : Whole(t.at, t) /\ t.to = t.at + ChunkBytes /\ confirmed_lsn <= t.at
  <2> SUFFICES ASSUME NEW k \in Lsn, k >= cur.uploaded, k + ChunkBytes <= cur.to
               PROVE  LET t == [at |-> k, from |-> cur.from, to |-> k + ChunkBytes]
                      IN Whole(t.at, t) /\ t.to = t.at + ChunkBytes /\ confirmed_lsn <= t.at
    BY DEF Windows
  <2>1. k \in Nat /\ ChunkBytes \in Nat \ {0}
    BY WalAssumption DEF Lsn
  <2>2. SegStart(SegNo(at)) <= k /\ k < B /\ confirmed_lsn <= k /\ k + ChunkBytes <= B
    <3> HIDE DEF B
    <3> QED
      BY <1>3, <1>4, <1>6, <1>7, <2>1
  <2>3. SegNo(k) = SegNo(at)
    BY <1>3, <2>1, <2>2, SegUnique
  <2> QED
    BY <1>6, <2>1, <2>2, <2>3 DEF Whole
<1>14. ObjectsOk'
  <2>1. chunks' = chunks /\ sealed' = sealed
    BY <1>8 DEF archive
  <2> QED
    BY <1>8, <1>13, <2>1 DEF Data, ObjectsOk, Whole
<1>15. Positions' /\ Tailed'
  <2>1. flushed' <= at'
    BY <1>1, <1>2, <1>4, <1>8 DEF Data, Positions, Online, Numeric
  <2> QED
    BY <1>2, <1>8, <1>9, <2>1, TailedFrame DEF Data, Positions, Before, Online
<1>16. Secured'
  BY <1>2, <1>8, <1>9 DEF Data, Secured, HeldTo, Online
<1>17. Buffered'
  <2>1. cur_seg' # NoSeg
    BY <1>2, <1>4, <1>12 DEF NoSeg
  <2>2. \A t \in chunk_tasks : confirmed_lsn <= t.at
    BY <1>2 DEF Data, Buffered, Online
  <2>3. ASSUME ~failed, NEW b \in confirmed_lsn..(Uploaded(cur) - 1)
        PROVE  Held(b)' \/ \E t \in chunk_tasks' : t.at <= b /\ b < t.to
    <3>1. b \in Lsn /\ b \in Nat /\ confirmed_lsn <= b /\ b < Uploaded(cur)
      BY <1>7, <1>11, WalAssumption DEF Lsn
    <3>2. CASE cur.uploaded <= b
      BY <1>8, <1>10, <3>1, <3>2
    <3>3. CASE b < cur.uploaded
      <4>1. cur_seg # NoSeg /\ cur.uploaded = cur_seg.uploaded
        <5>1. CASE cur_seg = NoSeg
          <6>1. cur.uploaded = at /\ at = confirmed_lsn
            BY <1>2, <1>6, <5>1 DEF SegFor, Data, Buffered, Online
          <6> QED
            BY <3>1, <3>3, <6>1, <1>7
        <5> QED
          BY <1>6, <5>1 DEF SegFor
      <4>2. b \in cur_seg.from..(cur_seg.uploaded - 1)
        BY <1>7, <3>1, <3>3, <4>1 DEF Data, Buffered
      <4>3. Held(b) \/ \E t \in chunk_tasks : t.at <= b /\ b < t.to
        BY <2>3, <4>1, <4>2 DEF Data, Buffered
      <4> QED
        BY <1>8, <1>9, <4>3
    <3> QED
      BY <1>7, <3>1, <3>2, <3>3
  <2>4. \A t \in chunk_tasks' : confirmed_lsn <= t.at
    BY <1>8, <1>13, <2>2
  <2> QED
    BY <1>2, <1>6, <1>7, <1>8, <1>10, <1>11, <1>12, <2>1, <2>3, <2>4 DEF Buffered
<1> QED
  BY <1>14, <1>15, <1>16, <1>17 DEF Data

\* Sealing: the join has archived the segment, so it may be confirmed, sealed or not.
LEMMA SealData ==
  ASSUME WalInv, WalInv', Data, SealSegment
  PROVE  Data'
<1> DEFINE s == cur_seg.seg
           e == SegStart(s + 1)
<1>1. Numeric
  BY Numbers
<1>2. /\ pc = "sealed" /\ pc' = "stream"
      /\ confirmed_lsn' = e /\ wire' = wire \cup {e}
      /\ cur_seg' = NoSeg
      /\ UNCHANGED <<walEnd, slot, saved, chunks, at, to, chunk_tasks, failed, strays, origin, flushed>>
      /\ \/ /\ sealed' = [sealed EXCEPT ![s] = [from |-> cur_seg.from, to |-> cur_seg.to]]
            /\ deletes' = deletes \cup {s}
         \/ UNCHANGED <<sealed, deletes>>
  BY DEF SealSegment, Seal, server, history
<1>3. cur_seg # NoSeg /\ cur_seg.to = e /\ cur_seg.to = at /\ cur_seg.from = confirmed_lsn
      /\ cur_seg.from < cur_seg.to /\ s \in SegNos /\ chunk_tasks = {} /\ Online
  BY <1>2, SealedEnds DEF WalInv, TypeOK, StreamInv, Segs, Data, Buffered, Positions, Online
<1> HIDE DEF s, e
<1>4. sealed \in [SegNos -> Object] /\ [from |-> cur_seg.from, to |-> cur_seg.to] # NoObject
  BY <1>1, <1>3 DEF WalInv, TypeOK, NoObject, Numeric
<1>5. \A k \in SegNos : sealed[k] # NoObject => sealed'[k] # NoObject
  BY <1>2, <1>3, <1>4
<1>6. Keeps
  <2> SUFFICES ASSUME NEW b \in Lsn, Held(b) PROVE Held(b)'
    BY DEF Keeps
  <2>1. SegNo(b) \in SegNos
    BY SegNosOf
  <2> QED
    BY <1>2, <1>5, <2>1 DEF Held
<1>7. ObjectsOk'
  <2>1. deletes \subseteq SegNos
    BY DEF WalInv, TypeOK
  <2>2. \A k \in deletes' : sealed'[k] # NoObject
    BY <1>2, <1>3, <1>4, <1>5, <2>1 DEF Data, ObjectsOk
  <2> QED
    BY <1>2, <2>2 DEF Data, ObjectsOk, Whole
<1>8. Positions'
  BY <1>1, <1>2, <1>3 DEF Data, Positions, Before, Online, Numeric
<1>9. \A p \in Int : p <= MaxLsn /\ HeldTo(p) => \A b \in origin..(p - 1) : Held(b)'
  BY <1>6, KeptTo
<1>10. \A b \in origin..(e - 1) : Held(b)'
  <2>1. HeldTo(confirmed_lsn) /\ \A b \in cur_seg.from..(cur_seg.to - 1) : Held(b)
    BY <1>2, <1>3 DEF Data, Secured, Buffered
  <2>2. HeldTo(e)
    BY <1>1, <1>3, <2>1 DEF HeldTo, Numeric
  <2> QED
    BY <1>1, <1>3, <1>9, <2>2 DEF Numeric
<1>11. Secured'
  <2>1. HeldTo(slot)' /\ HeldTo(saved)'
    BY <1>1, <1>2, <1>9 DEF HeldTo, Data, Secured, Numeric
  <2>2. \A w \in wire : HeldTo(w)'
    <3> SUFFICES ASSUME NEW w \in wire PROVE HeldTo(w)'
      OBVIOUS
    <3>1. w \in Int /\ w <= MaxLsn
      BY <1>1 DEF Numeric
    <3> QED
      BY <1>2, <1>9, <3>1 DEF HeldTo, Data, Secured
  <2>3. HeldTo(confirmed_lsn)'
    BY <1>2, <1>10 DEF HeldTo
  <2>4. \A w \in wire' : HeldTo(w)'
    BY <1>2, <1>10, <2>2 DEF HeldTo
  <2> QED
    BY <1>2, <1>3, <2>1, <2>3, <2>4 DEF Secured
<1>12. Buffered'
  BY <1>2, <1>3 DEF Buffered
<1>13. Tailed'
  BY <1>2, <1>6, TailedFrame
<1> QED
  BY <1>7, <1>8, <1>11, <1>12, <1>13 DEF Data

LEMMA InitData == Init => Data
<1> SUFFICES ASSUME Init PROVE Data
  OBVIOUS
<1>1. /\ slot \in {Absent, Null} /\ saved = slot /\ origin = 0 /\ wire = {} /\ pc = "down"
      /\ chunk_tasks = {} /\ strays = {} /\ deletes = {} /\ cur_seg = NoSeg /\ flushed = 0 /\ failed = FALSE
      /\ chunks = [l \in Lsn |-> NoObject]
  BY DEF Init
<1>2. ObjectsOk
  BY <1>1 DEF ObjectsOk
<1>3. slot \in Int /\ slot <= 0 /\ slot \notin Lsn
  BY <1>1 DEF Absent, Null, Lsn
<1>4. Positions
  BY <1>1, <1>3 DEF Positions, Before, Online
<1>5. 0..(slot - 1) = {}
  BY <1>3
<1>6. Secured
  BY <1>1, <1>5 DEF Secured, HeldTo, Online
<1>7. Buffered
  BY <1>1 DEF Buffered, Online
<1>8. Tailed
  BY <1>1 DEF Tailed
<1> QED
  BY <1>2, <1>4, <1>6, <1>7, <1>8 DEF Data

LEMMA DataInvariant == Spec => []Data
<1>1. WalInv /\ WalInv' /\ Data /\ [Next]_vars => Data'
  <2> SUFFICES ASSUME WalInv, WalInv', Data, [Next]_vars PROVE Data'
    OBVIOUS
  <2>1. CASE UNCHANGED vars
    <3>1. /\ UNCHANGED archive
          /\ UNCHANGED <<origin, slot, saved, wire, confirmed_lsn, pc, walEnd, flushed, at, to, cur_seg,
                        chunk_tasks, strays, deletes, failed>>
      BY <2>1 DEF vars, server, receiver, tasks, history
    <3>2. Keeps /\ ObjectsOk'
      BY <3>1, SameKeeps, ObjectsFrame
    <3>3. Positions'
      BY <3>1 DEF Data, Positions, Before, Online
    <3> QED
      BY <3>1, <3>2, <3>3, SecuredFrame, BufferedFrame, TailedFrame DEF Data
  <2>2. CASE WriteWal \/ Checkpoint \/ ServerStatus
    BY <2>2, ServerData
  <2>3. CASE ChunkPut \/ ChunkPutFail \/ StrayPut \/ DeleteChunks
    BY <2>3, TaskData
  <2>4. CASE Identify \/ StartReplication
    BY <2>4, ConnectData
  <2>5. CASE ConnectionFail \/ JoinFailed \/ StreamEnd \/ Crash
    BY <2>5, EndData
  <2>6. CASE \/ Receive \/ SealBegin \/ SealJoin \/ SendStandbyStatus \/ MaybeFlushOnCheckpoint
             \/ CopyDone \/ FlushPartialTail
    BY <2>6, LoopData
  <2>7. CASE HandleXLogData
    BY <2>7, AppendData
  <2>8. CASE SealSegment
    BY <2>8, SealData
  <2> QED
    BY <2>1, <2>2, <2>3, <2>4, <2>5, <2>6, <2>7, <2>8 DEF Next, StreamStep
<1> QED
  BY InitData, WalInvariant, <1>1, PTL DEF Spec

\* All names PostgreSQL asks for are in the first log id, where they are the ones the receiver
\* has written: SEGS_PER_LOGID segments.
OneLogId == SegNo(MaxLsn) < SegsPerLogId

\* Within the first log id restore finds a segment under its name.
LEMMA NamesAgree ==
  ASSUME OneLogId, NEW s \in SegNos
  PROVE  {k \in SegNos : WalSegName(k) = XlogFileName(s)} = {s}
<1>1. SegNo(MaxLsn) \in Nat
  BY SegBounds, WalAssumption
<1>2. s \in Nat /\ s < SegsPerLogId /\ SegsPerLogId \in Nat
  BY <1>1, WalAssumption DEF SegNos, OneLogId
<1>3. s \div SegsPerLogId = 0 /\ s % SegsPerLogId = s
  BY <1>2
<1>4. XlogFileName(s) = <<0, s>>
  BY <1>3 DEF XlogFileName
<1> QED
  BY <1>4 DEF WalSegName

\* ... and restores from it what the archive holds.
LEMMA HeldIsRestored ==
  ASSUME WalInv, Data, OneLogId, NEW b \in Lsn, Held(b)
  PROVE  RestoredByte(b)
<1> DEFINE s == SegNo(b)
<1>1. Numeric
  BY Numbers
<1>2. s \in SegNos /\ s \in Nat /\ b \in Nat /\ SegStart(s) <= b /\ b < SegStart(s + 1)
      /\ SegStart(s) \in Nat /\ SegStart(s + 1) \in Nat
  BY SegNosOf, SegBounds, SegStartIsNat DEF Lsn, SegStartNat
<1>3. Restored(s) = UNION {IF sealed[k] # NoObject THEN SealedBytesOf(k)
            ELSE IF \E l \in ChunkKeys(k) : chunks[l].to > SegStart(k + 1) THEN {}
            ELSE UNION {ChunkBytesOf(l) : l \in ChunkKeys(k)} : k \in {s}}
  BY <1>2, NamesAgree DEF Restored
<1>4. CASE sealed[s] # NoObject
  <2>1. sealed[s].from = SegStart(s) /\ sealed[s].to = SegStart(s + 1)
    <3> HIDE DEF s
    <3>1. sealed[s] = [from |-> SegStart(s), to |-> SegStart(s + 1)]
      BY <1>2, <1>4 DEF WalInv, SealedWhole
    <3> QED
      BY <3>1
  <2>2. b \in SealedBytesOf(s)
    BY <1>2, <2>1 DEF SealedBytesOf
  <2> QED
    BY <1>3, <1>4, <2>2 DEF RestoredByte
<1>5. CASE sealed[s] = NoObject
  <2>1. \A l \in ChunkKeys(s) : ~(chunks[l].to > SegStart(s + 1))
    <3> SUFFICES ASSUME NEW l \in ChunkKeys(s) PROVE ~(chunks[l].to > SegStart(s + 1))
      OBVIOUS
    <3>1. l \in Lsn /\ SegNo(l) = s /\ chunks[l] # NoObject
      BY DEF ChunkKeys
    <3>2. chunks[l].to <= SegStart(s + 1) /\ chunks[l].to \in Nat
      BY <1>1, <3>1 DEF Data, ObjectsOk, Whole, Numeric
    <3> QED
      BY <1>2, <3>2
  <2>2. PICK l \in Lsn : l <= b /\ b < chunks[l].to
    BY <1>5 DEF Held
  <2>3. chunks[l] # NoObject /\ l \in Nat /\ chunks[l].to \in Nat /\ chunks[l].from \in Nat
    BY <1>1, <1>2, <2>2 DEF NoObject, Lsn, Numeric
  <2>4. chunks[l].from <= l /\ chunks[l].to <= SegStart(SegNo(l) + 1)
    BY <2>3 DEF Data, ObjectsOk, Whole
  <2>5. l \in ChunkKeys(s)
    <3>1. SegNo(b) = SegNo(l)
      BY <1>2, <2>2, <2>3, <2>4, WholeSegment
    <3> QED
      BY <2>3, <3>1 DEF ChunkKeys
  <2>6. b \in ChunkBytesOf(l)
    <3>1. Max({l, chunks[l].from}) = l
      BY <2>3, <2>4 DEF Max
    <3> QED
      BY <1>2, <2>2, <2>3, <3>1 DEF ChunkBytesOf
  <2> HIDE DEF s
  <2>7. b \in Restored(s)
    BY <1>3, <1>5, <2>1, <2>5, <2>6
  <2> QED
    BY <2>7 DEF RestoredByte, s
<1> QED
  BY <1>4, <1>5

\* PostgreSQL recycles WAL behind the slot, and all of it, from where the archive starts, is
\* restored by tiko_restore: for every segment and chunk size, any number of lost connections,
\* failed PUTs and crashes, and whatever late PUTs and deletions do.  The hypothesis is that the
\* WAL stays within one log id.
THEOREM ConfirmedIsArchived ==
  ASSUME OneLogId
  PROVE  Spec => []ConfirmedArchived
<1>1. WalInv /\ Data => ConfirmedArchived
  <2> SUFFICES ASSUME WalInv, Data, slot \in Lsn, NEW b \in origin..(slot - 1) PROVE RestoredByte(b)
    BY DEF ConfirmedArchived
  <2>1. b \in Lsn /\ Held(b)
    BY Numbers DEF Numeric, Lsn, Data, Secured, HeldTo
  <2> QED
    BY <2>1, HeldIsRestored
<1> QED
  BY WalInvariant, DataInvariant, <1>1, PTL

\* What the receiver had when it last flushed its tail is restored by tiko_restore once the
\* chunk tasks of the connection are done, none having failed, and stays so until the receiver
\* connects again, also when the server crashes or shuts down.  Same hypothesis.
THEOREM TailIsArchived ==
  ASSUME OneLogId
  PROVE  Spec => []TailArchived
<1>1. WalInv /\ Data => TailArchived
  <2> SUFFICES ASSUME WalInv, Data, chunk_tasks = {}, ~failed, NEW b \in origin..(flushed - 1)
               PROVE  RestoredByte(b)
    BY DEF TailArchived
  <2>1. b \in Lsn /\ Held(b)
    BY Numbers DEF Numeric, Lsn, Data, Tailed, Coming
  <2> QED
    BY <2>1, HeldIsRestored
<1> QED
  BY WalInvariant, DataInvariant, <1>1, PTL

-----------------------------------------------------------------------------
(* The recovery window after a flush of the tail *)

\* Where streaming may have entered a segment: at a start, or at its first byte, coming from
\* the segment before.
Entry(f) == f \in starts \/ (f = SegStart(SegNo(f)) /\ \E a \in starts : a < f)

\* The keys of chunks are whole numbers of chunks past such an entry.
Gridded(l) == \E f \in Lsn, i \in Nat : Entry(f) /\ SegNo(f) = SegNo(l) /\ l = f + ChunkBytes * i

Grids ==
  /\ \A l \in Lsn : chunks[l] # NoObject => Gridded(l) /\ chunks[l].to <= walEnd
  /\ \A t \in chunk_tasks \cup strays : Gridded(t.at) /\ t.to <= walEnd

Sealings ==
  \A s \in SegNos :
    sealed[s] # NoObject => SegStart(s + 1) <= walEnd /\ \E a \in starts : a <= SegStart(s)

\* No position is past the end of WAL.
Reached ==
  /\ slot <= walEnd /\ saved <= walEnd
  /\ \A w \in wire : w <= walEnd
  /\ confirmed_lsn <= walEnd /\ to <= walEnd /\ xlogpos <= walEnd

Entered ==
  /\ cur_seg # NoSeg =>
       /\ Entry(cur_seg.from)
       /\ \E i \in Nat : cur_seg.uploaded = cur_seg.from + ChunkBytes * i
  /\ Online /\ cur_seg = NoSeg => Entry(at)

Layout == Grids /\ Sealings /\ Reached /\ Entered

\* History only grows.
Grows == starts \subseteq starts' /\ walEnd <= walEnd' /\ walEnd \in Nat /\ walEnd' \in Nat

LEMMA EntryKept ==
  ASSUME starts \subseteq starts'
  PROVE  /\ \A f : Entry(f) => Entry(f)'
         /\ \A l : Gridded(l) => Gridded(l)'
<1>1. \A f : Entry(f) => Entry(f)'
  BY DEF Entry
<1>2. ASSUME NEW l, Gridded(l) PROVE Gridded(l)'
  BY <1>1, <1>2 DEF Gridded
<1> QED
  BY <1>1, <1>2

\* What a step may do to chunks and tasks.
LEMMA GridsFrame ==
  ASSUME WalInv, WalInv', Layout, Grows,
         \A l \in Lsn : \/ chunks'[l] = chunks[l] \/ chunks'[l] = NoObject
                        \/ Gridded(l) /\ chunks'[l].to <= walEnd,
         \A t \in chunk_tasks' \cup strays' :
           t \in chunk_tasks \cup strays \/ (Gridded(t.at) /\ t.to <= walEnd)
  PROVE  Grids'
<1>1. Numeric /\ Numeric'
  BY Numbers, NumbersNext
<1>2. \A l : Gridded(l) => Gridded(l)'
  BY EntryKept DEF Grows
<1>3. ASSUME NEW l \in Lsn, chunks'[l] # NoObject PROVE Gridded(l)' /\ chunks'[l].to <= walEnd'
  <2>1. Gridded(l) /\ chunks'[l].to <= walEnd
    BY <1>3 DEF Layout, Grids
  <2>2. chunks'[l].to \in Nat
    BY <1>1 DEF Numeric
  <2> QED
    BY <1>2, <2>1, <2>2 DEF Grows
<1>4. ASSUME NEW t \in chunk_tasks' \cup strays' PROVE Gridded(t.at)' /\ t.to <= walEnd'
  <2>1. Gridded(t.at) /\ t.to <= walEnd
    BY <1>4 DEF Layout, Grids
  <2>2. t.to \in Nat
    BY <1>1 DEF Numeric
  <2> QED
    BY <1>2, <2>1, <2>2 DEF Grows
<1> QED
  BY <1>3, <1>4 DEF Grids

LEMMA SealingsFrame ==
  ASSUME WalInv, Layout, Grows, UNCHANGED sealed
  PROVE  Sealings'
<1> SUFFICES ASSUME NEW s \in SegNos, sealed[s] # NoObject
             PROVE  SegStart(s + 1) <= walEnd' /\ \E a \in starts' : a <= SegStart(s)
  BY DEF Sealings
<1>1. s \in Nat /\ SegStart(s + 1) \in Nat
  <2>1. SegNo(MaxLsn) \in Nat
    BY SegBounds, WalAssumption
  <2>2. s \in Nat
    BY <2>1 DEF SegNos
  <2> QED
    BY <2>2, SegStartIsNat DEF SegStartNat
<1>2. SegStart(s + 1) <= walEnd /\ \E a \in starts : a <= SegStart(s)
  BY DEF Layout, Sealings
<1> QED
  BY <1>1, <1>2 DEF Grows

\* The stream stays where it is.
LEMMA EnteredFrame ==
  ASSUME WalInv, Layout, starts \subseteq starts', UNCHANGED <<cur_seg, at>>, Online' => Online
  PROVE  Entered'
  BY EntryKept DEF Layout, Entered

LEMMA ServerLayout ==
  ASSUME WalInv, WalInv', Data, Layout,
         \/ WriteWal \/ Checkpoint \/ ServerStatus
         \/ ChunkPut \/ ChunkPutFail \/ StrayPut \/ DeleteChunks
  PROVE  Layout'
<1>1. Numeric /\ Numeric'
  BY Numbers, NumbersNext
<1>2. UNCHANGED <<starts, cur_seg, at, to, confirmed_lsn, xlogpos, pc, sealed>>
  BY DEF WriteWal, Checkpoint, ServerStatus, ChunkPut, ChunkPutFail, StrayPut, DeleteChunks,
         server, archive, receiver, tasks, history
<1>3. walEnd <= walEnd' /\ walEnd \in Nat /\ walEnd' \in Nat
  <2>1. walEnd' = walEnd \/ walEnd' = walEnd + 1
    BY DEF WriteWal, Checkpoint, ServerStatus, ChunkPut, ChunkPutFail, StrayPut, DeleteChunks, server
  <2> QED
    BY <1>1, <2>1 DEF Numeric
<1>4. Grows
  BY <1>2, <1>3 DEF Grows
<1>5. Sealings' /\ Entered'
  BY <1>2, <1>4, SealingsFrame, EnteredFrame DEF Grows, Online
<1>6. Reached'
  <2>1. \A w \in wire' : w \in wire
    BY DEF WriteWal, Checkpoint, ServerStatus, ChunkPut, ChunkPutFail, StrayPut, DeleteChunks
  <2>2. slot' \in {slot} \cup wire /\ saved' \in {saved, slot}
    <3>1. CASE ServerStatus
      BY <3>1, MinOfLsns DEF ServerStatus, WalInv, TypeOK
    <3> QED
      BY <3>1 DEF WriteWal, Checkpoint, ChunkPut, ChunkPutFail, StrayPut, DeleteChunks, server
  <2>3. xlogpos \in Nat
    BY DEF WalInv, TypeOK, Lsn
  <2> QED
    BY <1>1, <1>2, <1>3, <2>1, <2>2, <2>3 DEF Layout, Reached, Numeric
<1>7. \A t \in chunk_tasks' \cup strays' : t \in chunk_tasks \cup strays
  BY DEF WriteWal, Checkpoint, ServerStatus, ChunkPut, ChunkPutFail, StrayPut, DeleteChunks, tasks
<1>8. ASSUME NEW l \in Lsn
      PROVE  \/ chunks'[l] = chunks[l] \/ chunks'[l] = NoObject
             \/ Gridded(l) /\ chunks'[l].to <= walEnd
  <2>1. ASSUME NEW t \in chunk_tasks \cup strays, PutChunk(t.at, [from |-> t.from, to |-> t.to])
        PROVE  chunks'[l] = chunks[l] \/ (Gridded(l) /\ chunks'[l].to <= walEnd)
    <3>1. chunks \in [Lsn -> Object]
      BY DEF WalInv, TypeOK
    <3>2. Gridded(t.at) /\ t.to <= walEnd
      BY DEF Layout, Grids
    <3> QED
      BY <2>1, <3>1, <3>2 DEF PutChunk
  <2>2. CASE ChunkPut \/ StrayPut
    BY <2>1, <2>2 DEF ChunkPut, StrayPut
  <2>3. CASE DeleteChunks
    BY <2>3 DEF DeleteChunks
  <2> QED
    BY <2>2, <2>3 DEF WriteWal, Checkpoint, ServerStatus, ChunkPutFail, archive
<1>9. Grids'
  BY <1>4, <1>7, <1>8, GridsFrame
<1> QED
  BY <1>5, <1>6, <1>9 DEF Layout

LEMMA ConnectLayout ==
  ASSUME WalInv, WalInv', Data, Layout,
         Identify \/ StartReplication \/ ConnectionFail \/ JoinFailed \/ StreamEnd \/ Crash
  PROVE  Layout'
<1>1. Numeric /\ Numeric' /\ xlogpos \in Nat
  <2>1. xlogpos \in Nat
    BY DEF WalInv, TypeOK, Lsn
  <2> QED
    BY <2>1, Numbers, NumbersNext
<1>2. walEnd' = walEnd /\ starts \subseteq starts' /\ sealed' = sealed /\ chunks' = chunks
      /\ chunk_tasks' \cup strays' \subseteq chunk_tasks \cup strays
  BY DEF Identify, StartReplication, ConnectionFail, JoinFailed, StreamEnd, Crash, Disconnected,
         server, archive, tasks, history
<1>3. Grows
  BY <1>1, <1>2 DEF Grows, Numeric
<1>4. Sealings' /\ Grids'
  BY <1>2, <1>3, SealingsFrame, GridsFrame
<1>5. Entered' /\ Reached'
  <2>1. CASE Identify
    <3>1. cur_seg = NoSeg /\ pc' = "identified" /\ xlogpos' = walEnd
          /\ UNCHANGED <<cur_seg, slot, saved, wire, to, confirmed_lsn>>
      BY <2>1 DEF Identify, WalInv, StreamInv, server
    <3> QED
      BY <1>1, <1>2, <3>1 DEF Entered, Online, Layout, Reached, Numeric
  <2>2. CASE StartReplication
    <3> DEFINE start == IF slot \in Lsn THEN slot ELSE xlogpos
    <3>1. /\ UNCHANGED <<wire, cur_seg>>
          /\ pc = "identified" /\ cur_seg = NoSeg /\ xlogpos' = 0
          /\ at' = start /\ to' = start /\ confirmed_lsn' = start /\ starts' = starts \cup {start}
      BY <2>2 DEF StartReplication, WalInv, StreamInv
    <3>2. start <= walEnd /\ start \in Nat
      BY <1>1 DEF Layout, Reached, Lsn
    <3>3. slot' <= walEnd /\ saved' <= walEnd
      BY <1>1, <2>2 DEF StartReplication, Layout, Reached, Numeric
    <3> HIDE DEF start
    <3>4. Entered'
      BY <3>1 DEF Entered, Entry
    <3> QED
      BY <1>1, <1>2, <3>1, <3>2, <3>3, <3>4 DEF Layout, Reached, Numeric
  <2>3. CASE ConnectionFail \/ JoinFailed \/ StreamEnd \/ Crash
    <3>1. /\ pc' = "down" /\ cur_seg' = NoSeg /\ wire' = {} /\ to' = 0 /\ confirmed_lsn' = 0
          /\ xlogpos' = 0 /\ slot' \in {slot, saved} /\ saved' \in {slot, saved}
      BY <2>3 DEF ConnectionFail, JoinFailed, StreamEnd, Crash, Disconnected, server
    <3> QED
      BY <1>1, <1>2, <3>1 DEF Entered, Online, Layout, Reached, Numeric
  <2> QED
    BY <2>1, <2>2, <2>3
<1> QED
  BY <1>4, <1>5 DEF Layout

\* The tail is on the grid of its buffer.
LEMMA TailGridded ==
  ASSUME WalInv, Data, Layout, cur_seg # NoSeg, cur_seg.to > cur_seg.uploaded
  PROVE  Gridded(cur_seg.uploaded) /\ cur_seg.to <= walEnd
<1> DEFINE u == cur_seg.uploaded
           f == cur_seg.from
           s == cur_seg.seg
<1>1. Numeric
  BY Numbers
<1>2. /\ u \in Nat /\ f \in Nat /\ f \in Lsn /\ cur_seg.to \in Nat /\ f <= u
      /\ SegStart(s) <= f /\ cur_seg.to <= SegStart(s + 1) /\ cur_seg.to = at /\ at <= to
      /\ to <= walEnd /\ to \in Nat /\ walEnd \in Nat
  BY <1>1 DEF Numeric, Lsn, Data, Buffered, WalInv, TypeOK, StreamInv, Layout, Reached
<1>3. s \in Nat /\ SegStart(s) \in Nat /\ SegStart(s + 1) \in Nat
  <2>1. SegNo(MaxLsn) \in Nat
    BY SegBounds, WalAssumption
  <2>2. s \in Nat
    BY <2>1 DEF WalInv, TypeOK, Segs, SegNos
  <2> QED
    BY <2>2, SegStartIsNat DEF SegStartNat
<1>4. SegNo(u) = s /\ SegNo(f) = s
  <2>1. SegStart(s) <= u /\ u < SegStart(s + 1) /\ f < SegStart(s + 1)
    BY <1>2, <1>3
  <2> HIDE DEF u, f, s
  <2> QED
    BY <1>2, <1>3, <2>1, SegUnique
<1>5. Entry(f) /\ \E i \in Nat : u = f + ChunkBytes * i
  BY DEF Layout, Entered
<1>6. Gridded(u)
  <2> HIDE DEF u, f, s
  <2> QED
    BY <1>2, <1>4, <1>5 DEF Gridded
<1> QED
  BY <1>2, <1>6

LEMMA LoopLayout ==
  ASSUME WalInv, WalInv', Data, Layout,
         \/ Receive \/ SealBegin \/ SealJoin \/ SendStandbyStatus \/ MaybeFlushOnCheckpoint
         \/ CopyDone \/ FlushPartialTail
  PROVE  Layout'
<1>1. Numeric /\ Numeric'
  BY Numbers, NumbersNext
<1>2. /\ UNCHANGED <<starts, walEnd, slot, saved, sealed, cur_seg, at, confirmed_lsn, xlogpos,
                    chunk_tasks, strays>>
      /\ Online
  BY DEF Receive, SealBegin, SealJoin, SendStandbyStatus, MaybeFlushOnCheckpoint, CopyDone,
         FlushOnCheckpoint, FlushPartialTail, JoinChunksAndFlushTail, server, archive, tasks,
         history, Online
<1>3. Grows
  BY <1>1, <1>2 DEF Grows, Numeric
<1>4. Sealings' /\ Entered'
  BY <1>2, <1>3, SealingsFrame, EnteredFrame
<1>5. Reached'
  <2>1. to' \in {to} \cup (to + 1)..walEnd
    BY DEF Receive, SealBegin, SealJoin, SendStandbyStatus, MaybeFlushOnCheckpoint, CopyDone,
           FlushOnCheckpoint, FlushPartialTail, JoinChunksAndFlushTail
  <2>2. \A w \in wire' : w \in wire \cup {confirmed_lsn}
    BY DEF Receive, SealBegin, SealJoin, SendStandbyStatus, MaybeFlushOnCheckpoint, CopyDone,
           FlushOnCheckpoint, FlushPartialTail, JoinChunksAndFlushTail
  <2> QED
    BY <1>1, <1>2, <2>1, <2>2 DEF Layout, Reached, Numeric
<1>6. ASSUME NEW l \in Lsn
      PROVE  \/ chunks'[l] = chunks[l] \/ chunks'[l] = NoObject
             \/ Gridded(l) /\ chunks'[l].to <= walEnd
  <2>1. CASE UNCHANGED chunks
    BY <2>1
  <2>2. CASE cur_seg # NoSeg /\ cur_seg.to > cur_seg.uploaded /\ Tail
    <3>1. Gridded(cur_seg.uploaded) /\ cur_seg.to <= walEnd
      BY <2>2, TailGridded
    <3>2. chunks \in [Lsn -> Object]
      BY DEF WalInv, TypeOK
    <3> QED
      BY <2>2, <3>1, <3>2 DEF Tail, PutChunk
  <2>3. ~(NoSeg.to > NoSeg.uploaded)
    BY DEF NoSeg
  <2> QED
    BY <2>1, <2>2, <2>3
    DEF Receive, SealBegin, SealJoin, SendStandbyStatus, MaybeFlushOnCheckpoint, CopyDone,
        FlushOnCheckpoint, FlushPartialTail, JoinChunksAndFlushTail, PutTail, Tail, archive
<1>7. Grids'
  BY <1>2, <1>3, <1>6, GridsFrame
<1> QED
  BY <1>4, <1>5, <1>7 DEF Layout

LEMMA AppendLayout ==
  ASSUME WalInv, WalInv', Data, Layout, HandleXLogData
  PROVE  Layout'
<1> DEFINE B   == SegStart(SegNo(at) + 1)
           l   == Min({to, B})
           cur == [SegFor(at) EXCEPT !.to = l]
           f   == cur.from
<1>1. Numeric /\ Numeric'
  BY Numbers, NumbersNext
<1>2. /\ at \in Lsn /\ to \in Lsn /\ at \in Nat /\ to \in Nat /\ at < to /\ to <= walEnd /\ walEnd \in Nat
      /\ cur_seg \in Segs /\ pc = "stream" /\ Online
      /\ cur_seg = NoSeg \/ cur_seg.seg = SegNo(at)
  BY <1>1 DEF HandleXLogData, AppendPiece, WalInv, TypeOK, Lsn, Layout, Reached, Numeric, Online
<1>3. SegNo(at) \in SegNos /\ SegNo(at) \in Nat /\ SegStart(SegNo(at)) <= at /\ at < B /\ B \in Nat
      /\ SegStart(SegNo(at)) \in Nat
  BY <1>2, SegBounds, SegNosOf, SegStartIsNat DEF SegStartNat
<1>4. l \in Lsn /\ l \in Nat /\ at < l /\ l <= to /\ l <= B
  <2>1. l = IF to <= B THEN to ELSE B
    BY <1>2, <1>3, MinOfTwo
  <2> HIDE DEF l, B
  <2> QED
    BY <1>2, <1>3, <2>1, WalAssumption DEF Lsn
<1> HIDE DEF l
<1>5. /\ SegFor(at) \in Segs
      /\ SegStart(SegNo(at)) <= SegFor(at).from
      /\ SegFor(at).from <= SegFor(at).uploaded
      /\ SegFor(at).uploaded <= at
      /\ Entry(SegFor(at).from)
      /\ \E i \in Nat : SegFor(at).uploaded = SegFor(at).from + ChunkBytes * i
  <2>1. CASE cur_seg = NoSeg
    <3>1. SegFor(at) = [seg |-> SegNo(at), from |-> at, to |-> at, uploaded |-> at]
      BY <2>1 DEF SegFor
    <3>2. Entry(at)
      BY <1>2, <2>1 DEF Layout, Entered
    <3>3. at = at + ChunkBytes * 0 /\ 0 \in Nat
      BY <1>2, WalAssumption
    <3>4. /\ SegFor(at) \in Segs /\ SegFor(at).from = at /\ SegFor(at).uploaded = at
      BY <1>2, <1>3, <3>1 DEF Segs
    <3> QED
      BY <1>2, <1>3, <3>2, <3>3, <3>4
  <2>2. CASE cur_seg # NoSeg
    <3>1. SegFor(at) = cur_seg
      BY <2>2 DEF SegFor
    <3> QED
      BY <1>2, <2>2, <3>1 DEF WalInv, StreamInv, Data, Buffered, Layout, Entered
  <2> QED
    BY <2>1, <2>2
<1>6. /\ cur \in Segs /\ cur.to = l /\ f = SegFor(at).from /\ cur.uploaded = SegFor(at).uploaded
  BY <1>4, <1>5 DEF Segs
<1>7. PICK i \in Nat : cur.uploaded = f + ChunkBytes * i
  BY <1>5, <1>6
<1>8. /\ f \in Lsn /\ f \in Nat /\ cur.uploaded \in Nat /\ ChunkBytes \in Nat \ {0}
      /\ SegStart(SegNo(at)) <= f /\ f <= cur.uploaded /\ cur.uploaded <= l /\ f <= at /\ Entry(f)
  BY <1>2, <1>3, <1>4, <1>5, <1>6, WalAssumption DEF Segs, Lsn
<1>9. /\ cur_seg' = [cur EXCEPT !.uploaded = Uploaded(cur)]
      /\ chunk_tasks' = chunk_tasks \cup Windows(cur)
      /\ at' = l
      /\ UNCHANGED <<sealed, chunks, starts, walEnd, slot, saved, wire, confirmed_lsn, xlogpos, to, strays>>
  BY DEF HandleXLogData, AppendPiece, server, archive, history, l
<1> HIDE DEF cur, f
<1>10. Uploaded(cur) \in Lsn
  BY <1>6, <1>8, UploadedBound
<1>11. cur_seg'.to = l /\ cur_seg'.from = f /\ cur_seg'.uploaded = Uploaded(cur)
  BY <1>6, <1>9, <1>10 DEF Segs, f
<1>12. Grows
  BY <1>1, <1>9 DEF Grows, Numeric
<1>13. SegNo(f) = SegNo(at)
  <2>1. f < B
    BY <1>2, <1>3, <1>8
  <2> QED
    BY <1>3, <1>8, <2>1, SegUnique
<1>14. ASSUME NEW t \in Windows(cur) PROVE Gridded(t.at) /\ t.to <= walEnd
  <2>1. PICK k \in Lsn : /\ k >= cur.uploaded
                         /\ (k - cur.uploaded) % ChunkBytes = 0
                         /\ k + ChunkBytes <= cur.to
                         /\ t = [at |-> k, from |-> cur.from, to |-> k + ChunkBytes]
    BY <1>14 DEF Windows
  <2>2. k \in Nat /\ k - cur.uploaded \in Nat /\ t.at = k /\ t.to = k + ChunkBytes
    BY <1>8, <2>1 DEF Lsn
  <2> DEFINE j == (k - cur.uploaded) \div ChunkBytes
  <2>3. j \in Nat /\ k - cur.uploaded = ChunkBytes * j
    BY <1>8, <2>1, <2>2, DivExact
  <2> HIDE DEF j
  <2>4. k = cur.uploaded + ChunkBytes * j
    <3>1. ChunkBytes * j \in Nat
      BY <1>8, <2>3
    <3> QED
      BY <1>8, <2>2, <2>3, <3>1
  <2>5. k = f + ChunkBytes * (i + j)
    BY <1>7, <1>8, <2>3, <2>4, MultipleSum
  <2>6. SegNo(k) = SegNo(at)
    <3>1. SegStart(SegNo(at)) <= k /\ k < B
      <4> HIDE DEF B
      <4> QED
        BY <1>3, <1>4, <1>6, <1>8, <2>1, <2>2
    <3> QED
      BY <1>3, <2>2, <3>1, SegUnique
  <2>7. i + j \in Nat
    BY <2>3
  <2>8. Gridded(k)
    BY <1>8, <1>13, <2>5, <2>6, <2>7 DEF Gridded
  <2>9. k + ChunkBytes <= walEnd
    BY <1>2, <1>4, <1>6, <1>8, <2>1, <2>2
  <2> QED
    BY <2>2, <2>8, <2>9
<1>15. Grids'
  BY <1>9, <1>12, <1>14, GridsFrame
<1>16. Sealings'
  BY <1>9, <1>12, SealingsFrame
<1>17. Reached'
  BY <1>9 DEF Layout, Reached
<1>18. Entered'
  <2>1. cur_seg' # NoSeg
    BY <1>2, <1>4, <1>11 DEF NoSeg
  <2>2. \A x : Entry(x) => Entry(x)'
    BY <1>12, EntryKept DEF Grows
  <2> DEFINE Q == (cur.to - cur.uploaded) \div ChunkBytes
  <2>3. Q \in Nat
    <3>1. cur.to - cur.uploaded \in Nat
      BY <1>4, <1>6, <1>8
    <3> QED
      BY <1>8, <3>1, DivBounds
  <2>4. Uploaded(cur) = cur.uploaded + ChunkBytes * Q
    BY DEF Uploaded
  <2> HIDE DEF Q
  <2>5. Uploaded(cur) = f + ChunkBytes * (i + Q) /\ i + Q \in Nat
    BY <1>7, <1>8, <2>3, <2>4, MultipleSum
  <2>6. Entry(cur_seg.from)'
    BY <1>8, <1>9, <1>11 DEF Entry
  <2> QED
    BY <1>11, <2>1, <2>5, <2>6 DEF Entered
<1> QED
  BY <1>15, <1>16, <1>17, <1>18 DEF Layout

\* A segment that is sealed was entered at its first byte, and the next one will be.
LEMMA SealLayout ==
  ASSUME WalInv, WalInv', Data, Layout, SealSegment
  PROVE  Layout'
<1> DEFINE s == cur_seg.seg
           e == SegStart(s + 1)
<1>1. Numeric /\ Numeric'
  BY Numbers, NumbersNext
<1>2. /\ pc = "sealed" /\ pc' = "stream"
      /\ confirmed_lsn' = e /\ wire' = wire \cup {e}
      /\ cur_seg' = NoSeg
      /\ UNCHANGED <<walEnd, slot, saved, chunks, at, to, xlogpos, chunk_tasks, strays, starts>>
      /\ \/ /\ ~PartialSeg(cur_seg)
            /\ sealed' = [sealed EXCEPT ![s] = [from |-> cur_seg.from, to |-> cur_seg.to]]
         \/ UNCHANGED sealed
  BY DEF SealSegment, Seal, server, history
<1>3. cur_seg # NoSeg /\ cur_seg.to = e /\ cur_seg.to = at /\ SegStart(s) <= cur_seg.from
      /\ cur_seg.from < cur_seg.to /\ s \in SegNos /\ at <= to /\ to <= walEnd
  BY <1>2, SealedEnds DEF WalInv, TypeOK, StreamInv, Segs, Layout, Reached
<1>4. s \in Nat /\ SegStart(s) \in Nat /\ e \in Nat /\ SegStart(s + 2) \in Nat /\ e < SegStart(s + 2)
  <2>1. SegNo(MaxLsn) \in Nat
    BY SegBounds, WalAssumption
  <2>2. s \in Nat
    BY <1>3, <2>1 DEF SegNos
  <2>3. SegStart(s + 1) < SegStart(s + 2)
    BY <2>2, WalAssumption DEF SegStart
  <2> QED
    BY <2>2, <2>3, SegStartIsNat DEF SegStartNat
<1> HIDE DEF s, e
<1>5. cur_seg.from \in Nat /\ at \in Nat /\ to \in Nat /\ walEnd \in Nat /\ at = e /\ e <= walEnd
  BY <1>1, <1>3, <1>4 DEF Numeric
<1>6. PICK a \in starts : a <= cur_seg.from
  <2>1. Entry(cur_seg.from)
    BY <1>3 DEF Layout, Entered
  <2>2. starts \subseteq Nat
    BY DEF WalInv, TypeOK, Lsn
  <2> QED
    BY <1>5, <2>1, <2>2 DEF Entry
<1>7. a \in Nat
  BY DEF WalInv, TypeOK, Lsn
<1>8. Grows
  BY <1>1, <1>2 DEF Grows, Numeric
<1>9. Grids'
  BY <1>2, <1>8, GridsFrame
<1>10. Reached'
  BY <1>1, <1>2, <1>4, <1>5 DEF Layout, Reached, Numeric
<1>11. Sealings'
  <2>1. CASE UNCHANGED sealed
    BY <1>8, <2>1, SealingsFrame
  <2>2. CASE ~PartialSeg(cur_seg) /\ sealed' = [sealed EXCEPT ![s] = [from |-> cur_seg.from, to |-> cur_seg.to]]
    <3>1. a <= SegStart(s)
      BY <1>3, <1>4, <1>5, <1>6, <1>7, <2>2 DEF PartialSeg, s
    <3>2. sealed \in [SegNos -> Object]
      BY DEF WalInv, TypeOK
    <3>3. \A k \in SegNos : k # s => sealed'[k] = sealed[k]
      BY <2>2, <3>2
    <3>4. SegStart(s + 1) <= walEnd
      BY <1>5 DEF e
    <3> QED
      BY <1>2, <3>1, <3>3, <3>4 DEF Layout, Sealings
  <2> QED
    BY <1>2, <2>1, <2>2
<1>12. Entered'
  <2>1. SegNo(at) = s + 1
    <3>1. s + 1 \in Nat /\ SegStart(s + 1) <= at /\ at < SegStart((s + 1) + 1)
      <4>1. (s + 1) + 1 = s + 2
        BY <1>4
      <4> QED
        BY <1>4, <1>5, <4>1 DEF e
    <3> QED
      BY <1>5, <3>1, SegUnique
  <2>2. at = SegStart(SegNo(at)) /\ a < at
    BY <1>3, <1>4, <1>5, <1>6, <1>7, <2>1 DEF e
  <2>3. Entry(at)'
    BY <1>2, <2>2 DEF Entry
  <2> QED
    BY <1>2, <2>3 DEF Entered
<1> QED
  BY <1>9, <1>10, <1>11, <1>12 DEF Layout

LEMMA InitLayout == Init => Layout
<1> SUFFICES ASSUME Init PROVE Layout
  OBVIOUS
<1>1. walEnd \in Nat
  BY WalAssumption DEF Init
<1> QED
  BY <1>1 DEF Init, Layout, Grids, Sealings, Reached, Entered, Online, Absent, Null

LEMMA LayoutInvariant == Spec => []Layout
<1>1. WalInv /\ WalInv' /\ Data /\ Layout /\ [Next]_vars => Layout'
  <2> SUFFICES ASSUME WalInv, WalInv', Data, Layout, [Next]_vars PROVE Layout'
    OBVIOUS
  <2>1. CASE UNCHANGED vars
    <3>1. UNCHANGED <<sealed, chunks, starts, walEnd, slot, saved, wire, confirmed_lsn, xlogpos, to,
                     at, cur_seg, pc, chunk_tasks, strays>>
      BY <2>1 DEF vars, server, archive, receiver, tasks, history
    <3>2. Grows
      BY <3>1, Numbers DEF Grows, Numeric
    <3>3. Grids' /\ Sealings' /\ Entered'
      BY <3>1, <3>2, GridsFrame, SealingsFrame, EnteredFrame DEF Online
    <3>4. Reached'
      BY <3>1 DEF Layout, Reached
    <3> QED
      BY <3>3, <3>4 DEF Layout
  <2>2. CASE \/ WriteWal \/ Checkpoint \/ ServerStatus
             \/ ChunkPut \/ ChunkPutFail \/ StrayPut \/ DeleteChunks
    BY <2>2, ServerLayout
  <2>3. CASE Identify \/ StartReplication \/ ConnectionFail \/ JoinFailed \/ StreamEnd \/ Crash
    BY <2>3, ConnectLayout
  <2>4. CASE \/ Receive \/ SealBegin \/ SealJoin \/ SendStandbyStatus \/ MaybeFlushOnCheckpoint
             \/ CopyDone \/ FlushPartialTail
    BY <2>4, LoopLayout
  <2>5. CASE HandleXLogData
    BY <2>5, AppendLayout
  <2>6. CASE SealSegment
    BY <2>6, SealLayout
  <2> QED
    BY <2>1, <2>2, <2>3, <2>4, <2>5, <2>6 DEF Next, StreamStep
<1> QED
  BY InitLayout, WalInvariant, DataInvariant, <1>1, PTL DEF Spec

-----------------------------------------------------------------------------
(* What the window makes of the archive *)

\* Segment numbers and their starts are in the same order.
LEMMA SegNoOrder ==
  ASSUME NEW l \in Nat, NEW s \in Nat
  PROVE  /\ SegStart(s) <= l => s <= SegNo(l)
         /\ l < SegStart(s + 1) => SegNo(l) <= s
         /\ s <= SegNo(l) => SegStart(s) <= l
         /\ s < SegNo(l) => SegStart(s + 1) <= l
<1>1. SegNo(l) \in Nat /\ SegStart(SegNo(l)) <= l /\ l < SegStart(SegNo(l) + 1)
  BY SegBounds
<1>2. ASSUME NEW a \in Nat, NEW b \in Nat, a < b PROVE (a + 1) * SegSize <= b * SegSize
  BY <1>2, WalAssumption
<1>3. /\ SegStart(s) \in Nat /\ SegStart(s + 1) \in Nat /\ SegStart(SegNo(l)) \in Nat
      /\ SegStart(SegNo(l) + 1) \in Nat
  BY <1>1, SegStartIsNat DEF SegStartNat
<1>4. SegNo(l) < s => SegStart(SegNo(l) + 1) <= SegStart(s)
  BY <1>1, <1>2 DEF SegStart
<1>5. s < SegNo(l) => SegStart(s + 1) <= SegStart(SegNo(l))
  BY <1>1, <1>2 DEF SegStart
<1>6. SegStart(s) <= SegStart(s + 1)
  BY WalAssumption DEF SegStart
<1> QED
  BY <1>1, <1>3, <1>4, <1>5, <1>6

OneLayout == \A a, b \in starts : a < b => b = SegStart(SegNo(b))

\* A segment is entered in one place only.
LEMMA EntryUnique ==
  ASSUME WalInv, OneLayout, NEW f \in Lsn, NEW g \in Lsn, Entry(f), Entry(g), SegNo(f) = SegNo(g)
  PROVE  f = g
<1>1. f \in Nat /\ g \in Nat /\ starts \subseteq Nat
  BY DEF Lsn, WalInv, TypeOK
<1> DEFINE S == SegStart(SegNo(f))
<1>2. S \in Nat /\ S <= f /\ S <= g
  BY <1>1, SegBounds, SegStartIsNat DEF SegStartNat
<1>3. ASSUME NEW x \in Nat, NEW y \in Nat, Entry(x), Entry(y), SegStart(SegNo(x)) = S, SegStart(SegNo(y)) = S,
             S <= x, S <= y, x < y
      PROVE  FALSE
  <2>1. y # S
    BY <1>2, <1>3
  <2>2. y \in starts
    BY <1>3, <2>1 DEF Entry
  <2>3. \E a \in starts : a <= x
    BY <1>1, <1>3 DEF Entry
  <2>4. \E a \in starts : a < y
    BY <1>1, <1>3, <2>3
  <2> QED
    BY <1>3, <2>1, <2>2, <2>4 DEF OneLayout
<1>4. SegStart(SegNo(g)) = S
  OBVIOUS
<1> HIDE DEF S
<1>5. ~(f < g) /\ ~(g < f)
  BY <1>1, <1>2, <1>3, <1>4 DEF S
<1> QED
  BY <1>1, <1>5

\* Chunks of one segment do not overlap, so that the highest ends where the WAL in the segment
\* ends: if byte b is held and the highest goes no further, the segment's coverage ends behind b.
LEMMA HighestChunk ==
  ASSUME WalInv, Data, Layout, OneLayout, NEW b \in Lsn, Held(b), sealed[SegNo(b)] = NoObject,
         SegHi(SegNo(b)) <= b + 1
  PROVE  ChunkKeys(SegNo(b)) # {} /\ SegHi(SegNo(b)) = b + 1
<1> DEFINE s == SegNo(b)
           m == Max(ChunkKeys(s))
<1>1. Numeric
  BY Numbers
<1>2. PICK l \in Lsn : l <= b /\ b < chunks[l].to
  BY DEF Held
<1>3. b \in Nat /\ l \in Nat /\ chunks[l].to \in Nat /\ chunks[l] # NoObject /\ ChunkBytes \in Nat \ {0}
  BY <1>1, <1>2 DEF Numeric, Lsn, NoObject
<1>4. chunks[l].to <= SegStart(SegNo(l) + 1) /\ chunks[l].to <= l + ChunkBytes /\ Gridded(l)
  BY <1>3 DEF Data, ObjectsOk, Whole, Layout, Grids
<1>5. l \in ChunkKeys(s)
  <2>1. SegNo(b) = SegNo(l)
    BY <1>2, <1>3, <1>4, WholeSegment
  <2> QED
    BY <1>3, <2>1 DEF ChunkKeys
<1>6. SegHi(s) = chunks[m].to
  BY DEF SegHi
<1>7. m \in ChunkKeys(s) /\ l <= m
  <2>1. MaxLsn \in Nat /\ ChunkKeys(s) \subseteq 0..MaxLsn
    BY WalAssumption DEF ChunkKeys, Lsn
  <2> HIDE DEF s
  <2> QED
    BY <1>5, <2>1, MaxOfNats
<1> HIDE DEF m
<1>8. m \in Lsn /\ m \in Nat /\ SegNo(m) = s /\ SegNo(l) = s /\ chunks[m] # NoObject /\ chunks[m].to \in Nat
  BY <1>1, <1>5, <1>7 DEF ChunkKeys, Lsn, Numeric
<1>9. m < chunks[m].to /\ chunks[m].to <= b + 1 /\ Gridded(m)
  BY <1>6, <1>7, <1>8 DEF Data, ObjectsOk, Whole, Layout, Grids
<1>10. PICK f \in Lsn, i \in Nat : Entry(f) /\ SegNo(f) = SegNo(l) /\ l = f + ChunkBytes * i
  BY <1>4 DEF Gridded
<1>11. PICK g \in Lsn, j \in Nat : Entry(g) /\ SegNo(g) = SegNo(m) /\ m = g + ChunkBytes * j
  BY <1>9 DEF Gridded
<1>12. f = g
  BY <1>8, <1>10, <1>11, EntryUnique
<1>13. f \in Nat
  BY DEF Lsn
<1>14. ~ l < m
  <2> SUFFICES ASSUME l < m PROVE FALSE
    OBVIOUS
  <2>1. ChunkBytes * i \in Nat /\ ChunkBytes * j \in Nat
    BY <1>3, MulMono
  <2>2. ~ j <= i
    <3>1. j <= i => ChunkBytes * j <= ChunkBytes * i
      BY <1>3, MulMono
    <3> QED
      BY <1>10, <1>11, <1>12, <1>13, <2>1, <3>1
  <2>3. ChunkBytes * i + ChunkBytes <= ChunkBytes * j
    BY <1>3, <2>2, MulMono
  <2>4. l + ChunkBytes <= m
    BY <1>3, <1>10, <1>11, <1>12, <1>13, <2>1, <2>3
  <2> QED
    BY <1>2, <1>3, <1>4, <1>8, <1>9, <2>4
<1>15. m = l
  BY <1>3, <1>7, <1>8, <1>14
<1>16. chunks[m].to = b + 1
  BY <1>2, <1>3, <1>9, <1>15
<1> QED
  BY <1>5, <1>6, <1>16

\* When nothing beyond the last flush is archived, the archived segments end with that of its
\* last byte, and from the one where the archive starts each follows the one before.
LEMMA WindowSegments ==
  ASSUME WalInv, Data, Layout, OneLayout, chunk_tasks = {}, ~failed, flushed > origin,
         \A s \in Archived : SegHi(s) <= flushed
  PROVE  /\ Archived \in SUBSET SegNos
         /\ SegNo(flushed - 1) \in Archived /\ SegNo(origin) \in Archived
         /\ \A k \in Archived : k <= SegNo(flushed - 1)
         /\ SegNo(origin) <= SegNo(flushed - 1)
         /\ SegHi(SegNo(flushed - 1)) = flushed
         /\ \A k \in (SegNo(origin) + 1)..SegNo(flushed - 1) : Follows(k)
<1> DEFINE e == flushed - 1
           o == SegNo(origin)
           top == SegNo(e)
<1>1. Numeric
  BY Numbers
<1>2. flushed \in Nat /\ origin \in Nat /\ e \in Nat /\ e \in Lsn /\ origin \in Lsn /\ origin <= e /\ flushed = e + 1
  BY <1>1 DEF Numeric, Lsn
<1>3. \A b \in Lsn : origin <= b /\ b <= e => Held(b)
  BY <1>1, <1>2 DEF Data, Tailed, Coming, Numeric, Lsn
<1>4. ASSUME NEW b \in Lsn, Held(b) PROVE SegNo(b) \in Archived
  <2>1. SegNo(b) \in SegNos
    BY SegNosOf
  <2>2. ASSUME NEW l \in Lsn, l <= b, b < chunks[l].to PROVE l \in ChunkKeys(SegNo(b))
    <3>1. chunks[l].to \in Nat /\ l \in Nat /\ b \in Nat /\ chunks[l] # NoObject
      BY <1>1, <2>2 DEF Numeric, Lsn, NoObject
    <3>2. chunks[l].to <= SegStart(SegNo(l) + 1)
      BY <3>1 DEF Data, ObjectsOk, Whole
    <3>3. SegNo(b) = SegNo(l)
      BY <2>2, <3>1, <3>2, WholeSegment
    <3> QED
      BY <3>1, <3>3 DEF ChunkKeys
  <2> QED
    BY <1>4, <2>1, <2>2 DEF Held, Archived
<1>5. top \in Archived /\ o \in Archived /\ top \in Nat /\ o \in Nat
  BY <1>2, <1>3, <1>4, SegBounds
<1>6. SegNos \subseteq Nat
  <2>1. SegNo(MaxLsn) \in Nat
    BY SegBounds, WalAssumption
  <2> QED
    BY <2>1 DEF SegNos
<1>7. Archived \in SUBSET SegNos
  BY DEF Archived
<1>8. o <= top
  <2>1. SegStart(o) <= origin /\ SegStart(o) \in Nat
    BY <1>2, <1>5, SegBounds, SegStartIsNat DEF SegStartNat
  <2>2. SegStart(o) <= e
    BY <1>2, <2>1
  <2> QED
    BY <1>2, <1>5, <2>2, SegNoOrder
<1>9. ASSUME NEW k \in Archived PROVE k <= top
  <2>1. k \in SegNos /\ k \in Nat /\ SegStart(k) \in Nat /\ SegStart(k + 1) \in Nat /\ SegStart(k) < SegStart(k + 1)
    <3>1. k \in SegNos /\ k \in Nat
      BY <1>6, <1>7
    <3>2. SegStart(k) < SegStart(k + 1)
      BY <3>1, WalAssumption DEF SegStart
    <3> QED
      BY <3>1, <3>2, SegStartIsNat DEF SegStartNat
  <2>2. SegStart(k) <= e
    <3>1. CASE sealed[k] # NoObject
      <4>1. SegStart(k + 1) <= flushed
        BY <3>1 DEF SegHi
      <4> QED
        BY <1>2, <2>1, <4>1
    <3>2. CASE sealed[k] = NoObject
      <4> DEFINE l == Max(ChunkKeys(k))
      <4>1. l \in ChunkKeys(k)
        <5>1. MaxLsn \in Nat /\ ChunkKeys(k) \subseteq 0..MaxLsn /\ ChunkKeys(k) # {}
          BY <3>2, WalAssumption DEF ChunkKeys, Lsn, Archived
        <5> QED
          BY <5>1, MaxOfNats
      <4>0. chunks[l].to <= flushed
        BY <3>2 DEF SegHi
      <4> HIDE DEF l
      <4>2. l \in Lsn /\ l \in Nat /\ SegNo(l) = k /\ chunks[l] # NoObject /\ chunks[l].to \in Nat
        BY <1>1, <4>1 DEF ChunkKeys, Lsn, Numeric
      <4>3. l < chunks[l].to /\ chunks[l].to <= flushed
        BY <4>0, <4>2 DEF Data, ObjectsOk, Whole
      <4>4. SegStart(k) <= l
        BY <4>2, SegBounds
      <4> QED
        BY <1>2, <2>1, <4>2, <4>3, <4>4
    <3> QED
      BY <3>1, <3>2
  <2> QED
    BY <1>2, <2>1, <2>2, SegNoOrder
<1>10. SegHi(top) = flushed
  <2>1. SegHi(top) <= flushed
    BY <1>5
  <2>2. CASE sealed[top] # NoObject
    <3>1. e < SegStart(top + 1) /\ SegStart(top + 1) \in Nat
      BY <1>2, <1>5, SegBounds, SegStartIsNat DEF SegStartNat
    <3>2. SegHi(top) = SegStart(top + 1)
      BY <2>2 DEF SegHi
    <3> QED
      BY <1>2, <2>1, <3>1, <3>2
  <2>3. CASE sealed[top] = NoObject
    BY <1>2, <1>3, <2>1, <2>3, HighestChunk
  <2> QED
    BY <2>2, <2>3
<1>11. ASSUME NEW k \in (o + 1)..top PROVE Follows(k)
  <2> DEFINE p == SegStart(k)
  <2>1. k \in Nat /\ k - 1 \in Nat /\ o <= k - 1 /\ k <= top /\ o < k
    BY <1>5
  <2>2. p \in Nat /\ p <= e /\ origin < p
    <3>1. SegStart(k) \in Nat /\ SegStart(o + 1) \in Nat
      BY <1>5, <2>1, SegStartIsNat DEF SegStartNat
    <3>2. SegStart(k) <= e
      BY <1>2, <2>1, SegNoOrder
    <3>3. ~(SegStart(k) <= origin)
      <4>1. SegStart(k) <= origin => k <= o
        BY <1>2, <2>1, SegNoOrder
      <4> QED
        BY <1>5, <2>1, <4>1
    <3> QED
      BY <1>2, <3>1, <3>2, <3>3
  <2>3. p \in Lsn /\ p - 1 \in Lsn /\ p - 1 \in Nat
    BY <1>2, <2>2, WalAssumption DEF Lsn
  <2>4. Held(p) /\ Held(p - 1)
    BY <1>2, <1>3, <2>2, <2>3
  <2>5. SegNo(p) = k
    <3>1. SegStart(k) < SegStart(k + 1) /\ SegStart(k + 1) \in Nat
      <4>1. SegStart(k) < SegStart(k + 1)
        BY <2>1, WalAssumption DEF SegStart
      <4> QED
        BY <2>1, <4>1, SegStartIsNat DEF SegStartNat
    <3> QED
      BY <2>1, <2>2, <3>1, SegUnique
  <2>6. SegNo(p - 1) = k - 1
    <3>1. SegStart(k - 1) < SegStart((k - 1) + 1) /\ SegStart(k - 1) \in Nat
      <4>1. SegStart(k - 1) < SegStart((k - 1) + 1)
        BY <2>1, WalAssumption DEF SegStart
      <4> QED
        BY <2>1, <4>1, SegStartIsNat DEF SegStartNat
    <3>2. (k - 1) + 1 = k
      BY <2>1
    <3>3. SegStart(k - 1) <= p - 1 /\ p - 1 < SegStart((k - 1) + 1)
      BY <2>2, <3>1, <3>2
    <3> QED
      BY <2>1, <2>3, <3>3, SegUnique
  <2>7. k - 1 \in Archived /\ k \in Archived
    BY <1>4, <2>3, <2>4, <2>5, <2>6
  <2>8. SegLo(k) = p
    <3>1. CASE sealed[k] # NoObject
      BY <3>1 DEF SegLo
    <3>2. CASE sealed[k] = NoObject
      <4>1. PICK l \in Lsn : l <= p /\ p < chunks[l].to
        BY <2>4, <2>5, <3>2 DEF Held
      <4>2. l \in Nat /\ chunks[l].to \in Nat /\ chunks[l] # NoObject
        BY <1>1, <2>2, <4>1 DEF Numeric, Lsn, NoObject
      <4>3. SegNo(p) = SegNo(l)
        <5>1. chunks[l].to <= SegStart(SegNo(l) + 1)
          BY <4>2 DEF Data, ObjectsOk, Whole
        <5> QED
          BY <2>2, <4>1, <4>2, <5>1, WholeSegment
      <4>4. l \in ChunkKeys(k) /\ p <= l
        BY <2>5, <4>2, <4>3, SegBounds DEF ChunkKeys
      <4>5. \A x \in ChunkKeys(k) : x \in Nat /\ p <= x
        BY SegBounds DEF ChunkKeys, Lsn
      <4>6. Min(ChunkKeys(k)) \in ChunkKeys(k) /\ Min(ChunkKeys(k)) <= l
        <5>1. ChunkKeys(k) \in SUBSET Lsn
          BY DEF ChunkKeys
        <5> QED
          BY <4>4, <5>1, MinOfLsns
      <4>7. Min(ChunkKeys(k)) = p
        <5> DEFINE m == Min(ChunkKeys(k))
        <5>1. m \in Nat /\ p <= m /\ m <= l /\ l = p
          <6>1. m \in Nat /\ p <= m /\ m <= l
            BY <4>5, <4>6
          <6> QED
            BY <2>2, <4>1, <4>2, <4>4, <6>1
        <5> HIDE DEF m
        <5>2. m = p
          BY <2>2, <5>1
        <5> QED
          BY <5>2 DEF m
      <4> QED
        BY <3>2, <4>7 DEF SegLo
    <3> QED
      BY <3>1, <3>2
  <2>9. SegHi(k - 1) = p
    <3>1. (k - 1) + 1 = k /\ p = (p - 1) + 1
      BY <2>1, <2>2
    <3>2. CASE sealed[k - 1] # NoObject
      BY <3>1, <3>2 DEF SegHi
    <3>3. CASE sealed[k - 1] = NoObject
      <4> DEFINE m == Max(ChunkKeys(k - 1))
      <4>0. m \in ChunkKeys(k - 1)
        <5>1. MaxLsn \in Nat /\ ChunkKeys(k - 1) \subseteq 0..MaxLsn /\ ChunkKeys(k - 1) # {}
          BY <2>7, <3>3, WalAssumption DEF ChunkKeys, Lsn, Archived
        <5> QED
          BY <5>1, MaxOfNats
      <4>2. SegHi(k - 1) = chunks[m].to
        BY <3>3 DEF SegHi
      <4> HIDE DEF m
      <4>1. SegHi(k - 1) <= (p - 1) + 1
        BY <3>1, <4>0, <4>2 DEF ChunkKeys, Data, ObjectsOk, Whole
      <4> QED
        BY <2>3, <2>4, <2>6, <3>1, <3>3, <4>1, HighestChunk
    <3> QED
      BY <3>2, <3>3
  <2> QED
    BY <2>7, <2>8, <2>9 DEF Follows
<1> QED
  BY <1>5, <1>7, <1>8, <1>9, <1>10, <1>11

\* The lower end of a segment's coverage.
LEMMA LowestByte ==
  ASSUME WalInv, Data, Layout, NEW s \in Archived
  PROVE  /\ SegLo(s) \in Nat /\ SegLo(s) < SegStart(s + 1)
         /\ \A b \in Lsn : SegNo(b) = s /\ Held(b) => SegLo(s) <= b
         /\ \E a \in starts : a <= SegLo(s)
<1>1. Numeric /\ starts \subseteq Nat
  <2>1. starts \subseteq Nat
    BY DEF WalInv, TypeOK, Lsn
  <2> QED
    BY <2>1, Numbers
<1>2. s \in SegNos /\ s \in Nat /\ SegStart(s) \in Nat /\ SegStart(s + 1) \in Nat
      /\ SegStart(s) < SegStart(s + 1)
  <2>1. SegNo(MaxLsn) \in Nat
    BY SegBounds, WalAssumption
  <2>2. s \in SegNos /\ s \in Nat
    BY <2>1 DEF Archived, SegNos
  <2>3. SegStart(s) < SegStart(s + 1)
    BY <2>2, WalAssumption DEF SegStart
  <2> QED
    BY <2>2, <2>3, SegStartIsNat DEF SegStartNat
<1>3. CASE sealed[s] # NoObject
  <2>1. SegLo(s) = SegStart(s)
    BY <1>3 DEF SegLo
  <2>2. \A b \in Lsn : SegNo(b) = s => SegStart(s) <= b
    BY SegBounds DEF Lsn
  <2>3. \E a \in starts : a <= SegStart(s)
    BY <1>2, <1>3 DEF Layout, Sealings
  <2> QED
    BY <1>2, <2>1, <2>2, <2>3
<1>4. CASE sealed[s] = NoObject
  <2> DEFINE m == Min(ChunkKeys(s))
  <2>1. ChunkKeys(s) # {} /\ ChunkKeys(s) \in SUBSET Lsn
    BY <1>4 DEF Archived, ChunkKeys
  <2>2. m \in ChunkKeys(s) /\ \A y \in ChunkKeys(s) : m <= y
    BY <2>1, MinOfLsns
  <2>3. SegLo(s) = m
    BY <1>4 DEF SegLo
  <2> HIDE DEF m
  <2>4. m \in Lsn /\ m \in Nat /\ SegNo(m) = s /\ chunks[m] # NoObject
    BY <2>2 DEF ChunkKeys, Lsn
  <2>5. m < SegStart(s + 1)
    BY <2>4, SegBounds
  <2>6. ASSUME NEW b \in Lsn, SegNo(b) = s, Held(b) PROVE m <= b
    <3>1. PICK l \in Lsn : l <= b /\ b < chunks[l].to
      BY <1>4, <2>6 DEF Held
    <3>2. b \in Nat /\ l \in Nat /\ chunks[l].to \in Nat /\ chunks[l] # NoObject
      BY <1>1, <3>1 DEF Numeric, Lsn, NoObject
    <3>3. SegNo(b) = SegNo(l)
      <4>1. chunks[l].to <= SegStart(SegNo(l) + 1)
        BY <3>2 DEF Data, ObjectsOk, Whole
      <4> QED
        BY <3>1, <3>2, <4>1, WholeSegment
    <3>4. m <= l
      BY <2>2, <2>6, <3>2, <3>3 DEF ChunkKeys
    <3> QED
      BY <2>4, <3>1, <3>2, <3>4
  <2>7. \E a \in starts : a <= m
    <3>1. PICK f \in Lsn, i \in Nat : Entry(f) /\ m = f + ChunkBytes * i
      BY <2>4 DEF Layout, Grids, Gridded
    <3>2. f \in Nat /\ ChunkBytes * i \in Nat
      BY <3>1, WalAssumption, MulMono DEF Lsn
    <3>3. f <= m
      BY <2>4, <3>1, <3>2
    <3> QED
      BY <1>1, <2>4, <3>1, <3>2, <3>3 DEF Entry
  <2> QED
    BY <2>3, <2>4, <2>5, <2>6, <2>7
<1> QED
  BY <1>3, <1>4

\* The recovery window ends at what the receiver had when it last flushed its tail, if that is
\* archived (see TailArchived) and nothing later is, and reaches back to where the archive
\* starts (exactly, if nothing was received before), for every segment and chunk size and
\* whatever happened since the slot was created, as long as no segment was entered at two
\* offsets.
THEOREM TailWindowRight == Spec => []TailWindow
<1>1. WalInv /\ Data /\ Layout => TailWindow
  <2> SUFFICES ASSUME WalInv, Data, Layout, chunk_tasks = {}, ~failed, flushed > origin,
                      \A s \in Archived : SegHi(s) <= flushed, OneLayout
               PROVE  /\ Archived # {}
                      /\ WalContiguousRun.hi = flushed
                      /\ WalContiguousRun.lo <= origin
                      /\ (\A a \in starts : origin <= a) => WalContiguousRun.lo = origin
    BY DEF TailWindow, OneLayout
  <2> DEFINE top == SegNo(flushed - 1)
             o == SegNo(origin)
             C == {s \in Archived : \A k \in (s + 1)..top : Follows(k)}
             bottom == Min(C)
  <2>1. /\ Archived \in SUBSET SegNos
        /\ top \in Archived /\ o \in Archived
        /\ \A k \in Archived : k <= top
        /\ o <= top
        /\ SegHi(top) = flushed
        /\ \A k \in (o + 1)..top : Follows(k)
    BY WindowSegments
  <2>2. Numeric
    BY Numbers
  <2>3. origin \in Nat /\ origin \in Lsn /\ SegNo(MaxLsn) \in Nat /\ starts \subseteq Nat
    BY <2>2, SegBounds, WalAssumption DEF Numeric, Lsn, WalInv, TypeOK
  <2> HIDE DEF top, o
  <2>4. SegNos \subseteq Nat /\ SegNos = 0..SegNo(MaxLsn)
    BY <2>3 DEF SegNos
  <2>5. Max(Archived) = top
    <3>1. Max(Archived) \in Archived /\ \A y \in Archived : y <= Max(Archived)
      BY <2>1, <2>3, <2>4, MaxOfNats
    <3>2. Max(Archived) <= top /\ top <= Max(Archived)
      BY <2>1, <3>1
    <3>3. Max(Archived) \in Nat /\ top \in Nat
      BY <2>1, <2>4, <3>1, Zenon
    <3> QED
      BY <3>2, <3>3
  <2>6. o \in C
    BY <2>1
  <2>7. bottom \in C /\ bottom <= o
    <3>1. C \in SUBSET SegNos
      BY <2>1
    <3>2. bottom \in C /\ \A y \in C : bottom <= y
      <4> HIDE DEF C
      <4>1. C \in SUBSET Nat /\ C # {}
        BY <2>4, <2>6, <3>1
      <4> QED
        BY <4>1, MinOfNats DEF bottom
    <3> QED
      BY <2>6, <3>2
  <2> HIDE DEF bottom
  <2>8. WalContiguousRun = [lo |-> SegLo(bottom), hi |-> SegHi(top)]
    BY <2>5 DEF WalContiguousRun, bottom
  <2>9. bottom \in Archived /\ bottom \in Nat /\ o \in Nat
    BY <2>1, <2>4, <2>7
  <2>10. /\ SegLo(bottom) \in Nat /\ SegLo(bottom) < SegStart(bottom + 1)
         /\ \A b \in Lsn : SegNo(b) = bottom /\ Held(b) => SegLo(bottom) <= b
         /\ \E a \in starts : a <= SegLo(bottom)
    BY <2>9, LowestByte
  <2>11. SegLo(bottom) <= origin
    <3>1. CASE bottom = o
      <4>1. Held(origin)
        BY <2>2 DEF Numeric, Data, Tailed, Coming
      <4> QED
        BY <2>3, <2>10, <3>1, <4>1 DEF o
    <3>2. CASE bottom < o
      <4>1. SegStart(bottom + 1) <= origin /\ SegStart(bottom + 1) \in Nat
        BY <2>3, <2>9, <3>2, SegNoOrder, SegStartIsNat DEF o, SegStartNat
      <4> QED
        BY <2>3, <2>10, <4>1
    <3> QED
      BY <2>7, <2>9, <3>1, <3>2
  <2>12. (\A a \in starts : origin <= a) => SegLo(bottom) = origin
    BY <2>3, <2>10, <2>11
  <2> QED
    BY <2>1, <2>8, <2>11, <2>12
<1> QED
  BY WalInvariant, DataInvariant, LayoutInvariant, <1>1, PTL
=============================================================================
