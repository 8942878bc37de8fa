------------------------ MODULE TimelineStoreProofs ------------------------
(***************************************************************************)
(* Proofs about TimelineStore, for every set of chunks and backends, every *)
(* bound and every segment size: its type invariant; that no committed     *)
(* interval is lost; that a base backup finds its chunk map; that a read   *)
(* finds the version flushed last, undisturbed or among flushes, commits   *)
(* and compactions.                                                        *)
(***************************************************************************)
EXTENDS TimelineStore, FiniteSetTheorems, WellFoundedInduction, TLAPS

-----------------------------------------------------------------------------
(* Lemmas on the operators *)

\* A bounded set of integers has a maximum, and Max picks it.
LEMMA MaxExists ==
  ASSUME NEW S \in SUBSET Int, S # {}, NEW N \in Int, \A x \in S : x <= N
  PROVE  /\ Max(S) \in S
         /\ \A x \in S : x <= Max(S)
<1> DEFINE T == {y \in Nat : N - y \in S}
<1>1. T \subseteq Nat
  OBVIOUS
<1>2. PICK s \in S : TRUE
  OBVIOUS
<1>3. N - s \in Nat /\ N - (N - s) = s
  OBVIOUS
<1>4. T # {}
  BY <1>3
<1>5. PICK m \in T : \A y \in T : ~(<<y, m>> \in OpToRel(<, Nat))
  BY <1>1, <1>4, WFMin, NatLessThanWellFounded, Zenon
<1>6. \A y \in T : ~(y < m)
  BY <1>1, <1>5, Zenon DEF OpToRel
<1>7. ASSUME NEW y \in S PROVE N - m >= y
  <2>1. N - y \in T
    OBVIOUS
  <2>2. ~(N - y < m)
    BY <1>6, <2>1, Zenon
  <2>3. m \in Int
    OBVIOUS
  <2> HIDE DEF T
  <2> QED
    BY <2>2, <2>3
<1>8. N - m \in S
  OBVIOUS
<1> QED
  BY <1>7, <1>8 DEF Max

LEMMA MaxPosition ==
  ASSUME NEW S \in SUBSET Int, S # {}, \A x \in S : x <= MaxLsn
  PROVE  /\ Max(S) \in S
         /\ \A x \in S : x <= Max(S)
<1>1. MaxLsn \in Int
  BY StoreAssumption
<1> QED
  BY <1>1, MaxExists

LEMMA MinPosition ==
  ASSUME NEW S \in SUBSET Nat, S # {}
  PROVE  Min(S) \in S /\ \A x \in S : Min(S) <= x
<1>1. PICK m \in S : \A y \in S : ~(<<y, m>> \in OpToRel(<, Nat))
  BY WFMin, NatLessThanWellFounded, Zenon
<1>2. \A y \in S : ~(y < m)
  BY <1>1, Zenon DEF OpToRel
<1>3. \A y \in S : m <= y
  BY <1>2
<1> QED
  BY <1>3 DEF Min

\* Among finitely many positions the newest interval exists.
LEMMA NewestExists ==
  ASSUME NEW S \in SUBSET SegmentCheckpoint, S # {}
  PROVE  /\ Newest(S) \in S
         /\ \A sc \in S : sc.ckpt <= Newest(S).ckpt
<1> DEFINE C == {sc.ckpt : sc \in S}
<1>1. C \in SUBSET Int /\ C # {} /\ \A x \in C : x <= MaxLsn
  BY StoreAssumption DEF SegmentCheckpoint, Lsn
<1>2. Max(C) \in C /\ \A x \in C : x <= Max(C)
  <2> HIDE DEF C
  <2> QED
    BY <1>1, MaxPosition
<1>3. PICK n \in S : n.ckpt = Max(C)
  BY <1>2
<1>4. \A sc \in S : sc.ckpt <= n.ckpt
  BY <1>2, <1>3
<1> QED
  BY <1>4 DEF Newest

\* The manifest that apply_segments makes: its references cover what the old
\* one did and every interval folded, its header is the last one with data.
LEMMA Applied ==
  ASSUME NEW m \in Manifest, NEW scs \in SUBSET SegmentCheckpoint
  PROVE  LET a == ApplySegments(m, scs)
         IN  /\ a \in Manifest
             /\ \A t \in Chunks : a.refs[t] >= m.refs[t]
             /\ \A sc \in scs : Covers(a, sc)
             /\ (\A sc \in scs : sc.chunks = {}) => a.ckpt = m.ckpt
             /\ \A sc \in scs : sc.chunks # {} => sc.ckpt <= a.ckpt
             /\ (\E sc \in scs : sc.chunks # {}) =>
                  \E sc \in scs : sc.chunks # {} /\ sc.ckpt = a.ckpt
<1> DEFINE a == ApplySegments(m, scs)
           R(t) == {m.refs[t]} \cup {sc.prev : sc \in {o \in scs : t \in o.chunks}}
           D == {sc.ckpt : sc \in {o \in scs : o.chunks # {}}}
<1>1. ASSUME NEW t \in Chunks
      PROVE  Max(R(t)) \in R(t) /\ \A x \in R(t) : x <= Max(R(t))
  <2>1. R(t) \in SUBSET Int /\ R(t) # {} /\ \A x \in R(t) : x <= MaxLsn
    BY StoreAssumption DEF SegmentCheckpoint, Manifest, Lsn, NoRef
  <2> HIDE DEF R
  <2> QED
    BY <2>1, MaxPosition
<1>2. ASSUME NEW t \in Chunks
      PROVE  Max(R(t)) \in Lsn \cup {NoRef}
  BY <1>1 DEF SegmentCheckpoint, Manifest
<1>3. a.refs = [t \in Chunks |-> Max(R(t))]
  BY DEF ApplySegments
<1>4. \A t \in Chunks : a.refs[t] = Max(R(t))
  BY <1>3, Zenon
<1>5. \A t \in Chunks : a.refs[t] >= m.refs[t]
  BY <1>1, <1>2, <1>4, StoreAssumption DEF Manifest, Lsn, NoRef
<1>6. \A sc \in scs : Covers(a, sc)
  <2> SUFFICES ASSUME NEW sc \in scs, NEW t \in sc.chunks PROVE a.refs[t] >= sc.prev
    BY DEF Covers
  <2>1. t \in Chunks /\ sc.prev \in R(t)
    BY DEF SegmentCheckpoint
  <2>2. Max(R(t)) \in Int /\ sc.prev \in Int
    BY <1>2, <2>1, StoreAssumption DEF SegmentCheckpoint, Lsn, NoRef
  <2> HIDE DEF R, a
  <2> QED
    BY <1>1, <1>4, <2>1, <2>2
<1>7. CASE \A sc \in scs : sc.chunks = {}
  <2>1. a.ckpt = m.ckpt
    BY <1>7 DEF ApplySegments
  <2>2. a \in Manifest
    BY <1>2, <1>7 DEF ApplySegments, Manifest
  <2> HIDE DEF R
  <2> QED
    BY <1>5, <1>6, <1>7, <2>1, <2>2
<1>8. CASE \E sc \in scs : sc.chunks # {}
  <2>1. D \in SUBSET Int /\ D # {} /\ \A x \in D : x <= MaxLsn
    BY <1>8, StoreAssumption DEF SegmentCheckpoint, Lsn
  <2>2. Max(D) \in D /\ \A x \in D : x <= Max(D)
    <3> HIDE DEF D
    <3> QED
      BY <2>1, MaxPosition
  <2>3. Max(D) \in Lsn
    BY <2>2 DEF SegmentCheckpoint
  <2>4. a.ckpt = Max(D)
    BY <1>8 DEF ApplySegments
  <2>5. a \in Manifest
    BY <1>2, <1>8, <2>3, <2>4 DEF ApplySegments, Manifest
  <2>6. /\ \A sc \in scs : sc.chunks # {} => sc.ckpt <= a.ckpt
        /\ \E sc \in scs : sc.chunks # {} /\ sc.ckpt = a.ckpt
    BY <2>2, <2>4
  <2> HIDE DEF R, D
  <2> QED
    BY <1>5, <1>6, <1>8, <2>5, <2>6
<1> QED
  BY <1>7, <1>8

-----------------------------------------------------------------------------
(* Type correctness *)

\* compaction_in_progress is 1 exactly while the worker is inside its guard.
GateInv ==
  compaction_in_progress = IF cpc["worker"] \in {"idle", "begin"} THEN 0 ELSE 1

\* A compactor that goes on has something to fold.
FoldInv ==
  \A c \in Compactors : cpc[c] \in {"base", "load", "put"} => job[c].apply # {}

TypeInv == TypeOK /\ GateInv /\ FoldInv

LEMMA Positions ==
  /\ Lsn \subseteq Nat /\ 0 \in Lsn
  /\ \A l \in Lsn : l <= MaxLsn
  /\ Versions \subseteq Int
BY StoreAssumption DEF Lsn, Versions

LEMMA SegmentIds ==
  ASSUME NEW l \in Lsn
  PROVE  SegmentId(l) \in Nat
BY StoreAssumption DEF SegmentId, Lsn

LEMMA Listed ==
  ASSUME TypeOK, NEW low, NEW high
  PROVE  ListSegments(low, high) \in SUBSET Nat
BY SegmentIds DEF TypeOK, ListSegments, SegmentCheckpoint

LEMMA EmptyManifest == Empty \in Manifest
BY Positions DEF Empty, Manifest

LEMMA FreshJob ==
  ASSUME NEW u \in 0..(MaxLsn + 1)
  PROVE  /\ NoJob \in Jobs /\ NoJob.apply = {}
         /\ [NoJob EXCEPT !.upper = u, !.through = TRUE] \in Jobs
         /\ [NoJob EXCEPT !.upper = u, !.through = TRUE].apply = {}
<1>1. 0 \in 0..(MaxLsn + 1) /\ 0 \in Lsn
  BY Positions, StoreAssumption
<1> QED
  BY <1>1, EmptyManifest, Zenon DEF NoJob, Jobs

LEMMA LoadedManifest ==
  ASSUME TypeOK, NEW l \in Lsn, LoadManifestAt(l) # Missing
  PROVE  LoadManifestAt(l) \in Manifest
BY EmptyManifest DEF TypeOK, LoadManifestAt

LEMMA Hits ==
  ASSUME TypeOK, NEW t \in Chunks, NEW fp, ProbeHits(t, fp) # {}
  PROVE  obj[t][Max(ProbeHits(t, fp))] \in Versions
<1>1. ProbeHits(t, fp) \in SUBSET Lsn
  BY DEF TypeOK, ProbeHits, SegmentCheckpoint
<1>2. Max(ProbeHits(t, fp)) \in Lsn
  BY <1>1, Positions, MaxPosition
<1> QED
  BY <1>2 DEF TypeOK

LEMMA InitType == Init => TypeInv
<1> SUFFICES ASSUME Init PROVE TypeInv
  OBVIOUS
<1> USE DEF Init
<1>1. 0 \in Versions /\ 0 \in Lsn /\ 0 \in 0..(MaxLsn + 1)
  BY Positions, StoreAssumption DEF Versions
<1>2. NoJob \in Jobs /\ NoJob.apply = {}
  BY <1>1, FreshJob
<1>3. /\ job \in [Compactors -> Jobs]
      /\ \A c \in Compactors : job[c].apply = {}
  BY <1>2
<1>4. rd \in [Backends -> ReadCalls] /\ cpc \in [Compactors -> PcValues]
  BY DEF ReadCalls, PcValues
<1>5. /\ obj \in [Chunks -> [Lsn -> Versions]]
      /\ bases \in [Lsn -> Manifest \cup {Missing}]
      /\ tikm \in Manifest
      /\ cached \in [Procs -> Manifest]
      /\ target \in [Procs -> Lsn]
      /\ latest \in [Chunks -> Versions]
  BY <1>1, EmptyManifest
<1>6. GateInv /\ FoldInv
  BY DEF GateInv, FoldInv, Compactors
<1> QED
  BY <1>1, <1>3, <1>4, <1>5, <1>6 DEF TypeInv, TypeOK

LEMMA NextType == TypeInv /\ [Next]_vars => TypeInv'
<1> SUFFICES ASSUME TypeInv, [Next]_vars PROVE TypeInv'
  OBVIOUS
<1> USE DEF TypeInv, TypeOK, GateInv, FoldInv, storage, timeline, gate, history
<1>1. ASSUME NEW b \in Backends, NEW t \in Chunks, PatchPut(b, t) PROVE TypeInv'
  <2>1. writes + 1 \in Versions /\ writes' \in Versions
    BY <1>1, StoreAssumption DEF PatchPut, Versions
  <2>2. obj' \in [Chunks -> [Lsn -> Versions]]
    BY <1>1, <2>1 DEF PatchPut
  <2>3. rd' \in [Backends -> ReadCalls]
    BY <1>1 DEF PatchPut, ReadCalls
  <2> QED
    BY <1>1, <2>1, <2>2, <2>3 DEF PatchPut
<1>2. ASSUME NEW b \in Backends, PatchRecord(b) PROVE TypeInv'
  BY <1>2 DEF PatchRecord, ReadCalls, Idle, PcValues, Compactors
<1>3. ASSUME NEW b \in Backends, NEW t \in Chunks, NEW fp, GetProbe(b, t, fp) PROVE TypeInv'
  <2>1. SegmentTop \in Lsn
    <3> DEFINE W == {a.ckpt : a \in active_window}
    <3>1. W \in SUBSET Lsn /\ (active_window # {} => W # {})
      BY DEF SegmentCheckpoint
    <3>2. active_window # {} => Min(W) \in W
      <4> HIDE DEF W
      <4> QED
        BY <3>1, Positions, MinPosition
    <3> QED
      BY <3>1, <3>2 DEF SegmentTop
  <2>2. rd' \in [Backends -> ReadCalls]
    <3>1. CASE ProbeHits(t, fp) # {}
      <4>1. rd' = [rd EXCEPT ![b] = [pc |-> "done", tag |-> t, floor |-> latest[t],
                                     val |-> obj[t][Max(ProbeHits(t, fp))]]]
        BY <1>3, <3>1 DEF GetProbe
      <4>2. obj[t][Max(ProbeHits(t, fp))] \in Versions
        BY <3>1, Hits
      <4> QED
        BY <4>1, <4>2 DEF ReadCalls
    <3>2. CASE ProbeHits(t, fp) = {}
      <4> DEFINE ids == IF SegmentTop <= base_ckpt THEN {}
                        ELSE ListSegments(base_ckpt, SegmentTop)
      <4>1. rd' = [rd EXCEPT ![b] = [pc |-> "segs", tag |-> t, floor |-> latest[t],
                                     low |-> base_ckpt, top |-> SegmentTop,
                                     listed |-> ids]]
        BY <1>3, <3>2 DEF GetProbe
      <4>2. ids \in SUBSET Nat
        BY Listed
      <4> HIDE DEF ids
      <4> QED
        BY <2>1, <4>1, <4>2 DEF ReadCalls
    <3> QED
      BY <3>1, <3>2
  <2> QED
    BY <1>3, <2>2 DEF GetProbe
<1>4. ASSUME NEW b \in Backends, GetSegments(b) PROVE TypeInv'
  <2> DEFINE r == rd[b]
             hits == SegmentHits(r.tag, r.low, r.top)
  <2>1. /\ r.tag \in Chunks /\ r.floor \in Versions
        /\ rd[b].pc = "segs"
    BY <1>4 DEF GetSegments, ReadCalls, Idle
  <2>2. 0 \in Versions
    BY StoreAssumption DEF Versions
  <2>3. hits # {} => obj[r.tag][Newest(hits).prev] \in Versions
    <3>1. hits \in SUBSET SegmentCheckpoint
      BY DEF SegmentHits
    <3>2. hits # {} => Newest(hits) \in SegmentCheckpoint
      <4> HIDE DEF hits
      <4> QED
        BY <3>1, NewestExists
    <3> QED
      BY <2>1, <3>2 DEF SegmentCheckpoint
  <2>4. \/ rd' = [rd EXCEPT ![b] = [pc |-> "done", tag |-> r.tag, floor |-> r.floor, val |-> 0]]
        \/ /\ hits # {}
           /\ rd' = [rd EXCEPT ![b] = [pc |-> "done", tag |-> r.tag, floor |-> r.floor,
                                       val |-> obj[r.tag][Newest(hits).prev]]]
        \/ rd' = [rd EXCEPT ![b] = [pc |-> "base", tag |-> r.tag, floor |-> r.floor]]
    BY <1>4 DEF GetSegments
  <2>5. rd' \in [Backends -> ReadCalls]
    <3> HIDE DEF hits
    <3> QED
      BY <2>1, <2>2, <2>3, <2>4 DEF ReadCalls
  <2> QED
    BY <1>4, <2>5 DEF GetSegments
<1>5. ASSUME NEW b \in Backends, GetTarget(b) PROVE TypeInv'
  <2>1. rd[b].tag \in Chunks /\ rd[b].floor \in Versions
    BY <1>5 DEF GetTarget, ReadCalls, Idle
  <2>4. rd' \in [Backends -> ReadCalls]
    BY <1>5, <2>1 DEF GetTarget, ReadCalls
  <2>5. target' \in [Procs -> Lsn]
    BY <1>5 DEF GetTarget, ReadTarget
  <2> QED
    BY <1>5, <2>4, <2>5 DEF GetTarget
<1>6. ASSUME NEW b \in Backends, GetLoad(b) PROVE TypeInv'
  <2>1. rd[b].tag \in Chunks /\ rd[b].floor \in Versions
    BY <1>6 DEF GetLoad, ReadCalls, Idle
  <2>4. rd' \in [Backends -> ReadCalls]
    BY <1>6, <2>1 DEF GetLoad, ReadCalls
  <2>5. LoadManifestAt(target[b]) \in Manifest
    BY <1>6, LoadedManifest DEF GetLoad, LoadTarget, Procs
  <2>6. tikm' \in Manifest /\ cached' \in [Procs -> Manifest]
    BY <1>6, <2>5 DEF GetLoad, LoadTarget
  <2> QED
    BY <1>6, <2>4, <2>6 DEF GetLoad
<1>7. ASSUME NEW b \in Backends, GetRef(b) PROVE TypeInv'
  <2>1. rd[b].tag \in Chunks /\ rd[b].floor \in Versions
    BY <1>7 DEF GetRef, ReadCalls, Idle
  <2>2. Resolve(cached[b], rd[b].tag) \in Versions
    <3>1. cached[b].refs[rd[b].tag] \in Lsn \cup {NoRef} /\ 0 \in Versions
      BY <2>1, StoreAssumption DEF Manifest, Procs, Versions
    <3> QED
      BY <2>1, <3>1 DEF Resolve
  <2>3. rd' \in [Backends -> ReadCalls]
    BY <1>7, <2>1, <2>2 DEF GetRef, ReadCalls
  <2> QED
    BY <1>7, <2>3 DEF GetRef
<1>8. ASSUME NEW b \in Backends, GetReturn(b) PROVE TypeInv'
  BY <1>8 DEF GetReturn, ReadCalls, Idle, PcValues, Compactors
<1>9. ASSUME NEW c \in Lsn, NEW r \in Lsn, NEW backup \in BOOLEAN, Commit(c, r, backup) PROVE TypeInv'
  <2> DEFINE sc == [ckpt |-> c, prev |-> head_ckpt, chunks |-> draft]
             j == IF backup THEN [NoJob EXCEPT !.upper = c + 1, !.through = TRUE] ELSE NoJob
  <2>1. sc \in SegmentCheckpoint
    BY DEF SegmentCheckpoint
  <2>2. j \in Jobs /\ j.apply = {}
    <3>1. c + 1 \in 0..(MaxLsn + 1)
      BY StoreAssumption DEF Lsn
    <3> QED
      BY <3>1, FreshJob
  <2>3. job' = [job EXCEPT !["checkpointer"] = j]
    BY <1>9 DEF Commit
  <2>4. /\ job' \in [Compactors -> Jobs]
        /\ \A d \in Compactors : job'[d].apply \subseteq log
    <3> HIDE DEF j
    <3> QED
      BY <2>2, <2>3 DEF Compactors
  <2>5. /\ log' = log \cup {sc} /\ segments' = segments \cup {sc}
        /\ active_window' \subseteq active_window \cup {sc}
    BY <1>9 DEF Commit, PushActive
  <2>6. /\ cpc' \in [Compactors -> PcValues]
        /\ cpc'["worker"] = cpc["worker"]
    BY <1>9 DEF Commit, Compactors, PcValues
  <2>7. head_ckpt' \in Lsn /\ redo_ckpt' \in Lsn /\ draft' \in SUBSET Chunks
    BY <1>9 DEF Commit, CheckpointAt
  <2> HIDE DEF j, sc
  <2> QED
    BY <1>9, <2>1, <2>4, <2>5, <2>6, <2>7 DEF Commit
<1>10. ASSUME NEW c \in Lsn, NEW r \in Lsn, CommitFail(c, r) PROVE TypeInv'
  BY <1>10 DEF CommitFail, CheckpointAt, PcValues, Compactors
<1>11. ASSUME CompactorTick PROVE TypeInv'
  BY <1>11 DEF CompactorTick, Goto, PcValues, Compactors
<1>12. ASSUME CompactorBegin PROVE TypeInv'
  BY <1>12 DEF CompactorBegin, Goto, PcValues, Compactors
<1>13. ASSUME BackupPause PROVE TypeInv'
  BY <1>13 DEF BackupPause, Goto, PcValues, Compactors
<1>14. ASSUME BackupDrain PROVE TypeInv'
  BY <1>14 DEF BackupDrain, Goto, PcValues, Compactors
<1>15. ASSUME NEW c \in Compactors, CompactSnapshot(c) PROVE TypeInv'
  <2> DEFINE upper == IF job[c].through THEN job[c].upper
                      ELSE IF redo_ckpt = 0 THEN head_ckpt ELSE redo_ckpt
  <2>1. upper \in 0..(MaxLsn + 1)
    BY StoreAssumption DEF Jobs, Lsn
  <2>2. job' = [job EXCEPT ![c].base = base_ckpt, ![c].upper = upper]
    BY <1>15 DEF CompactSnapshot
  <2>3. job' \in [Compactors -> Jobs] /\ \A d \in Compactors : job'[d].apply = job[d].apply
    <3> DEFINE j == [job[c] EXCEPT !.base = base_ckpt, !.upper = upper]
    <3> HIDE DEF upper
    <3>1. job[c] \in Jobs /\ base_ckpt \in Lsn
      OBVIOUS
    <3>2. j \in Jobs /\ j.apply = job[c].apply
      BY ONLY <2>1, <3>1 DEF Jobs
    <3>3. job' = [job EXCEPT ![c] = j]
      BY <2>2
    <3> HIDE DEF j
    <3> QED
      BY <3>2, <3>3
  <2> QED
    BY <1>15, <2>3 DEF CompactSnapshot, Goto, PcValues, Compactors
<1>16. ASSUME NEW c \in Compactors, CompactLoad(c) PROVE TypeInv'
  <2> DEFINE high == IF job[c].through THEN job[c].upper - 1 ELSE job[c].upper
             scs  == {sc \in segments : job[c].base < sc.ckpt /\ sc.ckpt < job[c].upper}
             ids  == ListSegments(job[c].base, high)
  <2>1. job' = [job EXCEPT ![c].listed = ids, ![c].apply = scs]
    BY <1>16 DEF CompactLoad
  <2>2. ids \in SUBSET Nat
    BY Listed
  <2>3. scs \in SUBSET SegmentCheckpoint /\ scs \subseteq log
    OBVIOUS
  <2>4. cpc' = [cpc EXCEPT ![c] = IF scs = {} THEN "end" ELSE "base"]
    BY <1>16 DEF CompactLoad, Goto
  <2> HIDE DEF high, scs, ids
  <2>5. job' \in [Compactors -> Jobs]
    <3> DEFINE j == [job[c] EXCEPT !.listed = ids, !.apply = scs]
    <3>1. job[c] \in Jobs
      OBVIOUS
    <3>2. j \in Jobs
      BY <2>2, <2>3, <3>1 DEF Jobs
    <3>3. job' = [job EXCEPT ![c] = j]
      BY <2>1
    <3> HIDE DEF j
    <3> QED
      BY <3>2, <3>3
  <2>6. \A d \in Compactors : job'[d].apply = IF d = c THEN scs ELSE job[d].apply
    BY <2>1 DEF Jobs
  <2>7. cpc' \in [Compactors -> PcValues] /\ FoldInv'
    BY <2>4, <2>6 DEF PcValues
  <2>8. UNCHANGED <<storage, timeline, gate, cached, target, rd, history>> /\ cpc[c] = "list"
    BY <1>16 DEF CompactLoad
  <2> QED
    BY <2>3, <2>4, <2>5, <2>6, <2>7, <2>8 DEF Compactors
<1>17. ASSUME NEW c \in Compactors, CompactTarget(c) PROVE TypeInv'
  BY <1>17 DEF CompactTarget, ReadTarget, Goto, PcValues, Compactors, Procs
<1>18. ASSUME NEW c \in Compactors, CompactFetch(c) PROVE TypeInv'
  <2>1. LoadManifestAt(target[c]) \in Manifest
    BY <1>18, LoadedManifest DEF CompactFetch, LoadTarget, Procs
  <2>2. tikm' \in Manifest /\ cached' \in [Procs -> Manifest]
    BY <1>18, <2>1 DEF CompactFetch, LoadTarget
  <2> QED
    BY <1>18, <2>2 DEF CompactFetch, Goto, PcValues, Compactors
<1>19. ASSUME NEW c \in Compactors, CompactPut(c) PROVE TypeInv'
  <2> DEFINE applied == ApplySegments(cached[c], job[c].apply)
             new == IF job[c].through THEN applied.ckpt ELSE Newest(job[c].apply).ckpt
  <2>1. cached[c] \in Manifest /\ job[c].apply \in SUBSET SegmentCheckpoint
    BY DEF Procs, Jobs
  <2>2. applied \in Manifest
    BY <2>1, Applied
  <2>3. Newest(job[c].apply) \in SegmentCheckpoint
    BY <1>19, <2>1, NewestExists DEF CompactPut
  <2>4. new \in Lsn
    BY <2>2, <2>3 DEF Manifest, SegmentCheckpoint
  <2>5. /\ job' = [job EXCEPT ![c].applied = applied, ![c].new = new]
        /\ bases' = [bases EXCEPT ![new] = applied]
    BY <1>19 DEF CompactPut
  <2> HIDE DEF applied, new
  <2>6. job' \in [Compactors -> Jobs] /\ \A d \in Compactors : job'[d].apply = job[d].apply
    <3> DEFINE j == [job[c] EXCEPT !.applied = applied, !.new = new]
    <3>1. job[c] \in Jobs
      OBVIOUS
    <3>2. j \in Jobs /\ j.apply = job[c].apply
      BY ONLY <2>2, <2>4, <3>1 DEF Jobs
    <3>3. job' = [job EXCEPT ![c] = j]
      BY <2>5
    <3> HIDE DEF j
    <3> QED
      BY <3>2, <3>3
  <2>7. bases' \in [Lsn -> Manifest \cup {Missing}]
    BY <2>2, <2>4, <2>5
  <2> QED
    BY <1>19, <2>6, <2>7 DEF CompactPut, Goto, PcValues, Compactors
<1>20. ASSUME NEW c \in Compactors, CompactPublish(c) PROVE TypeInv'
  <2>1. tikm' \in Manifest
    BY <1>20 DEF CompactPublish, Jobs
  <2> QED
    BY <1>20, <2>1 DEF CompactPublish, Goto, PcValues, Compactors
<1>21. ASSUME NEW c \in Compactors, CompactSetBase(c) PROVE TypeInv'
  <2>1. base_ckpt' \in Lsn /\ cached' \in [Procs -> Manifest]
    BY <1>21 DEF CompactSetBase, Jobs
  <2>2. /\ cpc' \in [Compactors -> PcValues]
        /\ cpc'["worker"] \in {"idle", "begin"} <=> cpc["worker"] \in {"idle", "begin"}
        /\ FoldInv'
    BY <1>21 DEF CompactSetBase, Goto, PcValues, Compactors
  <2> QED
    BY <1>21, <2>1, <2>2 DEF CompactSetBase
<1>22. ASSUME NEW c \in Compactors, CompactDelete(c) PROVE TypeInv'
  <2> DEFINE ids == job[c].listed \ {Min({i \in job[c].listed : i < SegmentId(job[c].new)})}
  <2>1. job' = [job EXCEPT ![c].listed = ids] /\ segments' \subseteq segments
    BY <1>22 DEF CompactDelete
  <2>2. ids \in SUBSET Nat
    BY DEF Jobs
  <2> HIDE DEF ids
  <2>3. job' \in [Compactors -> Jobs] /\ \A d \in Compactors : job'[d].apply = job[d].apply
    BY <2>1, <2>2 DEF Jobs
  <2> QED
    BY <1>22, <2>1, <2>3 DEF CompactDelete
<1>23. ASSUME NEW c \in Compactors, CompactDeleted(c) PROVE TypeInv'
  BY <1>23 DEF CompactDeleted, Goto, PcValues, Compactors
<1>24. ASSUME NEW c \in Compactors, CompactFail(c) PROVE TypeInv'
  BY <1>24 DEF CompactFail, Goto, PcValues, Compactors
<1>25. ASSUME NEW c \in Compactors, CompactEnd(c) PROVE TypeInv'
  <2>1. 0 \in 0..(MaxLsn + 1)
    BY StoreAssumption
  <2>2. NoJob \in Jobs /\ NoJob.apply = {}
    BY <2>1, FreshJob
  <2>3. /\ job' \in [Compactors -> Jobs]
        /\ \A d \in Compactors : job'[d].apply \subseteq log
        /\ cpc' \in [Compactors -> PcValues]
        /\ FoldInv'
    BY <1>25, <2>2 DEF CompactEnd, Goto, PcValues
  <2>4. /\ compaction_paused' \in BOOLEAN
        /\ compaction_in_progress' \in {0, 1} /\ GateInv'
    <3>1. CASE c = "worker"
      <4>1. compaction_in_progress = 1 /\ compaction_in_progress' = compaction_in_progress - 1
        BY <1>25, <3>1 DEF CompactEnd
      <4>2. compaction_in_progress' = 0 /\ cpc'["worker"] = "idle"
        BY <1>25, <3>1, <4>1 DEF CompactEnd, Goto
      <4> QED
        BY <1>25, <3>1, <4>2 DEF CompactEnd
    <3>2. CASE c = "checkpointer"
      <4>1. /\ compaction_in_progress' = compaction_in_progress
            /\ cpc'["worker"] = cpc["worker"]
            /\ compaction_paused' = FALSE
        BY <1>25, <3>2 DEF CompactEnd, Goto, Compactors
      <4> QED
        BY <4>1
    <3> QED
      BY <3>1, <3>2 DEF Compactors
  <2> QED
    BY <1>25, <2>3, <2>4 DEF CompactEnd
<1>26. CASE UNCHANGED vars
  BY <1>26 DEF vars
<1> QED
  <2> USE DEF Next
  <2>1. ASSUME NEW b \in Backends, BackendStep(b) PROVE TypeInv'
    BY <2>1, <1>1, <1>2, <1>3, <1>4, <1>5, <1>6, <1>7, <1>8, Zenon DEF BackendStep
  <2>2. CASE Checkpoint
    <3>1. PICK c \in Lsn, r \in Lsn :
            (\E backup \in {FALSE, Basebackups} : Commit(c, r, backup)) \/ CommitFail(c, r)
      BY <2>2, Zenon DEF Checkpoint
    <3>2. \A backup \in {FALSE, Basebackups} : backup \in BOOLEAN
      BY StoreAssumption
    <3> QED
      BY <1>9, <1>10, <3>1, <3>2, Zenon
  <2>3. ASSUME NEW c \in Compactors, CompactStep(c) PROVE TypeInv'
    BY <2>3, <1>15, <1>16, <1>17, <1>18, <1>19, <1>20, <1>21, <1>22, <1>23, <1>24, <1>25, Zenon
       DEF CompactStep
  <2> QED
    BY <1>11, <1>12, <1>13, <1>14, <1>26, <2>1, <2>2, <2>3, Zenon

\* The strengthened type invariant holds throughout.
LEMMA TypeInvariant == Spec => []TypeInv
BY InitType, NextType, PTL DEF Spec

\* The shared state keeps its shape: in particular the compactor's run counter
\* (begin_compaction, end_compaction) is never leaked or dropped below zero,
\* and what is on file, in the active window or being folded was committed.
THEOREM StoreTypeCorrect == Spec => []TypeOK
BY TypeInvariant, PTL DEF TypeInv

-----------------------------------------------------------------------------
(***************************************************************************)
(* No committed interval is lost, for every number of chunks, backends and *)
(* checkpoints, whatever the segment size, and although the worker's       *)
(* compactor and a base backup's compaction may run in parallel.           *)
(*                                                                         *)
(* The difficulty is that base_ckpt may move back: a base backup that      *)
(* folds intervals without data sets it to the manifest's header.  What    *)
(* never moves back is the data below it, so "the base moved from a to b"  *)
(* is accepted when NoData(log, b, a): no interval in between has a chunk. *)
(***************************************************************************)

-----------------------------------------------------------------------------
(* The inductive invariant *)

\* m accounts for every interval of lg up to checkpoint l.
Sound(lg, m, l) == \A sc \in lg : sc.ckpt <= l => Covers(m, sc)

\* No interval that ends after a and up to b has a chunk.
NoData(lg, a, b) == \A sc \in lg : a < sc.ckpt /\ sc.ckpt <= b => sc.chunks = {}

\* Intervals with data end at these checkpoints; headers are taken from them.
DataCkpts(lg) == {sc.ckpt : sc \in {o \in lg : o.chunks # {}}}

\* A manifest that a process may hold: its header is a position with data, and
\* it accounts for everything up to it.
Good(lg, m) == m.ckpt \in DataCkpts(lg) \cup {0} /\ Sound(lg, m, m.ckpt)

\* What a compactor with locals j must find in the base manifest, since it does
\* not fold it, ends at or before l.
UnfoldedUpTo(lg, j, l) ==
  \A sc \in lg : sc.chunks # {} /\ sc.ckpt < j.upper /\ sc \notin j.apply => sc.ckpt <= l
UnfoldedCovered(lg, j, m) ==
  \A sc \in lg : sc.chunks # {} /\ sc.ckpt < j.upper /\ sc \notin j.apply => Covers(m, sc)

Active == {"list", "base", "load", "put", "publish", "set_base"}

LogInv ==
  /\ \A sc \in log : 0 < sc.ckpt /\ sc.ckpt <= head_ckpt
  /\ \A sc, o \in log : sc.ckpt = o.ckpt => sc = o
  /\ base_ckpt <= head_ckpt

\* Every manifest anywhere is sound up to its header, those on storage up to
\* their key too, and the one that base_ckpt names exists.
ManifestInv ==
  /\ Good(log, tikm)
  /\ \A p \in Procs : Good(log, cached[p])
  /\ \A c \in Compactors : Good(log, job[c].applied)
  /\ \A k \in Lsn : bases[k] # Missing =>
       k <= head_ckpt /\ Good(log, bases[k]) /\ Sound(log, bases[k], k)
  /\ \A p \in Procs : target[p] # 0 => bases[target[p]] # Missing
  /\ base_ckpt # 0 => bases[base_ckpt] # Missing /\ NoData(log, bases[base_ckpt].ckpt, base_ckpt)

\* A file that is gone held no data above base_ckpt.
SegmentInv ==
  \A sc \in log : sc \in segments \/ sc.ckpt <= base_ckpt \/ sc.chunks = {}

\* Where a compactor is, and what its locals are worth there.
JobInv(c) ==
  /\ job[c].base <= head_ckpt /\ job[c].new <= head_ckpt
  /\ job[c].upper <= head_ckpt + 1 \/ job[c].upper <= redo_ckpt
  /\ cpc[c] \in Active => NoData(log, base_ckpt, job[c].base)
  /\ cpc[c] \in {"base", "load", "put"} =>
       /\ \A sc \in job[c].apply : job[c].base < sc.ckpt /\ sc.ckpt < job[c].upper
       /\ UnfoldedUpTo(log, job[c], base_ckpt)
  /\ cpc[c] = "load" => UnfoldedUpTo(log, job[c], target[c])
  /\ cpc[c] = "put"  => UnfoldedCovered(log, job[c], cached[c])
  /\ cpc[c] = "delete" => NoData(log, base_ckpt, job[c].new)
  /\ cpc[c] \in {"publish", "set_base"} => bases[job[c].new] # Missing

\* The same as long as base_ckpt is the one the compactor started from.
UnracedInv(c) ==
  base_ckpt = job[c].base =>
    /\ cpc[c] = "load" => target[c] = base_ckpt
    /\ cpc[c] = "put"  => NoData(log, cached[c].ckpt, base_ckpt)
    /\ cpc[c] \in {"publish", "set_base"} => NoData(log, job[c].new, base_ckpt)
    /\ c = "worker" /\ cpc[c] \in {"publish", "set_base"} =>
         NoData(log, bases[job[c].new].ckpt, job[c].new)

\* Only the checkpointer moves the base under the worker: to a position with
\* data, or down over none.  Only the worker moves it under the checkpointer: up.
RaceInv ==
  /\ ~job["worker"].through
  /\ cpc["checkpointer"] \in Active \cup {"pause", "drain", "snapshot"} => job["checkpointer"].through
  /\ cpc["checkpointer"] \in Active => job["checkpointer"].base <= base_ckpt
  /\ cpc["worker"] \in Active /\ base_ckpt # job["worker"].base =>
       /\ base_ckpt \in DataCkpts(log) \cup {0}
       /\ base_ckpt < job["worker"].base \/ base_ckpt \in DataCkpts(log)
  /\ cpc["worker"] \in {"publish", "set_base"} => job["worker"].base < job["worker"].new
  /\ cpc["checkpointer"] \in {"publish", "set_base"} =>
       /\ job["checkpointer"].new \in DataCkpts(log) \cup {0}
       /\ bases[job["checkpointer"].new].ckpt = job["checkpointer"].new

JobsInv  == \A c \in Compactors : JobInv(c) /\ UnracedInv(c)
StoreInv == LogInv /\ ManifestInv /\ SegmentInv /\ JobsInv /\ RaceInv
-----------------------------------------------------------------------------
(* Facts about the parts *)

LEMMA LsnInt == /\ \A l \in Lsn : l \in Int /\ l >= 0
                /\ \A sc \in SegmentCheckpoint : sc.ckpt \in Int /\ sc.prev \in Int
                /\ \A m \in Manifest : m.ckpt \in Int
BY StoreAssumption DEF Lsn, SegmentCheckpoint, Manifest

LEMMA NoDataTrans ==
  ASSUME NEW lg \in SUBSET SegmentCheckpoint, NEW a \in Int, NEW b \in Int, NEW d \in Int,
         NoData(lg, a, b), NoData(lg, b, d)
  PROVE  NoData(lg, a, d)
BY LsnInt DEF NoData

LEMMA NoDataSelf ==
  ASSUME NEW lg \in SUBSET SegmentCheckpoint, NEW a \in Int, NEW b \in Int, b <= a
  PROVE  NoData(lg, a, b)
BY LsnInt DEF NoData

\* A position with data is not skipped.
LEMMA DataAbove ==
  ASSUME NEW lg \in SUBSET SegmentCheckpoint, NEW a \in Int, NEW d \in DataCkpts(lg),
         NEW b \in Int, d <= b, NoData(lg, a, b)
  PROVE  d <= a
BY LsnInt DEF NoData, DataCkpts

LEMMA EmptyGood ==
  ASSUME LogInv, TypeOK
  PROVE  Good(log, Empty) /\ Empty.ckpt = 0
<1>1. Empty.ckpt = 0
  BY DEF Empty
<1> QED
  BY <1>1, LsnInt DEF Good, Sound, LogInv, TypeOK, SegmentCheckpoint

\* What load_manifest_at returns is sound up to the checkpoint asked for.
LEMMA LoadGood ==
  ASSUME TypeOK, LogInv, ManifestInv, NEW l \in Lsn, l # 0 => bases[l] # Missing
  PROVE  /\ LoadManifestAt(l) # Missing /\ LoadManifestAt(l) \in Manifest
         /\ Good(log, LoadManifestAt(l))
         /\ Sound(log, LoadManifestAt(l), l)
         /\ l = base_ckpt => NoData(log, LoadManifestAt(l).ckpt, base_ckpt)
<1>0. Empty # Missing /\ tikm # Missing
  BY LsnInt DEF Empty, Missing, TypeOK, Manifest, NoRef
<1>1. log \in SUBSET SegmentCheckpoint /\ l \in Int /\ base_ckpt \in Int
  BY LsnInt DEF TypeOK
<1>2. CASE l = 0
  BY <1>0, <1>1, <1>2, EmptyGood, EmptyManifest, NoDataSelf DEF LoadManifestAt, Good
<1>3. CASE l # 0 /\ tikm.ckpt = l
  BY <1>0, <1>1, <1>3, NoDataSelf DEF LoadManifestAt, Good, ManifestInv, TypeOK
<1>4. CASE l # 0 /\ tikm.ckpt # l
  BY <1>1, <1>4 DEF LoadManifestAt, ManifestInv, TypeOK
<1> QED
  BY <1>2, <1>3, <1>4

LEMMA BaseGood ==
  ASSUME TypeOK, LogInv, ManifestInv, NEW p \in Procs
  PROVE  Sound(log, BaseManifest(p), base_ckpt)
<1>1. CASE cached[p].ckpt = base_ckpt
  BY <1>1 DEF BaseManifest, ManifestInv, Good
<1>2. CASE cached[p].ckpt # base_ckpt
  BY <1>2, LoadGood DEF BaseManifest, ManifestInv, TypeOK
<1> QED
  BY <1>1, <1>2

\* The invariant gives the property.
LEMMA NothingLost == TypeOK /\ StoreInv => NoIntervalLost
<1> SUFFICES ASSUME TypeOK, StoreInv, NEW sc \in log, NEW p \in Procs
             PROVE  \/ sc \in segments /\ base_ckpt < sc.ckpt
                    \/ Covers(BaseManifest(p), sc)
  BY DEF NoIntervalLost
<1>1. CASE sc.ckpt <= base_ckpt
  BY <1>1, BaseGood DEF StoreInv, Sound
<1>2. CASE sc.chunks = {}
  BY <1>2 DEF Covers
<1>3. CASE sc \in segments /\ ~(sc.ckpt <= base_ckpt)
  <2>1. sc.ckpt \in Int /\ base_ckpt \in Int
    BY LsnInt DEF TypeOK, SegmentCheckpoint
  <2> QED
    BY <1>3, <2>1
<1> QED
  BY <1>1, <1>2, <1>3 DEF StoreInv, SegmentInv

LEMMA InitStore == Init => StoreInv
<1> SUFFICES ASSUME Init PROVE StoreInv
  OBVIOUS
<1>1. log = {} /\ base_ckpt = 0 /\ head_ckpt = 0 /\ redo_ckpt = 0
  BY DEF Init
<1>2. \A m, l : Sound(log, m, l) /\ NoData(log, m, l)
  BY <1>1 DEF Sound, NoData
<1>3. Empty.ckpt = 0 /\ Good(log, Empty)
  BY <1>2 DEF Empty, Good
<1>4. LogInv /\ SegmentInv
  BY <1>1 DEF LogInv, SegmentInv
<1>5. ASSUME NEW c \in Compactors
      PROVE /\ job[c].base = 0 /\ job[c].new = 0 /\ job[c].upper = 0 /\ ~job[c].through
            /\ job[c].applied = Empty /\ cpc[c] = "idle"
  BY DEF Init, NoJob
<1>6. JobsInv /\ RaceInv
  BY <1>1, <1>5 DEF JobsInv, JobInv, UnracedInv, RaceInv, Active, Compactors
<1>7. ManifestInv
  BY <1>1, <1>3, <1>5 DEF Init, ManifestInv
<1> QED
  BY <1>4, <1>6, <1>7 DEF StoreInv
-----------------------------------------------------------------------------
(* Steps that leave the intervals, the base and the manifests alone *)

data == <<log, segments, bases, head_ckpt, base_ckpt>>

LEMMA FrameStep ==
  ASSUME StoreInv, UNCHANGED <<data, redo_ckpt, tikm, cached, target, cpc, job>>
  PROVE  StoreInv'
<1> USE DEF data
<1>1. LogInv' /\ SegmentInv' /\ RaceInv'
  BY DEF StoreInv, LogInv, SegmentInv, RaceInv
<1>2. ManifestInv'
  BY DEF StoreInv, ManifestInv
<1>3. JobsInv'
  BY DEF StoreInv, JobsInv, JobInv, UnracedInv
<1> QED
  BY <1>1, <1>2, <1>3 DEF StoreInv

\* A compactor moves to a place where its locals mean nothing.
LEMMA MoveStep ==
  ASSUME StoreInv, TypeOK, NEW c \in Compactors, NEW l \in PcValues,
         cpc' = [cpc EXCEPT ![c] = l],
         l \notin Active \cup {"delete"},
         l \in {"pause", "drain", "snapshot"} => c = "worker" \/ job[c].through,
         UNCHANGED <<data, redo_ckpt, tikm, cached, target, job>>
  PROVE  StoreInv'
<1> USE DEF data
<1>1. /\ cpc'[c] = l
      /\ \A d \in Compactors : d # c => cpc'[d] = cpc[d]
  BY DEF TypeOK
<1>2. LogInv' /\ SegmentInv' /\ ManifestInv'
  BY DEF StoreInv, LogInv, SegmentInv, ManifestInv
<1>3. JobsInv'
  <2> SUFFICES ASSUME NEW d \in Compactors PROVE JobInv(d)' /\ UnracedInv(d)'
    BY DEF JobsInv
  <2>1. CASE d = c
    BY <1>1, <2>1 DEF StoreInv, JobsInv, JobInv, UnracedInv, Active
  <2>2. CASE d # c
    BY <1>1, <2>2 DEF StoreInv, JobsInv, JobInv, UnracedInv, Active
  <2> QED
    BY <2>1, <2>2
<1>4. RaceInv'
  <2>1. CASE c = "worker"
    BY <1>1, <2>1 DEF StoreInv, RaceInv, Active, Compactors
  <2>2. CASE c = "checkpointer"
    BY <1>1, <2>2 DEF StoreInv, RaceInv, Active, Compactors
  <2> QED
    BY <2>1, <2>2 DEF Compactors
<1> QED
  BY <1>2, <1>3, <1>4 DEF StoreInv

-----------------------------------------------------------------------------
(* A commit: the new interval lies past everything known *)

LEMMA PastAll ==
  ASSUME NEW lg \in SUBSET SegmentCheckpoint, NEW sc \in SegmentCheckpoint, NEW h \in Int,
         sc.ckpt > h
  PROVE  /\ \A m, l : l \in Int /\ l <= h /\ Sound(lg, m, l) => Sound(lg \cup {sc}, m, l)
         /\ \A a, b : b \in Int /\ b <= h /\ NoData(lg, a, b) => NoData(lg \cup {sc}, a, b)
         /\ DataCkpts(lg) \subseteq DataCkpts(lg \cup {sc})
<1>1. \A m, l : l \in Int /\ l <= h /\ Sound(lg, m, l) => Sound(lg \cup {sc}, m, l)
  BY LsnInt DEF Sound
<1>2. \A a, b : b \in Int /\ b <= h /\ NoData(lg, a, b) => NoData(lg \cup {sc}, a, b)
  BY LsnInt DEF NoData
<1>3. DataCkpts(lg) \subseteq DataCkpts(lg \cup {sc})
  BY DEF DataCkpts
<1> QED
  BY <1>1, <1>2, <1>3

LEMMA CommitStep ==
  ASSUME TypeOK, StoreInv, NEW c \in Lsn, NEW r \in Lsn, NEW backup \in BOOLEAN,
         Commit(c, r, backup)
  PROVE  StoreInv'
<1> DEFINE sc == [ckpt |-> c, prev |-> head_ckpt, chunks |-> draft]
           j  == IF backup THEN [NoJob EXCEPT !.upper = c + 1, !.through = TRUE] ELSE NoJob
<1>1. /\ sc \in SegmentCheckpoint /\ log \in SUBSET SegmentCheckpoint /\ sc.ckpt = c
      /\ c \in Int /\ head_ckpt \in Int /\ redo_ckpt \in Int /\ base_ckpt \in Int /\ r \in Int
      /\ head_ckpt >= 0
  BY LsnInt DEF TypeOK, SegmentCheckpoint
<1>2. /\ log' = log \cup {sc} /\ segments' = segments \cup {sc}
      /\ head_ckpt' = c /\ c > head_ckpt /\ c > redo_ckpt /\ redo_ckpt' >= redo_ckpt /\ redo_ckpt' \in Int
      /\ UNCHANGED <<bases, tikm, base_ckpt, cached, target>>
  BY <1>1 DEF Commit, CheckpointAt
<1>3. /\ j.base = 0 /\ j.new = 0 /\ j.applied = Empty
      /\ j.upper \in {0, c + 1} /\ (backup => j.through)
  BY DEF NoJob
<1>4. /\ job'["checkpointer"] = j
      /\ job'["worker"] = job["worker"]
      /\ cpc'["checkpointer"] = IF backup THEN "pause" ELSE "idle"
      /\ cpc'["worker"] = cpc["worker"]
  BY DEF Commit, TypeOK, Compactors
<1> HIDE DEF sc, j
<1>5. /\ \A m, l : l \in Int /\ l <= head_ckpt /\ Sound(log, m, l) => Sound(log', m, l)
      /\ \A a, b : b \in Int /\ b <= head_ckpt /\ NoData(log, a, b) => NoData(log', a, b)
      /\ DataCkpts(log) \subseteq DataCkpts(log')
  BY <1>1, <1>2, PastAll
<1>6. LogInv'
  BY <1>1, <1>2, LsnInt DEF StoreInv, LogInv
<1>7. \A m \in Manifest : Good(log, m) => Good(log', m)
  <2> SUFFICES ASSUME NEW m \in Manifest, Good(log, m) PROVE Good(log', m)
    OBVIOUS
  <2>1. m.ckpt \in DataCkpts(log) \cup {0} => m.ckpt <= head_ckpt
    BY <1>1, LsnInt DEF StoreInv, LogInv, DataCkpts
  <2> QED
    BY <1>5, <2>1, LsnInt DEF Good
<1>8. SegmentInv'
  BY <1>2 DEF StoreInv, SegmentInv
<1>9. ManifestInv'
  <2>1. /\ Good(log', tikm') /\ \A p \in Procs : Good(log', cached'[p])
        /\ \A p \in Procs : target'[p] # 0 => bases'[target'[p]] # Missing
    BY <1>2, <1>7 DEF StoreInv, ManifestInv, TypeOK
  <2>2. \A k \in Lsn : bases'[k] # Missing =>
          k <= head_ckpt' /\ Good(log', bases'[k]) /\ Sound(log', bases'[k], k)
    <3> SUFFICES ASSUME NEW k \in Lsn, bases[k] # Missing
                 PROVE  k <= c /\ Good(log', bases[k]) /\ Sound(log', bases[k], k)
      BY <1>2
    <3>1. /\ k \in Int /\ k <= head_ckpt /\ bases[k] \in Manifest
          /\ Good(log, bases[k]) /\ Sound(log, bases[k], k)
      BY LsnInt DEF StoreInv, ManifestInv, TypeOK
    <3>2. k <= c
      BY <1>1, <1>2, <3>1
    <3> QED
      BY <1>5, <1>7, <3>1, <3>2
  <2>3. base_ckpt' # 0 =>
          bases'[base_ckpt'] # Missing /\ NoData(log', bases'[base_ckpt'].ckpt, base_ckpt')
    BY <1>1, <1>2, <1>5 DEF StoreInv, LogInv, ManifestInv
  <2>4. Good(log', job'["checkpointer"].applied)
    <3>1. Good(log', Empty)
      BY <1>7, EmptyGood, EmptyManifest DEF StoreInv
    <3> QED
      BY <1>3, <1>4, <3>1
  <2>5. Good(log', job'["worker"].applied)
    BY <1>4, <1>7 DEF StoreInv, ManifestInv, TypeOK, Jobs, Compactors
  <2> QED
    BY <2>1, <2>2, <2>3, <2>4, <2>5 DEF ManifestInv, Compactors
<1>10. JobInv("checkpointer")' /\ UnracedInv("checkpointer")'
  BY <1>1, <1>2, <1>3, <1>4 DEF JobInv, UnracedInv, Active
<1>11. JobInv("worker")' /\ UnracedInv("worker")'
  <2> DEFINE w == job["worker"]
  <2>1. /\ w.base \in Int /\ w.new \in Int /\ w.upper \in Int
        /\ w.base <= head_ckpt /\ w.new <= head_ckpt /\ base_ckpt <= head_ckpt
        /\ w.upper <= head_ckpt + 1 \/ w.upper <= redo_ckpt
    BY LsnInt DEF TypeOK, Jobs, Compactors, StoreInv, JobsInv, JobInv, LogInv
  <2>2. w.upper <= c
    BY <1>1, <1>2, <2>1
  <2>3. /\ \A l : UnfoldedUpTo(log, w, l) => UnfoldedUpTo(log', w, l)
        /\ \A m : UnfoldedCovered(log, w, m) => UnfoldedCovered(log', w, m)
    BY <1>1, <1>2, <2>1, <2>2, LsnInt DEF UnfoldedUpTo, UnfoldedCovered
  <2>4. JobInv("worker") /\ UnracedInv("worker")
    BY DEF StoreInv, JobsInv, Compactors
  <2>5. JobInv("worker")'
    <3>1. /\ job'["worker"].base <= head_ckpt' /\ job'["worker"].new <= head_ckpt'
          /\ job'["worker"].upper <= head_ckpt' + 1
      BY <1>1, <1>2, <1>4, <2>1, <2>2
    <3>2. /\ NoData(log, base_ckpt, w.base) => NoData(log', base_ckpt, w.base)
          /\ NoData(log, base_ckpt, w.new) => NoData(log', base_ckpt, w.new)
      BY <1>5, <2>1
    <3> QED
      BY <1>2, <1>4, <2>3, <2>4, <3>1, <3>2 DEF JobInv
  <2>6. UnracedInv("worker")'
    BY <1>1, <1>2, <1>4, <1>5, <2>1, <2>4 DEF UnracedInv
  <2> QED
    BY <2>5, <2>6
<1>12. RaceInv'
  BY <1>2, <1>3, <1>4, <1>5 DEF StoreInv, RaceInv, Active
<1> QED
  BY <1>6, <1>8, <1>9, <1>10, <1>11, <1>12 DEF StoreInv, JobsInv, Compactors
LEMMA FailedCommitStep ==
  ASSUME TypeOK, StoreInv, NEW c \in Lsn, NEW r \in Lsn, CommitFail(c, r)
  PROVE  StoreInv'
<1> USE DEF data
<1>1. /\ UNCHANGED <<data, tikm, cached, target, job, cpc>>
      /\ redo_ckpt' >= redo_ckpt /\ redo_ckpt' \in Int /\ redo_ckpt \in Int
  BY LsnInt DEF CommitFail, CheckpointAt, TypeOK, storage
<1>2. LogInv' /\ SegmentInv' /\ RaceInv' /\ ManifestInv'
  BY <1>1 DEF StoreInv, LogInv, SegmentInv, RaceInv, ManifestInv
<1>3. JobsInv'
  <2>1. \A d \in Compactors : job[d].upper <= redo_ckpt => job[d].upper <= redo_ckpt'
    <3>1. \A d \in Compactors : job[d].upper \in Int
      BY StoreAssumption DEF TypeOK, Jobs
    <3> QED
      BY <1>1, <3>1
  <2> QED
    BY <1>1, <2>1 DEF StoreInv, JobsInv, JobInv, UnracedInv
<1> QED
  BY <1>2, <1>3 DEF StoreInv

-----------------------------------------------------------------------------
(* base_manifest(): what is loaded is good *)

\* Process p reads base_ckpt.
LEMMA TargetGood ==
  ASSUME TypeOK, ManifestInv, NEW p \in Procs, ReadTarget(p),
         UNCHANGED <<data, tikm, cached, job>>
  PROVE  /\ ManifestInv'
         /\ target'[p] = base_ckpt /\ \A q \in Procs : q # p => target'[q] = target[q]
<1>1. target'[p] = base_ckpt /\ \A q \in Procs : q # p => target'[q] = target[q]
  BY DEF TypeOK, ReadTarget
<1> QED
  BY <1>1 DEF ManifestInv, data

\* Process p loads and caches the manifest.
LEMMA LoadedGood ==
  ASSUME TypeOK, LogInv, ManifestInv, NEW p \in Procs, LoadTarget(p),
         UNCHANGED <<data, target, job>>
  PROVE  /\ ManifestInv'
         /\ cached'[p] = LoadManifestAt(target[p])
         /\ \A q \in Procs : q # p => cached'[q] = cached[q]
         /\ Sound(log, cached'[p], target[p])
         /\ target[p] = base_ckpt => NoData(log, cached'[p].ckpt, base_ckpt)
<1>1. /\ cached'[p] = LoadManifestAt(target[p]) /\ tikm' = LoadManifestAt(target[p])
      /\ \A q \in Procs : q # p => cached'[q] = cached[q]
  BY DEF TypeOK, LoadTarget
<1>2. target[p] \in Lsn /\ (target[p] # 0 => bases[target[p]] # Missing)
  BY DEF TypeOK, ManifestInv
<1>3. /\ Good(log, LoadManifestAt(target[p])) /\ Sound(log, LoadManifestAt(target[p]), target[p])
      /\ target[p] = base_ckpt => NoData(log, LoadManifestAt(target[p]).ckpt, base_ckpt)
  BY <1>2, LoadGood
<1>4. ManifestInv'
  BY <1>1, <1>3 DEF ManifestInv, data
<1> QED
  BY <1>1, <1>3, <1>4

LEMMA GetTargetStep ==
  ASSUME TypeOK, StoreInv, NEW b \in Backends, GetTarget(b)
  PROVE  StoreInv'
<1> USE DEF data
<1>1. /\ b \in Procs /\ \A c \in Compactors : c # b /\ c \in Procs
      /\ ReadTarget(b) /\ UNCHANGED <<data, redo_ckpt, tikm, cached, job, cpc>>
  BY StoreAssumption DEF Procs, GetTarget, storage, timeline, history
<1>2. ManifestInv' /\ \A c \in Compactors : target'[c] = target[c]
  BY <1>1, TargetGood DEF StoreInv
<1>3. LogInv' /\ SegmentInv' /\ RaceInv'
  BY <1>1 DEF StoreInv, LogInv, SegmentInv, RaceInv
<1>4. JobsInv'
  BY <1>1, <1>2 DEF StoreInv, JobsInv, JobInv, UnracedInv
<1> QED
  BY <1>2, <1>3, <1>4 DEF StoreInv

LEMMA GetLoadStep ==
  ASSUME TypeOK, StoreInv, NEW b \in Backends, GetLoad(b)
  PROVE  StoreInv'
<1> USE DEF data
<1>1. /\ b \in Procs /\ \A c \in Compactors : c # b /\ c \in Procs
      /\ LoadTarget(b) /\ UNCHANGED <<data, redo_ckpt, target, job, cpc>>
  BY StoreAssumption DEF Procs, GetLoad, timeline, history
<1>2. ManifestInv' /\ \A c \in Compactors : cached'[c] = cached[c]
  BY <1>1, LoadedGood DEF StoreInv
<1>3. LogInv' /\ SegmentInv' /\ RaceInv'
  BY <1>1 DEF StoreInv, LogInv, SegmentInv, RaceInv
<1>4. JobsInv'
  BY <1>1, <1>2 DEF StoreInv, JobsInv, JobInv, UnracedInv
<1> QED
  BY <1>2, <1>3, <1>4 DEF StoreInv

LEMMA TargetStep ==
  ASSUME TypeOK, StoreInv, NEW c \in Compactors, CompactTarget(c)
  PROVE  StoreInv'
<1> USE DEF data
<1>1. /\ c \in Procs /\ \A d \in Compactors : d \in Procs
      /\ ReadTarget(c) /\ UNCHANGED <<data, redo_ckpt, tikm, cached, job>>
      /\ cpc[c] = "base" /\ cpc'[c] = (IF cached[c].ckpt = base_ckpt THEN "put" ELSE "load")
      /\ \A d \in Compactors : d # c => cpc'[d] = cpc[d]
  BY DEF Procs, CompactTarget, Goto, storage, timeline, history, TypeOK
<1>2. /\ ManifestInv' /\ target'[c] = base_ckpt
      /\ \A d \in Compactors : d # c => target'[d] = target[d]
  BY <1>1, TargetGood DEF StoreInv
<1>3. LogInv' /\ SegmentInv'
  BY <1>1 DEF StoreInv, LogInv, SegmentInv
<1>4. RaceInv'
  BY <1>1 DEF StoreInv, RaceInv, Active, Compactors
<1>5. ASSUME NEW d \in Compactors, d # c PROVE JobInv(d)' /\ UnracedInv(d)'
  BY <1>1, <1>2, <1>5 DEF StoreInv, JobsInv, JobInv, UnracedInv
<1>6. JobInv(c)' /\ UnracedInv(c)'
  <2>1. JobInv(c) /\ UnracedInv(c)
    BY DEF StoreInv, JobsInv
  <2>2. cached[c].ckpt = base_ckpt => UnfoldedCovered(log, job[c], cached[c])
    BY <1>1, <2>1 DEF StoreInv, ManifestInv, Good, Sound, JobInv, UnfoldedUpTo, UnfoldedCovered
  <2>3. cached[c].ckpt = base_ckpt => NoData(log, cached[c].ckpt, base_ckpt)
    BY NoDataSelf, LsnInt DEF TypeOK
  <2>4. CASE cached[c].ckpt = base_ckpt
    BY <1>1, <1>2, <2>1, <2>2, <2>3, <2>4 DEF JobInv, UnracedInv, Active
  <2>5. CASE cached[c].ckpt # base_ckpt
    BY <1>1, <1>2, <2>1, <2>5 DEF JobInv, UnracedInv, Active
  <2> QED
    BY <2>4, <2>5
<1> QED
  BY <1>2, <1>3, <1>4, <1>5, <1>6 DEF StoreInv, JobsInv

LEMMA FetchStep ==
  ASSUME TypeOK, StoreInv, NEW c \in Compactors, CompactFetch(c)
  PROVE  StoreInv'
<1> USE DEF data
<1>1. /\ c \in Procs /\ \A d \in Compactors : d \in Procs
      /\ LoadTarget(c) /\ UNCHANGED <<data, redo_ckpt, target, job>>
      /\ cpc[c] = "load" /\ cpc'[c] = "put"
      /\ \A d \in Compactors : d # c => cpc'[d] = cpc[d]
  BY DEF Procs, CompactFetch, Goto, timeline, history, TypeOK
<1>2. /\ ManifestInv'
      /\ \A d \in Compactors : d # c => cached'[d] = cached[d]
      /\ Sound(log, cached'[c], target[c])
      /\ target[c] = base_ckpt => NoData(log, cached'[c].ckpt, base_ckpt)
  BY <1>1, LoadedGood DEF StoreInv
<1>3. LogInv' /\ SegmentInv'
  BY <1>1 DEF StoreInv, LogInv, SegmentInv
<1>4. RaceInv'
  BY <1>1 DEF StoreInv, RaceInv, Active, Compactors
<1>5. ASSUME NEW d \in Compactors, d # c PROVE JobInv(d)' /\ UnracedInv(d)'
  BY <1>1, <1>2, <1>5 DEF StoreInv, JobsInv, JobInv, UnracedInv
<1>6. JobInv(c)' /\ UnracedInv(c)'
  <2>1. JobInv(c) /\ UnracedInv(c)
    BY DEF StoreInv, JobsInv
  <2>2. UnfoldedCovered(log, job[c], cached'[c])
    BY <1>1, <1>2, <2>1 DEF Sound, JobInv, UnfoldedUpTo, UnfoldedCovered
  <2> QED
    BY <1>1, <1>2, <2>1, <2>2 DEF JobInv, UnracedInv, Active
<1> QED
  BY <1>2, <1>3, <1>4, <1>5, <1>6 DEF StoreInv, JobsInv

-----------------------------------------------------------------------------
(* Compaction up to the fold *)

LEMMA SnapshotStep ==
  ASSUME TypeOK, StoreInv, NEW c \in Compactors, CompactSnapshot(c)
  PROVE  StoreInv'
<1> USE DEF data
<1> DEFINE upper == IF job[c].through THEN job[c].upper
                    ELSE IF redo_ckpt = 0 THEN head_ckpt ELSE redo_ckpt
<1>1. /\ UNCHANGED <<data, redo_ckpt, tikm, cached, target>>
      /\ cpc[c] = "snapshot" /\ cpc'[c] \in {"list", "end"}
      /\ \A d \in Compactors : d # c => cpc'[d] = cpc[d] /\ job'[d] = job[d]
      /\ job' = [job EXCEPT ![c].base = base_ckpt, ![c].upper = upper]
  BY DEF CompactSnapshot, Goto, storage, timeline, history, TypeOK
<1>2. /\ job'[c].base = base_ckpt /\ job'[c].upper = upper /\ job'[c].new = job[c].new
      /\ job'[c].through = job[c].through /\ job'[c].applied = job[c].applied
  BY <1>1 DEF TypeOK, Jobs
<1>3. LogInv' /\ SegmentInv'
  BY <1>1 DEF StoreInv, LogInv, SegmentInv
<1>4. ManifestInv'
  BY <1>1, <1>2 DEF StoreInv, ManifestInv
<1>5. ASSUME NEW d \in Compactors, d # c PROVE JobInv(d)' /\ UnracedInv(d)'
  BY <1>1, <1>5 DEF StoreInv, JobsInv, JobInv, UnracedInv
<1>6. JobInv(c)' /\ UnracedInv(c)'
  <2>1. JobInv(c) /\ base_ckpt <= head_ckpt
    BY DEF StoreInv, JobsInv, LogInv
  <2>2. base_ckpt \in Int /\ head_ckpt \in Int /\ redo_ckpt \in Int /\ log \in SUBSET SegmentCheckpoint
    BY LsnInt DEF TypeOK
  <2>3. upper <= head_ckpt + 1 \/ upper <= redo_ckpt
    BY <2>1, <2>2 DEF JobInv
  <2>4. NoData(log, base_ckpt, base_ckpt)
    BY <2>2, NoDataSelf
  <2> HIDE DEF upper
  <2> QED
    BY <1>1, <1>2, <2>1, <2>3, <2>4 DEF JobInv, UnracedInv, Active
<1>7. RaceInv'
  <2>1. base_ckpt \in Int
    BY LsnInt DEF TypeOK
  <2> HIDE DEF upper
  <2>2. CASE c = "worker"
    BY <1>1, <1>2, <2>1, <2>2 DEF StoreInv, RaceInv, Active, Compactors
  <2>3. CASE c = "checkpointer"
    BY <1>1, <1>2, <2>1, <2>3 DEF StoreInv, RaceInv, Active, Compactors
  <2> QED
    BY <2>2, <2>3 DEF Compactors
<1> QED
  BY <1>3, <1>4, <1>5, <1>6, <1>7 DEF StoreInv, JobsInv

LEMMA LoadStep ==
  ASSUME TypeOK, StoreInv, NEW c \in Compactors, CompactLoad(c)
  PROVE  StoreInv'
<1> USE DEF data
<1> DEFINE scs == {sc \in segments : job[c].base < sc.ckpt /\ sc.ckpt < job[c].upper}
<1>1. /\ UNCHANGED <<data, redo_ckpt, tikm, cached, target>>
      /\ cpc[c] = "list" /\ cpc'[c] \in {"base", "end"}
      /\ \A d \in Compactors : d # c => cpc'[d] = cpc[d] /\ job'[d] = job[d]
  BY DEF CompactLoad, Goto, storage, timeline, history, TypeOK
<1>2. /\ job'[c].base = job[c].base /\ job'[c].upper = job[c].upper /\ job'[c].new = job[c].new
      /\ job'[c].through = job[c].through /\ job'[c].applied = job[c].applied
      /\ job'[c].apply = scs
  BY DEF CompactLoad, TypeOK, Jobs
<1>3. LogInv' /\ SegmentInv'
  BY <1>1 DEF StoreInv, LogInv, SegmentInv
<1>4. ManifestInv'
  BY <1>1, <1>2 DEF StoreInv, ManifestInv
<1>5. ASSUME NEW d \in Compactors, d # c PROVE JobInv(d)' /\ UnracedInv(d)'
  BY <1>1, <1>5 DEF StoreInv, JobsInv, JobInv, UnracedInv
<1>6. JobInv(c)' /\ UnracedInv(c)'
  <2>1. JobInv(c)
    BY DEF StoreInv, JobsInv
  <2>2. UnfoldedUpTo(log, job'[c], base_ckpt)
    <3> SUFFICES ASSUME NEW sc \in log, sc.chunks # {}, sc.ckpt < job[c].upper, sc \notin scs
                 PROVE  sc.ckpt <= base_ckpt
      BY <1>2 DEF UnfoldedUpTo
    <3>1. sc.ckpt \in Int /\ base_ckpt \in Int /\ job[c].base \in Int
      BY LsnInt DEF TypeOK, Jobs
    <3>2. CASE sc \notin segments
      BY <3>2 DEF StoreInv, SegmentInv
    <3>3. CASE sc.ckpt <= job[c].base
      BY <1>1, <2>1, <3>1, <3>3 DEF JobInv, Active, NoData
    <3> QED
      BY <3>1, <3>2, <3>3
  <2>3. \A sc \in scs : job[c].base < sc.ckpt /\ sc.ckpt < job[c].upper
    OBVIOUS
  <2> HIDE DEF scs
  <2> QED
    BY <1>1, <1>2, <2>1, <2>2, <2>3 DEF JobInv, UnracedInv, Active
<1>7. RaceInv'
  <2> HIDE DEF scs
  <2>1. CASE c = "worker"
    BY <1>1, <1>2, <2>1 DEF StoreInv, RaceInv, Active, Compactors
  <2>2. CASE c = "checkpointer"
    BY <1>1, <1>2, <2>2 DEF StoreInv, RaceInv, Active, Compactors
  <2> QED
    BY <2>1, <2>2 DEF Compactors
<1> QED
  BY <1>3, <1>4, <1>5, <1>6, <1>7 DEF StoreInv, JobsInv
-----------------------------------------------------------------------------
(* The fold *)

\* The manifest a compactor puts accounts for every interval up to its header
\* and up to its key, and the key has data only where the header is the key.
LEMMA FoldGood ==
  ASSUME TypeInv, StoreInv, NEW c \in Compactors, cpc[c] = "put",
         NEW applied, applied = ApplySegments(cached[c], job[c].apply),
         NEW new, new = IF job[c].through THEN applied.ckpt ELSE Newest(job[c].apply).ckpt
  PROVE  /\ applied \in Manifest /\ applied # Missing /\ Good(log, applied)
         /\ new \in Lsn /\ new <= head_ckpt /\ Sound(log, applied, new)
         /\ job[c].through => applied.ckpt = new
         /\ new \in DataCkpts(log) => applied.ckpt = new
         /\ ~job[c].through => job[c].base < new
         /\ base_ckpt = job[c].base => NoData(log, new, base_ckpt)
         /\ base_ckpt = job[c].base /\ ~job[c].through => NoData(log, applied.ckpt, new)
<1> DEFINE m == cached[c]
           scs == job[c].apply
<1>1. /\ m \in Manifest /\ Good(log, m) /\ scs \in SUBSET SegmentCheckpoint /\ scs \subseteq log
      /\ log \in SUBSET SegmentCheckpoint /\ scs # {}
  BY DEF TypeInv, TypeOK, FoldInv, Jobs, Procs, StoreInv, ManifestInv
<1>2. /\ base_ckpt \in Int /\ head_ckpt \in Int /\ job[c].base \in Int /\ job[c].upper \in Int
      /\ m.ckpt \in Int
  BY <1>1, LsnInt DEF TypeInv, TypeOK, Jobs
<1>3. /\ \A sc \in scs : job[c].base < sc.ckpt /\ sc.ckpt < job[c].upper
      /\ UnfoldedUpTo(log, job[c], base_ckpt)
      /\ UnfoldedCovered(log, job[c], m)
      /\ base_ckpt = job[c].base => NoData(log, m.ckpt, base_ckpt)
  BY DEF StoreInv, JobsInv, JobInv, UnracedInv
<1>4. /\ applied \in Manifest
      /\ \A t \in Chunks : applied.refs[t] >= m.refs[t]
      /\ \A sc \in scs : Covers(applied, sc)
      /\ (\A sc \in scs : sc.chunks = {}) => applied.ckpt = m.ckpt
      /\ \A sc \in scs : sc.chunks # {} => sc.ckpt <= applied.ckpt
      /\ (\E sc \in scs : sc.chunks # {}) =>
           \E sc \in scs : sc.chunks # {} /\ sc.ckpt = applied.ckpt
  BY <1>1, Applied
<1>5. /\ Newest(scs) \in scs
      /\ \A sc \in scs : sc.ckpt <= Newest(scs).ckpt
  BY <1>1, NewestExists
<1> DEFINE last == Newest(scs)
<1> HIDE DEF last, m, scs
<1>6. /\ applied.ckpt \in Int /\ last.ckpt \in Int
      /\ \A sc \in log : sc.ckpt \in Int /\ sc.prev \in Int /\ sc.chunks \subseteq Chunks
      /\ \A t \in Chunks : applied.refs[t] \in Int /\ m.refs[t] \in Int
  BY <1>1, <1>4, <1>5, LsnInt DEF last, Manifest, NoRef, SegmentCheckpoint
<1>7. ASSUME NEW sc \in log, Covers(m, sc) PROVE Covers(applied, sc)
  BY <1>4, <1>6, <1>7 DEF Covers
<1>8. ASSUME NEW sc \in log, sc.ckpt < job[c].upper \/ sc.ckpt <= m.ckpt
      PROVE  Covers(applied, sc)
  <2>1. CASE sc \in scs
    BY <1>4, <2>1
  <2>2. CASE sc.chunks = {}
    BY <2>2 DEF Covers
  <2>3. CASE sc.ckpt <= m.ckpt
    BY <1>1, <1>7, <2>3 DEF Good, Sound
  <2>4. CASE sc \notin scs /\ sc.chunks # {} /\ sc.ckpt < job[c].upper
    BY <1>3, <1>7, <2>4 DEF UnfoldedCovered, scs
  <2> QED
    BY <1>8, <2>1, <2>2, <2>3, <2>4
<1>9. \/ applied.ckpt = m.ckpt
      \/ applied.ckpt < job[c].upper /\ applied.ckpt \in DataCkpts(log)
  <2>1. CASE \A sc \in scs : sc.chunks = {}
    BY <1>4, <2>1
  <2>2. CASE \E sc \in scs : sc.chunks # {}
    <3>1. PICK sc \in scs : sc.chunks # {} /\ sc.ckpt = applied.ckpt
      BY <1>4, <2>2
    <3> QED
      BY <1>1, <1>3, <3>1 DEF DataCkpts
  <2> QED
    BY <2>1, <2>2
<1>10. last \in log /\ last.ckpt < job[c].upper /\ job[c].base < last.ckpt
  BY <1>1, <1>3, <1>5 DEF last
<1>11. new \in {applied.ckpt, last.ckpt} /\ new \in Int
  BY <1>6 DEF last, scs
<1>12. Good(log, applied)
  BY <1>1, <1>2, <1>6, <1>8, <1>9 DEF Good, Sound
<1>13. Sound(log, applied, last.ckpt)
  BY <1>2, <1>6, <1>8, <1>10 DEF Sound
<1>14. Sound(log, applied, new)
  BY <1>11, <1>12, <1>13 DEF Good
<1>15. new \in Lsn /\ new <= head_ckpt /\ applied # Missing
  <2>1. applied.ckpt \in Lsn /\ last.ckpt \in Lsn
    BY <1>1, <1>4, <1>10 DEF Manifest, SegmentCheckpoint
  <2>2. last.ckpt <= head_ckpt
    BY <1>10 DEF StoreInv, LogInv
  <2>3. applied.ckpt <= head_ckpt
    <3>1. applied.ckpt \in DataCkpts(log) \cup {0}
      BY <1>12 DEF Good
    <3>2. 0 <= head_ckpt
      BY LsnInt DEF TypeInv, TypeOK
    <3> QED
      BY <3>1, <3>2 DEF DataCkpts, StoreInv, LogInv
  <2>4. applied # Missing
    BY <2>1, LsnInt DEF Missing, NoRef
  <2> QED
    BY <1>11, <2>1, <2>2, <2>3, <2>4
<1>16. job[c].through => applied.ckpt = new
  OBVIOUS
<1>17. ~job[c].through => new = last.ckpt
  BY DEF last, scs
<1>18. new \in DataCkpts(log) => applied.ckpt = new
  <2> SUFFICES ASSUME new \in DataCkpts(log), ~job[c].through PROVE applied.ckpt = new
    BY <1>16
  <2>1. PICK sc \in log : sc.chunks # {} /\ sc.ckpt = new
    BY DEF DataCkpts
  <2>2. sc = last
    BY <1>10, <1>17, <2>1 DEF StoreInv, LogInv
  <2>3. last.chunks # {} /\ last \in scs
    BY <1>5, <2>1, <2>2 DEF last
  <2>4. last.ckpt <= applied.ckpt
    BY <1>4, <2>3
  <2>5. applied.ckpt <= last.ckpt
    BY <1>4, <1>5, <2>3 DEF last
  <2> QED
    BY <1>6, <1>17, <2>4, <2>5
<1>19. base_ckpt = job[c].base => NoData(log, new, base_ckpt)
  <2> SUFFICES ASSUME base_ckpt = job[c].base PROVE NoData(log, new, base_ckpt)
    OBVIOUS
  <2>1. CASE ~job[c].through
    <3>1. base_ckpt <= new
      BY <1>2, <1>6, <1>10, <1>17, <2>1
    <3> QED
      BY <1>1, <1>2, <1>11, <3>1, NoDataSelf
  <2>2. CASE job[c].through /\ \A sc \in scs : sc.chunks = {}
    BY <1>3, <1>4, <1>16, <2>2
  <2>3. CASE job[c].through /\ \E sc \in scs : sc.chunks # {}
    <3>1. base_ckpt <= new
      BY <1>1, <1>2, <1>3, <1>4, <1>6, <1>16, <2>3
    <3> QED
      BY <1>1, <1>2, <1>11, <3>1, NoDataSelf
  <2> QED
    BY <2>1, <2>2, <2>3
<1>20. base_ckpt = job[c].base /\ ~job[c].through => NoData(log, applied.ckpt, new)
  <2> SUFFICES ASSUME base_ckpt = job[c].base, ~job[c].through,
                      NEW sc \in log, applied.ckpt < sc.ckpt, sc.ckpt <= new, sc.chunks # {}
               PROVE  FALSE
    BY DEF NoData
  <2>1. sc.ckpt < job[c].upper
    BY <1>2, <1>6, <1>10, <1>17
  <2>2. sc \notin scs
    BY <1>4, <1>6
  <2>3. sc.ckpt <= base_ckpt
    BY <1>3, <2>1, <2>2 DEF UnfoldedUpTo, scs
  <2>4. CASE \A o \in scs : o.chunks = {}
    BY <1>3, <1>4, <2>3, <2>4 DEF NoData
  <2>5. CASE \E o \in scs : o.chunks # {}
    BY <1>1, <1>2, <1>3, <1>4, <1>6, <2>3, <2>5
  <2> QED
    BY <2>4, <2>5
<1> QED
  BY <1>2, <1>4, <1>10, <1>12, <1>14, <1>15, <1>16, <1>17, <1>18, <1>19, <1>20

LEMMA PutStep ==
  ASSUME TypeInv, StoreInv, NEW c \in Compactors, CompactPut(c)
  PROVE  StoreInv'
<1> USE DEF data
<1> DEFINE applied == ApplySegments(cached[c], job[c].apply)
           new == IF job[c].through THEN applied.ckpt ELSE Newest(job[c].apply).ckpt
<1>1. /\ UNCHANGED <<log, segments, head_ckpt, base_ckpt, redo_ckpt, tikm, cached, target>>
      /\ cpc[c] = "put" /\ cpc'[c] = "publish"
      /\ \A d \in Compactors : d # c => cpc'[d] = cpc[d] /\ job'[d] = job[d]
      /\ bases' = [bases EXCEPT ![new] = applied]
  BY DEF CompactPut, Goto, timeline, history, TypeInv, TypeOK
<1>2. /\ job'[c].base = job[c].base /\ job'[c].upper = job[c].upper
      /\ job'[c].through = job[c].through
      /\ job'[c].new = new /\ job'[c].applied = applied
  BY DEF CompactPut, TypeInv, TypeOK, Jobs
<1>3. /\ applied \in Manifest /\ applied # Missing /\ Good(log, applied)
      /\ new \in Lsn /\ new <= head_ckpt /\ Sound(log, applied, new)
      /\ job[c].through => applied.ckpt = new
      /\ new \in DataCkpts(log) => applied.ckpt = new
      /\ ~job[c].through => job[c].base < new
      /\ base_ckpt = job[c].base => NoData(log, new, base_ckpt)
      /\ base_ckpt = job[c].base /\ ~job[c].through => NoData(log, applied.ckpt, new)
  BY <1>1, FoldGood
<1> HIDE DEF applied, new
<1>4. /\ bases'[new] = applied
      /\ \A k \in Lsn : k # new => bases'[k] = bases[k]
      /\ \A k \in Lsn : bases[k] # Missing => bases'[k] # Missing
  BY <1>1, <1>3 DEF TypeInv, TypeOK
<1>5. /\ base_ckpt \in Lsn /\ base_ckpt \in Int /\ log \in SUBSET SegmentCheckpoint
      /\ new \in Int /\ job[c].base \in Int /\ job[c].base >= 0
      /\ \A d \in Compactors : job[d].new \in Lsn
      /\ \A p \in Procs : target[p] \in Lsn
  BY <1>3, LsnInt DEF TypeInv, TypeOK, Jobs
<1>6. LogInv' /\ SegmentInv'
  BY <1>1 DEF StoreInv, LogInv, SegmentInv
<1>7. c = "worker" <=> ~job[c].through
  BY <1>1 DEF StoreInv, RaceInv, Active, Compactors
<1>8. c = "worker" /\ base_ckpt = new => applied.ckpt = new
  <2> SUFFICES ASSUME c = "worker", base_ckpt = new PROVE new \in DataCkpts(log)
    BY <1>3
  <2> QED
    BY <1>1, <1>3, <1>5, <1>7 DEF StoreInv, RaceInv, Active
<1>9. ManifestInv'
  <2>1. base_ckpt # 0 => bases'[base_ckpt] # Missing /\ NoData(log, bases'[base_ckpt].ckpt, base_ckpt)
    <3>1. CASE base_ckpt = new
      <4>1. applied.ckpt = new
        BY <1>3, <1>7, <1>8, <3>1
      <4> QED
        BY <1>3, <1>4, <1>5, <3>1, <4>1, NoDataSelf
    <3>2. CASE base_ckpt # new
      BY <1>4, <1>5, <3>2 DEF StoreInv, ManifestInv
    <3> QED
      BY <3>1, <3>2
  <2>2. \A k \in Lsn : bases'[k] # Missing =>
          k <= head_ckpt /\ Good(log, bases'[k]) /\ Sound(log, bases'[k], k)
    BY <1>3, <1>4 DEF StoreInv, ManifestInv
  <2>3. \A d \in Compactors : Good(log, job'[d].applied)
    BY <1>1, <1>2, <1>3 DEF StoreInv, ManifestInv
  <2>4. \A p \in Procs : target[p] # 0 => bases'[target[p]] # Missing
    BY <1>4, <1>5 DEF StoreInv, ManifestInv
  <2> QED
    BY <1>1, <2>1, <2>2, <2>3, <2>4 DEF StoreInv, ManifestInv
<1>10. JobInv(c)'
  BY <1>1, <1>2, <1>3, <1>4 DEF StoreInv, JobsInv, JobInv, Active
<1>11. UnracedInv(c)'
  BY <1>1, <1>2, <1>3, <1>4, <1>7 DEF UnracedInv
<1>12. ASSUME NEW d \in Compactors, d # c PROVE JobInv(d)'
  BY <1>1, <1>4, <1>5, <1>12 DEF StoreInv, JobsInv, JobInv
<1>13. ASSUME NEW d \in Compactors, d # c PROVE UnracedInv(d)'
  <2>1. d = "worker" => c = "checkpointer" /\ applied.ckpt = new
    BY <1>3, <1>7, <1>13 DEF Compactors
  <2>2. d = "worker" /\ job[d].new = new => NoData(log, applied.ckpt, new)
    BY <1>5, <2>1, NoDataSelf
  <2>3. d = "worker" /\ job[d].new # new => bases'[job[d].new] = bases[job[d].new]
    BY <1>4, <1>5
  <2>4. UnracedInv(d)
    BY DEF StoreInv, JobsInv
  <2> QED
    BY <1>1, <1>4, <1>13, <2>2, <2>3, <2>4 DEF UnracedInv
<1>14. RaceInv'
  <2>1. CASE c = "worker"
    <3>1. /\ cpc'["worker"] = "publish" /\ cpc["worker"] = "put"
          /\ job'["worker"].base = job["worker"].base /\ job'["worker"].new = new
          /\ ~job'["worker"].through /\ job["worker"].base < new
          /\ cpc'["checkpointer"] = cpc["checkpointer"]
          /\ job'["checkpointer"] = job["checkpointer"]
      BY <1>1, <1>2, <1>3, <1>7, <2>1 DEF Compactors
    <3>2. cpc["checkpointer"] \in {"publish", "set_base"} =>
            bases'[job["checkpointer"].new].ckpt = job["checkpointer"].new
      <4>1. CASE job["checkpointer"].new = new
        <5>1. new # 0
          BY <1>5, <2>1, <3>1
        <5> QED
          BY <1>3, <1>4, <4>1, <5>1 DEF StoreInv, RaceInv
      <4>2. CASE job["checkpointer"].new # new
        BY <1>4, <1>5, <4>2 DEF StoreInv, RaceInv, Compactors
      <4> QED
        BY <4>1, <4>2
    <3> QED
      BY <1>1, <3>1, <3>2 DEF StoreInv, RaceInv, Active
  <2>2. CASE c = "checkpointer"
    <3>1. /\ cpc'["checkpointer"] = "publish" /\ cpc["checkpointer"] = "put"
          /\ job'["checkpointer"].base = job["checkpointer"].base
          /\ job'["checkpointer"].new = new
          /\ job'["checkpointer"].through
          /\ cpc'["worker"] = cpc["worker"] /\ job'["worker"] = job["worker"]
      BY <1>1, <1>2, <1>7, <2>2 DEF Compactors
    <3>2. bases'[new].ckpt = new /\ new \in DataCkpts(log) \cup {0}
      BY <1>3, <1>4, <1>7, <2>2 DEF Good
    <3> QED
      BY <1>1, <3>1, <3>2 DEF StoreInv, RaceInv, Active
  <2> QED
    BY <2>1, <2>2 DEF Compactors
<1> QED
  BY <1>6, <1>9, <1>10, <1>11, <1>12, <1>13, <1>14 DEF StoreInv, JobsInv
-----------------------------------------------------------------------------
(* Publishing the new base *)

LEMMA PublishStep ==
  ASSUME TypeOK, StoreInv, NEW c \in Compactors, CompactPublish(c)
  PROVE  StoreInv'
<1> USE DEF data
<1>1. /\ UNCHANGED <<data, redo_ckpt, cached, target, job>> /\ tikm' = job[c].applied
      /\ cpc[c] = "publish" /\ cpc'[c] = "set_base"
      /\ \A d \in Compactors : d # c => cpc'[d] = cpc[d]
  BY DEF CompactPublish, Goto, timeline, history, TypeOK
<1>2. LogInv' /\ SegmentInv'
  BY <1>1 DEF StoreInv, LogInv, SegmentInv
<1>3. ManifestInv'
  BY <1>1 DEF StoreInv, ManifestInv
<1>4. ASSUME NEW d \in Compactors PROVE JobInv(d)' /\ UnracedInv(d)'
  <2>1. CASE d = c
    BY <1>1, <2>1 DEF StoreInv, JobsInv, JobInv, UnracedInv, Active
  <2>2. CASE d # c
    BY <1>1, <2>2 DEF StoreInv, JobsInv, JobInv, UnracedInv
  <2> QED
    BY <2>1, <2>2
<1>5. RaceInv'
  BY <1>1 DEF StoreInv, RaceInv, Active, Compactors
<1> QED
  BY <1>2, <1>3, <1>4, <1>5 DEF StoreInv, JobsInv

\* The other compactor never takes the new base for the one it started from,
\* unless the base did not move at all.
LEMMA NoABA ==
  ASSUME TypeOK, StoreInv, NEW c \in Compactors, NEW d \in Compactors, d # c,
         cpc[c] = "set_base", base_ckpt = job[c].base,
         cpc[d] \in Active, job[c].new = job[d].base
  PROVE  job[c].new = base_ckpt
<1>1. /\ base_ckpt \in Int /\ log \in SUBSET SegmentCheckpoint /\ base_ckpt >= 0
      /\ job[c].new \in Int /\ job[c].new >= 0 /\ job[d].base \in Int
  BY LsnInt DEF TypeOK, Jobs
<1>2. NoData(log, base_ckpt, job[d].base) /\ NoData(log, job[c].new, base_ckpt)
  BY DEF StoreInv, JobsInv, JobInv, UnracedInv, Active
<1>3. CASE c = "worker" /\ d = "checkpointer"
  BY <1>1, <1>3 DEF StoreInv, RaceInv, Active
<1>4. CASE c = "checkpointer" /\ d = "worker"
  <2> SUFFICES ASSUME base_ckpt # job[d].base PROVE FALSE
    OBVIOUS
  <2>1. /\ base_ckpt \in DataCkpts(log) \cup {0}
        /\ job[c].new \in DataCkpts(log) \cup {0}
    BY <1>4 DEF StoreInv, RaceInv, Active
  <2>2. base_ckpt <= job[c].new
    BY <1>1, <1>2, <2>1, DataAbove
  <2>3. job[c].new \in DataCkpts(log)
    BY <1>1, <2>1, <2>2
  <2>4. job[c].new <= base_ckpt
    BY <1>1, <1>2, <2>3, DataAbove
  <2> QED
    BY <1>1, <2>2, <2>4
<1> QED
  BY <1>3, <1>4 DEF Compactors

LEMMA SetBaseStep ==
  ASSUME TypeOK, StoreInv, NEW c \in Compactors, CompactSetBase(c)
  PROVE  StoreInv'
<1> USE DEF data
<1>1. CASE base_ckpt # job[c].base
  <2>1. /\ cpc' = [cpc EXCEPT ![c] = "end"]
        /\ UNCHANGED <<data, redo_ckpt, tikm, cached, target, job>>
    BY <1>1 DEF CompactSetBase, Goto, storage, history
  <2> QED
    BY <2>1, MoveStep DEF PcValues, Active
<1>2. CASE base_ckpt = job[c].base
  <2> DEFINE new == job[c].new
  <2>1. /\ UNCHANGED <<log, segments, bases, head_ckpt, redo_ckpt, tikm, target, job>>
        /\ cpc[c] = "set_base" /\ cpc'[c] = "delete"
        /\ \A d \in Compactors : d # c => cpc'[d] = cpc[d]
        /\ base_ckpt' = new
        /\ cached' = [cached EXCEPT ![c] = job[c].applied]
    BY <1>2 DEF CompactSetBase, Goto, storage, history, TypeOK
  <2>2. /\ base_ckpt \in Int /\ log \in SUBSET SegmentCheckpoint
        /\ new \in Lsn /\ new \in Int /\ new >= 0 /\ head_ckpt \in Int
        /\ \A d \in Compactors : job[d].base \in Int /\ job[d].new \in Int
    BY LsnInt DEF TypeOK, Jobs
  <2>3. /\ JobInv(c) /\ UnracedInv(c)
        /\ NoData(log, new, base_ckpt) /\ bases[new] # Missing /\ new <= head_ckpt
    BY <1>2, <2>1 DEF StoreInv, JobsInv, JobInv, UnracedInv
  <2>4. \A p \in Procs : cached'[p] = IF p = c THEN job[c].applied ELSE cached[p]
    BY <2>1 DEF TypeOK
  <2>5. LogInv'
    BY <2>1, <2>3 DEF StoreInv, LogInv
  <2>6. SegmentInv'
    BY <2>1, <2>2, <2>3, LsnInt DEF StoreInv, SegmentInv, NoData
  <2>7. ManifestInv'
    <3>1. NoData(log, bases[new].ckpt, new)
      <4>1. CASE c = "worker"
        BY <1>2, <2>1, <2>3, <4>1 DEF UnracedInv
      <4>2. CASE c = "checkpointer"
        <5>1. bases[new].ckpt = new
          BY <2>1, <4>2 DEF StoreInv, RaceInv
        <5> QED
          BY <2>2, <5>1, NoDataSelf
      <4> QED
        BY <4>1, <4>2 DEF Compactors
    <3>2. \A p \in Procs : Good(log, cached'[p])
      BY <2>4 DEF StoreInv, ManifestInv
    <3> QED
      BY <2>1, <2>3, <3>1, <3>2 DEF StoreInv, ManifestInv
  <2>8. JobInv(c)' /\ UnracedInv(c)'
    <3>1. NoData(log, new, new)
      BY <2>2, NoDataSelf
    <3> QED
      BY <2>1, <2>3, <3>1 DEF JobInv, UnracedInv, Active
  <2>9. ASSUME NEW d \in Compactors, d # c PROVE JobInv(d)'
    <3>1. JobInv(d)
      BY DEF StoreInv, JobsInv
    <3>2. /\ NoData(log, base_ckpt, job[d].base) => NoData(log, new, job[d].base)
          /\ NoData(log, base_ckpt, job[d].new) => NoData(log, new, job[d].new)
      BY <2>2, <2>3, NoDataTrans
    <3>3. UnfoldedUpTo(log, job[d], base_ckpt) => UnfoldedUpTo(log, job[d], new)
      BY <2>2, <2>3, LsnInt DEF UnfoldedUpTo, NoData
    <3>4. cached'[d] = cached[d]
      BY <2>4, <2>9 DEF Procs
    <3> QED
      BY <2>1, <2>9, <3>1, <3>2, <3>3, <3>4 DEF JobInv
  <2>10. ASSUME NEW d \in Compactors, d # c PROVE UnracedInv(d)'
    <3>1. UnracedInv(d)
      BY DEF StoreInv, JobsInv
    <3>2. cpc[d] \in Active /\ new = job[d].base => new = base_ckpt
      BY <1>2, <2>1, <2>10, NoABA
    <3>3. cached'[d] = cached[d]
      BY <2>4, <2>10 DEF Procs
    <3> QED
      BY <2>1, <2>10, <3>1, <3>2, <3>3 DEF UnracedInv, Active
  <2>11. RaceInv'
    <3>1. CASE c = "worker"
      <4>1. cpc["checkpointer"] \in Active => job["checkpointer"].base <= new
        BY <1>2, <2>1, <2>2, <3>1 DEF StoreInv, RaceInv, Compactors
      <4> QED
        BY <2>1, <3>1, <4>1 DEF StoreInv, RaceInv, Active, Compactors
    <3>2. CASE c = "checkpointer"
      <4>1. new \in DataCkpts(log) \cup {0}
        BY <2>1, <3>2 DEF StoreInv, RaceInv
      <4>2. new # job["worker"].base => new < job["worker"].base \/ new \in DataCkpts(log)
        <5>1. job["worker"].base >= 0 /\ job["worker"].base \in Int
          BY LsnInt DEF TypeOK, Jobs, Compactors
        <5> QED
          BY <2>2, <4>1, <5>1
      <4> QED
        BY <2>1, <3>2, <4>1, <4>2 DEF StoreInv, RaceInv, Active, Compactors
    <3> QED
      BY <3>1, <3>2 DEF Compactors
  <2> QED
    BY <2>5, <2>6, <2>7, <2>8, <2>9, <2>10, <2>11 DEF StoreInv, JobsInv
<1> QED
  BY <1>1, <1>2
-----------------------------------------------------------------------------
(* Deleting what the new base covers *)

\* Whoever shares no file with the new base and comes first lies before it.
LEMMA LowerFile ==
  ASSUME NEW a \in Lsn, NEW b \in Lsn, SegmentId(a) < SegmentId(b)
  PROVE  a < b
<1>1. a \in Nat /\ b \in Nat /\ SegRange \in Nat \ {0}
  BY StoreAssumption DEF Lsn
<1> QED
  BY <1>1, SMTT(60) DEF SegmentId

LEMMA DeleteStep ==
  ASSUME TypeOK, StoreInv, NEW c \in Compactors, CompactDelete(c)
  PROVE  StoreInv'
<1> USE DEF data
<1> DEFINE below == {i \in job[c].listed : i < SegmentId(job[c].new)}
<1>1. /\ UNCHANGED <<log, bases, head_ckpt, base_ckpt, redo_ckpt, tikm, cached, target, cpc>>
      /\ cpc[c] = "delete" /\ below # {}
      /\ segments' = segments \/ segments' = {sc \in segments : SegmentId(sc.ckpt) # Min(below)}
      /\ \A d \in Compactors : d # c => job'[d] = job[d]
  BY DEF CompactDelete, timeline, history, TypeOK
<1>2. \A d \in Compactors :
        /\ job'[d].base = job[d].base /\ job'[d].upper = job[d].upper
        /\ job'[d].through = job[d].through /\ job'[d].apply = job[d].apply
        /\ job'[d].new = job[d].new /\ job'[d].applied = job[d].applied
  BY DEF CompactDelete, TypeOK, Jobs
<1>3. Min(below) < SegmentId(job[c].new)
  <2>1. below \in SUBSET Nat
    BY DEF TypeOK, Jobs
  <2>2. Min(below) \in below
    <3> HIDE DEF below
    <3> QED
      BY <1>1, <2>1, MinPosition
  <2> QED
    BY <2>2
<1>4. ASSUME NEW sc \in log, SegmentId(sc.ckpt) = Min(below)
      PROVE  sc.ckpt <= base_ckpt \/ sc.chunks = {}
  <2>1. sc.ckpt \in Lsn /\ job[c].new \in Lsn /\ base_ckpt \in Lsn
    BY DEF TypeOK, Jobs, SegmentCheckpoint
  <2>2. sc.ckpt < job[c].new
    <3>1. SegmentId(sc.ckpt) < SegmentId(job[c].new)
      BY <1>3, <1>4
    <3> QED
      BY <2>1, <3>1, LowerFile
  <2>3. NoData(log, base_ckpt, job[c].new)
    BY <1>1 DEF StoreInv, JobsInv, JobInv
  <2> QED
    BY <2>1, <2>2, <2>3, LsnInt DEF NoData
<1> HIDE DEF below
<1>5. SegmentInv'
  BY <1>1, <1>4 DEF StoreInv, SegmentInv
<1>6. LogInv' /\ ManifestInv'
  BY <1>1, <1>2 DEF StoreInv, LogInv, ManifestInv
<1>7. \A d \in Compactors : d = c => cpc[d] = "delete"
  BY <1>1
<1>8. JobsInv'
  <2> SUFFICES ASSUME NEW d \in Compactors PROVE JobInv(d)' /\ UnracedInv(d)'
    BY DEF JobsInv
  <2>1. CASE d = c
    BY <1>1, <1>2, <2>1 DEF StoreInv, JobsInv, JobInv, UnracedInv, Active
  <2>2. CASE d # c
    BY <1>1, <2>2 DEF StoreInv, JobsInv, JobInv, UnracedInv
  <2> QED
    BY <2>1, <2>2
<1>9. RaceInv'
  BY <1>1, <1>2 DEF StoreInv, RaceInv, Compactors
<1> QED
  BY <1>5, <1>6, <1>8, <1>9 DEF StoreInv

LEMMA EndStep ==
  ASSUME TypeOK, StoreInv, NEW c \in Compactors, CompactEnd(c)
  PROVE  StoreInv'
<1> USE DEF data
<1>1. /\ UNCHANGED <<data, redo_ckpt, tikm, cached, target>>
      /\ cpc'[c] = "idle" /\ job'[c] = NoJob
      /\ \A d \in Compactors : d # c => cpc'[d] = cpc[d] /\ job'[d] = job[d]
  BY DEF CompactEnd, Goto, storage, timeline, history, TypeOK
<1>2. /\ NoJob.base = 0 /\ NoJob.new = 0 /\ NoJob.upper = 0 /\ ~NoJob.through
      /\ NoJob.applied = Empty
  BY DEF NoJob
<1>3. LogInv' /\ SegmentInv'
  BY <1>1 DEF StoreInv, LogInv, SegmentInv
<1>4. ManifestInv'
  BY <1>1, <1>2, EmptyGood DEF StoreInv, ManifestInv
<1>5. JobsInv'
  <2> SUFFICES ASSUME NEW d \in Compactors PROVE JobInv(d)' /\ UnracedInv(d)'
    BY DEF JobsInv
  <2>1. CASE d = c
    <3>1. head_ckpt \in Int /\ head_ckpt >= 0
      BY LsnInt DEF TypeOK
    <3> QED
      BY <1>1, <1>2, <2>1, <3>1 DEF JobInv, UnracedInv, Active
  <2>2. CASE d # c
    BY <1>1, <2>2 DEF StoreInv, JobsInv, JobInv, UnracedInv
  <2> QED
    BY <2>1, <2>2
<1>6. RaceInv'
  BY <1>1, <1>2 DEF StoreInv, RaceInv, Active, Compactors
<1> QED
  BY <1>3, <1>4, <1>5, <1>6 DEF StoreInv

-----------------------------------------------------------------------------
(* The theorem *)

LEMMA NextStore == TypeInv /\ StoreInv /\ [Next]_vars => StoreInv'
<1> SUFFICES ASSUME TypeInv, StoreInv, [Next]_vars PROVE StoreInv'
  OBVIOUS
<1>0. TypeOK
  BY DEF TypeInv
<1>1. ASSUME NEW b \in Backends, BackendStep(b) PROVE StoreInv'
  <2>1. ASSUME NEW t \in Chunks, PatchPut(b, t) PROVE StoreInv'
    BY <2>1, FrameStep DEF PatchPut, timeline, data
  <2>2. CASE PatchRecord(b)
    BY <2>2, FrameStep DEF PatchRecord, storage, data
  <2>3. ASSUME NEW t \in Chunks, NEW fp, GetProbe(b, t, fp) PROVE StoreInv'
    BY <2>3, FrameStep DEF GetProbe, storage, timeline, history, data
  <2>4. CASE GetSegments(b)
    BY <2>4, FrameStep DEF GetSegments, storage, timeline, history, data
  <2>5. CASE GetRef(b)
    BY <2>5, FrameStep DEF GetRef, storage, timeline, history, data
  <2>6. CASE GetReturn(b)
    BY <2>6, FrameStep DEF GetReturn, storage, timeline, history, data
  <2> QED
    BY <1>0, <1>1, <2>1, <2>2, <2>3, <2>4, <2>5, <2>6, GetTargetStep, GetLoadStep, Zenon
       DEF BackendStep
<1>2. CASE Checkpoint
  <2>1. PICK c \in Lsn, r \in Lsn :
          (\E backup \in {FALSE, Basebackups} : Commit(c, r, backup)) \/ CommitFail(c, r)
    BY <1>2, Zenon DEF Checkpoint
  <2>2. \A backup \in {FALSE, Basebackups} : backup \in BOOLEAN
    BY StoreAssumption
  <2>3. CASE CommitFail(c, r)
    BY <1>0, <2>3, FailedCommitStep
  <2> QED
    BY <1>0, <2>1, <2>2, <2>3, CommitStep, Zenon
<1>3. CASE CompactorTick
  BY <1>0, <1>3, MoveStep DEF CompactorTick, Goto, storage, timeline, history, data, PcValues,
     Active, Compactors
<1>4. CASE CompactorBegin
  BY <1>0, <1>4, MoveStep DEF CompactorBegin, Goto, storage, timeline, history, data, PcValues,
     Active, Compactors
<1>5. CASE BackupPause
  <2>1. job["checkpointer"].through
    BY <1>5 DEF BackupPause, StoreInv, RaceInv
  <2> QED
    BY <1>0, <1>5, <2>1, MoveStep DEF BackupPause, Goto, storage, timeline, history, data,
       PcValues, Active, Compactors
<1>6. CASE BackupDrain
  <2>1. job["checkpointer"].through
    BY <1>6 DEF BackupDrain, StoreInv, RaceInv
  <2> QED
    BY <1>0, <1>6, <2>1, MoveStep DEF BackupDrain, Goto, storage, timeline, history, data,
       PcValues, Active, Compactors
<1>7. ASSUME NEW c \in Compactors, CompactStep(c) PROVE StoreInv'
  <2>1. CASE CompactDeleted(c)
    BY <1>0, <2>1, MoveStep DEF CompactDeleted, Goto, storage, timeline, history, data,
       PcValues, Active
  <2>2. CASE CompactFail(c)
    BY <1>0, <2>2, MoveStep DEF CompactFail, Goto, storage, timeline, history, data,
       PcValues, Active
  <2> QED
    BY <1>0, <1>7, <2>1, <2>2, SnapshotStep, LoadStep, TargetStep, FetchStep, PutStep,
       PublishStep, SetBaseStep, DeleteStep, EndStep, Zenon DEF CompactStep
<1>8. CASE UNCHANGED vars
  BY <1>8, FrameStep DEF vars, storage, timeline, history, data
<1> QED
  BY <1>1, <1>2, <1>3, <1>4, <1>5, <1>6, <1>7, <1>8, Zenon DEF Next

LEMMA StoreInvariant == Spec => []StoreInv
BY InitStore, NextStore, TypeInvariant, PTL DEF Spec

\* An interval that run_commit_protocol has committed is, at every later point,
\* on file above base_ckpt or accounted for by the base manifest that any
\* process gets: compaction by the worker, by a base backup or by both at once,
\* failing or racing at any step, loses none.
THEOREM CommittedIntervalsKept == Spec => []NoIntervalLost
BY StoreInvariant, TypeInvariant, NothingLost, PTL DEF TypeInv
-----------------------------------------------------------------------------
(* What the manifests refer to, and what a backup finds *)

\* Every reference is to an interval that was committed with the chunk.
Known(lg, m) ==
  \A t \in Chunks : m.refs[t] = NoRef \/ \E sc \in lg : t \in sc.chunks /\ sc.prev = m.refs[t]

RefInv ==
  /\ Known(log, tikm)
  /\ \A p \in Procs : Known(log, cached[p])
  /\ \A c \in Compactors : Known(log, job[c].applied)
  /\ \A k \in Lsn : bases[k] # Missing => Known(log, bases[k])

\* A base backup compacts up to the checkpoint it has just made, and from its PUT on some
\* manifest has a key that no data lie beyond.  It need not be the one just put: if an old
\* file was left behind and a newer one deleted, the backup's own key may be below the
\* worker's.
AnchorInv ==
  /\ cpc["checkpointer"] \notin {"idle", "end"} => job["checkpointer"].upper = head_ckpt + 1
  /\ cpc["checkpointer"] \in {"publish", "set_base", "delete"} =>
       \E k \in Lsn : bases[k] # Missing /\ NoData(log, k, head_ckpt)

-----------------------------------------------------------------------------
(* Where the versions of a chunk are *)

\* Intervals follow one another.
ChainInv ==
  /\ \A sc \in log : sc.prev < sc.ckpt
  /\ \A sc, o \in log : sc.ckpt < o.ckpt => sc.ckpt <= o.prev

\* The active window is the newest end of the log.
WindowInv ==
  /\ IsFiniteSet(active_window)
  /\ log # {} => active_window # {}
  /\ \A a \in active_window, sc \in log : a.ckpt <= sc.ckpt => sc \in active_window

\* A flush of t has put its object and not yet recorded it.
Flushing(t) == \E b \in Backends : rd[b].pc = "put" /\ rd[b].tag = t

\* The draft or a committed interval says that t has an object under prefix l.
Placed(t, l) ==
  \/ l = head_ckpt /\ t \in draft
  \/ \E sc \in log : sc.prev = l /\ t \in sc.chunks

\* Newer prefixes have newer versions, and each is recorded, or about to be.
ObjInv ==
  /\ \A t \in Chunks : Flushing(t) => obj[t][head_ckpt] > 0
  /\ \A t \in Chunks, l \in Lsn :
       /\ obj[t][l] <= writes
       /\ head_ckpt < l => obj[t][l] = 0
       /\ Placed(t, l) => obj[t][l] > 0
       /\ obj[t][l] > 0 => Placed(t, l) \/ (l = head_ckpt /\ Flushing(t))
  /\ \A t \in Chunks, k, l \in Lsn : k < l /\ obj[t][l] > 0 => obj[t][k] < obj[t][l]

\* The version flushed last is in a recorded place, and without a flush in flight no other
\* is newer.
LatestInv ==
  \A t \in Chunks :
    /\ latest[t] > 0 => \E l \in Lsn : Placed(t, l) /\ obj[t][l] >= latest[t]
    /\ ~Flushing(t) => \A l \in Lsn : obj[t][l] <= latest[t]

PlaceInv == ChainInv /\ WindowInv /\ ObjInv /\ LatestInv

\* A commit that fails has lost the draft: then nothing of this is left.
PlacesInv == failures \in Nat /\ (failures = 0 => PlaceInv)

-----------------------------------------------------------------------------
(* A read in progress, without base backups *)

\* Some interval up to l has version v of t or a later one.
Behind(t, v, l) ==
  v > 0 => \E sc \in log : t \in sc.chunks /\ sc.ckpt <= l /\ obj[t][sc.prev] >= v

\* Only the worker compacts.
WorkerInv ==
  /\ cpc["checkpointer"] = "idle"
  /\ cpc["worker"] = "delete" => base_ckpt = job["worker"].new

ReadInv(b) ==
  /\ rd[b].pc = "segs" =>
       /\ rd[b].low = base_ckpt /\ rd[b].top = SegmentTop
       /\ \A id \in rd[b].listed :
            SegmentId(base_ckpt) <= id /\ id \in {SegmentId(sc.ckpt) : sc \in segments}
       /\ rd[b].floor > 0 =>
            \E sc \in log \ active_window :
              rd[b].tag \in sc.chunks /\ obj[rd[b].tag][sc.prev] >= rd[b].floor
  /\ rd[b].pc = "base" => Behind(rd[b].tag, rd[b].floor, base_ckpt)
  /\ rd[b].pc = "load" => Behind(rd[b].tag, rd[b].floor, target[b])
  /\ rd[b].pc = "ref" => Resolve(cached[b], rd[b].tag) >= rd[b].floor
  /\ rd[b].pc = "done" => rd[b].val >= rd[b].floor

ReadsInv == WorkerInv /\ (failures = 0 => \A b \in Backends : ReadInv(b))

LEMMA EmptyKnown == \A lg : Known(lg, Empty)
BY DEF Known, Empty

\* References stay known when the log grows, and those of a manifest that is folded with
\* committed intervals are to the log.
LEMMA KnownGrows ==
  ASSUME NEW lg, NEW more, lg \subseteq more, NEW m, Known(lg, m)
  PROVE  Known(more, m)
BY DEF Known

LEMMA FoldKnown ==
  ASSUME NEW lg \in SUBSET SegmentCheckpoint, NEW m \in Manifest, Known(lg, m), NEW scs \in SUBSET lg
  PROVE  Known(lg, ApplySegments(m, scs))
<1> DEFINE a == ApplySegments(m, scs)
           R(t) == {m.refs[t]} \cup {sc.prev : sc \in {o \in scs : t \in o.chunks}}
<1> SUFFICES ASSUME NEW t \in Chunks
             PROVE  a.refs[t] = NoRef \/ \E sc \in lg : t \in sc.chunks /\ sc.prev = a.refs[t]
  BY DEF Known
<1>1. R(t) \in SUBSET Int /\ R(t) # {} /\ \A x \in R(t) : x <= MaxLsn
  BY StoreAssumption DEF SegmentCheckpoint, Manifest, Lsn, NoRef
<1>2. a.refs[t] = Max(R(t))
  BY DEF ApplySegments
<1>3. Max(R(t)) \in R(t)
  <2> HIDE DEF R
  <2> QED
    BY <1>1, MaxPosition
<1>4. CASE a.refs[t] = m.refs[t]
  BY <1>4 DEF Known
<1>5. CASE a.refs[t] # m.refs[t]
  <2>1. PICK sc \in scs : t \in sc.chunks /\ sc.prev = a.refs[t]
    BY <1>2, <1>3, <1>5
  <2> QED
    BY <2>1
<1> QED
  BY <1>4, <1>5

LEMMA LoadKnown ==
  ASSUME TypeOK, RefInv, NEW l \in Lsn, LoadManifestAt(l) # Missing
  PROVE  Known(log, LoadManifestAt(l))
BY EmptyKnown DEF LoadManifestAt, RefInv, TypeOK

LEMMA InitRefs == Init => RefInv /\ AnchorInv
<1> SUFFICES ASSUME Init PROVE RefInv /\ AnchorInv
  OBVIOUS
<1>1. \A c \in Compactors : job[c].applied = Empty /\ cpc[c] = "idle"
  BY DEF Init, NoJob
<1>2. RefInv
  BY <1>1, EmptyKnown DEF Init, RefInv
<1> QED
  BY <1>1, <1>2 DEF AnchorInv, Compactors

\* Steps that change no manifest.
LEMMA RefFrame ==
  ASSUME RefInv, log \subseteq log', UNCHANGED <<tikm, cached, bases>>,
         \A c \in Compactors : job'[c].applied \in {job[c].applied, Empty}
  PROVE  RefInv'
<1>1. \A m : Known(log, m) => Known(log', m)
  BY KnownGrows
<1> QED
  BY <1>1, EmptyKnown DEF RefInv

LEMMA NextRefs == TypeInv /\ RefInv /\ [Next]_vars => RefInv'
<1> SUFFICES ASSUME TypeInv, RefInv, [Next]_vars PROVE RefInv'
  OBVIOUS
<1>0. TypeOK
  BY DEF TypeInv
<1>1. ASSUME NEW b \in Backends, BackendStep(b) PROVE RefInv'
  <2>1. CASE GetLoad(b)
    <3>1. /\ LoadManifestAt(target[b]) # Missing /\ tikm' = LoadManifestAt(target[b])
          /\ cached' = [cached EXCEPT ![b] = LoadManifestAt(target[b])]
          /\ UNCHANGED <<log, bases, job>>
      BY <2>1 DEF GetLoad, LoadTarget, history
    <3>2. Known(log, LoadManifestAt(target[b])) /\ b \in Procs
      BY <1>0, <3>1, LoadKnown DEF TypeOK, Procs
    <3> QED
      BY <1>0, <3>1, <3>2 DEF RefInv, TypeOK
  <2>2. CASE ~GetLoad(b)
    <3>1. UNCHANGED <<log, tikm, cached, bases, job>>
      BY <1>1, <2>2 DEF BackendStep, PatchPut, PatchRecord, GetProbe, GetSegments, GetTarget, GetRef,
         GetReturn, storage, history
    <3> QED
      BY <3>1, RefFrame
  <2> QED
    BY <2>1, <2>2
<1>2. CASE Checkpoint
  <2>1. PICK c \in Lsn, r \in Lsn :
          (\E backup \in {FALSE, Basebackups} : Commit(c, r, backup)) \/ CommitFail(c, r)
    BY <1>2, Zenon DEF Checkpoint
  <2>2. log \subseteq log' /\ UNCHANGED <<tikm, cached, bases>>
    BY <2>1 DEF Commit, CommitFail, storage
  <2>3. \A d \in Compactors : job'[d].applied \in {job[d].applied, Empty}
    <3>1. CASE CommitFail(c, r)
      BY <3>1 DEF CommitFail
    <3>2. ASSUME NEW backup \in {FALSE, Basebackups}, Commit(c, r, backup)
          PROVE  \A d \in Compactors : job'[d].applied \in {job[d].applied, Empty}
      <4>1. \A d \in Compactors : \/ job'[d] = job[d] \/ job'[d] = NoJob
                                  \/ job'[d] = [NoJob EXCEPT !.upper = c + 1, !.through = TRUE]
        BY <1>0, <3>2 DEF Commit, TypeOK
      <4>2. NoJob.applied = Empty /\ [NoJob EXCEPT !.upper = c + 1, !.through = TRUE].applied = Empty
        BY DEF NoJob
      <4> QED
        BY <4>1, <4>2
    <3> QED
      BY <2>1, <3>1, <3>2
  <2> QED
    BY <2>2, <2>3, RefFrame
<1>3. CASE CompactorTick \/ CompactorBegin \/ BackupPause \/ BackupDrain
  <2>1. UNCHANGED <<log, tikm, cached, bases, job>>
    BY <1>3 DEF CompactorTick, CompactorBegin, BackupPause, BackupDrain, storage, history
  <2> QED
    BY <2>1, RefFrame
<1>4. ASSUME NEW c \in Compactors, CompactStep(c) PROVE RefInv'
  <2>0. c \in Procs
    BY DEF Procs
  <2>1. CASE CompactFetch(c)
    <3>1. /\ LoadManifestAt(target[c]) # Missing /\ tikm' = LoadManifestAt(target[c])
          /\ cached' = [cached EXCEPT ![c] = LoadManifestAt(target[c])]
          /\ UNCHANGED <<log, bases, job>>
      BY <2>1 DEF CompactFetch, LoadTarget, history
    <3>2. Known(log, LoadManifestAt(target[c]))
      BY <1>0, <2>0, <3>1, LoadKnown DEF TypeOK
    <3> QED
      BY <1>0, <2>0, <3>1, <3>2 DEF RefInv, TypeOK
  <2>2. CASE CompactPut(c)
    <3> DEFINE applied == ApplySegments(cached[c], job[c].apply)
               new == IF job[c].through THEN applied.ckpt ELSE Newest(job[c].apply).ckpt
    <3>1. /\ cached[c] \in Manifest /\ log \in SUBSET SegmentCheckpoint
          /\ job[c].apply \in SUBSET log /\ Known(log, cached[c])
      BY <1>0, <2>0 DEF TypeOK, RefInv
    <3>2. Known(log, applied)
      BY <3>1, FoldKnown
    <3>3. /\ UNCHANGED <<log, tikm, cached>> /\ bases' = [bases EXCEPT ![new] = applied]
          /\ job'[c].applied = applied
          /\ \A d \in Compactors : d # c => job'[d] = job[d]
      BY <1>0, <2>2 DEF CompactPut, history, TypeOK, Jobs
    <3> HIDE DEF applied, new
    <3>4. \A k \in Lsn : bases'[k] \in {bases[k], applied}
      BY <1>0, <3>3 DEF TypeOK
    <3>5. \A k \in Lsn : bases'[k] # Missing => Known(log, bases'[k])
      BY <3>2, <3>4 DEF RefInv
    <3> QED
      BY <3>2, <3>3, <3>5 DEF RefInv
  <2>3. CASE CompactPublish(c)
    BY <2>3 DEF CompactPublish, history, RefInv
  <2>4. CASE CompactSetBase(c)
    <3>1. /\ UNCHANGED <<log, tikm, bases, job>>
          /\ \A p \in Procs : cached'[p] \in {cached[p], job[c].applied}
      BY <1>0, <2>4 DEF CompactSetBase, storage, history, TypeOK
    <3> QED
      BY <3>1 DEF RefInv
  <2>5. CASE \/ CompactSnapshot(c) \/ CompactLoad(c) \/ CompactTarget(c) \/ CompactDelete(c)
             \/ CompactDeleted(c) \/ CompactFail(c) \/ CompactEnd(c)
    <3>1. UNCHANGED <<log, tikm, cached, bases>>
      BY <2>5 DEF CompactSnapshot, CompactLoad, CompactTarget, CompactDelete, CompactDeleted,
         CompactFail, CompactEnd, storage, history
    <3>2. \A d \in Compactors : job'[d].applied \in {job[d].applied, Empty}
      <4>1. CASE CompactSnapshot(c)
        BY <1>0, <4>1 DEF CompactSnapshot, TypeOK, Jobs
      <4>2. CASE CompactLoad(c)
        BY <1>0, <4>2 DEF CompactLoad, TypeOK, Jobs
      <4>3. CASE CompactDelete(c)
        BY <1>0, <4>3 DEF CompactDelete, TypeOK, Jobs
      <4>4. CASE CompactEnd(c)
        BY <1>0, <4>4 DEF CompactEnd, TypeOK, NoJob
      <4>5. CASE CompactTarget(c) \/ CompactDeleted(c) \/ CompactFail(c)
        BY <4>5 DEF CompactTarget, CompactDeleted, CompactFail
      <4> QED
        BY <2>5, <4>1, <4>2, <4>3, <4>4, <4>5
    <3> QED
      BY <3>1, <3>2, RefFrame
  <2> QED
    BY <1>4, <2>1, <2>2, <2>3, <2>4, <2>5 DEF CompactStep
<1>5. CASE UNCHANGED vars
  <2>1. UNCHANGED <<log, tikm, cached, bases, job>>
    BY <1>5 DEF vars, storage, history
  <2> QED
    BY <2>1, RefFrame
<1> QED
  BY <1>1, <1>2, <1>3, <1>4, <1>5, Zenon DEF Next

-----------------------------------------------------------------------------
(* The anchor of a base backup *)

\* Steps that keep the log, the head and the manifests on storage, and do not bring the
\* backup's compaction past its PUT.
LEMMA AnchorFrame ==
  ASSUME AnchorInv, UNCHANGED <<log, head_ckpt>>,
         \A k \in Lsn : bases[k] # Missing => bases'[k] # Missing,
         cpc'["checkpointer"] \notin {"idle", "end"} =>
           /\ cpc["checkpointer"] \notin {"idle", "end"}
           /\ job'["checkpointer"].upper = job["checkpointer"].upper,
         cpc'["checkpointer"] \in {"publish", "set_base", "delete"} =>
           cpc["checkpointer"] \in {"publish", "set_base", "delete"}
  PROVE  AnchorInv'
<1>1. cpc'["checkpointer"] \notin {"idle", "end"} => job'["checkpointer"].upper = head_ckpt' + 1
  BY DEF AnchorInv
<1>2. ASSUME cpc'["checkpointer"] \in {"publish", "set_base", "delete"}
      PROVE  \E k \in Lsn : bases'[k] # Missing /\ NoData(log', k, head_ckpt')
  <2>1. PICK k \in Lsn : bases[k] # Missing /\ NoData(log, k, head_ckpt)
    BY <1>2 DEF AnchorInv
  <2> QED
    BY <2>1
<1> QED
  BY <1>1, <1>2 DEF AnchorInv

\* The backup's PUT: what it folds is up to its key, what it does not fold up to the base.
LEMMA AnchorPut ==
  ASSUME TypeInv, StoreInv, AnchorInv, CompactPut("checkpointer")
  PROVE  AnchorInv'
<1> DEFINE c == "checkpointer"
           applied == ApplySegments(cached[c], job[c].apply)
           new == IF job[c].through THEN applied.ckpt ELSE Newest(job[c].apply).ckpt
<1>1. c \in Compactors /\ cpc[c] = "put"
  BY DEF CompactPut, Compactors
<1>2. /\ UNCHANGED <<log, head_ckpt, base_ckpt>> /\ bases' = [bases EXCEPT ![new] = applied]
      /\ job'[c].upper = job[c].upper /\ cpc'[c] = "publish"
  BY <1>1 DEF CompactPut, Goto, timeline, history, TypeInv, TypeOK, Jobs
<1>3. job[c].through
  BY <1>1 DEF StoreInv, RaceInv, Active
<1>4. applied \in Manifest /\ applied # Missing /\ new \in Lsn /\ new = applied.ckpt
  BY <1>1, <1>3, FoldGood
<1>5. job[c].upper = head_ckpt + 1
  BY <1>1 DEF AnchorInv
<1>6. /\ cached[c] \in Manifest /\ job[c].apply \in SUBSET SegmentCheckpoint
      /\ log \in SUBSET SegmentCheckpoint
  BY <1>1 DEF TypeInv, TypeOK, Jobs, Procs
<1>7. \A sc \in job[c].apply : sc.chunks # {} => sc.ckpt <= new
  BY <1>4, <1>6, Applied
<1>8. UnfoldedUpTo(log, job[c], base_ckpt)
  BY <1>1 DEF StoreInv, JobsInv, JobInv
<1>9. /\ head_ckpt \in Lsn /\ base_ckpt \in Lsn /\ head_ckpt \in Int /\ base_ckpt \in Int
      /\ new \in Int /\ base_ckpt >= 0 /\ new >= 0
  BY <1>4, LsnInt DEF TypeInv, TypeOK
<1> HIDE DEF applied, new
<1>10. \A sc \in log : sc.chunks # {} => sc.ckpt <= new \/ sc.ckpt <= base_ckpt
  <2> SUFFICES ASSUME NEW sc \in log, sc.chunks # {}, sc \notin job[c].apply
               PROVE  sc.ckpt <= base_ckpt
    BY <1>7
  <2>1. sc.ckpt \in Int /\ sc.ckpt <= head_ckpt
    BY <1>6, LsnInt DEF StoreInv, LogInv
  <2>2. sc.ckpt < job[c].upper
    BY <1>5, <1>9, <2>1
  <2> QED
    BY <1>8, <2>2 DEF UnfoldedUpTo
<1>11. /\ bases'[new] = applied
       /\ base_ckpt # 0 => bases[base_ckpt] # Missing
       /\ base_ckpt # new => bases'[base_ckpt] = bases[base_ckpt]
  BY <1>2, <1>4, <1>9 DEF TypeInv, TypeOK, StoreInv, ManifestInv
<1>12. \A sc \in log : sc.ckpt \in Int
  BY <1>6, LsnInt
<1>13. \E k \in Lsn : bases'[k] # Missing /\ NoData(log, k, head_ckpt)
  <2>1. CASE base_ckpt <= new
    <3>1. NoData(log, new, head_ckpt)
      BY <1>9, <1>10, <1>12, <2>1 DEF NoData
    <3> QED
      BY <1>4, <1>11, <3>1
  <2>2. CASE new < base_ckpt
    <3>1. NoData(log, base_ckpt, head_ckpt)
      BY <1>9, <1>10, <1>12, <2>2 DEF NoData
    <3>2. base_ckpt # 0 /\ base_ckpt # new
      BY <1>9, <2>2
    <3> QED
      BY <1>9, <1>11, <3>1, <3>2
  <2> QED
    BY <1>9, <2>1, <2>2
<1> QED
  BY <1>2, <1>5, <1>13 DEF AnchorInv

LEMMA NextAnchor == TypeInv /\ StoreInv /\ AnchorInv /\ [Next]_vars => AnchorInv'
<1> SUFFICES ASSUME TypeInv, StoreInv, AnchorInv, [Next]_vars PROVE AnchorInv'
  OBVIOUS
<1>0. TypeOK
  BY DEF TypeInv
<1>1. ASSUME NEW b \in Backends, BackendStep(b) PROVE AnchorInv'
  <2>1. UNCHANGED <<log, head_ckpt, bases, cpc, job>>
    BY <1>1 DEF BackendStep, PatchPut, PatchRecord, GetProbe, GetSegments, GetTarget, GetLoad, GetRef,
       GetReturn, storage, timeline, history
  <2> QED
    BY <2>1, AnchorFrame
<1>2. CASE Checkpoint
  <2>1. PICK c \in Lsn, r \in Lsn :
          (\E backup \in {FALSE, Basebackups} : Commit(c, r, backup)) \/ CommitFail(c, r)
    BY <1>2, Zenon DEF Checkpoint
  <2>2. CASE CommitFail(c, r)
    BY <2>2, AnchorFrame DEF CommitFail, storage
  <2>3. ASSUME NEW backup \in {FALSE, Basebackups}, Commit(c, r, backup) PROVE AnchorInv'
    <3>1. head_ckpt' = c
          /\ cpc'["checkpointer"] = (IF backup THEN "pause" ELSE "idle")
          /\ job'["checkpointer"] = (IF backup THEN [NoJob EXCEPT !.upper = c + 1, !.through = TRUE]
                                     ELSE NoJob)
      BY <1>0, <2>3 DEF Commit, TypeOK, Compactors
    <3>2. backup => job'["checkpointer"].upper = c + 1
      BY <3>1 DEF NoJob
    <3> QED
      BY <3>1, <3>2 DEF AnchorInv
  <2> QED
    BY <2>1, <2>2, <2>3
<1>3. CASE CompactorTick \/ CompactorBegin \/ BackupPause \/ BackupDrain
  <2>1. UNCHANGED <<log, head_ckpt, bases, job>>
    BY <1>3 DEF CompactorTick, CompactorBegin, BackupPause, BackupDrain, storage, timeline, history
  <2>2. /\ cpc'["checkpointer"] \notin {"idle", "end"} => cpc["checkpointer"] \notin {"idle", "end"}
        /\ cpc'["checkpointer"] \in {"publish", "set_base", "delete"} =>
             cpc["checkpointer"] \in {"publish", "set_base", "delete"}
    BY <1>0, <1>3 DEF CompactorTick, CompactorBegin, BackupPause, BackupDrain, Goto, TypeOK, Compactors
  <2> QED
    BY <2>1, <2>2, AnchorFrame
<1>4. CASE CompactPut("checkpointer")
  BY <1>4, AnchorPut
<1>5. ASSUME NEW c \in Compactors, CompactStep(c), ~CompactPut("checkpointer") PROVE AnchorInv'
  <2>1. UNCHANGED <<log, head_ckpt>>
    BY <1>5 DEF CompactStep, CompactSnapshot, CompactLoad, CompactTarget, CompactFetch, CompactPut,
       CompactPublish, CompactSetBase, CompactDelete, CompactDeleted, CompactFail, CompactEnd,
       timeline, history
  <2>2. \A k \in Lsn : bases[k] # Missing => bases'[k] # Missing
    <3>1. CASE CompactPut(c)
      <4>1. /\ cpc[c] = "put"
            /\ bases' = [bases EXCEPT ![IF job[c].through
                                        THEN ApplySegments(cached[c], job[c].apply).ckpt
                                        ELSE Newest(job[c].apply).ckpt]
                           = ApplySegments(cached[c], job[c].apply)]
        BY <3>1, Zenon DEF CompactPut
      <4>2. ApplySegments(cached[c], job[c].apply) # Missing
        BY <4>1, FoldGood
      <4> QED
        BY <1>0, <4>1, <4>2 DEF TypeOK
    <3>2. CASE ~CompactPut(c)
      BY <1>5, <3>2 DEF CompactStep, CompactSnapshot, CompactLoad, CompactTarget, CompactFetch,
       CompactPublish, CompactSetBase, CompactDelete, CompactDeleted, CompactFail, CompactEnd, storage
    <3> QED
      BY <3>1, <3>2
  <2>3. CASE c = "worker"
    <3>1. cpc'["checkpointer"] = cpc["checkpointer"] /\ job'["checkpointer"] = job["checkpointer"]
      BY <1>0, <1>5, <2>3 DEF CompactStep, CompactSnapshot, CompactLoad, CompactTarget, CompactFetch,
       CompactPut, CompactPublish, CompactSetBase, CompactDelete, CompactDeleted, CompactFail, CompactEnd,
       Goto, TypeOK, Compactors
    <3> QED
      BY <2>1, <2>2, <3>1, AnchorFrame
  <2>4. CASE c = "checkpointer"
    <3>1. cpc[c] \notin {"idle"}
      BY <1>5 DEF CompactStep, CompactSnapshot, CompactLoad, CompactTarget, CompactFetch,
       CompactPut, CompactPublish, CompactSetBase, CompactDelete, CompactDeleted, CompactFail, CompactEnd
    <3>2. CASE CompactSnapshot(c)
      <4>1. /\ cpc[c] = "snapshot" /\ cpc'[c] \in {"end", "list"} /\ job[c].through
        BY <1>0, <2>4, <3>2 DEF CompactSnapshot, Goto, TypeOK, StoreInv, RaceInv
      <4>2. job'[c].upper = job[c].upper
        BY <1>0, <3>2, <4>1 DEF CompactSnapshot, TypeOK, Jobs
      <4> QED
        BY <2>1, <2>2, <2>4, <4>1, <4>2, AnchorFrame
    <3>3. CASE CompactLoad(c)
      <4>1. /\ cpc[c] = "list" /\ cpc'[c] \in {"end", "base"}
        BY <1>0, <3>3 DEF CompactLoad, Goto, TypeOK
      <4>2. job'[c].upper = job[c].upper
        BY <1>0, <3>3 DEF CompactLoad, TypeOK, Jobs
      <4> QED
        BY <2>1, <2>2, <2>4, <4>1, <4>2, AnchorFrame
    <3>4. CASE CompactDelete(c)
      <4>1. cpc' = cpc /\ job'[c].upper = job[c].upper
        BY <1>0, <3>4 DEF CompactDelete, TypeOK, Jobs
      <4> QED
        BY <2>1, <2>2, <2>4, <4>1, AnchorFrame
    <3>5. CASE CompactTarget(c) \/ CompactFetch(c) \/ CompactPublish(c) \/ CompactSetBase(c)
               \/ CompactDeleted(c) \/ CompactFail(c)
      <4>1. /\ job' = job /\ cpc[c] \notin {"idle", "end"}
            /\ cpc'[c] \in {"publish", "set_base", "delete"} =>
                 cpc[c] \in {"publish", "set_base", "delete"}
        BY <1>0, <3>5 DEF CompactTarget, CompactFetch, CompactPublish, CompactSetBase, CompactDeleted,
           CompactFail, Goto, TypeOK
      <4> QED
        BY <2>1, <2>2, <2>4, <4>1, AnchorFrame
    <3>6. CASE CompactEnd(c)
      <4>1. cpc'[c] = "idle"
        BY <1>0, <3>6 DEF CompactEnd, Goto, TypeOK
      <4> QED
        BY <2>4, <4>1 DEF AnchorInv
    <3> QED
      BY <1>5, <2>4, <3>2, <3>3, <3>4, <3>5, <3>6 DEF CompactStep
  <2> QED
    BY <2>3, <2>4 DEF Compactors
<1>6. CASE UNCHANGED vars
  <2>1. UNCHANGED <<log, head_ckpt, bases, cpc, job>>
    BY <1>6 DEF vars, storage, timeline, history
  <2> QED
    BY <2>1, AnchorFrame
<1> QED
  BY <1>1, <1>2, <1>3, <1>4, <1>5, <1>6, Zenon DEF Next

LEMMA RefInvariant == Spec => [](RefInv /\ AnchorInv)
BY InitRefs, NextRefs, NextAnchor, TypeInvariant, StoreInvariant, PTL DEF Spec

\* A manifest that accounts for everything with data, and refers to the log, is the chunk
\* map at the head.
LEMMA MapAtHead ==
  ASSUME TypeOK, LogInv, NEW m \in Manifest, Known(log, m), NEW a \in Int,
         Sound(log, m, a), NoData(log, a, head_ckpt)
  PROVE  MapAt(m, head_ckpt)
<1> SUFFICES ASSUME NEW t \in Chunks
             PROVE  m.refs[t] = Max({NoRef} \cup
                      {sc.prev : sc \in {o \in log : o.ckpt <= head_ckpt /\ t \in o.chunks}})
  BY DEF MapAt
<1> DEFINE R == {NoRef} \cup {sc.prev : sc \in {o \in log : o.ckpt <= head_ckpt /\ t \in o.chunks}}
<1>1. log \in SUBSET SegmentCheckpoint /\ head_ckpt \in Int
  BY LsnInt DEF TypeOK
<1>2. R \in SUBSET Int /\ R # {} /\ \A x \in R : x <= MaxLsn
  BY <1>1, StoreAssumption DEF SegmentCheckpoint, Lsn, NoRef
<1>3. Max(R) \in R /\ \A x \in R : x <= Max(R)
  <2> HIDE DEF R
  <2> QED
    BY <1>2, MaxPosition
<1>4. m.refs[t] \in R
  BY <1>1 DEF Known, LogInv
<1>5. \A x \in R : x <= m.refs[t]
  <2>1. m.refs[t] \in Int /\ NoRef <= m.refs[t] /\ NoRef \in Int
    BY StoreAssumption DEF Manifest, Lsn, NoRef
  <2>2. ASSUME NEW sc \in log, sc.ckpt <= head_ckpt, t \in sc.chunks PROVE sc.prev <= m.refs[t]
    <3>1. sc.ckpt \in Int /\ sc.prev \in Int
      BY <1>1, LsnInt
    <3>2. sc.ckpt <= a
      BY <1>1, <2>2, <3>1 DEF NoData
    <3>3. m.refs[t] >= sc.prev
      BY <2>2, <3>2 DEF Sound, Covers
    <3> QED
      BY <2>1, <3>1, <3>3
  <2> QED
    BY <2>1, <2>2
<1>6. m.refs[t] \in Int /\ Max(R) \in Int
  BY <1>2, <1>3, <1>4
<1> HIDE DEF R
<1>7. m.refs[t] = Max(R)
  BY <1>3, <1>4, <1>5, <1>6
<1> QED
  BY <1>7 DEF R

\* Once a base backup has put its manifest, the newest base manifest at or before its
\* checkpoint, which a recovery would install, is the chunk map at exactly that
\* checkpoint, whatever the worker's compactor puts meanwhile.
THEOREM BackupsAnchored == Spec => []BackupAnchored
<1>1. TypeInv /\ StoreInv /\ RefInv /\ AnchorInv => BackupAnchored
  <2> SUFFICES ASSUME TypeInv, StoreInv, RefInv, AnchorInv,
                      cpc["checkpointer"] \in {"publish", "set_base", "delete"}
               PROVE  LET backup == job["checkpointer"].upper - 1
                      IN Anchors(backup) # {} /\ MapAt(bases[Max(Anchors(backup))], backup)
    BY DEF BackupAnchored
  <2>1. TypeOK /\ LogInv /\ head_ckpt \in Int /\ log \in SUBSET SegmentCheckpoint
    BY LsnInt DEF TypeInv, TypeOK, StoreInv
  <2>2. job["checkpointer"].upper - 1 = head_ckpt
    BY <2>1 DEF AnchorInv
  <2>3. PICK k \in Lsn : bases[k] # Missing /\ NoData(log, k, head_ckpt)
    BY DEF AnchorInv
  <2> DEFINE A == Anchors(head_ckpt)
             a == Max(A)
  <2>4. k \in A
    BY <2>3 DEF Anchors, StoreInv, ManifestInv
  <2>5. A \in SUBSET Int /\ A # {} /\ \A x \in A : x <= MaxLsn
    <3>1. A \subseteq Lsn
      BY DEF Anchors
    <3> HIDE DEF A
    <3> QED
      BY <2>4, <3>1, LsnInt, Positions
  <2>6. a \in A /\ k <= a
    <3> HIDE DEF A
    <3> QED
      BY <2>4, <2>5, MaxPosition
  <2>7. a \in Lsn /\ bases[a] # Missing /\ a \in Int
    BY <2>6, LsnInt DEF Anchors
  <2> HIDE DEF a
  <2>8. bases[a] \in Manifest /\ Known(log, bases[a]) /\ Sound(log, bases[a], a)
    BY <2>1, <2>7 DEF TypeOK, RefInv, StoreInv, ManifestInv
  <2>9. NoData(log, a, head_ckpt)
    BY <2>1, <2>3, <2>6, <2>7, LsnInt DEF NoData
  <2>10. MapAt(bases[a], head_ckpt)
    BY <2>1, <2>7, <2>8, <2>9, MapAtHead
  <2> QED
    BY <2>2, <2>4, <2>10 DEF a
<1> QED
  BY <1>1, TypeInvariant, StoreInvariant, RefInvariant, PTL

-----------------------------------------------------------------------------
(* The places of the versions *)

\* Types, for arithmetic.
LEMMA StoreNumbers ==
  ASSUME TypeOK
  PROVE  /\ head_ckpt \in Lsn /\ base_ckpt \in Lsn /\ writes \in Nat
         /\ head_ckpt \in Int /\ base_ckpt \in Int /\ base_ckpt >= 0
         /\ \A t \in Chunks : latest[t] \in Nat
         /\ \A t \in Chunks, l \in Lsn : obj[t][l] \in Nat
         /\ \A sc \in log : /\ sc.prev \in Lsn /\ sc.ckpt \in Lsn /\ sc.chunks \subseteq Chunks
                            /\ sc.prev \in Int /\ sc.ckpt \in Int
         /\ \A l \in Lsn : l \in Int /\ l >= 0
         /\ active_window \subseteq log /\ segments \subseteq log
BY StoreAssumption DEF TypeOK, Lsn, Versions, SegmentCheckpoint

LEMMA InitPlaces == Init => PlaceInv
<1> SUFFICES ASSUME Init PROVE PlaceInv
  OBVIOUS
<1>1. log = {} /\ active_window = {} /\ head_ckpt = 0 /\ draft = {} /\ writes = 0
  BY DEF Init
<1>2. \A t \in Chunks : latest[t] = 0 /\ ~Flushing(t) /\ \A l \in Lsn : obj[t][l] = 0 /\ ~Placed(t, l)
  BY <1>1 DEF Init, Flushing, Idle, Placed
<1>3. IsFiniteSet(active_window)
  BY <1>1, FS_EmptySet
<1> QED
  BY <1>1, <1>2, <1>3 DEF PlaceInv, ChainInv, WindowInv, ObjInv, LatestInv

\* Steps that neither flush, nor record, nor commit.
LEMMA PlaceFrame ==
  ASSUME PlaceInv, UNCHANGED <<log, active_window, obj, writes, draft, head_ckpt, latest>>,
         \A t \in Chunks : (\E b \in Backends : rd'[b].pc = "put" /\ rd'[b].tag = t) <=> Flushing(t)
  PROVE  PlaceInv'
<1>1. \A t \in Chunks : Flushing(t)' <=> Flushing(t)
  BY DEF Flushing
<1>2. \A t \in Chunks, l \in Lsn : Placed(t, l)' <=> Placed(t, l)
  BY DEF Placed
<1>3. ChainInv' /\ WindowInv'
  BY DEF PlaceInv, ChainInv, WindowInv
<1>4. ObjInv'
  BY <1>1, <1>2 DEF PlaceInv, ObjInv
<1>5. LatestInv'
  BY <1>1, <1>2 DEF PlaceInv, LatestInv
<1> QED
  BY <1>3, <1>4, <1>5 DEF PlaceInv

\* A PUT under the head prefix has the newest version of all.
LEMMA PutPlaces ==
  ASSUME TypeInv, PlaceInv, NEW b \in Backends, NEW t \in Chunks, PatchPut(b, t)
  PROVE  PlaceInv'
<1>0. TypeOK
  BY DEF TypeInv
<1>1. /\ UNCHANGED <<log, active_window, draft, head_ckpt, latest>> /\ writes' = writes + 1
  BY DEF PatchPut, timeline
<1>2. /\ obj'[t][head_ckpt] = writes + 1
      /\ \A u \in Chunks, l \in Lsn : u # t \/ l # head_ckpt => obj'[u][l] = obj[u][l]
  BY <1>0 DEF PatchPut, TypeOK
<1>3. rd[b].pc = "idle" /\ rd'[b] = [pc |-> "put", tag |-> t] /\ \A o \in Backends : o # b => rd'[o] = rd[o]
  BY <1>0 DEF PatchPut, TypeOK
<1>4. Flushing(t)' /\ \A u \in Chunks : u # t => (Flushing(u)' <=> Flushing(u))
  BY <1>3 DEF Flushing
<1>5. ~Flushing(t)
  BY DEF PatchPut, Flushing
<1>6. \A u \in Chunks, l \in Lsn : Placed(u, l)' <=> Placed(u, l)
  BY <1>1 DEF Placed
<1>7. \A u \in Chunks, l \in Lsn : obj'[u][l] >= obj[u][l]
  BY <1>0, <1>2, StoreNumbers DEF PlaceInv, ObjInv
<1>8. ChainInv' /\ WindowInv'
  BY <1>1 DEF PlaceInv, ChainInv, WindowInv
<1>9. ASSUME NEW u \in Chunks, NEW l \in Lsn
      PROVE  /\ obj'[u][l] <= writes'
             /\ head_ckpt' < l => obj'[u][l] = 0
             /\ Placed(u, l)' => obj'[u][l] > 0
             /\ obj'[u][l] > 0 => Placed(u, l)' \/ (l = head_ckpt' /\ Flushing(u)')
  <2>1. CASE u = t /\ l = head_ckpt
    BY <1>0, <1>1, <1>2, <1>4, <2>1, StoreNumbers
  <2>2. CASE u # t \/ l # head_ckpt
    <3>1. obj'[u][l] = obj[u][l]
      BY <1>2, <2>2
    <3>2. obj[u][l] <= writes' /\ (head_ckpt < l => obj[u][l] = 0) /\ (Placed(u, l) => obj[u][l] > 0)
      BY <1>0, <1>1, StoreNumbers DEF PlaceInv, ObjInv
    <3>3. obj[u][l] > 0 => Placed(u, l) \/ (l = head_ckpt /\ Flushing(u))
      BY DEF PlaceInv, ObjInv
    <3> QED
      BY <1>1, <1>4, <1>5, <1>6, <2>2, <3>1, <3>2, <3>3
  <2> QED
    BY <2>1, <2>2
<1>10. ASSUME NEW u \in Chunks, NEW k \in Lsn, NEW l \in Lsn, k < l, obj'[u][l] > 0
       PROVE  obj'[u][k] < obj'[u][l]
  <2>0. /\ obj[u][k] \in Nat /\ obj[u][l] \in Nat /\ writes \in Nat /\ obj[u][k] <= writes
        /\ (head_ckpt < l => obj[u][l] = 0) /\ (obj[u][l] > 0 => obj[u][k] < obj[u][l])
        /\ head_ckpt \in Int /\ k \in Int /\ l \in Int
    BY <1>0, <1>10, StoreNumbers DEF PlaceInv, ObjInv
  <2>1. CASE u = t /\ l = head_ckpt
    <3>1. obj'[u][l] = writes + 1 /\ obj'[u][k] = obj[u][k]
      BY <1>2, <1>10, <2>0, <2>1
    <3> QED
      BY <2>0, <3>1
  <2>2. CASE u = t /\ k = head_ckpt
    <3>1. obj'[u][l] = obj[u][l]
      BY <1>2, <1>10, <2>0, <2>2
    <3> QED
      BY <1>10, <2>0, <2>2, <3>1
  <2>3. CASE u # t \/ (l # head_ckpt /\ k # head_ckpt)
    <3>1. obj'[u][l] = obj[u][l] /\ obj'[u][k] = obj[u][k]
      BY <1>2, <2>3
    <3> QED
      BY <1>10, <2>0, <3>1
  <2> QED
    BY <2>1, <2>2, <2>3
<1>11. \A u \in Chunks : Flushing(u)' => obj'[u][head_ckpt'] > 0
  <2>1. obj'[t][head_ckpt] > 0
    BY <1>0, <1>2, StoreNumbers
  <2>2. ASSUME NEW u \in Chunks, u # t, Flushing(u) PROVE obj'[u][head_ckpt] > 0
    BY <1>0, <1>2, <2>2, StoreNumbers DEF PlaceInv, ObjInv
  <2> QED
    BY <1>1, <1>4, <2>1, <2>2
<1>12. ObjInv'
  BY <1>9, <1>10, <1>11 DEF ObjInv
<1>13. LatestInv'
  <2> SUFFICES ASSUME NEW u \in Chunks
               PROVE  /\ latest'[u] > 0 => \E l \in Lsn : Placed(u, l)' /\ obj'[u][l] >= latest'[u]
                      /\ ~Flushing(u)' => \A l \in Lsn : obj'[u][l] <= latest'[u]
    BY DEF LatestInv
  <2>1. ASSUME latest'[u] > 0 PROVE \E l \in Lsn : Placed(u, l)' /\ obj'[u][l] >= latest'[u]
    <3>1. PICK l \in Lsn : Placed(u, l) /\ obj[u][l] >= latest[u]
      BY <1>1, <2>1 DEF PlaceInv, LatestInv
    <3>2. obj'[u][l] >= obj[u][l] /\ obj[u][l] \in Nat /\ obj'[u][l] \in Int /\ latest[u] \in Nat
      BY <1>0, <1>2, <1>7, StoreNumbers
    <3>3. obj'[u][l] >= latest[u]
      BY <3>1, <3>2
    <3> QED
      BY <1>1, <1>6, <3>1, <3>3
  <2>2. ASSUME ~Flushing(u)' PROVE \A l \in Lsn : obj'[u][l] <= latest'[u]
    BY <1>1, <1>2, <1>4, <2>2 DEF PlaceInv, LatestInv
  <2> QED
    BY <2>1, <2>2
<1> QED
  BY <1>8, <1>12, <1>13 DEF PlaceInv

\* Recorded: the object under the head prefix is the newest there is.
LEMMA RecordPlaces ==
  ASSUME TypeInv, PlaceInv, NEW b \in Backends, PatchRecord(b)
  PROVE  PlaceInv'
<1>0. TypeOK
  BY DEF TypeInv
<1>1. PICK t \in Chunks : t = rd[b].tag /\ rd[b].pc = "put"
  BY <1>0 DEF PatchRecord, TypeOK, ReadCalls, Idle
<1>h. PICK h \in Lsn : h = head_ckpt
  BY <1>0 DEF TypeOK
<1>2. /\ UNCHANGED <<log, active_window, obj, writes, head_ckpt>> /\ draft' = draft \cup {t}
      /\ latest'[t] = obj[t][head_ckpt] /\ \A u \in Chunks : u # t => latest'[u] = latest[u]
  BY <1>0, <1>1 DEF PatchRecord, TypeOK, storage
<1>3. rd'[b] = Idle /\ \A o \in Backends : o # b => rd'[o] = rd[o]
  BY <1>0 DEF PatchRecord, TypeOK
<1>4. Flushing(t) /\ \A u \in Chunks : u # t => (Flushing(u)' <=> Flushing(u))
  BY <1>1, <1>3 DEF Flushing, Idle
<1>5. \A u \in Chunks : Flushing(u)' => Flushing(u)
  BY <1>4
<1>6. /\ \A u \in Chunks, l \in Lsn : Placed(u, l) => Placed(u, l)'
      /\ Placed(t, h)'
      /\ \A u \in Chunks, l \in Lsn : Placed(u, l)' => Placed(u, l) \/ (u = t /\ l = head_ckpt)
  BY <1>h, <1>2 DEF Placed
<1>7. obj[t][head_ckpt] > 0
  BY <1>1, <1>4 DEF PlaceInv, ObjInv
<1>8. ChainInv' /\ WindowInv'
  BY <1>2 DEF PlaceInv, ChainInv, WindowInv
<1>9. ObjInv'
  <2>1. ASSUME NEW u \in Chunks, NEW l \in Lsn
        PROVE  /\ Placed(u, l)' => obj[u][l] > 0
               /\ obj[u][l] > 0 => Placed(u, l)' \/ (l = head_ckpt /\ Flushing(u)')
    <3>1. /\ Placed(u, l) => obj[u][l] > 0
          /\ obj[u][l] > 0 => Placed(u, l) \/ (l = head_ckpt /\ Flushing(u))
      BY DEF PlaceInv, ObjInv
    <3>2. CASE u = t
      BY <1>6, <1>7, <1>h, <3>1, <3>2
    <3>3. CASE u # t
      BY <1>4, <1>6, <3>1, <3>3
    <3> QED
      BY <3>2, <3>3
  <2>2. \A u \in Chunks : Flushing(u)' => obj[u][head_ckpt] > 0
    BY <1>5 DEF PlaceInv, ObjInv
  <2>3. /\ \A u \in Chunks, l \in Lsn : obj[u][l] <= writes /\ (head_ckpt < l => obj[u][l] = 0)
        /\ \A u \in Chunks, k, l \in Lsn : k < l /\ obj[u][l] > 0 => obj[u][k] < obj[u][l]
    BY DEF PlaceInv, ObjInv
  <2> QED
    BY <1>2, <2>1, <2>2, <2>3 DEF ObjInv
<1>10. ASSUME NEW l \in Lsn PROVE obj[t][l] <= obj[t][head_ckpt]
  <2>1. /\ obj[t][l] \in Nat /\ obj[t][head_ckpt] \in Nat /\ l \in Int /\ head_ckpt \in Int
        /\ head_ckpt \in Lsn
    BY <1>0, <1>1, StoreNumbers
  <2>2. l < head_ckpt => obj[t][l] < obj[t][head_ckpt]
    BY <1>1, <1>7, <2>1 DEF PlaceInv, ObjInv
  <2>3. head_ckpt < l => obj[t][l] = 0
    BY <1>1 DEF PlaceInv, ObjInv
  <2> QED
    BY <2>1, <2>2, <2>3
<1>11. LatestInv'
  <2> SUFFICES ASSUME NEW u \in Chunks
               PROVE  /\ latest'[u] > 0 => \E l \in Lsn : Placed(u, l)' /\ obj'[u][l] >= latest'[u]
                      /\ ~Flushing(u)' => \A l \in Lsn : obj'[u][l] <= latest'[u]
    BY DEF LatestInv
  <2>1. CASE u = t
    <3>1. head_ckpt \in Lsn /\ obj[t][head_ckpt] \in Nat
      BY <1>0, <1>1, StoreNumbers
    <3>2. obj[t][head_ckpt] >= obj[t][head_ckpt]
      BY <3>1
    <3> QED
      BY <1>2, <1>6, <1>10, <1>h, <2>1, <3>1, <3>2
  <2>2. CASE u # t
    BY <1>2, <1>4, <1>6, <2>2 DEF PlaceInv, LatestInv
  <2> QED
    BY <2>1, <2>2
<1> QED
  BY <1>8, <1>9, <1>11 DEF PlaceInv

\* The ring keeps the newest end of the log.
LEMMA PushNewest ==
  ASSUME TypeOK, LogInv, WindowInv, NEW sc \in SegmentCheckpoint, sc.ckpt > head_ckpt
  PROVE  /\ IsFiniteSet(PushActive(sc)) /\ sc \in PushActive(sc)
         /\ \A a \in PushActive(sc), s \in log \cup {sc} :
              a.ckpt <= s.ckpt => s \in PushActive(sc)
<1> DEFINE w == active_window \cup {sc}
           Above(a) == {o \in w : o.ckpt > a.ckpt}
<1>1. PushActive(sc) = {a \in w : Cardinality(Above(a)) < WindowSize}
  BY DEF PushActive
<1>2. IsFiniteSet(w)
  BY FS_AddElement DEF WindowInv
<1>3. IsFiniteSet(PushActive(sc))
  <2>1. PushActive(sc) \subseteq w
    BY <1>1
  <2> QED
    BY <1>2, <2>1, FS_Subset
<1>4. /\ head_ckpt \in Int /\ sc.ckpt \in Int /\ WindowSize \in Nat /\ WindowSize > 0
      /\ \A s \in log : s.ckpt \in Int /\ s.ckpt <= head_ckpt
      /\ active_window \subseteq log
  BY StoreNumbers, LsnInt, StoreAssumption DEF LogInv
<1>5. Above(sc) = {}
  BY <1>4
<1>6. sc \in PushActive(sc)
  BY <1>1, <1>4, <1>5, FS_EmptySet
<1>7. ASSUME NEW a \in PushActive(sc), NEW s \in log \cup {sc}, a.ckpt <= s.ckpt
      PROVE  s \in PushActive(sc)
  <2>1. a \in w /\ Cardinality(Above(a)) < WindowSize
    BY <1>1
  <2>2. s \in w
    <3>1. CASE s = sc
      BY <3>1
    <3>2. CASE s # sc /\ a = sc
      BY <1>4, <1>7, <3>2
    <3>3. CASE s # sc /\ a # sc
      BY <1>7, <2>1, <3>3 DEF WindowInv
    <3> QED
      BY <3>1, <3>2, <3>3
  <2>3. Above(s) \subseteq Above(a)
    BY <1>4, <1>7, <2>1, <2>2
  <2>4. IsFiniteSet(Above(a)) /\ IsFiniteSet(Above(s))
    <3>1. Above(a) \subseteq w /\ Above(s) \subseteq w
      OBVIOUS
    <3> QED
      BY <1>2, <3>1, FS_Subset
  <2> HIDE DEF Above, w
  <2>5. /\ Cardinality(Above(s)) <= Cardinality(Above(a))
        /\ Cardinality(Above(s)) \in Nat /\ Cardinality(Above(a)) \in Nat
    BY <2>3, <2>4, FS_Subset, FS_CardinalityType
  <2>6. Cardinality(Above(s)) < WindowSize
    BY <1>4, <2>1, <2>5
  <2> QED
    BY <1>1, <2>2, <2>6
<1> QED
  BY <1>3, <1>6, <1>7

\* A commit moves the draft into the log and opens a prefix without objects.
LEMMA CommitPlaces ==
  ASSUME TypeInv, StoreInv, PlaceInv, NEW c \in Lsn, NEW r \in Lsn, NEW backup \in BOOLEAN,
         Commit(c, r, backup)
  PROVE  PlaceInv'
<1> DEFINE sc == [ckpt |-> c, prev |-> head_ckpt, chunks |-> draft]
<1>0. TypeOK /\ LogInv
  BY DEF TypeInv, StoreInv
<1>1. /\ UNCHANGED <<obj, rd, writes, latest>> /\ draft' = {} /\ head_ckpt' = c
      /\ log' = log \cup {sc} /\ active_window' = PushActive(sc) /\ c > head_ckpt
      /\ ReadLocked = {}
  BY DEF Commit, CheckpointAt
<1>2. sc \in SegmentCheckpoint /\ sc.ckpt = c /\ sc.prev = head_ckpt /\ sc.chunks = draft
  BY <1>0 DEF TypeOK, SegmentCheckpoint
<1> HIDE DEF sc
<1>3. \A u \in Chunks : ~Flushing(u) /\ ~Flushing(u)'
  BY <1>1 DEF ReadLocked, Flushing
<1>4. \A u \in Chunks, l \in Lsn : Placed(u, l)' <=> Placed(u, l)
  BY <1>1, <1>2 DEF Placed
<1>5. /\ head_ckpt \in Int /\ c \in Int
      /\ \A s \in log : s.ckpt \in Int /\ s.prev \in Int /\ s.ckpt <= head_ckpt
  BY <1>0, StoreNumbers, LsnInt DEF LogInv
<1>6. ChainInv'
  <2>1. ASSUME NEW s \in log' PROVE s.prev < s.ckpt
    BY <1>1, <1>2, <1>5 DEF PlaceInv, ChainInv
  <2>2. ASSUME NEW s \in log', NEW o \in log', s.ckpt < o.ckpt PROVE s.ckpt <= o.prev
    <3>1. CASE o = sc
      <4>1. s # sc /\ s \in log
        BY <1>1, <1>2, <1>5, <2>2, <3>1
      <4> QED
        BY <1>2, <1>5, <3>1, <4>1
    <3>2. CASE o # sc
      <4>1. o \in log /\ s \in log
        BY <1>1, <1>2, <1>5, <2>2, <3>2
      <4> QED
        BY <2>2, <4>1 DEF PlaceInv, ChainInv
    <3> QED
      BY <3>1, <3>2
  <2> QED
    BY <2>1, <2>2 DEF ChainInv
<1>7. WindowInv'
  <2>1. /\ IsFiniteSet(PushActive(sc)) /\ sc \in PushActive(sc)
        /\ \A a \in PushActive(sc), s \in log \cup {sc} :
             a.ckpt <= s.ckpt => s \in PushActive(sc)
    BY <1>0, <1>1, <1>2, PushNewest DEF PlaceInv
  <2> QED
    BY <1>1, <2>1 DEF WindowInv
<1>8. ObjInv'
  <2>1. ASSUME NEW u \in Chunks, NEW l \in Lsn
        PROVE  /\ obj[u][l] <= writes
               /\ c < l => obj[u][l] = 0
               /\ Placed(u, l) => obj[u][l] > 0
               /\ obj[u][l] > 0 => Placed(u, l)
    <3>1. l \in Int
      BY <1>0, StoreNumbers
    <3>2. c < l => head_ckpt < l
      BY <1>1, <1>5, <3>1
    <3> QED
      BY <1>3, <3>2 DEF PlaceInv, ObjInv
  <2>2. \A u \in Chunks, k, l \in Lsn : k < l /\ obj[u][l] > 0 => obj[u][k] < obj[u][l]
    BY DEF PlaceInv, ObjInv
  <2> QED
    BY <1>1, <1>3, <1>4, <2>1, <2>2 DEF ObjInv
<1>9. LatestInv'
  BY <1>1, <1>3, <1>4 DEF PlaceInv, LatestInv
<1> QED
  BY <1>6, <1>7, <1>8, <1>9 DEF PlaceInv

\* The number of commits that have failed only grows.
LEMMA FailuresGrow ==
  failures \in Nat /\ [Next]_vars => failures' \in Nat /\ (failures' = 0 => failures = 0)
<1> SUFFICES ASSUME failures \in Nat, [Next]_vars
             PROVE  failures' \in Nat /\ (failures' = 0 => failures = 0)
  OBVIOUS
<1>1. CASE Checkpoint
  <2>1. failures' = failures \/ failures' = failures + 1
    BY <1>1 DEF Checkpoint, Commit, CommitFail
  <2> QED
    BY <2>1
<1>2. CASE ~Checkpoint
  <2>1. failures' = failures
    BY <1>2 DEF Next, vars, history, BackendStep, PatchPut, PatchRecord, GetProbe, GetSegments,
       GetTarget, GetLoad, GetRef, GetReturn, CompactorTick, CompactorBegin, BackupPause, BackupDrain,
       CompactStep, CompactSnapshot, CompactLoad, CompactTarget, CompactFetch, CompactPut,
       CompactPublish, CompactSetBase, CompactDelete, CompactDeleted, CompactFail, CompactEnd
  <2> QED
    BY <2>1
<1> QED
  BY <1>1, <1>2

\* As long as no commit fails.
LEMMA NextPlaces ==
  TypeInv /\ StoreInv /\ PlaceInv /\ failures \in Nat /\ [Next]_vars => (failures' = 0 => PlaceInv')
<1> SUFFICES ASSUME TypeInv, StoreInv, PlaceInv, failures \in Nat, [Next]_vars, failures' = 0
             PROVE  PlaceInv'
  OBVIOUS
<1>0. TypeOK
  BY DEF TypeInv
<1>1. ASSUME NEW b \in Backends, BackendStep(b) PROVE PlaceInv'
  <2>1. ASSUME NEW t \in Chunks, PatchPut(b, t) PROVE PlaceInv'
    BY <2>1, PutPlaces
  <2>2. CASE PatchRecord(b)
    BY <2>2, RecordPlaces
  <2>3. ASSUME NEW t \in Chunks, NEW fp, GetProbe(b, t, fp) PROVE PlaceInv'
    <3>1. /\ UNCHANGED <<log, active_window, obj, writes, draft, head_ckpt, latest>>
          /\ rd[b].pc = "idle" /\ \A o \in Backends : o # b => rd'[o] = rd[o]
      BY <1>0, <2>3 DEF GetProbe, storage, timeline, history, TypeOK
    <3>2. rd'[b].pc # "put"
      <4>1. CASE ProbeHits(t, fp) # {}
        BY <1>0, <2>3, <4>1 DEF GetProbe, TypeOK
      <4>2. CASE ProbeHits(t, fp) = {}
        BY <1>0, <2>3, <4>2 DEF GetProbe, TypeOK
      <4> QED
        BY <4>1, <4>2
    <3> QED
      BY <3>1, <3>2, PlaceFrame DEF Flushing
  <2>4. CASE GetSegments(b) \/ GetTarget(b) \/ GetLoad(b) \/ GetRef(b) \/ GetReturn(b)
    <3>1. /\ UNCHANGED <<log, active_window, obj, writes, draft, head_ckpt, latest>>
          /\ rd[b].pc # "put" /\ \A o \in Backends : o # b => rd'[o] = rd[o]
      BY <1>0, <2>4 DEF GetSegments, GetTarget, GetLoad, GetRef, GetReturn, storage, timeline, history,
         TypeOK
    <3>2. rd'[b].pc # "put"
      <4>1. CASE GetSegments(b)
        BY <1>0, <4>1 DEF GetSegments, TypeOK
      <4>2. CASE GetTarget(b)
        BY <1>0, <4>2 DEF GetTarget, TypeOK
      <4>3. CASE GetLoad(b) \/ GetRef(b) \/ GetReturn(b)
        BY <1>0, <4>3 DEF GetLoad, GetRef, GetReturn, Idle, TypeOK
      <4> QED
        BY <2>4, <4>1, <4>2, <4>3
    <3> QED
      BY <3>1, <3>2, PlaceFrame DEF Flushing
  <2> QED
    BY <1>1, <2>1, <2>2, <2>3, <2>4 DEF BackendStep
<1>2. CASE Checkpoint
  <2>1. PICK c \in Lsn, r \in Lsn :
          (\E backup \in {FALSE, Basebackups} : Commit(c, r, backup)) \/ CommitFail(c, r)
    BY <1>2, Zenon DEF Checkpoint
  <2>2. ~CommitFail(c, r)
    BY DEF CommitFail
  <2>3. \A backup \in {FALSE, Basebackups} : backup \in BOOLEAN
    BY StoreAssumption
  <2> QED
    BY <2>1, <2>2, <2>3, CommitPlaces, Zenon
<1>3. CASE \/ CompactorTick \/ CompactorBegin \/ BackupPause \/ BackupDrain
           \/ (\E c \in Compactors : CompactStep(c)) \/ UNCHANGED vars
  <2>1. /\ UNCHANGED <<log, active_window, obj, writes, draft, head_ckpt, latest, rd>>
    BY <1>3 DEF CompactorTick, CompactorBegin, BackupPause, BackupDrain, CompactStep, CompactSnapshot,
       CompactLoad, CompactTarget, CompactFetch, CompactPut, CompactPublish, CompactSetBase,
       CompactDelete, CompactDeleted, CompactFail, CompactEnd, vars, storage, timeline, history
  <2> QED
    BY <2>1, PlaceFrame DEF Flushing
<1> QED
  BY <1>1, <1>2, <1>3, Zenon DEF Next

LEMMA PlaceInvariant == Spec => []PlacesInv
<1>1. Init => PlacesInv
  BY InitPlaces DEF Init, PlacesInv
<1>2. TypeInv /\ StoreInv /\ PlacesInv /\ [Next]_vars => PlacesInv'
  BY NextPlaces, FailuresGrow DEF PlacesInv
<1> QED
  BY <1>1, <1>2, TypeInvariant, StoreInvariant, PTL DEF Spec

-----------------------------------------------------------------------------
(* An undisturbed read *)

\* What base_manifest() returns refers to committed intervals.
LEMMA BaseKnown ==
  ASSUME TypeOK, StoreInv, RefInv, NEW p \in Procs
  PROVE  BaseManifest(p) \in Manifest /\ Known(log, BaseManifest(p))
<1>1. CASE cached[p].ckpt = base_ckpt
  BY <1>1 DEF BaseManifest, RefInv, TypeOK
<1>2. CASE cached[p].ckpt # base_ckpt
  <2>1. base_ckpt \in Lsn /\ (base_ckpt # 0 => bases[base_ckpt] # Missing)
    BY DEF TypeOK, StoreInv, ManifestInv
  <2>2. LoadManifestAt(base_ckpt) # Missing /\ LoadManifestAt(base_ckpt) \in Manifest
    BY <2>1, LoadGood DEF StoreInv
  <2> QED
    BY <1>2, <2>1, <2>2, LoadKnown DEF BaseManifest
<1> QED
  BY <1>1, <1>2

\* A chunk's newest object is under the last prefix that any object is under.
LEMMA LastPlace ==
  ASSUME TypeOK, PlaceInv, NEW t \in Chunks, ~Flushing(t), latest[t] > 0
  PROVE  \E l \in Lsn : /\ Placed(t, l) /\ obj[t][l] = latest[t]
                        /\ \A k \in Lsn : obj[t][k] > 0 => k <= l
<1>1. PICK l \in Lsn : Placed(t, l) /\ obj[t][l] >= latest[t]
  BY DEF PlaceInv, LatestInv
<1>2. obj[t][l] \in Nat /\ latest[t] \in Nat /\ l \in Int
  BY StoreNumbers
<1>3. obj[t][l] = latest[t]
  BY <1>1, <1>2 DEF PlaceInv, LatestInv
<1>4. ASSUME NEW k \in Lsn, obj[t][k] > 0 PROVE k <= l
  <2>1. k \in Int /\ obj[t][k] \in Nat /\ obj[t][k] <= latest[t]
    BY StoreNumbers DEF PlaceInv, LatestInv
  <2>2. l < k => obj[t][l] < obj[t][k]
    BY <1>4 DEF PlaceInv, ObjInv
  <2> QED
    BY <1>2, <1>3, <2>1, <2>2
<1> QED
  BY <1>1, <1>3, <1>4

\* The intervals that the window has let go end before the top of the segment scan.
LEMMA BelowTop ==
  ASSUME TypeOK, PlaceInv, NEW sc \in log \ active_window
  PROVE  sc.ckpt < SegmentTop /\ \A a \in active_window : sc.ckpt < a.ckpt
<1> DEFINE C == {a.ckpt : a \in active_window}
<1>1. \A a \in active_window : a.ckpt \in Nat /\ sc.ckpt < a.ckpt
  BY StoreNumbers DEF PlaceInv, WindowInv
<1>2. C \in SUBSET Nat /\ C # {} /\ active_window # {}
  BY <1>1 DEF PlaceInv, WindowInv
<1>3. SegmentTop = Min(C)
  BY <1>2 DEF SegmentTop
<1>4. \A x \in C : sc.ckpt < x
  BY <1>1
<1>5. sc.ckpt < Min(C)
  <2> HIDE DEF C
  <2> QED
    BY <1>2, <1>4, MinPosition
<1> QED
  BY <1>1, <1>3, <1>5

\* The window, the files and the manifest are looked through newest first.
LEMMA LookupLatest ==
  ASSUME TypeOK, StoreInv, RefInv, PlaceInv, NEW p \in Procs, NEW t \in Chunks, ~Flushing(t), NEW fp
  PROVE  Lookup(p, t, fp) = latest[t]
<1> DEFINE hits == ProbeHits(t, fp)
           scs == SegmentHits(t, base_ckpt, SegmentTop)
           m == BaseManifest(p)
<1>1. m \in Manifest /\ Known(log, m)
  BY BaseKnown
<1>2. /\ Lookup(p, t, fp) = IF hits # {} THEN obj[t][Max(hits)]
                            ELSE IF scs # {} THEN obj[t][Newest(scs).prev] ELSE Resolve(m, t)
  BY DEF Lookup
<1>3. \A l \in hits : l \in Lsn /\ obj[t][l] > 0
                      /\ (l = head_ckpt \/ \E a \in active_window : a.prev = l)
  BY StoreNumbers DEF ProbeHits
<1>4. \A o \in scs : o \in segments /\ o \in log /\ obj[t][o.prev] > 0 /\ base_ckpt <= o.ckpt
  BY StoreNumbers DEF SegmentHits
<1>5. hits \in SUBSET Int /\ \A x \in hits : x <= MaxLsn
  BY <1>3, StoreNumbers, Positions
<1>6. scs \in SUBSET SegmentCheckpoint
  BY <1>4 DEF TypeOK
<1>7. /\ \A l \in Lsn : Placed(t, l) => obj[t][l] > 0
      /\ \A l \in Lsn : head_ckpt < l => obj[t][l] = 0
      /\ \A l \in Lsn : obj[t][l] <= latest[t]
  BY DEF PlaceInv, ObjInv, LatestInv
<1>8. m.refs[t] \in Lsn \cup {NoRef}
  BY <1>1 DEF Manifest
<1> HIDE DEF hits, scs, m
<1>9. CASE latest[t] = 0
  <2>1. \A l \in Lsn : obj[t][l] = 0
    BY <1>7, <1>9, StoreNumbers
  <2>2. hits = {}
    BY <1>3, <2>1
  <2>3. scs = {}
    BY <1>4, <2>1, StoreNumbers
  <2>4. Resolve(m, t) = 0
    BY <1>8, <2>1 DEF Resolve
  <2> QED
    BY <1>2, <1>9, <2>2, <2>3, <2>4
<1>10. CASE latest[t] > 0
  <2>1. PICK l \in Lsn : /\ Placed(t, l) /\ obj[t][l] = latest[t]
                         /\ \A k \in Lsn : obj[t][k] > 0 => k <= l
    BY <1>10, LastPlace
  <2>2. CASE l \in hits
    <3>1. Max(hits) \in hits /\ \A x \in hits : x <= Max(hits)
      BY <1>5, <2>2, MaxPosition
    <3>2. Max(hits) <= l /\ l <= Max(hits) /\ Max(hits) \in Int
      BY <1>3, <1>5, <2>1, <2>2, <3>1
    <3>3. Max(hits) = l
      BY <3>2, StoreNumbers
    <3> QED
      BY <1>2, <2>1, <2>2, <3>3
  <2>3. CASE l \notin hits
    <3>1. ~(l = head_ckpt /\ t \in draft)
      BY <1>10, <2>1, <2>3 DEF hits, ProbeHits
    <3>2. PICK sc \in log : sc.prev = l /\ t \in sc.chunks
      BY <2>1, <3>1 DEF Placed
    <3>3. sc \notin active_window
      BY <1>10, <2>1, <2>3, <3>2 DEF hits, ProbeHits
    <3>4. /\ sc.ckpt \in Int /\ l \in Int /\ head_ckpt \in Int /\ l < sc.ckpt /\ sc.ckpt <= head_ckpt
          /\ base_ckpt \in Int
      BY <3>2, StoreNumbers DEF PlaceInv, ChainInv, StoreInv, LogInv
    <3>5. ASSUME NEW o \in log, obj[t][o.prev] > 0 PROVE o.ckpt <= sc.ckpt
      <4>1. o.prev <= l /\ o.ckpt \in Int /\ o.prev \in Int
        BY <2>1, <3>5, StoreNumbers
      <4>2. sc.ckpt < o.ckpt => sc.ckpt <= o.prev
        BY DEF PlaceInv, ChainInv
      <4> QED
        BY <3>4, <4>1, <4>2
    <3>6. /\ sc.ckpt < SegmentTop
          /\ \A a \in active_window : a \in log /\ a.ckpt \in Int /\ sc.ckpt < a.ckpt
      BY <3>3, BelowTop, StoreNumbers
    <3>7. hits = {}
      <4> SUFFICES ASSUME NEW k \in hits PROVE FALSE
        OBVIOUS
      <4>1. k \in Lsn /\ obj[t][k] > 0 /\ k <= l /\ k \in Int
        BY <1>3, <1>5, <2>1
      <4>2. k # head_ckpt
        BY <3>4, <4>1
      <4>3. PICK a \in active_window : a.prev = k
        BY <1>3, <4>2
      <4>4. a.ckpt <= sc.ckpt
        BY <3>5, <3>6, <4>1, <4>3
      <4> QED
        BY <3>4, <3>6, <4>4
    <3>8. CASE sc \in segments /\ base_ckpt <= sc.ckpt
      <4>1. sc \in scs
        BY <1>10, <2>1, <3>2, <3>6, <3>8 DEF scs, SegmentHits
      <4>2. Newest(scs) \in scs /\ sc.ckpt <= Newest(scs).ckpt
        BY <1>6, <4>1, NewestExists
      <4>3. Newest(scs) \in log /\ Newest(scs).ckpt <= sc.ckpt
        BY <1>4, <3>5, <4>2
      <4>4. Newest(scs).ckpt \in Int
        BY <4>3, StoreNumbers
      <4>5. Newest(scs).ckpt = sc.ckpt
        BY <3>4, <4>2, <4>3, <4>4
      <4>6. Newest(scs) = sc
        BY <4>3, <4>5 DEF StoreInv, LogInv
      <4> QED
        BY <1>2, <2>1, <3>2, <3>7, <4>1, <4>6
    <3>9. CASE ~(sc \in segments /\ base_ckpt <= sc.ckpt)
      <4>1. sc.ckpt <= base_ckpt
        <5>1. CASE sc \notin segments
          BY <3>2, <5>1 DEF StoreInv, SegmentInv
        <5>2. CASE sc \in segments
          BY <3>4, <3>9, <5>2
        <5> QED
          BY <5>1, <5>2
      <4>2. scs = {}
        <5> SUFFICES ASSUME NEW o \in scs PROVE FALSE
          OBVIOUS
        <5>1. o \in log /\ o \in segments /\ base_ckpt <= o.ckpt /\ o.ckpt <= sc.ckpt /\ o.ckpt \in Int
          BY <1>4, <3>5, StoreNumbers
        <5>2. o.ckpt = sc.ckpt /\ base_ckpt <= sc.ckpt
          BY <3>4, <4>1, <5>1
        <5>3. o = sc
          BY <5>1, <5>2 DEF StoreInv, LogInv
        <5> QED
          BY <3>9, <5>1, <5>2, <5>3
      <4>3. Covers(m, sc)
        BY <4>1, BaseGood DEF m, StoreInv, Sound
      <4>4. m.refs[t] >= l
        BY <3>2, <4>3 DEF Covers
      <4>5. m.refs[t] # NoRef
        BY <4>4, StoreNumbers DEF NoRef
      <4>6. PICK k \in log : t \in k.chunks /\ k.prev = m.refs[t]
        BY <1>1, <4>5 DEF Known
      <4>7. m.refs[t] \in Lsn /\ Placed(t, m.refs[t])
        BY <1>8, <4>5, <4>6 DEF Placed
      <4>8. m.refs[t] <= l
        BY <1>7, <2>1, <4>7
      <4>9. m.refs[t] = l
        <5>1. m.refs[t] \in Int
          BY <4>7, LsnInt
        <5> QED
          BY <3>4, <4>4, <4>8, <5>1
      <4> QED
        BY <1>2, <2>1, <3>7, <4>2, <4>5, <4>9 DEF Resolve
    <3> QED
      BY <3>8, <3>9
  <2> QED
    BY <2>2, <2>3
<1> QED
  BY <1>9, <1>10, StoreNumbers

\* ReadLatest: whatever commits, flushes and compactions are doing, get_chunk finds the
\* version flushed last, in every process and whatever the filters answer, as long as no
\* commit has failed after it drained the draft (CommitIdempotent, the claim that such a
\* commit can be repeated, does not hold).
THEOREM ReadsLatest == Spec => [](failures = 0 => ReadLatest)
<1>1. TypeInv /\ StoreInv /\ RefInv /\ PlacesInv => (failures = 0 => ReadLatest)
  <2> SUFFICES ASSUME TypeInv, StoreInv, RefInv, PlacesInv, failures = 0, NEW p \in Procs, NEW t \in Chunks,
                      \A b \in Backends : rd[b].pc = "put" => rd[b].tag # t, NEW fp
               PROVE  Lookup(p, t, fp) = latest[t]
    BY DEF ReadLatest
  <2>1. ~Flushing(t)
    BY DEF Flushing
  <2> QED
    BY <2>1, LookupLatest DEF TypeInv, PlacesInv
<1> QED
  BY <1>1, TypeInvariant, StoreInvariant, RefInvariant, PlaceInvariant, PTL

-----------------------------------------------------------------------------
(* A read among commits and compactions *)

LEMMA ReadTypes ==
  ASSUME TypeOK, NEW b \in Backends, rd[b].pc \in {"segs", "base", "load", "ref", "done"}
  PROVE  rd[b].tag \in Chunks /\ rd[b].floor \in Nat
<1>1. rd[b] \in ReadCalls
  BY DEF TypeOK
<1> QED
  BY <1>1 DEF ReadCalls, Idle, Versions

LEMMA InitReads == Init => WorkerInv /\ \A b \in Backends : ReadInv(b)
BY DEF Init, WorkerInv, ReadInv, Idle, Compactors

\* Without base backups only the worker compacts, and it deletes behind the base it has set.
LEMMA NextWorker ==
  ASSUME ~Basebackups
  PROVE  TypeInv /\ WorkerInv /\ [Next]_vars => WorkerInv'
<1> SUFFICES ASSUME TypeInv, WorkerInv, [Next]_vars PROVE WorkerInv'
  OBVIOUS
<1>0. TypeOK /\ cpc \in [Compactors -> PcValues] /\ job \in [Compactors -> Jobs]
  BY DEF TypeInv, TypeOK
<1>1. "worker" \in Compactors /\ "checkpointer" \in Compactors /\ "worker" # "checkpointer"
  BY DEF Compactors
<1>2. CASE UNCHANGED vars \/ \E b \in Backends : BackendStep(b)
  <2>1. UNCHANGED <<cpc, job, base_ckpt>>
    BY <1>2 DEF vars, timeline, BackendStep, PatchPut, PatchRecord, GetProbe, GetSegments, GetTarget,
       GetLoad, GetRef, GetReturn
  <2> QED
    BY <2>1 DEF WorkerInv
<1>3. CASE Checkpoint
  <2>1. PICK c \in Lsn, r \in Lsn :
          (\E backup \in {FALSE, Basebackups} : Commit(c, r, backup)) \/ CommitFail(c, r)
    BY <1>3, Zenon DEF Checkpoint
  <2>2. CASE CommitFail(c, r)
    BY <2>2 DEF CommitFail, WorkerInv
  <2>3. CASE Commit(c, r, FALSE)
    BY <1>0, <1>1, <2>3 DEF Commit, WorkerInv
  <2>4. \A backup \in {FALSE, Basebackups} : backup = FALSE
    BY StoreAssumption
  <2> QED
    BY <2>1, <2>2, <2>3, <2>4, Zenon
<1>4. CASE CompactorTick \/ CompactorBegin \/ BackupPause \/ BackupDrain
  BY <1>0, <1>1, <1>4 DEF CompactorTick, CompactorBegin, BackupPause, BackupDrain, Goto, timeline,
     WorkerInv
<1>5. CASE CompactStep("checkpointer")
  <2>1. FALSE
    BY <1>5 DEF WorkerInv, CompactStep, CompactSnapshot, CompactLoad, CompactTarget, CompactFetch,
       CompactPut, CompactPublish, CompactSetBase, CompactDelete, CompactDeleted, CompactFail, CompactEnd
  <2> QED
    BY <2>1
<1>6. CASE CompactStep("worker")
  <2>1. CASE CompactSetBase("worker")
    BY <1>0, <1>1, <2>1 DEF CompactSetBase, Goto, WorkerInv
  <2>2. CASE CompactDelete("worker")
    <3>1. UNCHANGED <<cpc, base_ckpt>> /\ job'["worker"].new = job["worker"].new
      BY <1>0, <1>1, <2>2 DEF CompactDelete, timeline, Jobs
    <3> QED
      BY <3>1 DEF WorkerInv
  <2>3. CASE CompactSnapshot("worker") \/ CompactLoad("worker") \/ CompactTarget("worker")
    <3>1. cpc'["checkpointer"] = cpc["checkpointer"] /\ cpc'["worker"] # "delete"
      BY <1>0, <1>1, <2>3 DEF CompactSnapshot, CompactLoad, CompactTarget, Goto
    <3> QED
      BY <3>1 DEF WorkerInv
  <2>4. CASE \/ CompactFetch("worker") \/ CompactPut("worker") \/ CompactPublish("worker")
             \/ CompactDeleted("worker") \/ CompactFail("worker") \/ CompactEnd("worker")
    <3>1. cpc'["checkpointer"] = cpc["checkpointer"] /\ cpc'["worker"] # "delete"
      BY <1>0, <1>1, <2>4 DEF CompactFetch, CompactPut, CompactPublish, CompactDeleted, CompactFail,
         CompactEnd, Goto
    <3> QED
      BY <3>1 DEF WorkerInv
  <2> QED
    BY <1>6, <2>1, <2>2, <2>3, <2>4 DEF CompactStep
<1> QED
  BY <1>2, <1>3, <1>4, <1>5, <1>6 DEF Next, Compactors

\* The manifest leads to a version at least as new as one in an interval it accounts for.
LEMMA ManifestFinds ==
  ASSUME TypeOK, PlaceInv, NEW m \in Manifest, Known(log, m), NEW l \in Lsn, Sound(log, m, l),
         NEW t \in Chunks, NEW v \in Nat, Behind(t, v, l)
  PROVE  Resolve(m, t) >= v
<1>1. CASE m.refs[t] = NoRef
  <2>1. \A sc \in log : t \in sc.chunks => ~(sc.ckpt <= l)
    BY <1>1, StoreNumbers DEF Sound, Covers, NoRef
  <2>2. v = 0
    BY <2>1 DEF Behind
  <2> QED
    BY <1>1, <2>2 DEF Resolve
<1>2. CASE m.refs[t] # NoRef
  <2>1. PICK k \in log : t \in k.chunks /\ k.prev = m.refs[t]
    BY <1>2 DEF Known
  <2>2. /\ k.prev \in Lsn /\ obj[t][k.prev] > 0 /\ Resolve(m, t) = obj[t][k.prev]
        /\ obj[t][k.prev] \in Nat
    BY <1>2, <2>1, StoreNumbers DEF PlaceInv, ObjInv, Placed, Resolve
  <2>3. CASE v = 0
    BY <2>2, <2>3
  <2>4. CASE v > 0
    <3>1. PICK sc \in log : t \in sc.chunks /\ sc.ckpt <= l /\ obj[t][sc.prev] >= v
      BY <2>4 DEF Behind
    <3>2. k.prev >= sc.prev
      BY <2>1, <3>1 DEF Sound, Covers
    <3>3. sc.prev \in Lsn /\ obj[t][sc.prev] \in Nat /\ sc.prev \in Int /\ k.prev \in Int
      BY StoreNumbers
    <3>4. CASE sc.prev = k.prev
      BY <2>2, <3>1, <3>4
    <3>5. CASE sc.prev < k.prev
      <4>1. obj[t][sc.prev] < obj[t][k.prev]
        BY <2>2, <3>3, <3>5 DEF PlaceInv, ObjInv
      <4> QED
        BY <2>2, <3>1, <3>3, <4>1
    <3> QED
      BY <3>2, <3>3, <3>4, <3>5
  <2> QED
    BY <2>3, <2>4
<1> QED
  BY <1>1, <1>2

\* What others do to a read: objects and the log grow, the base moves up, and while the read
\* holds the lock the files it has listed stay.
LEMMA ReadFrame ==
  ASSUME TypeOK, NEW b \in Backends, ReadInv(b), rd'[b] = rd[b],
         cached'[b] = cached[b], target'[b] = target[b], cached[b] \in Manifest,
         log \subseteq log', base_ckpt' \in Int, base_ckpt <= base_ckpt',
         \A t \in Chunks, l \in Lsn : obj'[t][l] \in Int /\ obj[t][l] <= obj'[t][l],
         rd[b].pc = "segs" =>
           /\ UNCHANGED <<base_ckpt, active_window, head_ckpt, log>>
           /\ \A sc \in segments : SegmentId(base_ckpt) <= SegmentId(sc.ckpt) => sc \in segments'
  PROVE  ReadInv(b)'
<1>1. CASE rd[b].pc = "segs"
  <2>1. rd[b].tag \in Chunks /\ rd[b].floor \in Nat
    BY <1>1, ReadTypes
  <2>2. SegmentTop' = SegmentTop
    BY <1>1 DEF SegmentTop
  <2>3. \A id \in rd[b].listed :
          SegmentId(base_ckpt) <= id /\ id \in {SegmentId(sc.ckpt) : sc \in segments'}
    BY <1>1 DEF ReadInv
  <2>4. ASSUME rd[b].floor > 0
        PROVE  \E sc \in log \ active_window :
                 rd[b].tag \in sc.chunks /\ obj'[rd[b].tag][sc.prev] >= rd[b].floor
    <3>1. PICK sc \in log \ active_window :
            rd[b].tag \in sc.chunks /\ obj[rd[b].tag][sc.prev] >= rd[b].floor
      BY <1>1, <2>4 DEF ReadInv
    <3>2. /\ sc.prev \in Lsn /\ obj[rd[b].tag][sc.prev] \in Nat
          /\ obj'[rd[b].tag][sc.prev] \in Int /\ obj[rd[b].tag][sc.prev] <= obj'[rd[b].tag][sc.prev]
      BY <2>1, StoreNumbers
    <3>3. obj'[rd[b].tag][sc.prev] >= rd[b].floor
      BY <2>1, <3>1, <3>2
    <3> QED
      BY <3>1, <3>3
  <2> QED
    BY <1>1, <2>2, <2>3, <2>4 DEF ReadInv
<1>2. ASSUME NEW l \in Int, NEW k \in Int, l <= k, rd[b].pc \in {"base", "load"},
             Behind(rd[b].tag, rd[b].floor, l)
      PROVE  rd[b].floor > 0 =>
               \E sc \in log' : rd[b].tag \in sc.chunks /\ sc.ckpt <= k
                                /\ obj'[rd[b].tag][sc.prev] >= rd[b].floor
  <2> HAVE rd[b].floor > 0
  <2>1. rd[b].tag \in Chunks /\ rd[b].floor \in Nat
    BY <1>2, ReadTypes
  <2>2. PICK sc \in log : rd[b].tag \in sc.chunks /\ sc.ckpt <= l /\ obj[rd[b].tag][sc.prev] >= rd[b].floor
    BY <1>2 DEF Behind
  <2>3. /\ sc.prev \in Lsn /\ sc.ckpt \in Int /\ obj[rd[b].tag][sc.prev] \in Nat
        /\ obj'[rd[b].tag][sc.prev] \in Int /\ obj[rd[b].tag][sc.prev] <= obj'[rd[b].tag][sc.prev]
    BY <2>1, StoreNumbers
  <2>4. obj'[rd[b].tag][sc.prev] >= rd[b].floor /\ sc.ckpt <= k
    BY <1>2, <2>1, <2>2, <2>3
  <2> QED
    BY <2>2, <2>4
<1>3. CASE rd[b].pc = "base"
  <2>1. base_ckpt \in Int /\ Behind(rd[b].tag, rd[b].floor, base_ckpt)
    BY <1>3, StoreNumbers DEF ReadInv
  <2> QED
    BY <1>2, <1>3, <2>1 DEF ReadInv, Behind
<1>4. CASE rd[b].pc = "load"
  <2>1. target[b] \in Int /\ target[b] <= target[b] /\ Behind(rd[b].tag, rd[b].floor, target[b])
    BY <1>4, LsnInt DEF ReadInv, TypeOK, Procs
  <2> QED
    BY <1>2, <1>4, <2>1 DEF ReadInv, Behind
<1>5. CASE rd[b].pc = "ref"
  <2> DEFINE t == rd[b].tag
             l == cached[b].refs[t]
  <2>1. t \in Chunks /\ rd[b].floor \in Nat
    BY <1>5, ReadTypes
  <2>2. l \in Lsn \cup {NoRef}
    BY <2>1 DEF Manifest
  <2>3. Resolve(cached[b], t) >= rd[b].floor
    BY <1>5 DEF ReadInv
  <2>4. (IF l = NoRef THEN 0 ELSE obj'[t][l]) >= rd[b].floor
    <3>1. CASE l = NoRef
      BY <2>3, <3>1 DEF Resolve
    <3>2. CASE l # NoRef
      <4>1. obj[t][l] >= rd[b].floor
        BY <2>3, <3>2 DEF Resolve
      <4>2. obj[t][l] \in Nat /\ obj'[t][l] \in Int /\ obj[t][l] <= obj'[t][l]
        BY <2>1, <2>2, <3>2, StoreNumbers
      <4> QED
        BY <2>1, <3>2, <4>1, <4>2
    <3> QED
      BY <3>1, <3>2
  <2> QED
    BY <1>5, <2>4 DEF ReadInv, Resolve
<1>6. CASE rd[b].pc \notin {"segs", "base", "load", "ref"}
  BY <1>6 DEF ReadInv
<1> QED
  BY <1>1, <1>3, <1>4, <1>5, <1>6

\* The probe of draft and window: what it finds is new enough, or what is new enough is
\* behind the window.
LEMMA ProbeStep ==
  ASSUME TypeOK, StoreInv, PlaceInv, NEW b \in Backends, NEW t \in Chunks, NEW fp, GetProbe(b, t, fp)
  PROVE  ReadInv(b)'
<1> DEFINE hits == ProbeHits(t, fp)
<1>1. UNCHANGED <<obj, segments, log, base_ckpt, head_ckpt, active_window>>
  BY DEF GetProbe, storage, timeline, history
<1>2. \A l \in hits : l \in Lsn /\ obj[t][l] > 0
                      /\ (l = head_ckpt \/ \E a \in active_window : a.prev = l)
  BY StoreNumbers DEF ProbeHits
<1>3. latest[t] > 0 => \E l \in Lsn : Placed(t, l) /\ obj[t][l] >= latest[t]
  BY DEF PlaceInv, LatestInv
<1>4. ASSUME NEW l \in Lsn, Placed(t, l), obj[t][l] >= latest[t], latest[t] > 0, l \notin hits
      PROVE  \E sc \in log \ active_window : t \in sc.chunks /\ sc.prev = l
  <2>1. obj[t][l] > 0
    BY <1>4, StoreNumbers
  <2> QED
    BY <1>4, <2>1 DEF Placed, ProbeHits
<1>5. CASE hits # {}
  <2>1. rd'[b] = [pc |-> "done", tag |-> t, floor |-> latest[t], val |-> obj[t][Max(hits)]]
    BY <1>5 DEF GetProbe, TypeOK
  <2>2. hits \in SUBSET Int /\ \A x \in hits : x <= MaxLsn
    BY <1>2, StoreNumbers, Positions
  <2> HIDE DEF hits
  <2>3. Max(hits) \in hits /\ \A x \in hits : x <= Max(hits)
    BY <1>5, <2>2, MaxPosition
  <2> DEFINE h == Max(hits)
  <2>4. h \in Lsn /\ h \in Int /\ obj[t][h] > 0 /\ obj[t][h] \in Nat /\ latest[t] \in Nat
    BY <1>2, <2>3, StoreNumbers
  <2>5. obj[t][h] >= latest[t]
    <3>1. CASE latest[t] = 0
      BY <2>4, <3>1
    <3>2. CASE latest[t] > 0
      <4>1. PICK l \in Lsn : Placed(t, l) /\ obj[t][l] >= latest[t]
        BY <1>3, <3>2
      <4>2. l <= h
        <5>1. CASE l \in hits
          BY <2>3, <5>1
        <5>2. CASE l \notin hits
          <6>1. PICK sc \in log \ active_window : t \in sc.chunks /\ sc.prev = l
            BY <1>4, <3>2, <4>1, <5>2
          <6>2. /\ sc.ckpt \in Int /\ l \in Int /\ l < sc.ckpt /\ sc.ckpt <= head_ckpt /\ head_ckpt \in Int
                /\ sc \in log
            BY <6>1, StoreNumbers DEF PlaceInv, ChainInv, StoreInv, LogInv
          <6>3. CASE h = head_ckpt
            BY <2>4, <6>2, <6>3
          <6>4. CASE h # head_ckpt
            <7>1. PICK a \in active_window : a.prev = h
              BY <1>2, <2>3, <6>4
            <7>2. sc.ckpt < a.ckpt
              BY <6>1, BelowTop
            <7>3. a \in log /\ a.prev \in Int
              BY StoreNumbers
            <7>4. sc.ckpt <= a.prev
              BY <6>2, <7>2, <7>3 DEF PlaceInv, ChainInv
            <7> QED
              BY <6>2, <7>1, <7>3, <7>4
          <6> QED
            BY <6>3, <6>4
        <5> QED
          BY <5>1, <5>2
      <4>3. l \in Int /\ obj[t][l] \in Nat
        BY StoreNumbers
      <4>4. l < h => obj[t][l] < obj[t][h]
        BY <2>4 DEF PlaceInv, ObjInv
      <4>5. CASE l = h
        BY <4>1, <4>5
      <4>6. CASE l < h
        BY <2>4, <4>1, <4>3, <4>4, <4>6
      <4> QED
        BY <2>4, <4>2, <4>3, <4>5, <4>6
    <3> QED
      BY <2>4, <3>1, <3>2
  <2> QED
    BY <2>1, <2>5 DEF ReadInv
<1>6. CASE hits = {}
  <2> DEFINE files == IF SegmentTop <= base_ckpt THEN {} ELSE ListSegments(base_ckpt, SegmentTop)
  <2>1. rd'[b] = [pc |-> "segs", tag |-> t, floor |-> latest[t],
                  low |-> base_ckpt, top |-> SegmentTop, listed |-> files]
    BY <1>6 DEF GetProbe, TypeOK
  <2>2. \A id \in files :
          SegmentId(base_ckpt) <= id /\ id \in {SegmentId(sc.ckpt) : sc \in segments}
    BY DEF ListSegments
  <2>3. SegmentTop' = SegmentTop
    BY <1>1 DEF SegmentTop
  <2>4. latest[t] > 0 =>
          \E sc \in log \ active_window : t \in sc.chunks /\ obj[t][sc.prev] >= latest[t]
    BY <1>3, <1>4, <1>6
  <2> HIDE DEF files
  <2> QED
    BY <1>1, <2>1, <2>2, <2>3, <2>4 DEF ReadInv
<1> QED
  BY <1>5, <1>6

\* The scan of the files: the newest hit is new enough, and without one what is new enough
\* is behind the base.
LEMMA SegmentsStep ==
  ASSUME TypeOK, StoreInv, PlaceInv, NEW b \in Backends, ReadInv(b), GetSegments(b)
  PROVE  ReadInv(b)'
<1> DEFINE r == rd[b]
           t == rd[b].tag
           v == rd[b].floor
           hits == SegmentHits(r.tag, r.low, r.top)
           reached == {id \in r.listed : \A sc \in hits : SegmentId(sc.ckpt) <= id}
<1>1. UNCHANGED <<obj, log, base_ckpt>> /\ rd[b].pc = "segs"
  BY DEF GetSegments, storage, timeline, history
<1>2. t \in Chunks /\ v \in Nat
  BY <1>1, ReadTypes
<1>3. reached \subseteq {SegmentId(sc.ckpt) : sc \in segments}
  BY <1>1 DEF ReadInv
<1>4. /\ hits # {} => rd'[b] = [pc |-> "done", tag |-> t, floor |-> v, val |-> obj[t][Newest(hits).prev]]
      /\ hits = {} => rd'[b] = [pc |-> "base", tag |-> t, floor |-> v]
  BY <1>3 DEF GetSegments, TypeOK
<1>5. hits = {sc \in segments : /\ base_ckpt <= sc.ckpt /\ sc.ckpt < SegmentTop
                                /\ t \in sc.chunks /\ obj[t][sc.prev] > 0}
  BY <1>1 DEF ReadInv, SegmentHits
<1>6. v > 0 => \E sc \in log \ active_window : t \in sc.chunks /\ obj[t][sc.prev] >= v
  BY <1>1 DEF ReadInv
<1> HIDE DEF r, t, v, hits, reached
<1>7. ASSUME NEW sc \in log \ active_window, t \in sc.chunks, obj[t][sc.prev] >= v, v > 0,
             base_ckpt < sc.ckpt
      PROVE  sc \in hits
  <2>1. /\ sc \in log /\ sc.prev \in Lsn /\ sc.ckpt \in Int /\ base_ckpt \in Int
        /\ obj[t][sc.prev] \in Nat
    BY <1>2, StoreNumbers
  <2>2. sc \in segments
    BY <1>7, <2>1 DEF StoreInv, SegmentInv
  <2>3. sc.ckpt < SegmentTop
    BY BelowTop
  <2>4. obj[t][sc.prev] > 0 /\ base_ckpt <= sc.ckpt
    BY <1>2, <1>7, <2>1
  <2> QED
    BY <1>5, <1>7, <2>2, <2>3, <2>4
<1>8. CASE hits # {}
  <2> DEFINE n == Newest(hits)
  <2>1. hits \in SUBSET SegmentCheckpoint
    BY <1>5, StoreNumbers DEF TypeOK
  <2>2. n \in hits /\ \A sc \in hits : sc.ckpt <= n.ckpt
    BY <1>8, <2>1, NewestExists
  <2> HIDE DEF n
  <2>3. /\ n \in log /\ n.prev \in Lsn /\ n.prev \in Int /\ n.ckpt \in Int /\ base_ckpt \in Int
        /\ obj[t][n.prev] \in Nat /\ obj[t][n.prev] > 0 /\ base_ckpt <= n.ckpt
    BY <1>2, <1>5, <2>2, StoreNumbers
  <2>4. obj[t][n.prev] >= v
    <3>1. CASE v = 0
      BY <2>3, <3>1
    <3>2. CASE v > 0
      <4>1. PICK sc \in log \ active_window : t \in sc.chunks /\ obj[t][sc.prev] >= v
        BY <1>6, <3>2
      <4>2. /\ sc \in log /\ sc.prev \in Lsn /\ sc.prev \in Int /\ sc.ckpt \in Int
            /\ obj[t][sc.prev] \in Nat /\ sc.prev < sc.ckpt
        BY <1>2, <4>1, StoreNumbers DEF PlaceInv, ChainInv
      <4>3. sc.ckpt <= n.ckpt
        <5>1. CASE base_ckpt < sc.ckpt
          BY <1>7, <2>2, <3>2, <4>1, <5>1
        <5>2. CASE ~(base_ckpt < sc.ckpt)
          BY <2>3, <4>2, <5>2
        <5> QED
          BY <5>1, <5>2
      <4>4. CASE sc.ckpt = n.ckpt
        <5>1. sc = n
          BY <2>3, <4>2, <4>4 DEF StoreInv, LogInv
        <5> QED
          BY <4>1, <5>1
      <4>5. CASE sc.ckpt < n.ckpt
        <5>1. sc.ckpt <= n.prev
          BY <2>3, <4>2, <4>5 DEF PlaceInv, ChainInv
        <5>2. sc.prev < n.prev
          BY <2>3, <4>2, <5>1
        <5>3. obj[t][sc.prev] < obj[t][n.prev]
          BY <1>2, <2>3, <4>2, <5>2 DEF PlaceInv, ObjInv
        <5> QED
          BY <1>2, <2>3, <4>1, <4>2, <5>3
      <4> QED
        BY <2>3, <4>2, <4>3, <4>4, <4>5
    <3> QED
      BY <1>2, <3>1, <3>2
  <2>5. rd'[b].pc = "done" /\ rd'[b].val = obj[t][n.prev] /\ rd'[b].floor = v
    BY <1>4, <1>8 DEF n
  <2> QED
    BY <2>4, <2>5 DEF ReadInv
<1>9. CASE hits = {}
  <2>1. rd'[b].pc = "base" /\ rd'[b].tag = t /\ rd'[b].floor = v
    BY <1>4, <1>9
  <2>2. ASSUME v > 0
        PROVE  \E sc \in log : t \in sc.chunks /\ sc.ckpt <= base_ckpt /\ obj[t][sc.prev] >= v
    <3>1. PICK sc \in log \ active_window : t \in sc.chunks /\ obj[t][sc.prev] >= v
      BY <1>6, <2>2
    <3>2. ~(base_ckpt < sc.ckpt)
      BY <1>7, <1>9, <2>2, <3>1
    <3>3. sc.ckpt \in Int /\ base_ckpt \in Int
      BY StoreNumbers
    <3>4. sc.ckpt <= base_ckpt
      BY <3>2, <3>3
    <3> QED
      BY <3>1, <3>4
  <2> QED
    BY <1>1, <2>1, <2>2 DEF ReadInv, Behind
<1> QED
  BY <1>8, <1>9

\* base_manifest(), with the manifest in the cache or loaded.
LEMMA ManifestStep ==
  ASSUME TypeOK, StoreInv, RefInv, PlaceInv, NEW b \in Backends, ReadInv(b),
         GetTarget(b) \/ GetLoad(b)
  PROVE  ReadInv(b)'
<1> DEFINE t == rd[b].tag
           v == rd[b].floor
<1>0. b \in Procs
  BY DEF Procs
<1>1. CASE GetTarget(b)
  <2>1. /\ rd[b].pc = "base" /\ UNCHANGED <<obj, log, base_ckpt, cached>> /\ target'[b] = base_ckpt
        /\ Behind(t, v, base_ckpt)
    BY <1>0, <1>1 DEF GetTarget, ReadTarget, storage, timeline, history, TypeOK, ReadInv
  <2>2. t \in Chunks /\ v \in Nat /\ base_ckpt \in Lsn
    BY <2>1, ReadTypes, StoreNumbers
  <2>3. CASE cached[b].ckpt = base_ckpt
    <3>1. rd'[b] = [pc |-> "ref", tag |-> t, floor |-> v]
      BY <1>1, <2>3 DEF GetTarget, TypeOK
    <3>2. cached[b] \in Manifest /\ Known(log, cached[b]) /\ Sound(log, cached[b], base_ckpt)
      BY <1>0, <2>3 DEF TypeOK, RefInv, StoreInv, ManifestInv, Good
    <3>3. Resolve(cached[b], t) >= v
      BY <2>1, <2>2, <3>2, ManifestFinds
    <3> HIDE DEF t, v
    <3> QED
      BY <2>1, <3>1, <3>3 DEF ReadInv, Resolve
  <2>4. CASE cached[b].ckpt # base_ckpt
    <3>1. rd'[b] = [pc |-> "load", tag |-> t, floor |-> v]
      BY <1>1, <2>4 DEF GetTarget, TypeOK
    <3> HIDE DEF t, v
    <3> QED
      BY <2>1, <3>1 DEF ReadInv, Behind
  <2> QED
    BY <2>3, <2>4
<1>2. CASE GetLoad(b)
  <2> DEFINE m == LoadManifestAt(target[b])
  <2>1. /\ rd[b].pc = "load" /\ UNCHANGED obj /\ cached'[b] = m /\ m # Missing
        /\ rd'[b] = [pc |-> "ref", tag |-> t, floor |-> v]
        /\ Behind(t, v, target[b])
    BY <1>0, <1>2 DEF GetLoad, LoadTarget, TypeOK, ReadInv
  <2>2. t \in Chunks /\ v \in Nat /\ target[b] \in Lsn
    BY <1>0, <2>1, ReadTypes DEF TypeOK
  <2>3. target[b] # 0 => bases[target[b]] # Missing
    BY <1>0 DEF StoreInv, ManifestInv
  <2>4. m \in Manifest /\ Sound(log, m, target[b]) /\ Known(log, m)
    BY <2>1, <2>2, <2>3, LoadGood, LoadKnown DEF StoreInv
  <2> HIDE DEF m
  <2>5. Resolve(m, t) >= v
    BY <2>1, <2>2, <2>4, ManifestFinds
  <2> HIDE DEF t, v
  <2> QED
    BY <2>1, <2>5 DEF ReadInv, Resolve
<1> QED
  BY <1>1, <1>2

\* Flushes are the only steps that change objects, and they make them newer.
LEMMA ObjectsGrow ==
  ASSUME TypeInv, PlaceInv, [Next]_vars, NEW t \in Chunks, NEW l \in Lsn
  PROVE  obj'[t][l] \in Int /\ obj[t][l] <= obj'[t][l]
<1>1. TypeOK /\ obj[t][l] \in Nat /\ writes \in Nat /\ obj[t][l] <= writes
  BY StoreNumbers DEF TypeInv, PlaceInv, ObjInv
<1>2. CASE \E b \in Backends, u \in Chunks : PatchPut(b, u)
  <2>1. obj'[t][l] \in {obj[t][l], writes + 1}
    BY <1>1, <1>2 DEF PatchPut, TypeOK
  <2> QED
    BY <1>1, <2>1
<1>3. CASE ~ \E b \in Backends, u \in Chunks : PatchPut(b, u)
  <2>1. obj' = obj
    BY <1>3 DEF Next, vars, storage, BackendStep, PatchRecord, GetProbe, GetSegments,
       GetTarget, GetLoad, GetRef, GetReturn, CompactorTick, CompactorBegin, BackupPause, BackupDrain,
       CompactStep, CompactSnapshot, CompactLoad, CompactTarget, CompactFetch, CompactPut,
       CompactPublish, CompactSetBase, CompactDelete, CompactDeleted, CompactFail, CompactEnd,
       Checkpoint, Commit, CommitFail
  <2> QED
    BY <1>1, <2>1
<1> QED
  BY <1>2, <1>3

\* A step of the worker, seen by a read.
LEMMA WorkerStep ==
  ASSUME TypeInv, StoreInv, PlaceInv, WorkerInv, CompactStep("worker"), NEW b \in Backends, ReadInv(b)
  PROVE  ReadInv(b)'
<1>0. /\ TypeOK /\ b \in Procs /\ cached[b] \in Manifest /\ base_ckpt \in Int
      /\ "worker" \in Compactors /\ b # "worker" /\ base_ckpt <= base_ckpt
  BY StoreAssumption, StoreNumbers DEF TypeInv, TypeOK, Procs, Compactors
<1>1. \A t \in Chunks, l \in Lsn : obj'[t][l] \in Int /\ obj[t][l] <= obj'[t][l]
  BY ObjectsGrow DEF Next, Compactors
<1>2. UNCHANGED <<rd, log, active_window, head_ckpt>> /\ cached'[b] = cached[b] /\ target'[b] = target[b]
  BY <1>0 DEF CompactStep, CompactSnapshot, CompactLoad, CompactTarget, CompactFetch, CompactPut,
     CompactPublish, CompactSetBase, CompactDelete, CompactDeleted, CompactFail, CompactEnd,
     ReadTarget, LoadTarget, timeline, history, TypeOK
<1>3. CASE CompactSetBase("worker")
  <2>1. base_ckpt' \in Int /\ base_ckpt <= base_ckpt'
    <3>1. CASE base_ckpt # job["worker"].base
      BY <1>0, <1>3, <3>1 DEF CompactSetBase
    <3>2. CASE base_ckpt = job["worker"].base
      <4>1. base_ckpt' = job["worker"].new /\ job["worker"].base < job["worker"].new
        BY <1>3, <3>2 DEF CompactSetBase, StoreInv, RaceInv
      <4>2. job["worker"].new \in Int
        BY <1>0, LsnInt DEF TypeOK, Jobs
      <4> QED
        BY <1>0, <3>2, <4>1, <4>2
    <3> QED
      BY <3>1, <3>2
  <2>2. rd[b].pc # "segs"
    BY <1>3 DEF CompactSetBase, ReadLocked
  <2> QED
    BY <1>0, <1>1, <1>2, <2>1, <2>2, ReadFrame
<1>4. CASE CompactDelete("worker")
  <2> DEFINE below == {id \in job["worker"].listed : id < SegmentId(job["worker"].new)}
  <2>1. /\ base_ckpt' = base_ckpt /\ below # {} /\ base_ckpt = job["worker"].new
        /\ segments' = {sc \in segments : SegmentId(sc.ckpt) # Min(below)} \/ segments' = segments
    BY <1>4 DEF CompactDelete, timeline, WorkerInv
  <2>2. below \in SUBSET Nat
    BY <1>0 DEF TypeOK, Jobs
  <2>3. Min(below) \in below
    <3> HIDE DEF below
    <3> QED
      BY <2>1, <2>2, MinPosition
  <2>4. Min(below) < SegmentId(base_ckpt) /\ Min(below) \in Nat
    BY <2>1, <2>2, <2>3
  <2>5. SegmentId(base_ckpt) \in Nat /\ \A sc \in segments : SegmentId(sc.ckpt) \in Nat
    BY <1>0, SegmentIds, StoreNumbers
  <2> HIDE DEF below
  <2>6. \A sc \in segments : SegmentId(base_ckpt) <= SegmentId(sc.ckpt) => SegmentId(sc.ckpt) # Min(below)
    BY <2>4, <2>5
  <2>7. \A sc \in segments : SegmentId(base_ckpt) <= SegmentId(sc.ckpt) => sc \in segments'
    BY <2>1, <2>6
  <2> QED
    BY <1>0, <1>1, <1>2, <2>1, <2>7, ReadFrame
<1>5. CASE ~CompactSetBase("worker") /\ ~CompactDelete("worker")
  <2>1. UNCHANGED <<base_ckpt, segments>>
    BY <1>5 DEF CompactStep, CompactSnapshot, CompactLoad, CompactTarget, CompactFetch, CompactPut,
       CompactPublish, CompactDeleted, CompactFail, CompactEnd, storage, timeline
  <2> QED
    BY <1>0, <1>1, <1>2, <2>1, ReadFrame
<1> QED
  BY <1>3, <1>4, <1>5

LEMMA NextReads ==
  ASSUME TypeInv, StoreInv, RefInv, PlaceInv, WorkerInv, [Next]_vars, NEW b \in Backends, ReadInv(b)
  PROVE  ReadInv(b)'
<1>0. TypeOK /\ b \in Procs /\ cached[b] \in Manifest /\ base_ckpt \in Int /\ base_ckpt <= base_ckpt
  BY StoreNumbers DEF TypeInv, TypeOK, Procs
<1>1. \A t \in Chunks, l \in Lsn : obj'[t][l] \in Int /\ obj[t][l] <= obj'[t][l]
  BY ObjectsGrow
<1>2. CASE BackendStep(b)
  <2>1. CASE (\E t \in Chunks : PatchPut(b, t)) \/ PatchRecord(b) \/ GetReturn(b)
    <3>1. rd'[b].pc \in {"put", "idle"}
      BY <1>0, <2>1 DEF PatchPut, PatchRecord, GetReturn, Idle, TypeOK
    <3> QED
      BY <3>1 DEF ReadInv
  <2>2. CASE GetRef(b)
    <3>1. /\ rd'[b] = [pc |-> "done", tag |-> rd[b].tag, floor |-> rd[b].floor,
                       val |-> Resolve(cached[b], rd[b].tag)]
          /\ Resolve(cached[b], rd[b].tag) >= rd[b].floor
      BY <1>0, <2>2 DEF GetRef, TypeOK, ReadInv
    <3> QED
      BY <3>1 DEF ReadInv
  <2> QED
    BY <1>0, <1>2, <2>1, <2>2, ProbeStep, SegmentsStep, ManifestStep, Zenon DEF BackendStep
<1>3. ASSUME NEW o \in Backends, o # b, BackendStep(o) PROVE ReadInv(b)'
  <2>1. /\ UNCHANGED <<log, base_ckpt, active_window, head_ckpt, segments>>
        /\ rd'[b] = rd[b] /\ cached'[b] = cached[b] /\ target'[b] = target[b]
    BY <1>0, <1>3 DEF BackendStep, PatchPut, PatchRecord, GetProbe, GetSegments, GetTarget, GetLoad,
       GetRef, GetReturn, ReadTarget, LoadTarget, storage, timeline, history, TypeOK
  <2> QED
    BY <1>0, <1>1, <2>1, ReadFrame
<1>4. CASE Checkpoint
  <2>1. /\ UNCHANGED <<rd, cached, target, base_ckpt>> /\ log \subseteq log' /\ ReadLocked = {}
    BY <1>4 DEF Checkpoint, Commit, CommitFail, CheckpointAt
  <2>2. rd[b].pc # "segs"
    BY <2>1 DEF ReadLocked
  <2> QED
    BY <1>0, <1>1, <2>1, <2>2, ReadFrame
<1>5. CASE CompactorTick \/ CompactorBegin \/ BackupPause \/ BackupDrain \/ UNCHANGED vars
  <2>1. UNCHANGED <<rd, cached, target, log, base_ckpt, active_window, head_ckpt, segments>>
    BY <1>5 DEF CompactorTick, CompactorBegin, BackupPause, BackupDrain, vars, storage, timeline, history
  <2> QED
    BY <1>0, <1>1, <2>1, ReadFrame
<1>6. ~CompactStep("checkpointer")
  BY DEF WorkerInv, CompactStep, CompactSnapshot, CompactLoad, CompactTarget, CompactFetch,
     CompactPut, CompactPublish, CompactSetBase, CompactDelete, CompactDeleted, CompactFail, CompactEnd
<1>7. CASE \E c \in Compactors : CompactStep(c)
  BY <1>6, <1>7, WorkerStep DEF Compactors
<1> QED
  BY <1>2, <1>3, <1>4, <1>5, <1>7, Zenon DEF Next

\* ReadRegular: a get_chunk call that overlaps flushes, commits and the worker's compaction
\* returns a version at least as new as the last one finished when it started.  Without base
\* backups (with one, a listed segment file may be gone), and as long as no commit failed.
THEOREM ReadsRegular ==
  ASSUME ~Basebackups
  PROVE  Spec => [](failures = 0 => ReadRegular)
<1>1. Init => ReadsInv
  BY InitReads DEF ReadsInv
<1>2. TypeInv /\ StoreInv /\ RefInv /\ PlacesInv /\ ReadsInv /\ [Next]_vars => ReadsInv'
  <2> SUFFICES ASSUME TypeInv, StoreInv, RefInv, PlacesInv, ReadsInv, [Next]_vars PROVE ReadsInv'
    OBVIOUS
  <2>1. WorkerInv'
    BY NextWorker DEF ReadsInv
  <2>2. ASSUME failures' = 0, NEW b \in Backends PROVE ReadInv(b)'
    <3>1. failures = 0
      BY <2>2, FailuresGrow DEF PlacesInv
    <3> QED
      BY <3>1, NextReads DEF ReadsInv, PlacesInv
  <2> QED
    BY <2>1, <2>2 DEF ReadsInv
<1>3. ReadsInv => (failures = 0 => ReadRegular)
  BY DEF ReadsInv, ReadInv, ReadRegular
<1> QED
  BY <1>1, <1>2, <1>3, TypeInvariant, StoreInvariant, RefInvariant, PlaceInvariant, PTL DEF Spec
=============================================================================
