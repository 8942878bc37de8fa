--------------------------- MODULE RecoveryProofs ---------------------------
(***************************************************************************)
(* Proofs about restart, point-in-time recovery and branches, for every    *)
(* number of items, checkpoints, recoveries and crashes: the types and     *)
(* references of all that is stored; that reads and base backups of the    *)
(* first timeline have what its WAL says, through crashes and restarts;    *)
(* and that a recovery never loses PGDATA, wherever it fails or is killed. *)
(***************************************************************************)
EXTENDS Recovery, FiniteSetTheorems, WellFoundedInduction, TLAPS

\* From the end of the snapshot until it is removed, the copy is what counts.
CopyPcs == {"wipe", "materialize", "delete", "configure", "start", "wait", "rollback", "restore",
            "manifest"}

LEMMA DivMod ==
  ASSUME NEW a \in Nat, NEW n \in Nat \ {0}
  PROVE  a \div n \in Nat /\ a % n \in 0..(n - 1) /\ a = n * (a \div n) + (a % n)
<1>1. a \div n \in Nat /\ n * (a \div n) <= a /\ a < n * (a \div n) + n
  OBVIOUS
<1>2. a % n = a - n * (a \div n)
  OBVIOUS
<1>3. n * (a \div n) \in Nat
  BY <1>1, Z3
<1> QED BY <1>1, <1>2, <1>3

LEMMA MulBelow ==
  ASSUME NEW t \in Nat, NEW u \in Nat, NEW n \in Nat, t < u
  PROVE  n * t + n <= n * u /\ n * t \in Nat
<1>1. PICK k \in Nat : u = t + 1 + k
  <2>1. u - t - 1 \in Nat /\ u = t + 1 + (u - t - 1) OBVIOUS
  <2> QED BY <2>1
<1>2. n * u = n * t + n + n * k
  BY <1>1, Z3
<1>3. n * k \in Nat /\ n * t \in Nat /\ n * u \in Nat
  BY <1>1, Z3
<1> QED BY <1>2, <1>3

LEMMA Bounds == MaxLsn \in Nat /\ MaxLsn > 0 /\ Lsns = 0..MaxLsn
  BY RecoveryAssumption DEF MaxLsn, Lsns

LEMMA CkptOf ==
  ASSUME NEW t \in Nat, NEW l \in Lsns
  PROVE  Ckpt(t, l) \in Nat /\ TimelineOf(Ckpt(t, l)) = t /\ LsnOf(Ckpt(t, l)) = l
<1> DEFINE n == MaxLsn + 1
           c == t * n + l
           q == c \div n
           r == c % n
<1>1. n \in Nat \ {0} /\ n > 0 /\ l \in 0..(n - 1)
  BY Bounds
<1>2. t * n = n * t /\ n * t \in Nat
  BY <1>1, Z3
<1>3. c \in Nat
  BY <1>1, <1>2
<1>4. q \in Nat /\ r \in 0..(n - 1) /\ c = n * q + r
  BY <1>1, <1>3, DivMod
<1>5. q = t
  <2>1. CASE q < t
    <3>1. n * q + n <= n * t
      BY <1>1, <1>4, <2>1, MulBelow
    <3>2. n * q \in Nat
      BY <1>1, <1>4, Z3
    <3> HIDE DEF n, q, r
    <3> QED BY <1>1, <1>2, <1>4, <3>1, <3>2
  <2>2. CASE t < q
    <3>1. n * t + n <= n * q
      BY <1>1, <1>4, <2>2, MulBelow
    <3>2. n * q \in Nat
      BY <1>1, <1>4, Z3
    <3> HIDE DEF n, q, r
    <3> QED BY <1>1, <1>2, <1>4, <3>1, <3>2
  <2> HIDE DEF n, q, r
  <2> QED BY <1>4, <2>1, <2>2
<1>6. r = l
  <2> HIDE DEF n, q, r
  <2> QED BY <1>1, <1>2, <1>4, <1>5
<1> QED
  BY <1>3, <1>5, <1>6 DEF Ckpt, TimelineOf, LsnOf

LEMMA CkptParts ==
  ASSUME NEW c \in Nat
  PROVE  TimelineOf(c) \in Nat /\ LsnOf(c) \in Lsns /\ c = Ckpt(TimelineOf(c), LsnOf(c))
<1> DEFINE n == MaxLsn + 1
           q == c \div n
           r == c % n
<1>1. n \in Nat \ {0} /\ n > 0
  BY Bounds
<1>2. q \in Nat /\ r \in 0..(n - 1) /\ c = n * q + r
  BY <1>1, DivMod
<1>3. n * q = q * n
  BY <1>1, <1>2, Z3
<1>4. r \in Lsns
  BY <1>2, Bounds
<1> QED
  BY <1>2, <1>3, <1>4 DEF Ckpt, TimelineOf, LsnOf

LEMMA CkptLess ==
  ASSUME NEW c \in Nat, NEW d \in Nat
  PROVE  c < d <=> \/ TimelineOf(c) < TimelineOf(d)
                   \/ TimelineOf(c) = TimelineOf(d) /\ LsnOf(c) < LsnOf(d)
<1> DEFINE n == MaxLsn + 1
           q == TimelineOf(c)
           r == LsnOf(c)
           p == TimelineOf(d)
           s == LsnOf(d)
<1>1. n \in Nat \ {0} /\ n > 0 /\ q \in Nat /\ p \in Nat /\ r \in 0..(n - 1) /\ s \in 0..(n - 1)
  <2>1. n \in Nat \ {0} /\ n > 0
    BY Bounds
  <2>2. q \in Nat /\ p \in Nat /\ r \in 0..MaxLsn /\ s \in 0..MaxLsn
    BY CkptParts DEF Lsns
  <2> QED BY <2>1, <2>2, Bounds
<1>2. c = q * n + r /\ d = p * n + s
  BY CkptParts DEF Ckpt
<1>3. q * n = n * q /\ p * n = n * p /\ n * q \in Nat /\ n * p \in Nat
  BY <1>1, Z3
<1>4. q < p => n * q + n <= n * p
  BY <1>1, MulBelow
<1>5. p < q => n * p + n <= n * q
  BY <1>1, MulBelow
<1> HIDE DEF n, q, r, p, s
<1>6. CASE q < p
  BY <1>1, <1>2, <1>3, <1>4, <1>6 DEF q, r, p, s
<1>7. CASE p < q
  BY <1>1, <1>2, <1>3, <1>5, <1>7 DEF q, r, p, s
<1>8. CASE p = q
  BY <1>1, <1>2, <1>3, <1>8 DEF q, r, p, s
<1> QED
  BY <1>1, <1>6, <1>7, <1>8

-----------------------------------------------------------------------------
(* Partial functions, and the greatest of a set *)

Fns(S, T) == UNION {[D -> T] : D \in SUBSET S}

LEMMA FnsDef ==
  ASSUME NEW S, NEW T, NEW f
  PROVE  f \in Fns(S, T) <=> /\ f = [x \in DOMAIN f |-> f[x]]
                             /\ DOMAIN f \subseteq S
                             /\ \A x \in DOMAIN f : f[x] \in T
<1>1. ASSUME f \in Fns(S, T)
      PROVE  /\ f = [x \in DOMAIN f |-> f[x]] /\ DOMAIN f \subseteq S
             /\ \A x \in DOMAIN f : f[x] \in T
  <2>1. PICK D \in SUBSET S : f \in [D -> T]
    BY <1>1 DEF Fns
  <2> QED
    BY <2>1
<1>2. ASSUME f = [x \in DOMAIN f |-> f[x]], DOMAIN f \subseteq S, \A x \in DOMAIN f : f[x] \in T
      PROVE  f \in Fns(S, T)
  <2>1. f \in [DOMAIN f -> T] /\ DOMAIN f \in SUBSET S
    BY <1>2
  <2> QED
    BY <2>1 DEF Fns
<1> QED
  BY <1>1, <1>2

LEMMA FnsMono ==
  ASSUME NEW S, NEW T, NEW U, T \subseteq U
  PROVE  Fns(S, T) \subseteq Fns(S, U)
<1> SUFFICES ASSUME NEW f \in Fns(S, T) PROVE f \in Fns(S, U)
  OBVIOUS
<1> QED
  BY FnsDef

LEMMA FnsMake ==
  ASSUME NEW S, NEW T, NEW D \in SUBSET S, NEW g, g \in [D -> T]
  PROVE  g \in Fns(S, T)
  BY DEF Fns

LEMMA NoItemsFns ==
  ASSUME NEW S, NEW T
  PROVE  NoItems \in Fns(S, T) /\ DOMAIN NoItems = {}
<1>1. NoItems \in [{} -> T] /\ DOMAIN NoItems = {}
  BY DEF NoItems
<1> QED
  BY <1>1, FnsMake

LEMMA PutFns ==
  ASSUME NEW S, NEW T, NEW f \in Fns(S, T), NEW k \in S, NEW v \in T
  PROVE  Put(f, k, v) \in Fns(S, T)
<1>1. DOMAIN f \subseteq S /\ \A x \in DOMAIN f : f[x] \in T
  BY FnsDef
<1>2. Put(f, k, v) \in [DOMAIN f \cup {k} -> T]
  BY <1>1 DEF Put
<1> QED
  BY <1>1, <1>2, FnsMake

LEMMA PutIs ==
  ASSUME NEW f, NEW k, NEW v
  PROVE  /\ DOMAIN Put(f, k, v) = DOMAIN f \cup {k} /\ Put(f, k, v)[k] = v
         /\ \A x \in DOMAIN f : x # k => Put(f, k, v)[x] = f[x]
  BY DEF Put

LEMMA OverrideFns ==
  ASSUME NEW S, NEW T, NEW f \in Fns(S, T), NEW g \in Fns(S, T)
  PROVE  Override(g, f) \in Fns(S, T)
<1>1. /\ DOMAIN f \subseteq S /\ \A x \in DOMAIN f : f[x] \in T
      /\ DOMAIN g \subseteq S /\ \A x \in DOMAIN g : g[x] \in T
  BY FnsDef
<1>2. Override(g, f) \in [DOMAIN f \cup DOMAIN g -> T]
  BY <1>1 DEF Override
<1> QED
  BY <1>1, <1>2, FnsMake

LEMMA OverrideIs ==
  ASSUME NEW f, NEW g
  PROVE  /\ DOMAIN Override(g, f) = DOMAIN f \cup DOMAIN g
         /\ \A x \in DOMAIN g : Override(g, f)[x] = g[x]
         /\ \A x \in DOMAIN f \ DOMAIN g : Override(g, f)[x] = f[x]
  BY DEF Override

LEMMA RestrictFns ==
  ASSUME NEW S, NEW T, NEW U, NEW f \in Fns(S, T), NEW D, D \subseteq DOMAIN f, D \subseteq U
  PROVE  Restrict(f, D) \in Fns(U, T) /\ DOMAIN Restrict(f, D) = D /\ \A x \in D : Restrict(f, D)[x] = f[x]
<1>1. \A x \in DOMAIN f : f[x] \in T
  BY FnsDef
<1>2. Restrict(f, D) = [x \in D |-> f[x]]
  BY DEF Restrict
<1>3. Restrict(f, D) \in [D -> T]
  BY <1>1, <1>2
<1> QED
  BY <1>2, <1>3, FnsMake

LEMMA AtMostOne ==
  ASSUME NEW S, \A x, y \in S : x = y
  PROVE  Cardinality(S) <= 1
<1>1. CASE S = {}
  BY <1>1, FS_EmptySet
<1>2. CASE S # {}
  <2>1. PICK x \in S : S = {x}
    BY <1>2
  <2> QED
    BY <2>1, FS_Singleton
<1> QED
  BY <1>1, <1>2

LEMMA LeastNat ==
  ASSUME NEW S \in SUBSET Nat, S # {}
  PROVE  Min(S) \in S /\ \A y \in S : Min(S) <= y
<1>1. PICK x \in S : \A y \in S : ~(<<y, x>> \in OpToRel(<, Nat))
  BY WFMin, NatLessThanWellFounded, Zenon
<1>2. \A y \in S : ~(y < x)
  BY <1>1, Zenon DEF OpToRel
<1>3. \A y \in S : x <= y
  BY <1>2
<1> QED
  BY <1>3 DEF Min

LEMMA GreatestNat ==
  ASSUME NEW N \in Nat, NEW S \in SUBSET (0..N), S # {}
  PROVE  \E x \in S : \A y \in S : y <= x
<1> DEFINE T == {N - x : x \in S}
<1>1. T \subseteq Nat /\ T # {}
  <2>1. ASSUME NEW x \in S PROVE N - x \in Nat
    <3>1. x \in 0..N
      OBVIOUS
    <3> QED
      BY <3>1
  <2>2. PICK x \in S : TRUE
    OBVIOUS
  <2>3. N - x \in T
    OBVIOUS
  <2> QED
    BY <2>1, <2>3
<1>2. Min(T) \in T /\ \A y \in T : Min(T) <= y
  <2> HIDE DEF T
  <2> QED
    BY <1>1, LeastNat
<1>3. PICK x \in S : Min(T) = N - x
  BY <1>2
<1>4. ASSUME NEW y \in S PROVE y <= x
  <2>1. N - x <= N - y
    BY <1>2, <1>3
  <2> QED
    BY <2>1
<1> QED
  BY <1>4

LEMMA CkptsNat ==
  /\ Ckpts \subseteq Nat /\ Ckpt(MaxRecovers + 1, MaxLsn) \in Nat
  /\ Ckpts = 0..Ckpt(MaxRecovers + 1, MaxLsn) /\ 0 \in Ckpts
<1>1. MaxRecovers + 1 \in Nat /\ MaxLsn \in Lsns
  BY RecoveryAssumption, Bounds
<1>2. Ckpt(MaxRecovers + 1, MaxLsn) \in Nat
  BY <1>1, CkptOf
<1> QED
  BY <1>2 DEF Ckpts

LEMMA CkptIn ==
  ASSUME NEW t \in Nat, NEW l \in Lsns, t <= MaxRecovers + 1
  PROVE  /\ Ckpt(t, l) \in Ckpts /\ Ckpt(t, l) \in Nat
         /\ TimelineOf(Ckpt(t, l)) = t /\ LsnOf(Ckpt(t, l)) = l
<1> DEFINE c == Ckpt(t, l)
           d == Ckpt(MaxRecovers + 1, MaxLsn)
<1>1. MaxRecovers + 1 \in Nat /\ MaxLsn \in Lsns /\ l <= MaxLsn /\ l \in Nat /\ MaxLsn \in Nat
  BY RecoveryAssumption, Bounds
<1>2. /\ c \in Nat /\ TimelineOf(c) = t /\ LsnOf(c) = l
      /\ d \in Nat /\ TimelineOf(d) = MaxRecovers + 1 /\ LsnOf(d) = MaxLsn
  BY <1>1, CkptOf
<1>3. ~(d < c)
  <2> HIDE DEF c, d
  <2> QED
    BY <1>1, <1>2, CkptLess
<1>4. c \in Ckpts
  <2> HIDE DEF c
  <2> QED
    BY <1>2, <1>3, CkptsNat
<1> QED
  BY <1>2, <1>4

LEMMA CkptBound ==
  ASSUME NEW c \in Ckpts
  PROVE  /\ c \in Nat /\ TimelineOf(c) \in 0..(MaxRecovers + 1) /\ LsnOf(c) \in Lsns
         /\ LsnOf(c) \in Nat /\ LsnOf(c) <= MaxLsn
         /\ c = Ckpt(TimelineOf(c), LsnOf(c))
<1> DEFINE d == Ckpt(MaxRecovers + 1, MaxLsn)
<1>1. MaxRecovers + 1 \in Nat /\ MaxLsn \in Lsns
  BY RecoveryAssumption, Bounds
<1>2. d \in Nat /\ TimelineOf(d) = MaxRecovers + 1 /\ LsnOf(d) = MaxLsn
  BY <1>1, CkptOf
<1>3. c \in Nat /\ ~(d < c)
  BY <1>2, CkptsNat
<1>4. TimelineOf(c) \in Nat /\ LsnOf(c) \in Lsns /\ c = Ckpt(TimelineOf(c), LsnOf(c))
  BY <1>3, CkptParts
<1>5. ~(TimelineOf(d) < TimelineOf(c))
  <2> HIDE DEF d
  <2> QED
    BY <1>2, <1>3, CkptLess
<1> HIDE DEF d
<1> QED
  BY <1>1, <1>2, <1>3, <1>4, <1>5, Bounds

\* Order of checkpoints, in the form in which it is used.
LEMMA CkptOrder ==
  ASSUME NEW c \in Ckpts, NEW d \in Ckpts
  PROVE  /\ c <= d <=> \/ TimelineOf(c) < TimelineOf(d)
                       \/ TimelineOf(c) = TimelineOf(d) /\ LsnOf(c) <= LsnOf(d)
         /\ c < d <=> \/ TimelineOf(c) < TimelineOf(d)
                      \/ TimelineOf(c) = TimelineOf(d) /\ LsnOf(c) < LsnOf(d)
<1>1. c \in Nat /\ d \in Nat
  BY CkptsNat
<1>2. /\ TimelineOf(c) \in Nat /\ TimelineOf(d) \in Nat /\ LsnOf(c) \in Nat /\ LsnOf(d) \in Nat
  BY CkptBound
<1>3. /\ c < d <=> \/ TimelineOf(c) < TimelineOf(d)
                   \/ TimelineOf(c) = TimelineOf(d) /\ LsnOf(c) < LsnOf(d)
      /\ d < c <=> \/ TimelineOf(d) < TimelineOf(c)
                   \/ TimelineOf(d) = TimelineOf(c) /\ LsnOf(d) < LsnOf(c)
  BY <1>1, CkptLess
<1> QED
  BY <1>1, <1>2, <1>3

LEMMA NewestIs ==
  ASSUME NEW S, S # {}, \A s \in S : s.ckpt \in Ckpts
  PROVE  Newest(S) \in S /\ \A r \in S : r.ckpt <= Newest(S).ckpt
<1> DEFINE C == {s.ckpt : s \in S}
           K == Ckpt(MaxRecovers + 1, MaxLsn)
<1>1. C \in SUBSET (0..K) /\ C # {} /\ K \in Nat
  BY CkptsNat
<1>2. PICK x \in C : \A y \in C : y <= x
  <2> HIDE DEF C, K
  <2> QED
    BY <1>1, GreatestNat
<1>3. PICK s \in S : s.ckpt = x
  BY <1>2
<1>4. \A r \in S : r.ckpt <= s.ckpt
  BY <1>2, <1>3
<1> QED
  BY <1>4 DEF Newest

-----------------------------------------------------------------------------
(* Shapes *)

Prefixes == {0, 1} \X Ckpts
SegSet   == [db : {0, 1}, ckpt : Ckpts, prev : Ckpts, chunks : SUBSET Chunks, rels : Fns(Relforks, Content)]
ManSet   == [ckpt : Ckpts, refs : Fns(Chunks, Prefixes), rels : Fns(Relforks, Content)]
DirSet   == [ok : BOOLEAN, tl : 0..(MaxRecovers + 1), ckpt : Ckpts, redo : Lsns, target : Lsns]
BkSet    == [db : {0, 1}, ckpt : Ckpts, redo : Lsns]
CkSet    == [pc : {"idle", "flushed", "compact", "end"}, kind : {"online", "backup", "shutdown"},
             redo : Lsns, ckpt : Ckpts]
CompSet  == [pc : {"idle", "put", "published", "delete"}, inline : BOOLEAN, from : Ckpts, key : Ckpts,
             m : ManSet]
ShmSet   == [head : Ckpts, base : Ckpts, redo : Ckpts, active : SUBSET SegSet,
             draft : Fns(Items, Content), spilled : BOOLEAN]
RecSet   == [pc : {"idle", "snapshot", "copy"} \cup CopyPcs, b : BkSet, target : Lsns,
             saved : SUBSET ManSet, lost : SUBSET SegSet]

PgShape ==
  /\ pg \in {"down", "up", "recovering"} /\ db \in {0, 1}
  /\ wal \in Seq([item : Items, lsn : Lsns])
  /\ line \in [Lines -> Content] /\ ends \in [Lines -> Lsns]
  /\ pgdata \in DirSet /\ bak \subseteq DirSet /\ \A d, e \in bak : d = e
MemShape ==
  /\ ck \in CkSet /\ comp \in CompSet
  /\ cache \in Fns(Items, Content) /\ shm \in ShmSet
  /\ IsFiniteSet(shm.active) /\ Cardinality(shm.active) <= WindowSize
StoreShape ==
  /\ objs \in [Chunks -> Fns(Prefixes, Content)]
  /\ segs \subseteq SegSet /\ IsFiniteSet(segs)
  /\ bases \in Fns(Prefixes, ManSet) /\ backups \subseteq BkSet
LocalShape ==
  /\ tikm \subseteq ManSet /\ \A m, n \in tikm : m = n
  /\ spill \in Fns(Items, Content)
  /\ rec \in RecSet /\ \A m, n \in rec.saved : m = n
  /\ gone \subseteq SegSet /\ spoiled \subseteq Items /\ abandoned \subseteq DOMAIN bases
Shape == PgShape /\ MemShape /\ StoreShape /\ LocalShape

\* All that a lookup reads.
ReadShape == PgShape /\ shm \in ShmSet /\ StoreShape /\ LocalShape

LEMMA EmptyShape == Empty \in ManSet
  BY NoItemsFns, CkptsNat DEF Empty, ManSet

LEMMA ManifestsShape ==
  ASSUME ReadShape, NEW c \in Ckpts
  PROVE  /\ ManifestsAt(c) \subseteq ManSet
         /\ \A m, n \in ManifestsAt(c) : m = n
         /\ \A m \in ManifestsAt(c) :
              \/ m = Empty /\ c = 0
              \/ m \in tikm /\ m.ckpt = c
              \/ <<db, c>> \in DOMAIN bases /\ m = bases[<<db, c>>]
<1>1. \A x \in DOMAIN bases : bases[x] \in ManSet
  BY FnsDef DEF ReadShape, StoreShape
<1>2. tikm \subseteq ManSet /\ \A m, n \in tikm : m = n
  BY DEF ReadShape, LocalShape
<1> DEFINE same == {m \in tikm : m.ckpt = c}
<1>3. CASE c = 0
  <2>1. ManifestsAt(c) = {Empty}
    BY <1>3 DEF ManifestsAt
  <2> QED
    BY <1>3, <2>1, EmptyShape
<1>4. CASE c # 0 /\ same # {}
  <2>1. ManifestsAt(c) = same
    BY <1>4 DEF ManifestsAt
  <2> QED
    BY <1>2, <2>1
<1>5. CASE c # 0 /\ same = {}
  <2>1. ManifestsAt(c) = IF <<db, c>> \in DOMAIN bases THEN {bases[<<db, c>>]} ELSE {}
    BY <1>5 DEF ManifestsAt
  <2> QED
    BY <1>1, <2>1
<1> QED
  BY <1>3, <1>4, <1>5

LEMMA ResolveShape ==
  ASSUME ReadShape, NEW m \in ManSet, NEW i \in Items
  PROVE  Resolve(m, i) \in Content
<1>1. {} \in Content
  BY DEF Content
<1>2. ASSUME i \in Chunks, i \in DOMAIN m.refs, m.refs[i] \in DOMAIN objs[i]
      PROVE  objs[i][m.refs[i]] \in Content
  <2>1. objs[i] \in Fns(Prefixes, Content)
    BY <1>2 DEF ReadShape, StoreShape
  <2> QED
    BY <1>2, <2>1, FnsDef
<1>3. ASSUME i \in DOMAIN m.rels PROVE m.rels[i] \in Content
  <2>1. m.rels \in Fns(Relforks, Content)
    BY DEF ManSet
  <2> QED
    BY <1>3, <2>1, FnsDef
<1> QED
  BY <1>1, <1>2, <1>3 DEF Resolve

LEMMA ResolvedShape ==
  ASSUME ReadShape, NEW c \in Ckpts, NEW i \in Items
  PROVE  UNION {Resolve(m, i) : m \in ManifestsAt(c)} \in Content
<1>1. \A m \in ManifestsAt(c) : Resolve(m, i) \in Content
  BY ManifestsShape, ResolveShape
<1> QED
  BY <1>1 DEF Content

LEMMA HoldingShape ==
  ASSUME ReadShape, NEW c \in Chunks, NEW S \in SUBSET SegSet, Holding(c, S) # {}
  PROVE  objs[c][<<db, Newest(Holding(c, S)).prev>>] \in Content
<1>1. \A s \in Holding(c, S) : s \in SegSet /\ s.ckpt \in Ckpts /\ <<db, s.prev>> \in DOMAIN objs[c]
  BY DEF Holding, SegSet
<1>2. Newest(Holding(c, S)) \in Holding(c, S)
  BY <1>1, NewestIs
<1>3. objs[c] \in Fns(Prefixes, Content)
  BY DEF ReadShape, StoreShape
<1> QED
  BY <1>1, <1>2, <1>3, FnsDef

LEMMA GetChunkShape ==
  ASSUME ReadShape, NEW c \in Chunks
  PROVE  GetChunk(c) \in Content
<1> DEFINE top    == IF shm.active = {} THEN shm.head ELSE Min({s.ckpt : s \in shm.active})
           lower  == {s \in SegsHere : shm.base <= s.ckpt /\ s.ckpt < top}
           active == Holding(c, shm.active)
           below  == Holding(c, lower)
<1>1. shm.active \in SUBSET SegSet /\ lower \in SUBSET SegSet /\ shm.base \in Ckpts
  BY DEF ReadShape, StoreShape, ShmSet, SegsHere
<1>2. active # {} => objs[c][<<db, Newest(active).prev>>] \in Content
  BY <1>1, HoldingShape
<1>3. below # {} => objs[c][<<db, Newest(below).prev>>] \in Content
  <2> HIDE DEF lower
  <2> QED
    BY <1>1, HoldingShape
<1>4. <<db, shm.head>> \in DOMAIN objs[c] => objs[c][<<db, shm.head>>] \in Content
  <2>1. objs[c] \in Fns(Prefixes, Content)
    BY DEF ReadShape, StoreShape
  <2> QED
    BY <2>1, FnsDef
<1>5. UNION {Resolve(m, c) : m \in ManifestsAt(shm.base)} \in Content
  BY <1>1, ResolvedShape DEF Items
<1>6. GetChunk(c) = IF (c \in DOMAIN shm.draft \/ shm.spilled) /\ <<db, shm.head>> \in DOMAIN objs[c]
                      THEN objs[c][<<db, shm.head>>]
                    ELSE IF active # {} THEN objs[c][<<db, Newest(active).prev>>]
                    ELSE IF below # {} THEN objs[c][<<db, Newest(below).prev>>]
                    ELSE UNION {Resolve(m, c) : m \in ManifestsAt(shm.base)}
  BY DEF GetChunk
<1> HIDE DEF active, below
<1> QED
  BY <1>2, <1>3, <1>4, <1>5, <1>6

LEMMA GetMetaShape ==
  ASSUME ReadShape, NEW r \in Relforks
  PROVE  GetMeta(r) \in Content
<1> DEFINE stops == {s \in shm.active : Stops(r, s)}
           top   == IF stops # {} THEN Newest(stops).ckpt
                    ELSE IF shm.active # {} THEN Min({s.ckpt : s \in shm.active})
                    ELSE shm.head
           below == {s \in SegsHere : /\ shm.base <= s.ckpt /\ s.ckpt <= top
                                      /\ r \in DOMAIN s.rels}
<1>1. /\ stops \subseteq SegSet /\ below \subseteq SegSet /\ shm.base \in Ckpts
      /\ shm.draft \in Fns(Items, Content) /\ spill \in Fns(Items, Content)
  BY DEF ReadShape, StoreShape, LocalShape, ShmSet, SegsHere
<1>2. ASSUME NEW s \in SegSet, r \in DOMAIN s.rels PROVE s.rels[r] \in Content
  <2>1. s.rels \in Fns(Relforks, Content)
    BY DEF SegSet
  <2> QED
    BY <1>2, <2>1, FnsDef
<1>3. stops # {} /\ r \in Indexed(Newest(stops)) => Newest(stops).rels[r] \in Content
  <2>1. stops # {} => Newest(stops) \in stops
    <3>1. \A s \in stops : s.ckpt \in Ckpts
      BY <1>1 DEF SegSet
    <3> HIDE DEF stops
    <3> QED
      BY <3>1, NewestIs
  <2> QED
    BY <1>1, <1>2, <2>1 DEF Indexed
<1>4. below # {} => Newest(below).rels[r] \in Content
  <2>1. below # {} => Newest(below) \in below
    <3>1. \A s \in below : s.ckpt \in Ckpts
      BY <1>1 DEF SegSet
    <3> HIDE DEF below
    <3> QED
      BY <3>1, NewestIs
  <2> QED
    BY <1>1, <1>2, <2>1
<1>5. /\ r \in DOMAIN shm.draft => shm.draft[r] \in Content
      /\ r \in DOMAIN spill => spill[r] \in Content
  BY <1>1, FnsDef
<1>6. UNION {Resolve(m, r) : m \in ManifestsAt(shm.base)} \in Content
  BY <1>1, ResolvedShape DEF Items
<1>7. GetMeta(r) = IF r \in DOMAIN shm.draft THEN shm.draft[r]
                   ELSE IF shm.spilled /\ r \in DOMAIN spill THEN spill[r]
                   ELSE IF stops # {} /\ r \in Indexed(Newest(stops)) THEN Newest(stops).rels[r]
                   ELSE IF below # {} THEN Newest(below).rels[r]
                   ELSE UNION {Resolve(m, r) : m \in ManifestsAt(shm.base)}
  BY DEF GetMeta
<1> HIDE DEF stops, below
<1> QED
  BY <1>3, <1>4, <1>5, <1>6, <1>7

LEMMA LookupShape ==
  ASSUME ReadShape, NEW i \in Items
  PROVE  Lookup(i) \in Content
  BY GetChunkShape, GetMetaShape DEF Lookup, Items

Lookups == \A i \in Items : Lookup(i) \in Content

LEMMA LookupsOk == ReadShape => Lookups
  BY LookupShape DEF Lookups

LEMMA LookupsNext == ReadShape' => Lookups'
  BY LookupsOk, PTL

LEMMA ShapeReads == Shape => ReadShape
  BY DEF Shape, ReadShape, MemShape

\* The window has its size, and is the newest end of what it is taken from.
LEMMA WindowIs ==
  ASSUME NEW S, IsFiniteSet(S), \A s \in S : s.ckpt \in Ckpts, \A s, r \in S : s.ckpt = r.ckpt => s = r
  PROVE  /\ Window(S) \subseteq S /\ IsFiniteSet(Window(S)) /\ Cardinality(Window(S)) <= WindowSize
         /\ \A a \in Window(S), s \in S : a.ckpt <= s.ckpt => s \in Window(S)
         /\ S # {} => Newest(S) \in Window(S)
<1> DEFINE Above(a) == {r \in S : r.ckpt > a.ckpt}
           W == Window(S)
<1>0. \A s \in S : s.ckpt \in Nat
  BY CkptsNat
<1>1. W = {a \in S : Cardinality(Above(a)) < WindowSize}
  BY DEF Window
<1>2. W \subseteq S
  BY <1>1
<1>3. IsFiniteSet(W)
  BY <1>2, FS_Subset
<1>4. \A a \in S : IsFiniteSet(Above(a)) /\ Cardinality(Above(a)) \in Nat
  <2> SUFFICES ASSUME NEW a \in S PROVE IsFiniteSet(Above(a)) /\ Cardinality(Above(a)) \in Nat
    OBVIOUS
  <2>1. Above(a) \subseteq S
    OBVIOUS
  <2>2. IsFiniteSet(Above(a))
    BY <2>1, FS_Subset
  <2> QED
    BY <2>2, FS_CardinalityType
<1>5. WindowSize \in Nat /\ WindowSize > 0
  BY RecoveryAssumption
<1>6. ASSUME NEW a \in W, NEW s \in S, a.ckpt <= s.ckpt PROVE s \in W
  <2>1. Above(s) \subseteq Above(a)
    BY <1>0, <1>2, <1>6
  <2>2. Cardinality(Above(s)) <= Cardinality(Above(a))
    <3> HIDE DEF Above
    <3> QED
      BY <1>2, <1>4, <2>1, FS_Subset
  <2>3. Cardinality(Above(s)) < WindowSize
    <3>1. Cardinality(Above(a)) < WindowSize /\ Cardinality(Above(a)) \in Nat /\ Cardinality(Above(s)) \in Nat
      BY <1>1, <1>2, <1>4
    <3> HIDE DEF Above
    <3> QED
      BY <1>5, <2>2, <3>1
  <2> QED
    BY <1>1, <2>3
<1>7. S # {} => Newest(S) \in W
  <2> SUFFICES ASSUME S # {} PROVE Newest(S) \in W
    OBVIOUS
  <2>1. Newest(S) \in S /\ \A r \in S : r.ckpt <= Newest(S).ckpt
    BY NewestIs
  <2>2. Above(Newest(S)) = {}
    BY <1>0, <2>1
  <2> QED
    BY <1>1, <1>5, <2>1, <2>2, FS_EmptySet
<1>8. Cardinality(W) <= WindowSize
  <2>1. CASE W = {}
    BY <1>5, <2>1, FS_EmptySet
  <2>2. CASE W # {}
    <3> DEFINE C == {s.ckpt : s \in W}
    <3>1. C \subseteq Nat /\ C # {}
      BY <1>0, <1>2, <2>2
    <3>2. Min(C) \in C /\ \A y \in C : Min(C) <= y
      <4> HIDE DEF C
      <4> QED
        BY <3>1, LeastNat
    <3>3. PICK a \in W : a.ckpt = Min(C)
      BY <3>2
    <3>4. W \ {a} \subseteq Above(a)
      <4> SUFFICES ASSUME NEW s \in W, s # a PROVE s \in Above(a)
        OBVIOUS
      <4>1. a.ckpt <= s.ckpt /\ s.ckpt # a.ckpt /\ s.ckpt \in Nat /\ a.ckpt \in Nat
        BY <1>0, <1>2, <3>2, <3>3
      <4> QED
        BY <1>2, <4>1
    <3> HIDE DEF Above, W, C
    <3>5. /\ Cardinality(W \ {a}) = Cardinality(W) - 1
          /\ Cardinality(W) \in Nat
      BY <1>3, FS_RemoveElement, FS_CardinalityType
    <3>6. Cardinality(W \ {a}) <= Cardinality(Above(a))
      BY <1>2, <1>4, <3>3, <3>4, FS_Subset
    <3>7. Cardinality(Above(a)) < WindowSize /\ Cardinality(Above(a)) \in Nat
      BY <1>1, <1>2, <1>4
    <3> QED
      BY <1>5, <3>5, <3>6, <3>7
  <2> QED
    BY <2>1, <2>2
<1> HIDE DEF W
<1> QED
  BY <1>2, <1>3, <1>6, <1>7, <1>8 DEF W

-----------------------------------------------------------------------------
(* Folding *)

\* The reference that wins is one of the manifest's or of the checkpoints folded.
LEMMA ApplyRefIs ==
  ASSUME NEW m \in ManSet, NEW S \in SUBSET SegSet, NEW c \in DOMAIN m.refs \cup UNION {s.chunks : s \in S}
  PROVE  \/ c \in DOMAIN m.refs /\ ApplyRef(c, m, S) = m.refs[c]
         \/ \E s \in S : c \in s.chunks /\ ApplyRef(c, m, S) = <<db, s.prev>>
<1> DEFINE new  == {s.prev : s \in {r \in S : c \in r.chunks}}
           best == CHOOSE p \in new : \A q \in new : LsnOf(q) <= LsnOf(p)
<1>1. ApplyRef(c, m, S) = IF new = {} \/ (c \in DOMAIN m.refs /\ LsnOf(best) <= LsnOf(m.refs[c][2]))
                            THEN m.refs[c] ELSE <<db, best>>
  BY DEF ApplyRef
<1>2. new = {} => c \in DOMAIN m.refs
  OBVIOUS
<1>3. new # {} => best \in new
  <2> SUFFICES ASSUME new # {} PROVE best \in new
    OBVIOUS
  <2> DEFINE L == {LsnOf(p) : p \in new}
  <2>1. new \subseteq Ckpts
    BY DEF SegSet
  <2>2. \A p \in new : LsnOf(p) \in 0..MaxLsn
    <3> HIDE DEF new
    <3> QED
      BY <2>1, CkptBound, Bounds
  <2>3. L \in SUBSET (0..MaxLsn) /\ L # {}
    <3> HIDE DEF new
    <3> QED
      BY <2>2
  <2>4. PICK x \in L : \A y \in L : y <= x
    <3> HIDE DEF L
    <3> QED
      BY <2>3, Bounds, GreatestNat
  <2>5. PICK p \in new : LsnOf(p) = x
    BY <2>4
  <2>6. \A q \in new : LsnOf(q) <= LsnOf(p)
    BY <2>4, <2>5
  <2> HIDE DEF new
  <2> QED
    BY <2>6
<1>4. best \in new => \E s \in S : c \in s.chunks /\ best = s.prev
  OBVIOUS
<1> HIDE DEF new, best
<1> QED
  BY <1>1, <1>2, <1>3, <1>4

LEMMA ApplyShape ==
  ASSUME db \in {0, 1}, NEW m \in ManSet, NEW S \in SUBSET SegSet
  PROVE  ApplySegments(m, S) \in ManSet
<1> DEFINE full    == {s \in S : s.chunks # {} \/ s.rels # NoItems}
           with(r) == {s \in S : r \in DOMAIN s.rels}
           A == ApplySegments(m, S)
<1>1. /\ A.ckpt = IF full = {} THEN m.ckpt ELSE Newest(full).ckpt
      /\ A.refs = [c \in DOMAIN m.refs \cup UNION {s.chunks : s \in S} |-> ApplyRef(c, m, S)]
      /\ A.rels = [r \in DOMAIN m.rels \cup UNION {DOMAIN s.rels : s \in S} |->
                     IF with(r) = {} THEN m.rels[r] ELSE Newest(with(r)).rels[r]]
      /\ A = [ckpt |-> A.ckpt, refs |-> A.refs, rels |-> A.rels]
  BY DEF ApplySegments
<1>2. \A s \in S : /\ s \in SegSet /\ s.ckpt \in Ckpts /\ s.prev \in Ckpts /\ s.chunks \subseteq Chunks
                   /\ s.rels \in Fns(Relforks, Content)
  BY DEF SegSet
<1>3. m.ckpt \in Ckpts /\ m.refs \in Fns(Chunks, Prefixes) /\ m.rels \in Fns(Relforks, Content)
  BY DEF ManSet
<1>4. A.ckpt \in Ckpts
  <2>1. full # {} => Newest(full) \in full
    <3>1. \A s \in full : s.ckpt \in Ckpts
      BY <1>2
    <3> HIDE DEF full
    <3> QED
      BY <3>1, NewestIs
  <2> HIDE DEF A
  <2> QED
    BY <1>1, <1>2, <1>3, <2>1
<1>5. A.refs \in Fns(Chunks, Prefixes)
  <2>1. DOMAIN m.refs \subseteq Chunks /\ \A c \in DOMAIN m.refs : m.refs[c] \in Prefixes
    BY <1>3, FnsDef
  <2>2. ASSUME NEW c \in DOMAIN m.refs \cup UNION {s.chunks : s \in S} PROVE ApplyRef(c, m, S) \in Prefixes
    <3>1. CASE c \in DOMAIN m.refs /\ ApplyRef(c, m, S) = m.refs[c]
      BY <2>1, <3>1
    <3>2. ASSUME NEW s \in S, ApplyRef(c, m, S) = <<db, s.prev>> PROVE ApplyRef(c, m, S) \in Prefixes
      BY <1>2, <3>2 DEF Prefixes
    <3> QED
      BY <3>1, <3>2, ApplyRefIs
  <2>3. A.refs \in [DOMAIN m.refs \cup UNION {s.chunks : s \in S} -> Prefixes]
    <3> HIDE DEF A
    <3> QED
      BY <1>1, <2>2
  <2>4. DOMAIN m.refs \cup UNION {s.chunks : s \in S} \in SUBSET Chunks
    BY <1>2, <2>1
  <2> HIDE DEF A
  <2> QED
    BY <2>3, <2>4, FnsMake
<1>6. A.rels \in Fns(Relforks, Content)
  <2>1. DOMAIN m.rels \subseteq Relforks /\ \A r \in DOMAIN m.rels : m.rels[r] \in Content
    BY <1>3, FnsDef
  <2>2. \A s \in S : DOMAIN s.rels \subseteq Relforks /\ \A r \in DOMAIN s.rels : s.rels[r] \in Content
    BY <1>2, FnsDef
  <2>3. ASSUME NEW r \in DOMAIN m.rels \cup UNION {DOMAIN s.rels : s \in S}
        PROVE  (IF with(r) = {} THEN m.rels[r] ELSE Newest(with(r)).rels[r]) \in Content
    <3>1. with(r) = {} => r \in DOMAIN m.rels
      OBVIOUS
    <3>2. with(r) # {} => Newest(with(r)) \in with(r)
      <4>1. \A s \in with(r) : s.ckpt \in Ckpts
        BY <1>2
      <4> HIDE DEF with
      <4> QED
        BY <4>1, NewestIs
    <3>3. \A s \in with(r) : s.rels[r] \in Content
      BY <2>2
    <3> HIDE DEF with
    <3> QED
      BY <2>1, <3>1, <3>2, <3>3
  <2>4. A.rels \in [DOMAIN m.rels \cup UNION {DOMAIN s.rels : s \in S} -> Content]
    <3> HIDE DEF A, with
    <3> QED
      BY <1>1, <2>3
  <2>5. DOMAIN m.rels \cup UNION {DOMAIN s.rels : s \in S} \in SUBSET Relforks
    BY <2>1, <2>2
  <2> HIDE DEF A
  <2> QED
    BY <2>4, <2>5, FnsMake
<1> HIDE DEF A
<1>7. A \in ManSet
  BY <1>1, <1>4, <1>5, <1>6 DEF ManSet
<1> QED
  BY <1>7 DEF A

-----------------------------------------------------------------------------
(* Positions: what the counters, the control files, the checkpoints and the
   phases of a recovery have to do with each other. *)

AllSegs   == segs \cup gone \cup shm.active \cup rec.lost
Manifests == tikm \cup Range(bases) \cup rec.saved \cup {comp.m}
Dirs      == {d \in {pgdata} \cup bak : d.ok}

\* Until it is promoted to, the timeline of a recovery is not used.
NewTimeline == \/ pgdata.target # 0
               \/ rec.pc \in {"copy", "wipe", "materialize", "delete", "configure", "start"}
               \/ rec.pc = "snapshot" /\ bak = {}
MaxTl       == IF NewTimeline THEN recovers ELSE recovers + 1

Valid(c, d) == TimelineOf(c) \in 1..MaxTl /\ LsnOf(c) \in 1..ends[<<d, TimelineOf(c)>>]

Bound ==
  /\ Len(wal) <= MaxRecords /\ taken \in 0..MaxCheckpoints
  /\ recovers \in 0..MaxRecovers /\ MaxTl \in Nat
  /\ \A k \in Lines : ends[k] + (IF ck.pc = "flushed" THEN 1 ELSE 0) <= Len(wal) + taken + 1

Phase ==
  /\ pg # "down" => pgdata.ok
  /\ pg = "up" => pgdata.target = 0
  /\ pg = "recovering" => pgdata.target # 0
  /\ pg # "up" => ck = NoCk /\ comp = NoComp
  /\ pg = "down" => shm = Fresh /\ cache = NoItems
  /\ pgdata.target # 0 => pgdata.ok /\ SegsHere = {}
  /\ \A s \in shm.active : s.db = db
  /\ tikm = {} => db = 1 /\ pg = "down" /\ SegsHere = {} /\ rec.pc = "idle" /\ bak = {}

RecPhase ==
  /\ rec.pc \notin {"idle", "wait"} => pg = "down"
  /\ rec.pc \in {"snapshot", "copy", "wipe"} => pgdata.ok /\ pgdata.target = 0
  /\ rec.pc \in {"materialize", "delete", "configure", "restore"} => ~pgdata.ok
  /\ rec.pc \in {"start", "wait", "manifest"} => pgdata.ok
  /\ rec.pc = "start" => pgdata.target # 0
  /\ rec.pc \in {"snapshot", "copy", "wipe", "materialize", "delete"} => SegsHere # {} /\ rec.lost = {}
  /\ rec.pc \in {"configure", "start", "wait"} => rec.lost # {}
  /\ rec.pc \in {"configure", "start"} => SegsHere = {}
  /\ rec.pc = "manifest" => pgdata \in bak
  /\ rec.pc \in CopyPcs => bak # {} /\ rec.saved # {}
  /\ rec.pc \in CopyPcs => \A d \in bak : d.ok /\ d.tl = TimelineOf(rec.b.ckpt)
  /\ rec.pc \in {"snapshot", "copy", "wipe"} => pgdata.tl = TimelineOf(rec.b.ckpt)
  /\ rec.pc # "idle" =>
       /\ rec.b \in backups /\ rec.b.db = db /\ LsnOf(rec.b.ckpt) <= rec.target
       /\ rec.target <= ends[<<db, TimelineOf(rec.b.ckpt)>>]
  /\ \A d \in bak : d.target = 0

DirPos == \A d \in Dirs :
  /\ d.tl \in 1..MaxTl /\ TimelineOf(d.ckpt) <= d.tl /\ d.redo < LsnOf(d.ckpt)
  /\ LsnOf(d.ckpt) <= ends[<<db, d.tl>>] /\ d.target <= ends[<<db, d.tl>>]
  /\ d.target # 0 => LsnOf(d.ckpt) <= d.target

SegPos ==
  /\ \A s \in AllSegs : Valid(s.ckpt, s.db)
  /\ \A s, r \in AllSegs : s.db = r.db /\ s.ckpt = r.ckpt => s = r

BkPos  == \A b \in backups : Valid(b.ckpt, b.db) /\ b.redo < LsnOf(b.ckpt)

ManPos ==
  /\ \A m \in Manifests : TimelineOf(m.ckpt) <= MaxTl
  /\ \A k \in DOMAIN bases : TimelineOf(k[2]) <= MaxTl /\ bases[k].ckpt <= k[2]

CkPos ==
  /\ ck.pc # "idle" => ck.redo <= Lsn /\ pgdata.redo <= ck.redo
  /\ ck.pc \in {"compact", "end"} =>
       Valid(ck.ckpt, db) /\ TimelineOf(ck.ckpt) = pgdata.tl /\ ck.redo < LsnOf(ck.ckpt)
       /\ pgdata.ckpt < ck.ckpt

CompPhase ==
  /\ comp.pc = "idle" => comp = NoComp
  /\ comp.inline => ck.pc = "compact" /\ comp.pc # "idle"
  /\ ck.kind = "shutdown" /\ comp.pc # "idle" => comp.inline

OneDb ==
  db = 0 => /\ \A s \in AllSegs : s.db = 0
            /\ \A b \in backups : b.db = 0
            /\ \A k \in DOMAIN bases : k[1] = 0

PosInv == Bound /\ Phase /\ RecPhase /\ DirPos /\ SegPos /\ BkPos /\ ManPos /\ CkPos /\ CompPhase /\ OneDb

TInv == Shape /\ PosInv

LEMMA SameSets ==
  ASSUME wal' = wal
  PROVE  /\ Content' = Content /\ SegSet' = SegSet /\ ManSet' = ManSet
         /\ CompSet' = CompSet /\ ShmSet' = ShmSet /\ RecSet' = RecSet
  BY DEF Content, SegSet, ManSet, CompSet, ShmSet, RecSet

LEMMA NoCkShape ==
  /\ NoCk \in CkSet /\ NoComp \in CompSet /\ Fresh \in ShmSet
  /\ NoCk.pc = "idle" /\ NoComp.pc = "idle" /\ NoComp.m = Empty
  /\ IsFiniteSet(Fresh.active) /\ Cardinality(Fresh.active) <= WindowSize
  /\ Fresh.active = {} /\ Fresh.draft = NoItems /\ Fresh.base = 0 /\ Fresh.head = 0 /\ Fresh.spilled = FALSE
<1>1. 0 \in Lsns /\ 0 \in Ckpts
  BY Bounds, CkptsNat
<1>2. NoItems \in Fns(Items, Content)
  BY NoItemsFns
<1>3. IsFiniteSet({}) /\ Cardinality({}) <= WindowSize
  BY FS_EmptySet, RecoveryAssumption
<1> QED
  BY <1>1, <1>2, <1>3, EmptyShape DEF NoCk, NoComp, Fresh, CkSet, CompSet, ShmSet

LEMMA NoRecShape == NoRec \in RecSet /\ NoRec.pc = "idle" /\ NoRec.saved = {} /\ NoRec.lost = {}
<1>1. 0 \in Lsns /\ 0 \in Ckpts
  BY Bounds, CkptsNat
<1> QED
  BY <1>1 DEF NoRec, RecSet, BkSet

LEMMA TornShape == Torn \in DirSet /\ ~Torn.ok /\ Torn.target = 0
<1>1. 0 \in Lsns /\ 0 \in Ckpts /\ 0 \in 0..(MaxRecovers + 1)
  BY Bounds, CkptsNat, RecoveryAssumption
<1> QED
  BY <1>1 DEF Torn, DirSet

LEMMA InitdbShape == Initdb \in SegSet /\ TimelineOf(Initdb.ckpt) = 1 /\ LsnOf(Initdb.ckpt) = 1
<1>1. 1 \in Lsns /\ 0 \in Ckpts /\ 1 <= MaxRecovers + 1
  BY Bounds, CkptsNat, RecoveryAssumption
<1>2. Ckpt(1, 1) \in Ckpts /\ TimelineOf(Ckpt(1, 1)) = 1 /\ LsnOf(Ckpt(1, 1)) = 1
  BY <1>1, CkptIn
<1>3. NoItems \in Fns(Relforks, Content)
  BY NoItemsFns
<1> QED
  BY <1>1, <1>2, <1>3, RecoveryAssumption DEF Initdb, SegSet

LEMMA InitShape == Init => Shape
<1> SUFFICES ASSUME Init PROVE Shape
  OBVIOUS
<1>1. 0 \in Lsns /\ 1 \in Lsns /\ 0 \in Ckpts /\ {} \in Content
  BY Bounds, CkptsNat DEF Content
<1>2. PgShape
  <2>1. wal \in Seq([item : Items, lsn : Lsns])
    BY DEF Init
  <2>2. line \in [Lines -> Content] /\ ends \in [Lines -> Lsns]
    BY <1>1 DEF Init
  <2>3. pgdata \in DirSet
    <3>1. 1 \in 0..(MaxRecovers + 1) /\ Initdb.ckpt \in Ckpts
      BY RecoveryAssumption, InitdbShape DEF SegSet
    <3> QED
      BY <1>1, <3>1 DEF Init, DirSet
  <2> QED
    BY <2>1, <2>2, <2>3 DEF Init, PgShape
<1>3. MemShape
  <2>1. shm \in ShmSet /\ shm.active = {Initdb}
    BY InitdbShape, NoCkShape DEF Init, ShmSet, SegSet
  <2>2. IsFiniteSet({Initdb}) /\ Cardinality({Initdb}) <= WindowSize
    <3>1. IsFiniteSet({Initdb}) /\ Cardinality({Initdb}) = 1
      BY FS_Singleton
    <3>2. 1 <= WindowSize
      BY RecoveryAssumption
    <3> QED
      BY <3>1, <3>2
  <2> QED
    BY <2>1, <2>2, NoCkShape, NoItemsFns DEF Init, MemShape
<1>4. StoreShape
  <2>1. NoItems \in Fns(Prefixes, Content) /\ NoItems \in Fns(Prefixes, ManSet)
    BY NoItemsFns
  <2>2. Put(NoItems, <<0, 0>>, {}) \in Fns(Prefixes, Content)
    BY <1>1, <2>1, PutFns DEF Prefixes
  <2>3. objs \in [Chunks -> Fns(Prefixes, Content)]
    BY <2>1, <2>2 DEF Init
  <2> QED
    BY <2>1, <2>3, InitdbShape, FS_Singleton DEF Init, StoreShape
<1>5. LocalShape
  BY EmptyShape, NoRecShape, NoItemsFns DEF Init, LocalShape
<1> QED
  BY <1>2, <1>3, <1>4, <1>5 DEF Shape

LEMMA InitPos == Init => PosInv
<1> SUFFICES ASSUME Init PROVE PosInv
  OBVIOUS
<1>0. Shape
  BY InitShape
<1>1. /\ pg = "up" /\ db = 0 /\ pgdata.ok /\ pgdata.target = 0 /\ pgdata.tl = 1 /\ bak = {}
      /\ pgdata.ckpt = Initdb.ckpt /\ pgdata.redo = 0
      /\ rec.pc = "idle" /\ ck.pc = "idle" /\ recovers = 0 /\ taken = 0 /\ wal = <<>>
      /\ comp.m = Empty /\ backups = {} /\ DOMAIN bases = {} /\ tikm = {Empty} /\ rec.saved = {}
  BY NoRecShape, NoCkShape, NoItemsFns DEF Init
<1>2. AllSegs = {Initdb} /\ Initdb.db = 0
  <2>1. shm.active = {Initdb}
    BY NoCkShape DEF Init, Fresh
  <2> QED
    BY <2>1, NoRecShape DEF Init, AllSegs, Initdb
<1>3. Range(bases) = {}
  BY <1>1 DEF Range
<1>4. <<0, 1>> \in Lines /\ ends[<<0, 1>>] = 1 /\ \A k \in Lines : ends[k] \in {0, 1}
  BY RecoveryAssumption DEF Init, Lines, Timelines
<1>5. MaxTl = 1 /\ ~NewTimeline
  BY <1>1 DEF MaxTl, NewTimeline
<1>6. TimelineOf(Initdb.ckpt) = 1 /\ LsnOf(Initdb.ckpt) = 1
  BY InitdbShape
<1>7. Empty.ckpt = 0 /\ TimelineOf(0) = 0
  <2>1. 0 \in Nat /\ 0 \in Lsns
    BY Bounds
  <2>2. TimelineOf(Ckpt(0, 0)) = 0
    BY <2>1, CkptOf
  <2>3. Ckpt(0, 0) = 0
    BY Bounds DEF Ckpt
  <2> QED
    BY <2>2, <2>3 DEF Empty
<1>8. Bound
  BY <1>1, <1>4, <1>5, RecoveryAssumption DEF Bound
<1>9. Phase /\ RecPhase
  BY <1>1, <1>2 DEF Phase, RecPhase, CopyPcs, AllSegs
<1>10. DirPos
  BY <1>1, <1>4, <1>5, <1>6 DEF DirPos, Dirs
<1>11. SegPos /\ BkPos /\ OneDb
  BY <1>1, <1>2, <1>4, <1>5, <1>6 DEF SegPos, BkPos, OneDb, Valid
<1>12. ManPos
  BY <1>1, <1>3, <1>5, <1>7 DEF ManPos, Manifests
<1>13. CkPos /\ CompPhase
  BY <1>1, NoCkShape DEF CkPos, CompPhase, Init, NoComp
<1> QED
  BY <1>8, <1>9, <1>10, <1>11, <1>12, <1>13 DEF PosInv

-----------------------------------------------------------------------------
(* Shapes are kept *)

LEMMA FramePg ==
  ASSUME PgShape, UNCHANGED <<pg, db, wal, line, ends, pgdata, bak>> PROVE PgShape'
  BY SameSets DEF PgShape
LEMMA FrameMem ==
  ASSUME MemShape, UNCHANGED <<wal, ck, comp, cache, shm>> PROVE MemShape'
  BY SameSets DEF MemShape
LEMMA FrameStore ==
  ASSUME StoreShape, UNCHANGED <<wal, objs, segs, bases, backups>> PROVE StoreShape'
  BY SameSets DEF StoreShape
LEMMA FrameLocal ==
  ASSUME LocalShape, UNCHANGED <<wal, tikm, spill, rec, gone, spoiled, abandoned, bases>> PROVE LocalShape'
  BY SameSets DEF LocalShape

LEMMA FrameShape ==
  ASSUME Shape, UNCHANGED vars PROVE Shape'
  BY FramePg, FrameMem, FrameStore, FrameLocal DEF Shape, vars, pgVars, memory, storage, local, history

LEMMA WalIs ==
  ASSUME PgShape, NEW r \in 1..Len(wal)
  PROVE  wal[r] \in [item : Items, lsn : Lsns] /\ wal[r].item \in Items /\ wal[r].lsn \in Nat
<1> DEFINE R == [item : Items, lsn : Lsns]
<1>1. wal \in Seq(R)
  BY DEF PgShape
<1>2. wal[r] \in R
  <2> HIDE DEF R
  <2>1. Len(wal) \in Nat /\ wal \in [1..Len(wal) -> R]
    BY <1>1
  <2> QED
    BY <2>1
<1> QED
  BY <1>2, Bounds

\* The timeline of PGDATA, and where the next record goes.
LEMMA HereLine ==
  ASSUME TInv, pgdata.ok
  PROVE  /\ Here \in Lines /\ Lsn \in Lsns /\ Lsn \in Nat /\ Lsn <= MaxLsn
         /\ pgdata.tl \in 1..(MaxRecovers + 1)
<1>1. pgdata.tl \in 1..MaxTl /\ MaxTl \in Nat /\ MaxTl <= MaxRecovers + 1
  <2>1. MaxTl \in Nat /\ recovers \in 0..MaxRecovers /\ DirPos
    BY DEF TInv, PosInv, Bound
  <2>2. pgdata \in Dirs
    BY DEF Dirs
  <2>3. pgdata.tl \in 1..MaxTl
    BY <2>1, <2>2 DEF DirPos
  <2> QED
    BY <2>1, <2>3, RecoveryAssumption DEF MaxTl
<1>2. pgdata.tl \in 1..(MaxRecovers + 1)
  BY <1>1, RecoveryAssumption
<1>3. Here \in Lines
  BY <1>2 DEF Here, Lines, Timelines, TInv, Shape, PgShape
<1>4. Lsn \in Lsns
  BY <1>3 DEF Lsn, TInv, Shape, PgShape
<1> QED
  BY <1>2, <1>3, <1>4, Bounds

\* The budget of LSNs.
LEMMA NextLsn ==
  ASSUME TInv, pgdata.ok, ck.pc = "flushed" \/ Len(wal) < MaxRecords
  PROVE  Lsn + 1 \in Lsns
<1>1. Here \in Lines /\ Lsn \in Nat
  BY HereLine
<1>2. Lsn + (IF ck.pc = "flushed" THEN 1 ELSE 0) <= Len(wal) + taken + 1
  BY <1>1 DEF TInv, PosInv, Bound, Lsn
<1>3. Len(wal) \in Nat /\ taken \in Nat /\ Len(wal) <= MaxRecords /\ taken <= MaxCheckpoints
  BY DEF TInv, Shape, PgShape, PosInv, Bound
<1> QED
  BY <1>1, <1>2, <1>3, RecoveryAssumption DEF Lsns, MaxLsn

LEMMA WriteShape ==
  ASSUME TInv, NEW i \in Items, Write(i)
  PROVE  Shape'
<1> DEFINE r == Len(wal) + 1
           c == IF i \in DOMAIN cache THEN cache[i] ELSE Lookup(i)
<1>1. /\ wal' = Append(wal, [item |-> i, lsn |-> Lsn + 1]) /\ Len(wal) < MaxRecords
      /\ ends' = [ends EXCEPT ![Here] = @ + 1]
      /\ line' = [line EXCEPT ![Here] = @ \cup {r}]
      /\ cache' = Put(cache, i, c \cup {r})
      /\ UNCHANGED <<pg, db, pgdata, bak, ck, comp, shm, objs, segs, bases, backups, tikm, spill, rec,
                     gone, spoiled, abandoned>>
      /\ pg = "up"
  BY DEF Write, Running, storage, local, history
<1>2. Shape /\ pgdata.ok
  BY <1>1 DEF TInv, PosInv, Phase
<1>3. Lsn + 1 \in Lsns /\ Here \in Lines
  BY <1>1, <1>2, NextLsn, HereLine
<1>4. /\ wal' \in Seq([item : Items, lsn : Lsns]) /\ Len(wal') = r /\ Len(wal) \in Nat
  BY <1>1, <1>2, <1>3 DEF Shape, PgShape
<1>5. Content \subseteq Content' /\ {r} \in Content'
  BY <1>4 DEF Content
<1>6. /\ \A S \in {Items, Relforks, Prefixes} : Fns(S, Content) \subseteq Fns(S, Content')
  BY <1>5, FnsMono
<1>7. SegSet \subseteq SegSet' /\ ManSet \subseteq ManSet'
  BY <1>6 DEF SegSet, ManSet
<1>8. CompSet \subseteq CompSet' /\ ShmSet \subseteq ShmSet' /\ RecSet \subseteq RecSet'
  BY <1>6, <1>7 DEF CompSet, ShmSet, RecSet
<1>9. Fns(Prefixes, ManSet) \subseteq Fns(Prefixes, ManSet')
  BY <1>7, FnsMono
<1>10. PgShape'
  <2>1. line' \in [Lines -> Content']
    <3>1. \A k \in Lines : line[k] \in Content' /\ line[k] \cup {r} \in Content'
      BY <1>2, <1>5 DEF Shape, PgShape, Content
    <3> QED
      BY <1>1, <1>2, <1>3, <3>1 DEF Shape, PgShape
  <2>2. ends' \in [Lines -> Lsns]
    BY <1>1, <1>2, <1>3 DEF Shape, PgShape, Lsn
  <2> QED
    BY <1>1, <1>2, <1>4, <2>1, <2>2 DEF Shape, PgShape
<1>11. MemShape'
  <2>1. c \in Content
    BY <1>2, ShapeReads, LookupShape, FnsDef DEF Shape, MemShape
  <2>2. c \cup {r} \in Content'
    BY <1>5, <2>1 DEF Content
  <2>3. cache \in Fns(Items, Content')
    BY <1>2, <1>6 DEF Shape, MemShape
  <2>4. cache' \in Fns(Items, Content')
    BY <1>1, <2>2, <2>3, PutFns
  <2> QED
    BY <1>1, <1>2, <1>8, <2>4 DEF Shape, MemShape
<1>12. StoreShape'
  <2>1. objs \in [Chunks -> Fns(Prefixes, Content')]
    BY <1>2, <1>6 DEF Shape, StoreShape
  <2> QED
    BY <1>1, <1>2, <1>7, <1>9, <2>1 DEF Shape, StoreShape
<1>13. LocalShape'
  BY <1>1, <1>2, <1>6, <1>7, <1>8 DEF Shape, LocalShape
<1> QED
  BY <1>10, <1>11, <1>12, <1>13 DEF Shape

\* Items written back keep their shape.
LEMMA WriteBackShape ==
  ASSUME Shape, NEW I \in SUBSET DOMAIN cache, WriteBack(I), wal' = wal
  PROVE  /\ cache' \in Fns(Items, Content') /\ shm' \in ShmSet'
         /\ shm'.active = shm.active
         /\ objs' \in [Chunks -> Fns(Prefixes, Content')]
<1>1. cache \in Fns(Items, Content) /\ shm \in ShmSet /\ objs \in [Chunks -> Fns(Prefixes, Content)]
  BY DEF Shape, MemShape, StoreShape
<1>2. DOMAIN cache \subseteq Items /\ \A i \in DOMAIN cache : cache[i] \in Content
  BY <1>1, FnsDef
<1>3. Content' = Content /\ ShmSet' = ShmSet
  BY SameSets
<1>4. cache' \in Fns(Items, Content)
  BY <1>1, <1>2, RestrictFns DEF WriteBack
<1> DEFINE f == [i \in I |-> IF i \in Chunks THEN {} ELSE cache[i]]
<1>5. f \in Fns(Items, Content)
  <2>1. {} \in Content
    BY DEF Content
  <2>2. f \in [I -> Content] /\ I \in SUBSET Items
    BY <1>2, <2>1
  <2> QED
    BY <2>2, FnsMake
<1>6. shm.draft \in Fns(Items, Content)
  BY <1>1 DEF ShmSet
<1>7. Override(f, shm.draft) \in Fns(Items, Content)
  <2> HIDE DEF f
  <2> QED
    BY <1>5, <1>6, OverrideFns
<1>8. shm' = [shm EXCEPT !.draft = Override(f, shm.draft)]
  BY DEF WriteBack
<1>9. shm' \in ShmSet /\ shm'.active = shm.active
  <2> HIDE DEF f
  <2> QED
    BY <1>1, <1>7, <1>8 DEF ShmSet
<1>10. ASSUME NEW c \in Chunks
       PROVE (IF c \in I THEN Put(objs[c], <<db, shm.head>>, cache[c]) ELSE objs[c]) \in Fns(Prefixes, Content)
  <2>1. objs[c] \in Fns(Prefixes, Content)
    BY <1>1
  <2>2. <<db, shm.head>> \in Prefixes
    BY <1>1 DEF Prefixes, ShmSet, Shape, PgShape
  <2> QED
    BY <1>2, <2>1, <2>2, PutFns
<1>11. objs' \in [Chunks -> Fns(Prefixes, Content)]
  BY <1>10 DEF WriteBack
<1> QED
  BY <1>3, <1>4, <1>9, <1>11

LEMMA EvictShape ==
  ASSUME TInv, NEW i \in Items, Evict(i)
  PROVE  Shape'
<1>1. /\ UNCHANGED <<pg, db, wal, line, ends, pgdata, bak, ck, comp, segs, bases, backups, tikm, spill, rec,
                     gone, spoiled, abandoned>>
      /\ WriteBack({i}) /\ {i} \in SUBSET DOMAIN cache
  BY DEF Evict, pgVars, local, history
<1>2. Shape
  BY DEF TInv
<1>3. /\ cache' \in Fns(Items, Content') /\ shm' \in ShmSet' /\ shm'.active = shm.active
      /\ objs' \in [Chunks -> Fns(Prefixes, Content')]
  BY <1>1, <1>2, WriteBackShape
<1>4. PgShape' /\ LocalShape'
  BY <1>1, <1>2, FramePg, FrameLocal DEF Shape
<1>5. MemShape'
  BY <1>1, <1>2, <1>3, SameSets DEF Shape, MemShape
<1>6. StoreShape'
  BY <1>1, <1>2, <1>3, SameSets DEF Shape, StoreShape
<1> QED
  BY <1>4, <1>5, <1>6 DEF Shape

LEMMA SpillShape ==
  ASSUME TInv, Spill
  PROVE  Shape'
<1>1. /\ UNCHANGED <<pg, db, wal, line, ends, pgdata, bak, ck, comp, cache, objs, segs, bases, backups, tikm, rec,
                     gone, spoiled, abandoned>>
      /\ spill' = Override(shm.draft, spill)
      /\ shm' = [shm EXCEPT !.draft = NoItems, !.spilled = TRUE]
  BY DEF Spill, pgVars, storage, history
<1>2. Shape
  BY DEF TInv
<1>3. shm.draft \in Fns(Items, Content) /\ spill \in Fns(Items, Content) /\ shm \in ShmSet
  BY <1>2 DEF Shape, MemShape, LocalShape, ShmSet
<1>4. spill' \in Fns(Items, Content)
  BY <1>1, <1>3, OverrideFns
<1>5. shm' \in ShmSet /\ shm'.active = shm.active
  BY <1>1, <1>3, NoItemsFns DEF ShmSet
<1>6. PgShape' /\ StoreShape'
  BY <1>1, <1>2, FramePg, FrameStore DEF Shape
<1>7. MemShape'
  BY <1>1, <1>2, <1>5, SameSets DEF Shape, MemShape
<1>8. LocalShape'
  BY <1>1, <1>2, <1>4, SameSets DEF Shape, LocalShape
<1> QED
  BY <1>6, <1>7, <1>8 DEF Shape

LEMMA LoadManifestShape ==
  ASSUME TInv, LoadManifest
  PROVE  Shape'
<1>1. /\ UNCHANGED <<pg, db, wal, line, ends, pgdata, bak, ck, comp, cache, shm, objs, segs, bases, backups,
                     spill, rec, gone, spoiled, abandoned>>
      /\ tikm' = ManifestsAt(shm.base)
  BY DEF LoadManifest, pgVars, memory, storage, history
<1>2. Shape
  BY DEF TInv
<1>3. tikm' \subseteq ManSet /\ \A m, n \in tikm' : m = n
  <2>1. shm.base \in Ckpts
    BY <1>2 DEF Shape, MemShape, ShmSet
  <2> QED
    BY <1>1, <1>2, <2>1, ShapeReads, ManifestsShape
<1>4. PgShape' /\ MemShape' /\ StoreShape'
  BY <1>1, <1>2, FramePg, FrameMem, FrameStore DEF Shape
<1>5. LocalShape'
  BY <1>1, <1>2, <1>3, SameSets DEF Shape, LocalShape
<1> QED
  BY <1>4, <1>5 DEF Shape

LEMMA CheckpointStartShape ==
  ASSUME TInv, NEW kind \in {"online", "backup", "shutdown"}, CheckpointStart(kind)
  PROVE  Shape'
<1>1. /\ UNCHANGED <<pg, db, wal, line, ends, pgdata, bak, segs, bases, backups, tikm, spill, rec,
                     gone, spoiled, abandoned>>
      /\ WriteBack(DOMAIN cache) /\ DOMAIN cache \in SUBSET DOMAIN cache
      /\ ck' = [pc |-> "flushed", kind |-> kind, redo |-> Lsn, ckpt |-> 0]
      /\ comp' = IF kind = "shutdown" THEN NoComp ELSE comp
      /\ pg = "up"
  BY DEF CheckpointStart, pgVars, local, history
<1>2. Shape /\ pgdata.ok
  BY <1>1 DEF TInv, PosInv, Phase
<1>3. /\ cache' \in Fns(Items, Content') /\ shm' \in ShmSet' /\ shm'.active = shm.active
      /\ objs' \in [Chunks -> Fns(Prefixes, Content')]
  BY <1>1, <1>2, WriteBackShape
<1>4. PgShape' /\ LocalShape'
  BY <1>1, <1>2, FramePg, FrameLocal DEF Shape
<1>5. ck' \in CkSet
  <2>1. Lsn \in Lsns /\ 0 \in Ckpts
    BY <1>2, HereLine, CkptsNat
  <2> QED
    BY <1>1, <2>1 DEF CkSet
<1>6. comp' \in CompSet
  BY <1>1, <1>2, NoCkShape DEF Shape, MemShape
<1>7. MemShape'
  BY <1>1, <1>2, <1>3, <1>5, <1>6, SameSets DEF Shape, MemShape
<1>8. StoreShape'
  BY <1>1, <1>2, <1>3, SameSets DEF Shape, StoreShape
<1> QED
  BY <1>4, <1>7, <1>8 DEF Shape

LEMMA CommitShape ==
  ASSUME TInv, Commit
  PROVE  Shape'
<1> DEFINE c   == Ckpt(pgdata.tl, Lsn + 1)
           all == Override(shm.draft, spill)
           s   == [db |-> db, ckpt |-> c, prev |-> shm.head, chunks |-> DOMAIN all \cap Chunks,
                   rels |-> Restrict(all, DOMAIN all \cap Relforks)]
           W   == shm.active \cup {s}
<1>1. /\ ck.pc = "flushed"
      /\ ends' = [ends EXCEPT ![Here] = @ + 1]
      /\ segs' = segs \cup {s}
      /\ shm' = [shm EXCEPT !.head = c, !.redo = Ckpt(pgdata.tl, ck.redo),
                            !.active = Window(W), !.draft = NoItems, !.spilled = FALSE]
      /\ spill' = NoItems
      /\ ck' = [ck EXCEPT !.pc = IF ck.kind = "online" THEN "end" ELSE "compact", !.ckpt = c]
      /\ UNCHANGED <<pg, db, wal, line, pgdata, bak, comp, cache, objs, bases, backups, tikm, rec,
                     gone, spoiled, abandoned>>
  BY DEF Commit, PushSegment, PushActive, history
<1>2. Shape /\ pgdata.ok
  BY <1>1 DEF TInv, PosInv, Phase, NoCk
<1>3. Lsn + 1 \in Lsns /\ Here \in Lines /\ pgdata.tl \in 1..(MaxRecovers + 1) /\ Lsn \in Nat
  BY <1>1, <1>2, NextLsn, HereLine
<1>4. /\ c \in Ckpts /\ TimelineOf(c) = pgdata.tl /\ LsnOf(c) = Lsn + 1
      /\ Ckpt(pgdata.tl, ck.redo) \in Ckpts
  <2>1. pgdata.tl \in Nat /\ pgdata.tl <= MaxRecovers + 1 /\ ck.redo \in Lsns
    BY <1>2, <1>3, RecoveryAssumption DEF Shape, MemShape, CkSet
  <2> QED
    BY <1>3, <2>1, CkptIn
<1> HIDE DEF c
<1>5. all \in Fns(Items, Content)
  BY <1>2, OverrideFns DEF Shape, MemShape, ShmSet, LocalShape
<1> HIDE DEF all
<1>6. s \in SegSet
  <2>1. DOMAIN all \cap Relforks \subseteq DOMAIN all /\ DOMAIN all \cap Relforks \subseteq Relforks
    OBVIOUS
  <2>2. Restrict(all, DOMAIN all \cap Relforks) \in Fns(Relforks, Content)
    BY <1>5, <2>1, RestrictFns
  <2> QED
    BY <1>2, <1>4, <2>2 DEF SegSet, Shape, PgShape, MemShape, ShmSet
<1>7. s.ckpt = c /\ s.db = db
  OBVIOUS
<1> HIDE DEF s
<1>8. IsFiniteSet(W) /\ (\A r \in W : r.ckpt \in Ckpts) /\ \A r, q \in W : r.ckpt = q.ckpt => r = q
  <2>1. IsFiniteSet(W)
    BY <1>2, FS_AddElement DEF Shape, MemShape
  <2>2. W \subseteq SegSet
    BY <1>2, <1>6 DEF Shape, MemShape, ShmSet
  <2>3. ASSUME NEW r \in shm.active PROVE r.db = db /\ r.ckpt # c
    <3>1. r.db = db /\ Valid(r.ckpt, r.db)
      BY DEF TInv, PosInv, Phase, SegPos, AllSegs
    <3>2. r.ckpt = c => LsnOf(c) <= ends[Here]
      BY <1>4, <3>1 DEF Valid, Here
    <3> QED
      BY <1>3, <1>4, <3>1, <3>2 DEF Lsn
  <2>4. \A r, q \in shm.active : r.ckpt = q.ckpt => r = q
    BY <2>3 DEF TInv, PosInv, SegPos, AllSegs
  <2> QED
    BY <1>7, <2>1, <2>2, <2>3, <2>4 DEF SegSet
<1>9. Window(W) \subseteq W /\ IsFiniteSet(Window(W)) /\ Cardinality(Window(W)) <= WindowSize
  <2> HIDE DEF W
  <2> QED
    BY <1>8, WindowIs
<1>10. PgShape'
  <2>1. ends' \in [Lines -> Lsns]
    BY <1>1, <1>2, <1>3 DEF Shape, PgShape, Lsn
  <2> QED
    BY <1>1, <1>2, <2>1, SameSets DEF Shape, PgShape
<1>11. MemShape'
  <2>1. shm' \in ShmSet /\ shm'.active = Window(W)
    BY <1>1, <1>2, <1>4, <1>6, <1>9, NoItemsFns DEF Shape, MemShape, ShmSet
  <2>2. ck' \in CkSet
    BY <1>1, <1>2, <1>4 DEF Shape, MemShape, CkSet
  <2> QED
    BY <1>1, <1>2, <1>9, <2>1, <2>2, SameSets DEF Shape, MemShape
<1>12. StoreShape'
  BY <1>1, <1>2, <1>6, FS_AddElement, SameSets DEF Shape, StoreShape
<1>13. LocalShape'
  BY <1>1, <1>2, NoItemsFns, SameSets DEF Shape, LocalShape
<1> QED
  BY <1>10, <1>11, <1>12, <1>13 DEF Shape

LEMMA CheckpointEndShape ==
  ASSUME TInv, CheckpointEnd
  PROVE  Shape'
<1>1. /\ pgdata' = [pgdata EXCEPT !.ckpt = ck.ckpt, !.redo = ck.redo]
      /\ backups' \in {backups, backups \cup {[db |-> db, ckpt |-> ck.ckpt, redo |-> ck.redo]}}
      /\ \/ pg' = "down" /\ shm' = Fresh /\ cache' = NoItems
         \/ UNCHANGED <<pg, shm, cache>>
      /\ ck' = NoCk
      /\ UNCHANGED <<db, wal, line, ends, bak, comp, objs, segs, bases, tikm, spill, rec,
                     gone, spoiled, abandoned>>
  BY DEF CheckpointEnd, PutBackup, StopPg, local, history
<1>2. Shape
  BY DEF TInv
<1>3. ck.ckpt \in Ckpts /\ ck.redo \in Lsns
  BY <1>2 DEF Shape, MemShape, CkSet
<1>4. PgShape'
  <2>1. pgdata' \in DirSet
    BY <1>1, <1>2, <1>3 DEF Shape, PgShape, DirSet
  <2> QED
    BY <1>1, <1>2, <2>1, SameSets DEF Shape, PgShape
<1>5. MemShape'
  BY <1>1, <1>2, NoCkShape, NoItemsFns, SameSets DEF Shape, MemShape
<1>6. StoreShape'
  <2>1. [db |-> db, ckpt |-> ck.ckpt, redo |-> ck.redo] \in BkSet
    BY <1>2, <1>3 DEF BkSet, Shape, PgShape
  <2> QED
    BY <1>1, <1>2, <2>1, SameSets DEF Shape, StoreShape
<1>7. LocalShape'
  BY <1>1, <1>2, FrameLocal DEF Shape
<1> QED
  BY <1>4, <1>5, <1>6, <1>7 DEF Shape

\* The key of a new manifest.
CompactKey(through, m) ==
  IF through THEN ApplySegments(m, ToApply(through)).ckpt ELSE Newest(ToApply(through)).ckpt

\* What a compaction puts.
LEMMA CompactPutIs ==
  ASSUME NEW through \in BOOLEAN, CompactPut(through)
  PROVE  \E m \in ManifestsAt(shm.base) :
           LET S   == ToApply(through)
               new == ApplySegments(m, S)
               key == CompactKey(through, m)
           IN /\ comp.pc = "idle" /\ S # {}
              /\ IF ck.pc = "compact" THEN through = (ck.kind = "backup") ELSE Running /\ ~through
              /\ comp' = [pc |-> "put", inline |-> ck.pc = "compact", from |-> shm.base, key |-> key, m |-> new]
              /\ bases' = Put(bases, <<db, key>>, new)
              /\ spoiled' = spoiled \cup Outranked(m, S)
              /\ UNCHANGED <<pg, db, wal, line, ends, pgdata, bak, ck, cache, shm, objs, segs, backups,
                             tikm, spill, rec, gone, abandoned, taken, recovers, events>>
  BY DEF CompactPut, CompactKey, pgVars, local, counters

\* What is folded, and the key.
LEMMA FoldShape ==
  ASSUME Shape, NEW through \in BOOLEAN, ToApply(through) # {}, NEW m \in ManSet
  PROVE  /\ ToApply(through) \in SUBSET SegSet /\ ToApply(through) \subseteq SegsHere
         /\ Newest(ToApply(through)) \in ToApply(through)
         /\ \A s \in ToApply(through) : s.ckpt <= Newest(ToApply(through)).ckpt
         /\ ApplySegments(m, ToApply(through)) \in ManSet
         /\ CompactKey(through, m) \in Ckpts
         /\ Outranked(m, ToApply(through)) \subseteq Items
<1> DEFINE S == ToApply(through)
<1>1. S \in SUBSET SegSet /\ S \subseteq SegsHere
  BY DEF Shape, StoreShape, ToApply, SegsHere
<1>2. \A s \in S : s.ckpt \in Ckpts /\ s.chunks \subseteq Chunks
  BY <1>1 DEF SegSet
<1> HIDE DEF S
<1>3. S # {}
  BY DEF S
<1>4. Newest(S) \in S /\ \A s \in S : s.ckpt <= Newest(S).ckpt
  BY <1>2, <1>3, NewestIs
<1>5. ApplySegments(m, S) \in ManSet
  BY <1>1, ApplyShape DEF Shape, PgShape
<1>6. CompactKey(through, m) \in Ckpts
  <2>1. ApplySegments(m, S).ckpt \in Ckpts
    BY <1>5 DEF ManSet
  <2> QED
    BY <1>2, <1>4, <2>1 DEF CompactKey, S
<1>7. Outranked(m, S) \subseteq Items
  BY <1>2 DEF Outranked, Items
<1> QED
  BY <1>1, <1>4, <1>5, <1>6, <1>7 DEF S

LEMMA CompactPutShape ==
  ASSUME TInv, NEW through \in BOOLEAN, CompactPut(through)
  PROVE  Shape'
<1> DEFINE S == ToApply(through)
<1>1. PICK m \in ManifestsAt(shm.base) :
        /\ S # {}
        /\ comp' = [pc |-> "put", inline |-> ck.pc = "compact", from |-> shm.base,
                    key |-> CompactKey(through, m), m |-> ApplySegments(m, S)]
        /\ bases' = Put(bases, <<db, CompactKey(through, m)>>, ApplySegments(m, S))
        /\ spoiled' = spoiled \cup Outranked(m, S)
        /\ UNCHANGED <<pg, db, wal, line, ends, pgdata, bak, ck, cache, shm, objs, segs, backups,
                       tikm, spill, rec, gone, abandoned>>
  BY CompactPutIs
<1>2. Shape /\ shm.base \in Ckpts
  BY DEF TInv, Shape, MemShape, ShmSet
<1>3. m \in ManSet
  BY <1>2, ShapeReads, ManifestsShape
<1>4. /\ ApplySegments(m, S) \in ManSet /\ CompactKey(through, m) \in Ckpts
      /\ Outranked(m, S) \subseteq Items
  BY <1>1, <1>2, <1>3, FoldShape
<1> HIDE DEF S
<1>5. PgShape'
  BY <1>1, <1>2, FramePg DEF Shape
<1>6. MemShape'
  <2>1. comp' \in CompSet
    BY <1>1, <1>2, <1>4 DEF CompSet
  <2> QED
    BY <1>1, <1>2, <2>1, SameSets DEF Shape, MemShape
<1>7. bases' \in Fns(Prefixes, ManSet) /\ DOMAIN bases \subseteq DOMAIN bases'
  <2>1. <<db, CompactKey(through, m)>> \in Prefixes /\ bases \in Fns(Prefixes, ManSet)
    BY <1>2, <1>4 DEF Prefixes, Shape, PgShape, StoreShape
  <2>2. bases' \in Fns(Prefixes, ManSet)
    BY <1>1, <1>4, <2>1, PutFns
  <2>3. bases' = Put(bases, <<db, CompactKey(through, m)>>, ApplySegments(m, S))
    BY <1>1
  <2>4. DOMAIN bases' = DOMAIN bases \cup {<<db, CompactKey(through, m)>>}
    BY <2>3, PutIs
  <2> QED
    BY <2>2, <2>4
<1>8. StoreShape'
  BY <1>1, <1>2, <1>7, SameSets DEF Shape, StoreShape
<1>9. LocalShape'
  BY <1>1, <1>2, <1>4, <1>7, SameSets DEF Shape, LocalShape
<1> QED
  BY <1>5, <1>6, <1>8, <1>9 DEF Shape

\* A compaction that fails leaves everything but itself and its checkpoint alone.
LEMMA FailIs ==
  ASSUME CompactFail
  PROVE  /\ comp' = NoComp
         /\ \/ comp.pc = "idle" /\ ck.pc = "compact" /\ ck' = [ck EXCEPT !.pc = "end"]
            \/ comp.pc = "put" /\ ck' = IF comp.inline THEN [ck EXCEPT !.pc = "end"] ELSE ck
         /\ UNCHANGED <<pg, db, wal, line, ends, pgdata, bak, cache, shm, objs, segs, bases, backups, tikm, spill,
                        rec, gone, spoiled, abandoned, taken, recovers>>
  BY DEF CompactFail, pgVars, storage, local

\* The rest of a compaction.
LEMMA CompactRestShape ==
  ASSUME TInv, CompactPublish \/ CompactAdvance \/ CompactDelete \/ CompactFail \/ NoNewSegments
  PROVE  Shape'
<1>1. Shape
  BY DEF TInv
<1>2. comp \in CompSet /\ comp.m \in ManSet /\ comp.key \in Ckpts /\ ck \in CkSet /\ shm \in ShmSet
  BY <1>1 DEF Shape, MemShape, CompSet
<1>3. CASE CompactPublish
  <2>1. /\ tikm' = {comp.m} /\ comp' = [comp EXCEPT !.pc = "published"]
        /\ UNCHANGED <<pg, db, wal, line, ends, pgdata, bak, ck, cache, shm, objs, segs, bases, backups, spill,
                       rec, gone, spoiled, abandoned>>
    BY <1>3 DEF CompactPublish, pgVars, storage, history
  <2>2. comp' \in CompSet
    BY <1>2, <2>1 DEF CompSet
  <2>3. PgShape' /\ StoreShape'
    BY <1>1, <2>1, FramePg, FrameStore DEF Shape
  <2>4. MemShape'
    BY <1>1, <2>1, <2>2, SameSets DEF Shape, MemShape
  <2>5. LocalShape'
    BY <1>1, <1>2, <2>1, SameSets DEF Shape, LocalShape
  <2> QED
    BY <2>3, <2>4, <2>5 DEF Shape
<1>4. CASE CompactAdvance
  <2>1. /\ shm' = [shm EXCEPT !.base = comp.key] /\ comp' = [comp EXCEPT !.pc = "delete"]
        /\ UNCHANGED <<pg, db, wal, line, ends, pgdata, bak, ck, cache, objs, segs, bases, backups, tikm, spill,
                       rec, gone, spoiled, abandoned>>
    BY <1>4 DEF CompactAdvance, pgVars, storage, local, history
  <2>2. comp' \in CompSet /\ shm' \in ShmSet /\ shm'.active = shm.active
    BY <1>2, <2>1 DEF CompSet, ShmSet
  <2>3. PgShape' /\ StoreShape' /\ LocalShape'
    BY <1>1, <2>1, FramePg, FrameStore, FrameLocal DEF Shape
  <2>4. MemShape'
    BY <1>1, <2>1, <2>2, SameSets DEF Shape, MemShape
  <2> QED
    BY <2>3, <2>4 DEF Shape
<1>5. CASE CompactDelete
  <2>1. /\ segs' = segs \ Folded /\ gone' = gone \cup Folded /\ comp' = NoComp
        /\ ck' = IF comp.inline THEN [ck EXCEPT !.pc = "end"] ELSE ck
        /\ UNCHANGED <<pg, db, wal, line, ends, pgdata, bak, cache, shm, objs, bases, backups, tikm, spill,
                       rec, spoiled, abandoned>>
    BY <1>5 DEF CompactDelete, pgVars, local
  <2>2. Folded \subseteq segs
    BY DEF Folded, SegsHere
  <2>3. ck' \in CkSet
    BY <1>2, <2>1 DEF CkSet
  <2>4. MemShape'
    BY <1>1, <2>1, <2>3, NoCkShape, SameSets DEF Shape, MemShape
  <2>5. StoreShape'
    BY <1>1, <2>1, FS_Subset, SameSets DEF Shape, StoreShape
  <2>6. LocalShape'
    BY <1>1, <2>1, <2>2, SameSets DEF Shape, LocalShape, StoreShape
  <2>7. PgShape'
    BY <1>1, <2>1, FramePg DEF Shape
  <2> QED
    BY <2>4, <2>5, <2>6, <2>7 DEF Shape
<1>6. CASE NoNewSegments
  <2>1. /\ ck' = [ck EXCEPT !.pc = "end"]
        /\ UNCHANGED <<pg, db, wal, line, ends, pgdata, bak, comp, cache, shm, objs, segs, bases, backups,
                       tikm, spill, rec, gone, spoiled, abandoned>>
    BY <1>6 DEF NoNewSegments, pgVars, storage, local, history
  <2>2. ck' \in CkSet
    BY <1>2, <2>1 DEF CkSet
  <2>3. PgShape' /\ StoreShape' /\ LocalShape'
    BY <1>1, <2>1, FramePg, FrameStore, FrameLocal DEF Shape
  <2>4. MemShape'
    BY <1>1, <2>1, <2>2, SameSets DEF Shape, MemShape
  <2> QED
    BY <2>3, <2>4 DEF Shape
<1>7. CASE CompactFail
  <2>1. ck' \in CkSet
    BY <1>2, <1>7, FailIs DEF CkSet
  <2>2. PgShape' /\ StoreShape' /\ LocalShape'
    BY <1>1, <1>7, FailIs, FramePg, FrameStore, FrameLocal DEF Shape
  <2>3. MemShape'
    BY <1>1, <1>7, <2>1, FailIs, NoCkShape, SameSets DEF Shape, MemShape
  <2> QED
    BY <2>2, <2>3 DEF Shape
<1> QED
  BY <1>3, <1>4, <1>5, <1>6, <1>7

LEMMA CrashShape ==
  ASSUME TInv, Crash
  PROVE  Shape'
<1>1. /\ pg' = "down" /\ shm' = Fresh /\ cache' = NoItems /\ ck' = NoCk /\ comp' = NoComp
      /\ UNCHANGED <<db, wal, line, ends, pgdata, bak, objs, segs, bases, backups, tikm, spill, rec,
                     gone, spoiled, abandoned>>
  BY DEF Crash, StopPg, storage, local, history
<1>2. Shape
  BY DEF TInv
<1>3. StoreShape' /\ LocalShape'
  BY <1>1, <1>2, FrameStore, FrameLocal DEF Shape
<1>4. PgShape'
  BY <1>1, <1>2, SameSets DEF Shape, PgShape
<1>5. MemShape'
  BY <1>1, <1>2, NoCkShape, NoItemsFns, SameSets DEF MemShape
<1> QED
  BY <1>3, <1>4, <1>5 DEF Shape

\* Some manifest is found.
LEMMA InitialShape ==
  ASSUME Shape
  PROVE  /\ InitialManifest \in ManSet /\ InitialManifest.ckpt \in Ckpts
         /\ \/ InitialManifest \in tikm
            \/ tikm = {} /\ \E k \in DOMAIN bases : /\ k[1] = db /\ InitialManifest = bases[k]
                                                    /\ \A j \in DOMAIN bases : j[1] = db => j[2] <= k[2]
            \/ tikm = {} /\ InitialManifest = Empty /\ \A k \in DOMAIN bases : k[1] # db
<1> DEFINE keys == {k \in DOMAIN bases : k[1] = db}
           K == Ckpt(MaxRecovers + 1, MaxLsn)
           n == {k[2] : k \in keys}
<1>1. DOMAIN bases \subseteq Prefixes /\ \A k \in DOMAIN bases : bases[k] \in ManSet
  BY FnsDef DEF Shape, StoreShape
<1>2. tikm \subseteq ManSet
  BY DEF Shape, LocalShape
<1>3. ASSUME keys # {}
      PROVE  \E k \in keys : \A j \in keys : j[2] <= k[2]
  <2>1. n \in SUBSET (0..K) /\ n # {} /\ K \in Nat
    BY <1>1, <1>3, CkptsNat DEF Prefixes
  <2>2. PICK x \in n : \A y \in n : y <= x
    <3> HIDE DEF n, K
    <3> QED
      BY <2>1, GreatestNat
  <2>3. PICK k \in keys : k[2] = x
    BY <2>2
  <2>4. \A j \in keys : j[2] \in n
    OBVIOUS
  <2> HIDE DEF keys, n
  <2> QED
    BY <2>2, <2>3, <2>4
<1>4. CASE tikm # {}
  BY <1>2, <1>4 DEF InitialManifest, ManSet
<1>5. CASE tikm = {} /\ keys # {}
  <2> DEFINE k == CHOOSE x \in keys : \A j \in keys : j[2] <= x[2]
  <2>1. InitialManifest = bases[k]
    BY <1>5 DEF InitialManifest
  <2>2. k \in keys /\ \A j \in keys : j[2] <= k[2]
    <3> HIDE DEF keys
    <3> QED
      BY <1>3, <1>5
  <2> HIDE DEF k
  <2> QED
    BY <1>1, <1>5, <2>1, <2>2 DEF ManSet
<1>6. CASE tikm = {} /\ keys = {}
  BY <1>6, EmptyShape DEF InitialManifest, ManSet
<1> QED
  BY <1>4, <1>5, <1>6

\* What a restart has in its window.
LEMMA HydratedIs ==
  ASSUME TInv
  PROVE  /\ Hydrated \in ShmSet
         /\ IsFiniteSet(Hydrated.active) /\ Cardinality(Hydrated.active) <= WindowSize
         /\ Hydrated.base = InitialManifest.ckpt /\ Hydrated.redo = 0
         /\ Hydrated.draft = NoItems /\ Hydrated.spilled = FALSE
         /\ Hydrated.active \subseteq SegsHere
         /\ pgdata.target # 0 => Hydrated.active = {}
         /\ Hydrated.active = {} => Hydrated.head = 0
         /\ pgdata.target = 0 =>
              /\ \A a \in Hydrated.active, s \in SegsHere : a.ckpt <= s.ckpt => s \in Hydrated.active
              /\ Hydrated.active = {} => SegsHere = {}
         /\ Hydrated.active # {} => /\ Hydrated.head = Newest(Hydrated.active).ckpt
                                    /\ Newest(Hydrated.active) \in Hydrated.active
                                    /\ \A s \in SegsHere : s.ckpt <= Hydrated.head
<1> DEFINE A == IF pgdata.target # 0 THEN {} ELSE Window(SegsHere)
           H == Hydrated
<1>1. Shape
  BY DEF TInv
<1>2. /\ IsFiniteSet(SegsHere) /\ SegsHere \subseteq SegSet
      /\ \A s \in SegsHere : s.ckpt \in Ckpts
  BY <1>1, FS_Subset DEF Shape, StoreShape, SegsHere, SegSet
<1>3. \A s, r \in SegsHere : s.ckpt = r.ckpt => s = r
  BY DEF TInv, PosInv, SegPos, AllSegs, SegsHere
<1>4. /\ Window(SegsHere) \subseteq SegsHere /\ IsFiniteSet(Window(SegsHere))
      /\ Cardinality(Window(SegsHere)) <= WindowSize
      /\ \A a \in Window(SegsHere), s \in SegsHere : a.ckpt <= s.ckpt => s \in Window(SegsHere)
      /\ SegsHere # {} => Newest(SegsHere) \in Window(SegsHere)
  BY <1>2, <1>3, WindowIs
<1>5. /\ A \subseteq SegsHere /\ IsFiniteSet(A) /\ Cardinality(A) <= WindowSize
      /\ A # {} => pgdata.target = 0 /\ A = Window(SegsHere)
  BY <1>4, FS_EmptySet, RecoveryAssumption
<1>6. H = [Fresh EXCEPT !.base = InitialManifest.ckpt, !.active = A,
                        !.head = IF A = {} THEN 0 ELSE Newest(A).ckpt]
  BY DEF Hydrated
<1>7. A # {} => Newest(A) \in A /\ Newest(A).ckpt \in Ckpts /\ \A r \in A : r.ckpt <= Newest(A).ckpt
  <2>1. \A s \in A : s.ckpt \in Ckpts
    BY <1>2, <1>5
  <2> HIDE DEF A
  <2> QED
    BY <2>1, NewestIs
<1>8. A # {} => \A s \in SegsHere : s.ckpt <= Newest(A).ckpt
  <2> SUFFICES ASSUME A # {}, NEW s \in SegsHere PROVE s.ckpt <= Newest(A).ckpt
    OBVIOUS
  <2>1. CASE Newest(A).ckpt <= s.ckpt
    <3>1. s \in A
      BY <1>4, <1>5, <1>7, <2>1
    <3> QED
      BY <1>7, <3>1
  <2>2. CASE ~(Newest(A).ckpt <= s.ckpt)
    BY <1>2, <1>7, <2>2, CkptsNat
  <2> QED
    BY <2>1, <2>2
<1>9. pgdata.target = 0 => A = Window(SegsHere)
  OBVIOUS
<1>10. pgdata.target # 0 => A = {}
  OBVIOUS
<1> HIDE DEF A, H
<1>11. InitialManifest.ckpt \in Ckpts /\ 0 \in Ckpts
  BY <1>1, InitialShape, CkptsNat
<1>12. /\ H.base = InitialManifest.ckpt /\ H.redo = 0 /\ H.active = A
       /\ H.head = IF A = {} THEN 0 ELSE Newest(A).ckpt
       /\ H.draft = NoItems /\ H.spilled = FALSE
       /\ H = [head |-> H.head, base |-> H.base, redo |-> 0, active |-> A, draft |-> NoItems, spilled |-> FALSE]
  BY <1>6 DEF Fresh
<1>13. H \in ShmSet
  <2>1. NoItems \in Fns(Items, Content)
    BY NoItemsFns
  <2> QED
    BY <1>2, <1>5, <1>7, <1>11, <1>12, <2>1 DEF ShmSet
<1> QED
  BY <1>4, <1>5, <1>7, <1>8, <1>9, <1>10, <1>12, <1>13 DEF H

LEMMA StartShape ==
  ASSUME TInv, Start
  PROVE  Shape'
<1>1. /\ pg' \in {"recovering", "up"} /\ tikm' = {InitialManifest} /\ shm' = Hydrated
      /\ rec' = IF rec.pc = "start" THEN [rec EXCEPT !.pc = "wait"] ELSE rec
      /\ spoiled' = spoiled \cup (IF pgdata.target # 0 THEN DOMAIN spill \cup Zero ELSE Missed)
      /\ gone' = IF pgdata.target # 0 THEN {} ELSE {s \in gone : s.ckpt <= InitialManifest.ckpt}
      /\ UNCHANGED <<db, wal, line, ends, pgdata, bak, ck, comp, objs, segs, bases, backups, spill,
                     abandoned>>
      /\ cache' = [i \in {wal[r].item : r \in Replayed} |->
                     Lookup(i)' \cup {r \in Replayed : wal[r].item = i}]
      /\ pgdata.ok
  BY DEF Start, storage
<1>2. Shape
  BY DEF TInv
<1>3. InitialManifest \in ManSet
  BY <1>2, InitialShape
<1>4. PgShape' /\ StoreShape'
  <2>1. PgShape'
    BY <1>1, <1>2, SameSets DEF Shape, PgShape
  <2> QED
    BY <1>1, <1>2, <2>1, FrameStore DEF Shape
<1>5. LocalShape'
  <2>1. DOMAIN spill \subseteq Items
    BY <1>2, FnsDef DEF Shape, LocalShape
  <2>2. Zero \subseteq Items /\ Missed \subseteq Items
    BY DEF Zero, Missed, Items
  <2>3. rec' \in RecSet /\ rec'.saved = rec.saved
    BY <1>1, <1>2 DEF Shape, LocalShape, RecSet, CopyPcs
  <2>4. gone' \subseteq gone
    BY <1>1
  <2>5. spoiled' \subseteq Items
    BY <1>1, <1>2, <2>1, <2>2 DEF Shape, LocalShape
  <2> QED
    BY <1>1, <1>2, <1>3, <2>3, <2>4, <2>5, SameSets DEF Shape, LocalShape
<1>6. shm' \in ShmSet' /\ IsFiniteSet(shm'.active) /\ Cardinality(shm'.active) <= WindowSize
  BY <1>1, HydratedIs, SameSets
<1>7. Lookups'
  BY <1>4, <1>5, <1>6, LookupsNext DEF ReadShape
<1>8. cache' \in Fns(Items, Content')
  <2>1. Replayed \in Content /\ Replayed \subseteq 1..Len(wal)
    <3>1. Here \in Lines
      BY <1>1, HereLine
    <3> QED
      BY <1>2, <3>1 DEF Replayed, Shape, PgShape, Content
  <2>2. \A r \in Replayed : wal[r].item \in Items
    BY <1>2, <2>1, WalIs DEF Shape
  <2> DEFINE D == {wal[r].item : r \in Replayed}
  <2>3. D \in SUBSET Items
    BY <2>2
  <2>4. ASSUME NEW i \in D PROVE Lookup(i)' \cup {r \in Replayed : wal[r].item = i} \in Content'
    <3>1. Lookup(i)' \in Content'
      BY <1>7, <2>3 DEF Lookups
    <3>2. {r \in Replayed : wal[r].item = i} \in Content' /\ Content' = Content
      BY <1>1, <2>1, SameSets DEF Content
    <3> QED
      BY <3>1, <3>2 DEF Content
  <2>5. cache' \in [D -> Content']
    BY <1>1, <2>4
  <2> HIDE DEF D
  <2> QED
    BY <2>3, <2>5, FnsMake
<1>9. MemShape'
  BY <1>1, <1>2, <1>6, <1>8, SameSets DEF Shape, MemShape
<1> QED
  BY <1>4, <1>5, <1>9 DEF Shape

LEMMA PromoteShape ==
  ASSUME TInv, Promote
  PROVE  Shape'
<1> DEFINE t   == recovers + 1
           new == <<db, t>>
<1>1. /\ pg' = "up" /\ pg = "recovering"
      /\ line' = [line EXCEPT ![new] = {r \in line[Here] : wal[r].lsn <= pgdata.target}]
      /\ ends' = [ends EXCEPT ![new] = pgdata.target]
      /\ pgdata' = [pgdata EXCEPT !.tl = t, !.target = 0]
      /\ abandoned' = abandoned \cup {k \in DOMAIN bases : k[1] = db /\ k[2] > pgdata.ckpt}
      /\ UNCHANGED <<db, wal, bak, ck, comp, cache, shm, objs, segs, bases, backups, tikm, spill, rec,
                     gone, spoiled>>
  BY DEF Promote, memory, storage, local
<1>2. Shape /\ pgdata.ok /\ recovers \in 0..MaxRecovers
  BY <1>1 DEF TInv, PosInv, Phase, Bound
<1>3. Here \in Lines /\ pgdata.target \in Lsns /\ 0 \in Lsns /\ t \in 0..(MaxRecovers + 1) /\ new \in Lines
  <2>1. t \in 1..(MaxRecovers + 1)
    BY <1>2, RecoveryAssumption
  <2>2. new \in Lines
    BY <1>2, <2>1 DEF Lines, Timelines, Shape, PgShape
  <2> QED
    BY <1>2, <2>1, <2>2, HereLine, Bounds, RecoveryAssumption DEF Shape, PgShape, DirSet
<1>4. PgShape'
  <2>1. {r \in line[Here] : wal[r].lsn <= pgdata.target} \in Content
    BY <1>2, <1>3 DEF Shape, PgShape, Content
  <2>2. line' \in [Lines -> Content] /\ ends' \in [Lines -> Lsns]
    <3> HIDE DEF new
    <3> QED
      BY <1>1, <1>2, <1>3, <2>1 DEF Shape, PgShape
  <2>3. pgdata' \in DirSet
    BY <1>1, <1>2, <1>3 DEF Shape, PgShape, DirSet
  <2> QED
    BY <1>1, <1>2, <2>2, <2>3, SameSets DEF Shape, PgShape
<1>5. MemShape' /\ StoreShape'
  BY <1>1, <1>2, FrameMem, FrameStore DEF Shape
<1>6. LocalShape'
  BY <1>1, <1>2, SameSets DEF Shape, LocalShape
<1> QED
  BY <1>4, <1>5, <1>6 DEF Shape

\* The anchor for a checkpoint.
LEMMA AnchorIs ==
  ASSUME DOMAIN bases \subseteq Prefixes, NEW c \in Ckpts, NEW d, AtOrBefore(c, d) # {}
  PROVE  /\ AnchorKey(c, d) \in AtOrBefore(c, d) /\ AnchorKey(c, d) \in DOMAIN bases
         /\ AnchorKey(c, d)[1] = d /\ AnchorKey(c, d)[2] <= c
         /\ AnchorKey(c, d) = <<d, AnchorKey(c, d)[2]>> /\ AnchorKey(c, d)[2] \in Ckpts
         /\ \A j \in AtOrBefore(c, d) : j[2] <= AnchorKey(c, d)[2]
<1> DEFINE keys == AtOrBefore(c, d)
           K == Ckpt(MaxRecovers + 1, MaxLsn)
           n == {k[2] : k \in keys}
<1>1. \A k \in keys : k \in DOMAIN bases /\ k \in Prefixes /\ k[1] = d /\ k[2] <= c
  BY DEF AtOrBefore
<1>2. n \in SUBSET (0..K) /\ n # {} /\ K \in Nat
  BY <1>1, CkptsNat DEF Prefixes
<1>3. PICK x \in n : \A y \in n : y <= x
  <2> HIDE DEF n, K
  <2> QED
    BY <1>2, GreatestNat
<1>4. PICK k \in keys : k[2] = x
  BY <1>3
<1>5. \A j \in keys : j[2] <= k[2]
  BY <1>3, <1>4
<1>6. AnchorKey(c, d) \in keys /\ \A j \in keys : j[2] <= AnchorKey(c, d)[2]
  <2> HIDE DEF n
  <2> QED
    BY <1>4, <1>5 DEF AnchorKey
<1> HIDE DEF keys
<1>7. AnchorKey(c, d) = <<d, AnchorKey(c, d)[2]>> /\ AnchorKey(c, d)[2] \in Ckpts
  BY <1>1, <1>6 DEF Prefixes
<1> QED
  BY <1>1, <1>6, <1>7 DEF keys

\* The steps of a recovery.
LEMMA RecoverShape ==
  ASSUME TInv, Recover
  PROVE  Shape'
<1>1. Shape
  BY DEF TInv
<1>2. rec \in RecSet /\ \A m, n \in rec.saved : m = n
  BY <1>1 DEF Shape, LocalShape
<1>3. /\ pgdata \in DirSet /\ bak \subseteq DirSet /\ Torn \in DirSet
      /\ \A d, e \in bak : d = e
  BY <1>1, TornShape DEF Shape, PgShape
<1>4. tikm \subseteq ManSet /\ \A m, n \in tikm : m = n
  BY <1>1 DEF Shape, LocalShape
\* Most of them change only PGDATA, its copy, and the tool.
<1>5. ASSUME UNCHANGED <<pg, db, wal, line, ends, memory, storage, local, history>>,
             pgdata' \in DirSet, bak' \subseteq DirSet, \A d, e \in bak' : d = e,
             rec' \in RecSet, \A m, n \in rec'.saved : m = n
      PROVE  Shape'
  <2>1. PgShape'
    BY <1>1, <1>5, SameSets DEF Shape, PgShape
  <2>2. MemShape' /\ StoreShape'
    BY <1>1, <1>5, FrameMem, FrameStore DEF Shape, memory, storage
  <2>3. LocalShape'
    BY <1>1, <1>5, SameSets DEF Shape, LocalShape, local, history, storage
  <2> QED
    BY <2>1, <2>2, <2>3 DEF Shape
<1>6. ASSUME NEW pc \in {"idle", "snapshot", "copy"} \cup CopyPcs
      PROVE  [rec EXCEPT !.pc = pc] \in RecSet /\ [rec EXCEPT !.pc = pc].saved = rec.saved
  BY <1>2 DEF RecSet
<1>7. NoRec \in RecSet /\ \A m, n \in NoRec.saved : m = n
  BY NoRecShape
<1>8. CASE RecoverBegin
  <2>1. PICK l \in Lsns :
          /\ UsableAt(l) # {}
          /\ rec' = [pc |-> "snapshot", b |-> Newest(UsableAt(l)), target |-> l, saved |-> {}, lost |-> {}]
    BY <1>8 DEF RecoverBegin
  <2>2. Newest(UsableAt(l)) \in BkSet
    <3>1. UsableAt(l) \subseteq BkSet
      BY <1>1 DEF UsableAt, Backups, Shape, StoreShape
    <3>2. \A b \in UsableAt(l) : b.ckpt \in Ckpts
      BY <3>1 DEF BkSet
    <3> QED
      BY <2>1, <3>1, <3>2, NewestIs
  <2>3. rec' \in RecSet /\ rec'.saved = {}
    BY <2>1, <2>2 DEF RecSet
  <2> QED
    BY <1>3, <1>5, <1>8, <2>3 DEF RecoverBegin, pgVars
<1>9. CASE SnapshotStart
  BY <1>2, <1>3, <1>5, <1>6, <1>7, <1>9 DEF SnapshotStart
<1>10. CASE SnapshotEnd
  <2>1. rec' \in RecSet /\ rec'.saved = tikm
    BY <1>2, <1>4, <1>10 DEF SnapshotEnd, RecSet, CopyPcs
  <2> QED
    BY <1>3, <1>4, <1>5, <1>10, <2>1 DEF SnapshotEnd
<1>11. CASE Wipe
  BY <1>2, <1>3, <1>5, <1>6, <1>11 DEF Wipe, CopyPcs
<1>12. CASE Materialize
  <2> DEFINE k == AnchorKey(rec.b.ckpt, db)
  <2>1. /\ AtOrBefore(rec.b.ckpt, db) # {} /\ tikm' = {bases[k]}
        /\ spoiled' = spoiled \cup Inherited(rec.b, k)
        /\ rec' = [rec EXCEPT !.pc = "delete"]
        /\ UNCHANGED <<pg, db, wal, line, ends, pgdata, bak, ck, comp, cache, shm, objs, segs, bases, backups,
                       spill, gone, abandoned>>
    BY <1>12 DEF Materialize, pgVars, memory, storage
  <2>2. bases[k] \in ManSet
    <3>1. DOMAIN bases \subseteq Prefixes /\ \A j \in DOMAIN bases : bases[j] \in ManSet
      BY <1>1, FnsDef DEF Shape, StoreShape
    <3>2. rec.b.ckpt \in Ckpts
      BY <1>2 DEF RecSet, BkSet
    <3> QED
      BY <2>1, <3>1, <3>2, AnchorIs
  <2>3. Inherited(rec.b, k) \subseteq Items
    BY DEF Inherited
  <2>4. rec' \in RecSet /\ rec'.saved = rec.saved
    BY <1>6, <2>1 DEF CopyPcs
  <2> HIDE DEF k
  <2>5. PgShape' /\ MemShape' /\ StoreShape'
    BY <1>1, <2>1, FramePg, FrameMem, FrameStore DEF Shape
  <2>6. LocalShape'
    BY <1>1, <1>2, <2>1, <2>2, <2>3, <2>4, SameSets DEF Shape, LocalShape
  <2> QED
    BY <2>5, <2>6 DEF Shape
<1>13. CASE DeleteAllSegments
  <2>1. /\ segs' = segs \ SegsHere /\ gone' = gone \cup SegsHere
        /\ rec' = [rec EXCEPT !.pc = "configure", !.lost = gone \cup SegsHere]
        /\ UNCHANGED <<pg, db, wal, line, ends, pgdata, bak, ck, comp, cache, shm, objs, bases, backups,
                       tikm, spill, spoiled, abandoned>>
    BY <1>13 DEF DeleteAllSegments, pgVars, memory, local
  <2>2. SegsHere \subseteq SegSet /\ gone \subseteq SegSet
    BY <1>1 DEF SegsHere, Shape, StoreShape, LocalShape
  <2>3. rec' \in RecSet /\ rec'.saved = rec.saved
    BY <1>2, <2>1, <2>2 DEF RecSet, CopyPcs
  <2>4. PgShape' /\ MemShape'
    BY <1>1, <2>1, FramePg, FrameMem DEF Shape
  <2>5. StoreShape'
    BY <1>1, <2>1, FS_Subset, SameSets DEF Shape, StoreShape
  <2>6. LocalShape'
    BY <1>1, <1>2, <2>1, <2>2, <2>3, SameSets DEF Shape, LocalShape
  <2> QED
    BY <2>4, <2>5, <2>6 DEF Shape
<1>14. CASE Configure
  <2>1. pgdata' \in DirSet
    <3>1. rec.b.ckpt \in Ckpts /\ rec.b.redo \in Lsns /\ rec.target \in Lsns
      BY <1>2 DEF RecSet, BkSet
    <3>2. TimelineOf(rec.b.ckpt) \in 0..(MaxRecovers + 1)
      BY <3>1, CkptBound
    <3> QED
      BY <1>14, <3>1, <3>2 DEF Configure, DirSet
  <2> QED
    BY <1>2, <1>3, <1>5, <1>6, <1>14, <2>1 DEF Configure, CopyPcs
<1>15. CASE RecoverDone
  BY <1>3, <1>5, <1>7, <1>15 DEF RecoverDone, Cleanup
<1>16. CASE RecoverFail
  <2>1. /\ pg' = "down" /\ shm' = Fresh /\ cache' = NoItems
        /\ rec' = [rec EXCEPT !.pc = "rollback"]
        /\ UNCHANGED <<db, wal, line, ends, pgdata, bak, ck, comp, objs, segs, bases, backups, tikm, spill,
                       gone, spoiled, abandoned>>
    BY <1>16 DEF RecoverFail, StopPg, storage, local, history
  <2>2. rec' \in RecSet /\ rec'.saved = rec.saved
    BY <1>6, <2>1 DEF CopyPcs
  <2>3. PgShape'
    BY <1>1, <2>1, SameSets DEF Shape, PgShape
  <2>4. MemShape'
    BY <1>1, <2>1, NoCkShape, NoItemsFns, SameSets DEF Shape, MemShape
  <2>5. StoreShape'
    BY <1>1, <2>1, FrameStore DEF Shape
  <2>6. LocalShape'
    BY <1>1, <1>2, <2>1, <2>2, SameSets DEF Shape, LocalShape
  <2> QED
    BY <2>3, <2>4, <2>5, <2>6 DEF Shape
<1>17. CASE RollbackWipe
  BY <1>2, <1>3, <1>5, <1>6, <1>17 DEF RollbackWipe, CopyPcs
<1>18. CASE RollbackRestore
  <2>1. /\ pgdata' = CHOOSE d \in bak : TRUE
        /\ rec' = [rec EXCEPT !.pc = "manifest"]
        /\ spoiled' = IF \E s \in SegsHere : TimelineOf(s.ckpt) > pgdata'.tl THEN Items
                      ELSE spoiled \cup (IF rec.lost # {} THEN DOMAIN spill \cup Zero ELSE {})
        /\ gone' = gone \cup rec.lost
        /\ UNCHANGED <<pg, db, wal, line, ends, bak, ck, comp, cache, shm, objs, segs, bases, backups, tikm, spill,
                       abandoned>>
        /\ rec.pc = "restore"
    BY <1>18 DEF RollbackRestore, memory, storage, local
  <2>2. bak # {}
    BY <2>1 DEF TInv, PosInv, RecPhase, CopyPcs
  <2>3. pgdata' \in bak
    BY <2>1, <2>2
  <2>4. rec' \in RecSet /\ rec'.saved = rec.saved
    BY <1>6, <2>1 DEF CopyPcs
  <2>5. gone' \subseteq SegSet
    BY <1>1, <1>2, <2>1 DEF Shape, LocalShape, RecSet
  <2>6. spoiled' \subseteq Items
    <3>1. DOMAIN spill \subseteq Items
      BY <1>1, FnsDef DEF Shape, LocalShape
    <3>2. Zero \subseteq Items
      BY DEF Zero, Items
    <3> QED
      BY <1>1, <2>1, <3>1, <3>2 DEF Shape, LocalShape
  <2>7. PgShape'
    BY <1>1, <2>1, <2>3, SameSets DEF Shape, PgShape
  <2>8. MemShape' /\ StoreShape'
    BY <1>1, <2>1, FrameMem, FrameStore DEF Shape
  <2>9. LocalShape'
    BY <1>1, <1>2, <2>1, <2>4, <2>5, <2>6, SameSets DEF Shape, LocalShape
  <2> QED
    BY <2>7, <2>8, <2>9 DEF Shape
<1>19. CASE RollbackDone
  <2>1. /\ tikm' = IF rec.saved # {} THEN rec.saved ELSE tikm
        /\ bak' = {} /\ rec' = NoRec
        /\ UNCHANGED <<pg, db, wal, line, ends, pgdata, ck, comp, cache, shm, objs, segs, bases, backups, spill,
                       gone, spoiled, abandoned>>
    BY <1>19 DEF RollbackDone, Cleanup, memory, storage, history
  <2>2. PgShape'
    BY <1>1, <2>1, SameSets DEF Shape, PgShape
  <2>3. MemShape' /\ StoreShape'
    BY <1>1, <2>1, FrameMem, FrameStore DEF Shape
  <2>4. tikm' \subseteq ManSet /\ \A m, n \in tikm' : m = n
    BY <1>2, <1>4, <2>1 DEF RecSet
  <2>5. LocalShape'
    BY <1>1, <1>7, <2>1, <2>4, SameSets DEF Shape, LocalShape
  <2> QED
    BY <2>2, <2>3, <2>5 DEF Shape
<1>20. CASE ToolCrash
  BY <1>3, <1>5, <1>7, <1>20 DEF ToolCrash, pgVars
<1> QED
  BY <1>8, <1>9, <1>10, <1>11, <1>12, <1>13, <1>14, <1>15, <1>16, <1>17, <1>18, <1>19, <1>20 DEF Recover

\* What a branch takes over.
LEMMA BranchIs ==
  ASSUME Branch
  PROVE  \E b \in backups :
           LET t == TimelineOf(b.ckpt)
               k == AnchorKey(b.ckpt, 0)
           IN /\ AtOrBefore(b.ckpt, 0) # {}
              /\ bases' = Put(bases, <<1, k[2]>>, bases[k])
              /\ pgdata' = [ok |-> TRUE, tl |-> t, ckpt |-> b.ckpt, redo |-> b.redo, target |-> 0]
              /\ line' = [line EXCEPT ![<<1, t>>] =
                            {r \in line[<<0, t>>] : wal[r].lsn <= LsnOf(b.ckpt)}]
              /\ ends' = [ends EXCEPT ![<<1, t>>] = LsnOf(b.ckpt)]
              /\ spoiled' = spoiled \cup Inherited(b, k)
              /\ db = 0 /\ pg = "down" /\ rec.pc = "idle" /\ bak = {} /\ events' = events + 1
              /\ db' = 1 /\ tikm' = {} /\ spill' = NoItems
              /\ UNCHANGED <<pg, wal, bak, ck, comp, cache, shm, objs, segs, backups, rec, gone, abandoned,
                             taken, recovers>>
  BY DEF Branch, SeedBranch, Event, memory

LEMMA BranchShape ==
  ASSUME TInv, Branch
  PROVE  Shape'
<1>1. PICK b \in backups :
        LET t == TimelineOf(b.ckpt)
            k == AnchorKey(b.ckpt, 0)
        IN /\ AtOrBefore(b.ckpt, 0) # {}
           /\ bases' = Put(bases, <<1, k[2]>>, bases[k])
           /\ pgdata' = [ok |-> TRUE, tl |-> t, ckpt |-> b.ckpt, redo |-> b.redo, target |-> 0]
           /\ line' = [line EXCEPT ![<<1, t>>] =
                         {r \in line[<<0, t>>] : wal[r].lsn <= LsnOf(b.ckpt)}]
           /\ ends' = [ends EXCEPT ![<<1, t>>] = LsnOf(b.ckpt)]
           /\ spoiled' = spoiled \cup Inherited(b, k)
           /\ db = 0 /\ db' = 1 /\ tikm' = {} /\ spill' = NoItems
           /\ UNCHANGED <<pg, wal, bak, ck, comp, cache, shm, objs, segs, backups, rec, gone, abandoned>>
  BY BranchIs
<1> DEFINE t == TimelineOf(b.ckpt)
           k == AnchorKey(b.ckpt, 0)
<1>2. Shape
  BY DEF TInv
<1>3. b \in BkSet /\ b.ckpt \in Ckpts /\ b.redo \in Lsns /\ b.db = 0
  <2>1. b \in BkSet
    BY <1>2 DEF Shape, StoreShape
  <2> QED
    BY <1>1, <2>1 DEF BkSet, TInv, PosInv, OneDb
<1>4. /\ t \in 0..(MaxRecovers + 1) /\ LsnOf(b.ckpt) \in Lsns
  BY <1>3, CkptBound
<1>5. <<0, t>> \in Lines /\ <<1, t>> \in Lines
  <2>1. t \in 1..MaxTl
    BY DEF TInv, PosInv, BkPos, Valid
  <2> QED
    BY <1>4, <2>1, RecoveryAssumption DEF Lines, Timelines
<1>6. k \in DOMAIN bases /\ bases[k] \in ManSet /\ <<1, k[2]>> \in Prefixes /\ bases \in Fns(Prefixes, ManSet)
  <2>1. DOMAIN bases \subseteq Prefixes /\ \A j \in DOMAIN bases : bases[j] \in ManSet
    BY <1>2, FnsDef DEF Shape, StoreShape
  <2>2. k \in DOMAIN bases /\ k[2] \in Ckpts
    BY <1>1, <1>3, <2>1, AnchorIs
  <2> QED
    BY <1>2, <2>1, <2>2 DEF Prefixes, Shape, StoreShape
<1>7. Inherited(b, k) \subseteq Items
  BY DEF Inherited
<1> HIDE DEF t, k
<1>8. PgShape'
  <2>1. {r \in line[<<0, t>>] : wal[r].lsn <= LsnOf(b.ckpt)} \in Content
    BY <1>2, <1>5 DEF Shape, PgShape, Content
  <2>2. line' = [line EXCEPT ![<<1, t>>] = {r \in line[<<0, t>>] : wal[r].lsn <= LsnOf(b.ckpt)}]
    BY <1>1 DEF t
  <2>3. line' \in [Lines -> Content]
    BY <1>2, <1>5, <2>1, <2>2 DEF Shape, PgShape
  <2>4. ends' \in [Lines -> Lsns]
    <3>1. ends' = [ends EXCEPT ![<<1, t>>] = LsnOf(b.ckpt)]
      BY <1>1 DEF t
    <3> QED
      BY <1>2, <1>4, <1>5, <3>1 DEF Shape, PgShape
  <2>5. pgdata' \in DirSet
    <3>1. pgdata' = [ok |-> TRUE, tl |-> t, ckpt |-> b.ckpt, redo |-> b.redo, target |-> 0]
      BY <1>1 DEF t
    <3>2. 0 \in Lsns
      BY Bounds
    <3> QED
      BY <1>3, <1>4, <3>1, <3>2 DEF DirSet
  <2> QED
    BY <1>1, <1>2, <2>3, <2>4, <2>5, SameSets DEF Shape, PgShape
<1>9. MemShape'
  BY <1>1, <1>2, FrameMem DEF Shape
<1>10. bases' \in Fns(Prefixes, ManSet) /\ DOMAIN bases \subseteq DOMAIN bases'
  <2>1. bases' = Put(bases, <<1, k[2]>>, bases[k])
    BY <1>1 DEF k
  <2>2. bases' \in Fns(Prefixes, ManSet)
    BY <1>6, <2>1, PutFns
  <2>3. DOMAIN bases' = DOMAIN bases \cup {<<1, k[2]>>}
    BY <2>1, PutIs
  <2> QED
    BY <2>2, <2>3
<1>11. StoreShape'
  BY <1>1, <1>2, <1>10, SameSets DEF Shape, StoreShape
<1>12. LocalShape'
  <2>1. spoiled' = spoiled \cup Inherited(b, k)
    BY <1>1 DEF k
  <2> QED
    BY <1>1, <1>2, <1>7, <1>10, <2>1, NoItemsFns, SameSets DEF Shape, LocalShape
<1> QED
  BY <1>8, <1>9, <1>11, <1>12 DEF Shape

LEMMA NextShape == TInv /\ [Next]_vars => Shape'
<1> SUFFICES ASSUME TInv, [Next]_vars PROVE Shape'
  OBVIOUS
<1>1. CASE UNCHANGED vars
  BY <1>1, FrameShape DEF TInv
<1>2. CASE Next
  BY <1>2, WriteShape, EvictShape, SpillShape, LoadManifestShape, CheckpointStartShape, CommitShape,
     CheckpointEndShape, CompactPutShape, CompactRestShape, CrashShape, StartShape, PromoteShape,
     RecoverShape, BranchShape DEF Next, Compact
<1> QED
  BY <1>1, <1>2

-----------------------------------------------------------------------------
(* Positions are kept *)

\* Timelines are only added, and those in use only grow.
Grows(d) == \A t \in 1..MaxTl : ends[<<d, t>>] <= ends'[<<d, t>>]
Grow     == MaxTl <= MaxTl' /\ Grows(0) /\ Grows(1)

LEMMA ZeroCkpt == TimelineOf(0) = 0 /\ LsnOf(0) = 0 /\ Empty.ckpt = 0
<1>1. 0 \in Nat /\ 0 \in Lsns
  BY Bounds
<1>2. TimelineOf(Ckpt(0, 0)) = 0 /\ LsnOf(Ckpt(0, 0)) = 0
  BY <1>1, CkptOf
<1>3. Ckpt(0, 0) = 0
  BY Bounds DEF Ckpt
<1> QED
  BY <1>2, <1>3 DEF Empty

\* Timelines in use are timelines.
LEMMA UsedLines ==
  ASSUME TInv, NEW d \in {0, 1}, NEW t \in 1..MaxTl
  PROVE  <<d, t>> \in Lines /\ ends[<<d, t>>] \in Nat /\ ends[<<d, t>>] \in Lsns
         /\ t \in Nat /\ t <= MaxRecovers + 1
<1>1. MaxTl \in Nat /\ MaxTl <= MaxRecovers + 1
  BY RecoveryAssumption DEF TInv, PosInv, Bound, MaxTl
<1>2. <<d, t>> \in Lines
  BY <1>1, RecoveryAssumption DEF Lines, Timelines
<1>3. ends[<<d, t>>] \in Lsns
  BY <1>2 DEF TInv, Shape, PgShape
<1> QED
  BY <1>1, <1>2, <1>3, Bounds, RecoveryAssumption

LEMMA UsedLinesNext ==
  ASSUME Shape', recovers' \in 0..MaxRecovers
  PROVE  /\ MaxTl' \in Nat
         /\ \A d \in {0, 1}, t \in 1..MaxTl' : <<d, t>> \in Lines /\ ends'[<<d, t>>] \in Nat
<1>1. MaxTl' \in Nat /\ MaxTl' <= MaxRecovers + 1
  <2>1. MaxTl' = recovers' \/ MaxTl' = recovers' + 1
    BY DEF MaxTl
  <2> QED
    BY <2>1, RecoveryAssumption
<1> SUFFICES ASSUME NEW d \in {0, 1}, NEW t \in 1..MaxTl'
             PROVE  <<d, t>> \in Lines /\ ends'[<<d, t>>] \in Nat
  BY <1>1
<1>2. <<d, t>> \in Lines
  BY <1>1, RecoveryAssumption DEF Lines, Timelines
<1>3. ends'[<<d, t>>] \in Lsns
  BY <1>2 DEF Shape, PgShape
<1> QED
  BY <1>2, <1>3, Bounds

LEMMA ValidKept ==
  ASSUME TInv, Shape', recovers' \in 0..MaxRecovers, MaxTl <= MaxTl',
         NEW d \in {0, 1}, Grows(d), NEW c, Valid(c, d)
  PROVE  TimelineOf(c) \in 1..MaxTl' /\ LsnOf(c) \in 1..ends'[<<d, TimelineOf(c)>>]
<1>1. TimelineOf(c) \in 1..MaxTl /\ LsnOf(c) \in 1..ends[<<d, TimelineOf(c)>>]
  BY DEF Valid
<1>2. MaxTl \in Nat /\ MaxTl' \in Nat
  BY UsedLinesNext DEF TInv, PosInv, Bound
<1>3. TimelineOf(c) \in 1..MaxTl'
  BY <1>1, <1>2
<1>4. /\ ends[<<d, TimelineOf(c)>>] <= ends'[<<d, TimelineOf(c)>>]
      /\ ends[<<d, TimelineOf(c)>>] \in Nat /\ ends'[<<d, TimelineOf(c)>>] \in Nat
  BY <1>1, <1>3, UsedLines, UsedLinesNext DEF Grows
<1>5. LsnOf(c) \in 1..ends'[<<d, TimelineOf(c)>>]
  BY <1>1, <1>4
<1> QED
  BY <1>3, <1>5

LEMMA SegPosKept ==
  ASSUME TInv, Shape', recovers' \in 0..MaxRecovers, Grow, AllSegs' \subseteq AllSegs
  PROVE  SegPos'
<1>1. \A s \in AllSegs : Valid(s.ckpt, s.db) /\ s.db \in {0, 1}
  BY DEF TInv, PosInv, SegPos, Shape, MemShape, StoreShape, LocalShape, AllSegs, SegSet, ShmSet, RecSet
<1>2. \A s \in AllSegs' : Valid(s.ckpt, s.db)'
  BY <1>1, ValidKept DEF Grow, Valid
<1>3. \A s, r \in AllSegs' : s.db = r.db /\ s.ckpt = r.ckpt => s = r
  BY DEF TInv, PosInv, SegPos
<1> QED
  BY <1>2, <1>3 DEF SegPos

LEMMA BkPosKept ==
  ASSUME TInv, Shape', recovers' \in 0..MaxRecovers, Grow, backups' = backups
  PROVE  BkPos'
<1>1. \A b \in backups : Valid(b.ckpt, b.db) /\ b.db \in {0, 1} /\ b.redo < LsnOf(b.ckpt)
  BY DEF TInv, PosInv, BkPos, Shape, StoreShape, BkSet
<1>2. \A b \in backups : Valid(b.ckpt, b.db)'
  BY <1>1, ValidKept DEF Grow, Valid
<1> QED
  BY <1>1, <1>2 DEF BkPos

\* A control file that is still in place.
DirOk(d) ==
  /\ d.tl \in 1..MaxTl /\ TimelineOf(d.ckpt) <= d.tl /\ d.redo < LsnOf(d.ckpt)
  /\ LsnOf(d.ckpt) <= ends[<<db, d.tl>>] /\ d.target <= ends[<<db, d.tl>>]
  /\ d.target # 0 => LsnOf(d.ckpt) <= d.target

LEMMA DirKept ==
  ASSUME TInv, Shape', recovers' \in 0..MaxRecovers, Grow, db' = db, NEW d \in DirSet, DirOk(d)
  PROVE  DirOk(d)'
<1>1. MaxTl \in Nat /\ MaxTl' \in Nat /\ MaxTl <= MaxTl' /\ db \in {0, 1}
  BY UsedLinesNext DEF TInv, PosInv, Bound, Grow, Shape, PgShape
<1>2. d.tl \in 1..MaxTl /\ d.tl \in 1..MaxTl'
  BY <1>1 DEF DirOk
<1>3. /\ ends[<<db, d.tl>>] <= ends'[<<db, d.tl>>]
      /\ ends[<<db, d.tl>>] \in Nat /\ ends'[<<db, d.tl>>] \in Nat
  BY <1>1, <1>2, UsedLines, UsedLinesNext DEF Grows, Grow
<1>4. d.target \in Nat /\ LsnOf(d.ckpt) \in Nat
  BY CkptBound, Bounds DEF DirSet
<1> QED
  BY <1>2, <1>3, <1>4 DEF DirOk

LEMMA DirPosIs == DirPos <=> \A d \in Dirs : DirOk(d)
  BY DEF DirPos, DirOk

LEMMA DirPosIsNext == DirPos' <=> \A d \in Dirs' : DirOk(d)'
  BY DEF DirPos, DirOk

LEMMA DirsShape == Shape => Dirs \subseteq DirSet
  BY DEF Shape, PgShape, Dirs

LEMMA DirPosKept ==
  ASSUME TInv, Shape', recovers' \in 0..MaxRecovers, Grow, db' = db, Dirs' \subseteq Dirs
  PROVE  DirPos'
<1>1. \A d \in Dirs' : d \in DirSet /\ DirOk(d)
  BY DirPosIs, DirsShape DEF TInv, PosInv
<1>2. \A d \in Dirs' : DirOk(d)'
  BY <1>1, DirKept
<1> QED
  BY <1>2, DirPosIsNext

LEMMA ManPosKept ==
  ASSUME TInv, Shape', recovers' \in 0..MaxRecovers, MaxTl <= MaxTl', bases' = bases,
         Manifests' \subseteq Manifests \cup {Empty}
  PROVE  ManPos'
<1>1. MaxTl \in Nat /\ MaxTl' \in Nat
  BY UsedLinesNext DEF TInv, PosInv, Bound
<1>2. \A m \in Manifests : m \in ManSet
  <2>1. \A k \in DOMAIN bases : bases[k] \in ManSet
    BY FnsDef DEF TInv, Shape, StoreShape
  <2>2. Range(bases) \subseteq ManSet
    BY <2>1 DEF Range
  <2> QED
    BY <2>2 DEF Manifests, TInv, Shape, LocalShape, MemShape, CompSet, RecSet
<1>3. \A m \in Manifests \cup {Empty} : TimelineOf(m.ckpt) \in Nat /\ TimelineOf(m.ckpt) <= MaxTl
  <2>1. \A m \in Manifests : TimelineOf(m.ckpt) \in Nat
    BY <1>2, CkptBound DEF ManSet
  <2> QED
    BY <1>1, <2>1, ZeroCkpt DEF TInv, PosInv, ManPos
<1>4. \A k \in DOMAIN bases : TimelineOf(k[2]) \in Nat
  <2>1. \A k \in DOMAIN bases : k[2] \in Ckpts
    BY FnsDef DEF TInv, Shape, StoreShape, Prefixes
  <2> QED
    BY <2>1, CkptBound
<1>5. \A m \in Manifests' : TimelineOf(m.ckpt) <= MaxTl'
  BY <1>1, <1>3
<1>6. \A k \in DOMAIN bases : TimelineOf(k[2]) <= MaxTl' /\ bases[k].ckpt <= k[2]
  BY <1>1, <1>4 DEF TInv, PosInv, ManPos
<1> QED
  BY <1>5, <1>6 DEF ManPos

LEMMA OneDbKept ==
  ASSUME TInv, db' = db, AllSegs' \subseteq AllSegs, backups' = backups, DOMAIN bases' = DOMAIN bases
  PROVE  OneDb'
  BY DEF TInv, PosInv, OneDb

\* The steps of a running database leave timelines alone.
LEMMA RunningGrow ==
  ASSUME TInv, UNCHANGED <<bak, rec, recovers>>, pgdata'.target = pgdata.target,
         ends' = ends \/ (Here \in Lines /\ ends' = [ends EXCEPT ![Here] = @ + 1])
  PROVE  Grow /\ MaxTl' = MaxTl /\ recovers' \in 0..MaxRecovers
<1>1. MaxTl' = MaxTl
  BY DEF MaxTl, NewTimeline
<1>2. MaxTl \in Nat /\ recovers \in 0..MaxRecovers
  BY DEF TInv, PosInv, Bound
<1>3. ASSUME NEW d \in {0, 1} PROVE Grows(d)
  <2> SUFFICES ASSUME NEW t \in 1..MaxTl PROVE ends[<<d, t>>] <= ends'[<<d, t>>]
    BY DEF Grows
  <2>1. <<d, t>> \in Lines /\ ends[<<d, t>>] \in Nat /\ ends \in [Lines -> Lsns]
    BY UsedLines DEF TInv, Shape, PgShape
  <2> QED
    BY <2>1
<1> QED
  BY <1>1, <1>2, <1>3 DEF Grow

\* ... and the tool.
LEMMA RunningRec ==
  ASSUME TInv, Shape', pg # "down", UNCHANGED <<bak, rec, db, recovers>>, pgdata'.ok = pgdata.ok, Grow,
         backups \subseteq backups'
  PROVE  RecPhase'
<1>1. rec.pc \in {"idle", "wait"} /\ RecPhase /\ recovers \in 0..MaxRecovers
  BY DEF TInv, PosInv, RecPhase, Bound
<1>2. rec.pc # "idle" => rec.target <= ends'[<<db, TimelineOf(rec.b.ckpt)>>]
  <2> SUFFICES ASSUME rec.pc # "idle" PROVE rec.target <= ends'[<<db, TimelineOf(rec.b.ckpt)>>]
    OBVIOUS
  <2>1. rec.b \in backups /\ rec.b.db = db /\ rec.target <= ends[<<db, TimelineOf(rec.b.ckpt)>>]
    BY <1>1 DEF RecPhase
  <2>2. TimelineOf(rec.b.ckpt) \in 1..MaxTl /\ db \in {0, 1} /\ rec.target \in Nat
    BY <2>1, Bounds DEF TInv, PosInv, BkPos, Valid, Shape, PgShape, LocalShape, RecSet
  <2>3. TimelineOf(rec.b.ckpt) \in 1..MaxTl'
    BY <1>1, <2>2, UsedLinesNext DEF Grow, TInv, PosInv, Bound
  <2>4. /\ ends[<<db, TimelineOf(rec.b.ckpt)>>] \in Nat /\ ends'[<<db, TimelineOf(rec.b.ckpt)>>] \in Nat
        /\ ends[<<db, TimelineOf(rec.b.ckpt)>>] <= ends'[<<db, TimelineOf(rec.b.ckpt)>>]
    BY <1>1, <2>2, <2>3, UsedLines, UsedLinesNext DEF Grow, Grows
  <2> QED
    BY <2>1, <2>2, <2>4
<1> QED
  BY <1>1, <1>2 DEF RecPhase, CopyPcs

LEMMA FramePos ==
  ASSUME PosInv, UNCHANGED vars
  PROVE  PosInv'
  BY DEF PosInv, vars, pgVars, memory, storage, local, history, counters, Bound, Phase, RecPhase, DirPos, SegPos,
         BkPos, ManPos, CkPos, CompPhase, OneDb, Valid, MaxTl, NewTimeline, AllSegs, Manifests, Dirs, SegsHere, Lsn, Here

\* Steps of a running database that change neither checkpoints nor PGDATA.
LEMMA QuietPos ==
  ASSUME TInv, Shape', pg # "down",
         UNCHANGED <<pg, db, wal, line, ends, pgdata, bak, segs, bases, backups, rec, gone,
                     taken, recovers>>,
         shm'.active = shm.active,
         ck' = ck \/ (ck' = [ck EXCEPT !.pc = "end"] /\ ck.pc = "compact"),
         pg = "up" \/ UNCHANGED <<ck, comp>>,
         CompPhase', tikm' # {}, Manifests' \subseteq Manifests \cup {Empty}
  PROVE  PosInv'
<1>1. Grow /\ MaxTl' = MaxTl /\ recovers' \in 0..MaxRecovers
  BY RunningGrow
<1>2. AllSegs' = AllSegs /\ Dirs' = Dirs
  BY DEF AllSegs, Dirs
<1>3. SegPos' /\ BkPos' /\ DirPos' /\ OneDb' /\ RecPhase'
  BY <1>1, <1>2, SegPosKept, BkPosKept, DirPosKept, OneDbKept, RunningRec
<1>4. ManPos'
  BY <1>1, ManPosKept DEF Grow
<1>5. Bound'
  <2>1. ck'.pc = "flushed" => ck.pc = "flushed"
    BY DEF TInv, Shape, MemShape, CkSet
  <2>2. \A k \in Lines : ends[k] \in Nat
    BY Bounds DEF TInv, Shape, PgShape
  <2>3. Len(wal) \in Nat /\ taken \in Nat
    BY DEF TInv, Shape, PgShape, PosInv, Bound
  <2> QED
    BY <1>1, <2>1, <2>2, <2>3 DEF TInv, PosInv, Bound
<1>6. Phase'
  BY DEF TInv, PosInv, Phase, SegsHere
<1>7. CkPos'
  <2>1. /\ ck'.redo = ck.redo /\ ck'.ckpt = ck.ckpt
        /\ ck'.pc # "idle" => ck.pc # "idle"
        /\ ck'.pc \in {"compact", "end"} => ck.pc \in {"compact", "end"}
    BY DEF TInv, Shape, MemShape, CkSet
  <2>2. Lsn' = Lsn
    BY DEF Lsn, Here
  <2>3. \A c : Valid(c, db)' = Valid(c, db)
    BY <1>1 DEF Valid
  <2> QED
    BY <2>1, <2>2, <2>3 DEF TInv, PosInv, CkPos
<1> QED
  BY <1>3, <1>4, <1>5, <1>6, <1>7 DEF PosInv

LEMMA EvictPos ==
  ASSUME TInv, Shape', NEW i \in Items, Evict(i)
  PROVE  PosInv'
<1>1. /\ UNCHANGED <<pg, db, wal, line, ends, pgdata, bak, ck, comp, segs, bases, backups, tikm, spill, rec,
                     gone, spoiled, abandoned, taken, recovers>>
      /\ WriteBack({i}) /\ pg # "down"
  BY DEF Evict, pgVars, local, counters, history
<1>2. shm'.active = shm.active
  BY <1>1 DEF WriteBack, TInv, Shape, MemShape, ShmSet
<1>3. tikm' # {} /\ Manifests' = Manifests /\ CompPhase'
  BY <1>1 DEF Manifests, TInv, PosInv, Phase, CompPhase
<1> QED
  BY <1>1, <1>2, <1>3, QuietPos

LEMMA SpillPos ==
  ASSUME TInv, Shape', Spill
  PROVE  PosInv'
<1>1. /\ UNCHANGED <<pg, db, wal, line, ends, pgdata, bak, ck, comp, cache, objs, segs, bases, backups, tikm, rec,
                     gone, spoiled, abandoned, taken, recovers>>
      /\ shm' = [shm EXCEPT !.draft = NoItems, !.spilled = TRUE] /\ pg # "down"
  BY DEF Spill, pgVars, storage, history
<1>2. shm'.active = shm.active
  BY <1>1 DEF TInv, Shape, MemShape, ShmSet
<1>3. tikm' # {} /\ Manifests' = Manifests /\ CompPhase'
  BY <1>1 DEF Manifests, TInv, PosInv, Phase, CompPhase
<1> QED
  BY <1>1, <1>2, <1>3, QuietPos

\* What a lookup loads is Empty or among the manifests.
LEMMA LoadedIs ==
  ASSUME TInv, NEW m \in ManifestsAt(shm.base)
  PROVE  m \in ManSet /\ m \in Manifests \cup {Empty} /\ m.ckpt <= shm.base
         /\ m.ckpt \in Ckpts /\ shm.base \in Ckpts /\ TimelineOf(m.ckpt) <= MaxTl
<1>1. shm.base \in Ckpts /\ ReadShape
  BY ShapeReads DEF TInv, Shape, MemShape, ShmSet
<1>2. /\ m \in ManSet
      /\ \/ m = Empty /\ shm.base = 0
         \/ m \in tikm /\ m.ckpt = shm.base
         \/ <<db, shm.base>> \in DOMAIN bases /\ m = bases[<<db, shm.base>>]
  BY <1>1, ManifestsShape
<1>3. <<db, shm.base>> \in DOMAIN bases => bases[<<db, shm.base>>].ckpt <= shm.base
  BY DEF TInv, PosInv, ManPos
<1>4. m \in Manifests \cup {Empty}
  BY <1>2 DEF Manifests, Range
<1>5. MaxTl \in Nat
  BY DEF TInv, PosInv, Bound
<1>6. m.ckpt <= shm.base
  BY <1>1, <1>2, <1>3, ZeroCkpt, CkptsNat DEF ManSet
<1>7. TimelineOf(m.ckpt) <= MaxTl
  BY <1>4, <1>5, ZeroCkpt DEF TInv, PosInv, ManPos
<1> QED
  BY <1>1, <1>2, <1>4, <1>6, <1>7 DEF ManSet

LEMMA LoadManifestPos ==
  ASSUME TInv, Shape', LoadManifest
  PROVE  PosInv'
<1>1. /\ UNCHANGED <<pg, db, wal, line, ends, pgdata, bak, ck, comp, cache, shm, objs, segs, bases, backups,
                     spill, rec, gone, spoiled, abandoned, taken, recovers>>
      /\ tikm' = ManifestsAt(shm.base) /\ tikm' # {} /\ pg # "down"
  BY DEF LoadManifest, pgVars, memory, storage, history, counters
<1>2. tikm' \subseteq Manifests \cup {Empty}
  BY <1>1, LoadedIs
<1>3. Manifests' \subseteq Manifests \cup {Empty} /\ CompPhase'
  BY <1>1, <1>2 DEF Manifests, TInv, PosInv, CompPhase
<1> QED
  BY <1>1, <1>3, QuietPos

LEMMA CompactRestPos ==
  ASSUME TInv, Shape', CompactPublish \/ CompactAdvance \/ CompactFail \/ NoNewSegments
  PROVE  PosInv'
<1>1. comp \in CompSet /\ shm \in ShmSet /\ ck \in CkSet
  BY DEF TInv, Shape, MemShape
<1>2. CASE CompactPublish
  <2>1. /\ tikm' = {comp.m} /\ comp' = [comp EXCEPT !.pc = "published"]
        /\ UNCHANGED <<pg, db, wal, line, ends, pgdata, bak, ck, cache, shm, objs, segs, bases, backups, spill,
                       rec, gone, spoiled, abandoned, taken, recovers>>
        /\ comp.pc = "put"
    BY <1>2 DEF CompactPublish, pgVars, storage, history, counters
  <2>2. pg = "up" /\ comp'.m = comp.m
    BY <1>1, <2>1, NoCkShape DEF TInv, PosInv, Phase, Shape, PgShape, CompSet
  <2>3. Manifests' \subseteq Manifests
    BY <2>1, <2>2 DEF Manifests
  <2>4. CompPhase'
    BY <1>1, <2>1 DEF TInv, PosInv, CompPhase, CompSet
  <2> QED
    BY <2>1, <2>2, <2>3, <2>4, QuietPos
<1>3. CASE CompactAdvance
  <2>1. /\ shm' = [shm EXCEPT !.base = comp.key] /\ comp' = [comp EXCEPT !.pc = "delete"]
        /\ UNCHANGED <<pg, db, wal, line, ends, pgdata, bak, ck, cache, objs, segs, bases, backups, tikm, spill,
                       rec, gone, spoiled, abandoned, taken, recovers>>
        /\ comp.pc = "published"
    BY <1>3 DEF CompactAdvance, pgVars, storage, local, history, counters
  <2>2. pg = "up" /\ comp'.m = comp.m /\ shm'.active = shm.active
    BY <1>1, <2>1, NoCkShape DEF TInv, PosInv, Phase, Shape, PgShape, CompSet, ShmSet
  <2>3. Manifests' \subseteq Manifests /\ tikm' # {}
    BY <2>1, <2>2 DEF Manifests, TInv, PosInv, Phase
  <2>4. CompPhase'
    BY <1>1, <2>1 DEF TInv, PosInv, CompPhase, CompSet, CkSet
  <2> QED
    BY <2>1, <2>2, <2>3, <2>4, QuietPos
<1>4. CASE NoNewSegments
  <2>1. /\ ck' = [ck EXCEPT !.pc = "end"] /\ ck.pc = "compact" /\ comp.pc = "idle"
        /\ UNCHANGED <<pg, db, wal, line, ends, pgdata, bak, comp, cache, shm, objs, segs, bases, backups,
                       tikm, spill, rec, gone, spoiled, abandoned, taken, recovers>>
    BY <1>4 DEF NoNewSegments, pgVars, storage, local, history, counters
  <2>2. pg = "up"
    BY <2>1, NoCkShape DEF TInv, PosInv, Phase, Shape, PgShape
  <2>3. Manifests' \subseteq Manifests /\ tikm' # {}
    BY <2>1, <2>2 DEF Manifests, TInv, PosInv, Phase
  <2>4. CompPhase'
    BY <1>1, <2>1 DEF TInv, PosInv, CompPhase, CompSet, CkSet
  <2> QED
    BY <2>1, <2>2, <2>3, <2>4, QuietPos
<1>5. CASE CompactFail
  <2>1. NoComp.pc = "idle" /\ NoComp.m = Empty /\ ~NoComp.inline
    BY DEF NoComp
  <2>2. pg = "up"
    BY <1>5, FailIs, NoCkShape DEF TInv, PosInv, Phase, Shape, PgShape
  <2>3. Manifests' \subseteq Manifests \cup {Empty} /\ tikm' # {}
    BY <1>5, <2>1, <2>2, FailIs DEF Manifests, TInv, PosInv, Phase
  <2>4. CompPhase'
    BY <1>1, <1>5, <2>1, FailIs DEF TInv, PosInv, CompPhase, CompSet, CkSet
  <2>5. ck' = ck \/ (ck' = [ck EXCEPT !.pc = "end"] /\ ck.pc = "compact")
    BY <1>5, FailIs DEF TInv, PosInv, CompPhase
  <2> QED
    BY <1>5, <2>2, <2>3, <2>4, <2>5, FailIs, QuietPos
<1> QED
  BY <1>2, <1>3, <1>4, <1>5

LEMMA WritePos ==
  ASSUME TInv, Shape', NEW i \in Items, Write(i)
  PROVE  PosInv'
<1>1. /\ wal' = Append(wal, [item |-> i, lsn |-> Lsn + 1]) /\ Len(wal) < MaxRecords
      /\ ends' = [ends EXCEPT ![Here] = @ + 1]
      /\ UNCHANGED <<pg, db, pgdata, bak, ck, comp, shm, objs, segs, bases, backups, tikm, spill, rec,
                     gone, spoiled, abandoned, taken, recovers>>
      /\ pg = "up"
  BY DEF Write, Running, storage, local, history, counters
<1>2. pgdata.ok
  BY <1>1 DEF TInv, PosInv, Phase
<1>3. Here \in Lines /\ Lsn \in Nat
  BY <1>2, HereLine
<1>4. Grow /\ MaxTl' = MaxTl /\ recovers' \in 0..MaxRecovers
  BY <1>1, <1>3, RunningGrow
<1>5. AllSegs' = AllSegs /\ Dirs' = Dirs /\ Manifests' = Manifests
  BY <1>1 DEF AllSegs, Dirs, Manifests
<1>6. SegPos' /\ BkPos' /\ DirPos' /\ OneDb' /\ RecPhase' /\ ManPos'
  BY <1>1, <1>4, <1>5, SegPosKept, BkPosKept, DirPosKept, OneDbKept, RunningRec, ManPosKept DEF Grow
<1>7. Bound'
  <2>1. Len(wal') = Len(wal) + 1 /\ Len(wal) \in Nat /\ taken \in Nat
    BY <1>1 DEF TInv, Shape, PgShape, PosInv, Bound
  <2>2. \A k \in Lines : ends[k] \in Nat /\ ends'[k] \in Nat /\ ends'[k] <= ends[k] + 1
    BY <1>1, <1>3, Bounds DEF TInv, Shape, PgShape
  <2>3. Len(wal') <= MaxRecords
    BY <1>1, <2>1, RecoveryAssumption
  <2>4. taken' \in 0..MaxCheckpoints /\ recovers' \in 0..MaxRecovers /\ MaxTl' \in Nat
    BY <1>1, <1>4 DEF TInv, PosInv, Bound
  <2>5. \A k \in Lines : ends[k] + (IF ck.pc = "flushed" THEN 1 ELSE 0) <= Len(wal) + taken + 1
    BY DEF TInv, PosInv, Bound
  <2>6. \A k \in Lines : ends'[k] + (IF ck'.pc = "flushed" THEN 1 ELSE 0) <= Len(wal') + taken' + 1
    BY <1>1, <2>1, <2>2, <2>5
  <2> QED
    BY <2>3, <2>4, <2>6 DEF Bound
<1>8. Phase' /\ CompPhase'
  BY <1>1 DEF TInv, PosInv, Phase, CompPhase, SegsHere
<1>9. CkPos'
  <2>1. Lsn' = Lsn + 1
    BY <1>1, <1>3 DEF Lsn, Here, TInv, Shape, PgShape
  <2>2. ck.redo \in Nat
    BY Bounds DEF TInv, Shape, MemShape, CkSet
  <2>3. db \in {0, 1}
    BY DEF TInv, Shape, PgShape
  <2>4. Valid(ck.ckpt, db) => Valid(ck.ckpt, db)'
    BY <1>1, <1>4, <2>3, ValidKept DEF Grow, Valid
  <2> QED
    BY <1>1, <1>3, <2>1, <2>2, <2>4 DEF TInv, PosInv, CkPos, Valid
<1> QED
  BY <1>6, <1>7, <1>8, <1>9 DEF PosInv

LEMMA CheckpointStartPos ==
  ASSUME TInv, Shape', NEW kind \in {"online", "backup", "shutdown"}, CheckpointStart(kind)
  PROVE  PosInv'
<1>1. /\ UNCHANGED <<pg, db, wal, line, ends, pgdata, bak, segs, bases, backups, tikm, spill, rec,
                     gone, spoiled, abandoned, recovers>>
      /\ WriteBack(DOMAIN cache)
      /\ ck' = [pc |-> "flushed", kind |-> kind, redo |-> Lsn, ckpt |-> 0]
      /\ comp' = IF kind = "shutdown" THEN NoComp ELSE comp
      /\ pg = "up" /\ ck.pc = "idle" /\ taken' = taken + 1 /\ taken < MaxCheckpoints
  BY DEF CheckpointStart, pgVars, local, history
<1>2. pgdata.ok
  BY <1>1 DEF TInv, PosInv, Phase
<1>3. Here \in Lines /\ Lsn \in Nat
  BY <1>2, HereLine
<1>4. Grow /\ MaxTl' = MaxTl /\ recovers' \in 0..MaxRecovers
  BY <1>1, <1>3, RunningGrow
<1>5. shm'.active = shm.active
  BY <1>1 DEF WriteBack, TInv, Shape, MemShape, ShmSet
<1>6. AllSegs' = AllSegs /\ Dirs' = Dirs /\ Manifests' \subseteq Manifests \cup {Empty}
  BY <1>1, <1>5, NoCkShape DEF AllSegs, Dirs, Manifests
<1>7. SegPos' /\ BkPos' /\ DirPos' /\ OneDb' /\ RecPhase' /\ ManPos'
  BY <1>1, <1>4, <1>6, SegPosKept, BkPosKept, DirPosKept, OneDbKept, RunningRec, ManPosKept DEF Grow
<1>8. Bound'
  <2>1. Len(wal) \in Nat /\ taken \in Nat
    BY <1>1 DEF TInv, Shape, PgShape, PosInv, Bound
  <2>2. \A k \in Lines : ends[k] \in Nat
    BY Bounds DEF TInv, Shape, PgShape
  <2>3. Len(wal') <= MaxRecords
    BY <1>1 DEF TInv, PosInv, Bound
  <2>4. taken' \in 0..MaxCheckpoints /\ recovers' \in 0..MaxRecovers /\ MaxTl' \in Nat
    BY <1>1, <1>4, RecoveryAssumption DEF TInv, PosInv, Bound
  <2>5. \A k \in Lines : ends[k] + 0 <= Len(wal) + taken + 1
    BY <1>1 DEF TInv, PosInv, Bound
  <2>6. \A k \in Lines : ends'[k] + (IF ck'.pc = "flushed" THEN 1 ELSE 0) <= Len(wal') + taken' + 1
    BY <1>1, <2>1, <2>2, <2>5
  <2> QED
    BY <2>3, <2>4, <2>6 DEF Bound
<1>9. Phase' /\ CompPhase'
  <2>1. CompPhase'
    BY <1>1, NoCkShape DEF TInv, PosInv, CompPhase, NoComp
  <2> QED
    BY <1>1, <1>5, <2>1 DEF TInv, PosInv, Phase, SegsHere
<1>10. CkPos'
  <2>1. Lsn' = Lsn
    BY <1>1 DEF Lsn, Here
  <2>2. pgdata.redo < LsnOf(pgdata.ckpt) /\ LsnOf(pgdata.ckpt) <= Lsn
    BY <1>2, DirPosIs DEF TInv, PosInv, Dirs, DirOk, Lsn, Here
  <2>3. pgdata.redo \in Nat /\ LsnOf(pgdata.ckpt) \in Nat
    BY Bounds, CkptBound DEF TInv, Shape, PgShape, DirSet
  <2> QED
    BY <1>1, <1>3, <2>1, <2>2, <2>3 DEF CkPos
<1> QED
  BY <1>7, <1>8, <1>9, <1>10 DEF PosInv

\* A checkpoint commits s.
Committed(s) ==
  /\ ck.pc = "flushed" /\ pg = "up" /\ pgdata.ok /\ pgdata.target = 0
  /\ ends' = [ends EXCEPT ![Here] = @ + 1] /\ Here \in Lines /\ Lsn \in Nat /\ Lsn' = Lsn + 1
  /\ segs' = segs \cup {s}
  /\ shm'.head = s.ckpt /\ shm'.base = shm.base /\ shm'.redo = Ckpt(pgdata.tl, ck.redo)
  /\ shm'.active = Window(shm.active \cup {s}) /\ shm'.active \subseteq shm.active \cup {s}
  /\ shm'.draft = NoItems /\ shm'.spilled = FALSE
  /\ spill' = NoItems
  /\ ck'.pc = (IF ck.kind = "online" THEN "end" ELSE "compact")
  /\ ck'.ckpt = s.ckpt /\ ck'.kind = ck.kind /\ ck'.redo = ck.redo
  /\ UNCHANGED <<pg, db, wal, line, pgdata, bak, comp, cache, objs, bases, backups, tikm, rec,
                 gone, spoiled, abandoned, taken, recovers, events>>
  /\ s.db = db /\ s.prev = shm.head
  /\ s.chunks = (DOMAIN shm.draft \cup DOMAIN spill) \cap Chunks
  /\ DOMAIN s.rels = (DOMAIN shm.draft \cup DOMAIN spill) \cap Relforks
  /\ \A r \in DOMAIN s.rels : s.rels[r] = IF r \in DOMAIN shm.draft THEN shm.draft[r] ELSE spill[r]
  /\ s.ckpt \in Ckpts /\ TimelineOf(s.ckpt) = pgdata.tl /\ LsnOf(s.ckpt) = Lsn + 1
  /\ pgdata.tl \in 1..MaxTl /\ pgdata.tl \in Nat

LEMMA CommitIs ==
  ASSUME TInv, Commit
  PROVE  \E s : Committed(s)
<1> DEFINE all == Override(shm.draft, spill)
           new == [db |-> db, ckpt |-> Ckpt(pgdata.tl, Lsn + 1), prev |-> shm.head, chunks |-> DOMAIN all \cap Chunks,
                   rels |-> Restrict(all, DOMAIN all \cap Relforks)]
<1>0. PICK s : s = new
  OBVIOUS
<1>1. /\ ck.pc = "flushed"
      /\ ends' = [ends EXCEPT ![Here] = @ + 1]
      /\ segs' = segs \cup {s}
      /\ shm' = [shm EXCEPT !.head = s.ckpt, !.redo = Ckpt(pgdata.tl, ck.redo),
                            !.active = Window(shm.active \cup {s}), !.draft = NoItems, !.spilled = FALSE]
      /\ spill' = NoItems
      /\ ck' = [ck EXCEPT !.pc = IF ck.kind = "online" THEN "end" ELSE "compact", !.ckpt = s.ckpt]
      /\ UNCHANGED <<pg, db, wal, line, pgdata, bak, comp, cache, objs, bases, backups, tikm, rec,
                     gone, spoiled, abandoned, taken, recovers, events>>
  BY <1>0 DEF Commit, PushSegment, PushActive, history, counters
<1>2. pg = "up" /\ pgdata.ok /\ pgdata.target = 0
  BY <1>1, NoCkShape DEF TInv, PosInv, Phase
<1>3. Lsn + 1 \in Lsns /\ Here \in Lines /\ pgdata.tl \in 1..(MaxRecovers + 1) /\ Lsn \in Nat
  BY <1>1, <1>2, NextLsn, HereLine
<1>4. /\ s.ckpt = Ckpt(pgdata.tl, Lsn + 1) /\ s.db = db /\ s.prev = shm.head
      /\ s.chunks = DOMAIN all \cap Chunks
      /\ s.rels = Restrict(all, DOMAIN all \cap Relforks)
  BY <1>0
<1>5. s.ckpt \in Ckpts /\ TimelineOf(s.ckpt) = pgdata.tl /\ LsnOf(s.ckpt) = Lsn + 1 /\ pgdata.tl \in Nat
  <2>1. pgdata.tl \in Nat /\ pgdata.tl <= MaxRecovers + 1
    BY <1>3, RecoveryAssumption
  <2> QED
    BY <1>3, <1>4, <2>1, CkptIn
<1>6. /\ DOMAIN all = DOMAIN spill \cup DOMAIN shm.draft
      /\ \A x \in DOMAIN shm.draft : all[x] = shm.draft[x]
      /\ \A x \in DOMAIN spill \ DOMAIN shm.draft : all[x] = spill[x]
  BY OverrideIs
<1> HIDE DEF all, new
<1>7. /\ DOMAIN s.rels = DOMAIN all \cap Relforks
      /\ \A x \in DOMAIN all \cap Relforks : s.rels[x] = all[x]
  BY <1>4 DEF Restrict
<1>8. Lsn' = Lsn + 1
  BY <1>1, <1>3 DEF Lsn, Here, TInv, Shape, PgShape
<1>9. Window(shm.active \cup {s}) \subseteq shm.active \cup {s}
  BY DEF Window
<1>10. /\ shm'.head = s.ckpt /\ shm'.base = shm.base /\ shm'.redo = Ckpt(pgdata.tl, ck.redo)
       /\ shm'.active = Window(shm.active \cup {s}) /\ shm'.draft = NoItems /\ shm'.spilled = FALSE
  <2>1. shm \in ShmSet
    BY DEF TInv, Shape, MemShape
  <2> QED
    BY <1>1, <2>1 DEF ShmSet
<1>11. /\ ck'.pc = (IF ck.kind = "online" THEN "end" ELSE "compact")
       /\ ck'.ckpt = s.ckpt /\ ck'.kind = ck.kind /\ ck'.redo = ck.redo
  <2>1. ck \in CkSet
    BY DEF TInv, Shape, MemShape
  <2> QED
    BY <1>1, <2>1 DEF CkSet
<1>12. pgdata.tl \in 1..MaxTl
  BY <1>2, DirPosIs DEF TInv, PosInv, Dirs, DirOk
<1>13. s.chunks = (DOMAIN shm.draft \cup DOMAIN spill) \cap Chunks
  BY <1>4, <1>6
<1>14. /\ DOMAIN s.rels = (DOMAIN shm.draft \cup DOMAIN spill) \cap Relforks
       /\ \A r \in DOMAIN s.rels : s.rels[r] = IF r \in DOMAIN shm.draft THEN shm.draft[r] ELSE spill[r]
  BY <1>6, <1>7
<1>15. Committed(s)
  BY <1>1, <1>2, <1>3, <1>4, <1>5, <1>8, <1>9, <1>10, <1>11, <1>12, <1>13, <1>14 DEF Committed
<1> QED
  BY <1>15

LEMMA CommitPos ==
  ASSUME TInv, Shape', Commit
  PROVE  PosInv'
<1>0. PICK s : Committed(s)
  BY CommitIs
<1>1. Grow /\ MaxTl' = MaxTl /\ recovers' \in 0..MaxRecovers
  BY <1>0, RunningGrow DEF Committed
<1>2. AllSegs' \subseteq AllSegs \cup {s}
  BY <1>0 DEF AllSegs, Committed
<1>3. Dirs' = Dirs /\ Manifests' = Manifests
  BY <1>0 DEF Dirs, Manifests, Committed
<1>4. BkPos' /\ DirPos' /\ RecPhase' /\ ManPos'
  BY <1>0, <1>1, <1>3, BkPosKept, DirPosKept, RunningRec, ManPosKept DEF Grow, Committed
<1>5. db \in {0, 1} /\ Lsn \in Nat /\ Here = <<db, pgdata.tl>> /\ Lsn = ends[Here] /\ Lsn' = ends'[Here]
      /\ Lsn' = Lsn + 1
  BY <1>0 DEF TInv, Shape, PgShape, Here, Lsn, Committed
<1>6. TimelineOf(s.ckpt) \in 1..MaxTl' /\ LsnOf(s.ckpt) \in 1..ends'[<<s.db, TimelineOf(s.ckpt)>>]
  BY <1>0, <1>1, <1>5 DEF Committed
<1>7. ASSUME NEW r \in AllSegs, r.db = db PROVE r.ckpt # s.ckpt
  <2>1. Valid(r.ckpt, db)
    BY <1>7 DEF TInv, PosInv, SegPos
  <2> QED
    BY <1>0, <1>5, <2>1 DEF Valid, Committed
<1>8. SegPos'
  <2>1. \A r \in AllSegs : Valid(r.ckpt, r.db) /\ r.db \in {0, 1}
    BY DEF TInv, PosInv, SegPos, Shape, MemShape, StoreShape, LocalShape, AllSegs, SegSet, ShmSet, RecSet
  <2>2. \A r \in AllSegs : Valid(r.ckpt, r.db)'
    BY <1>1, <2>1, ValidKept DEF Grow, Valid
  <2>3. \A r \in AllSegs' : Valid(r.ckpt, r.db)'
    BY <1>2, <1>6, <2>2 DEF Valid
  <2>4. \A q, r \in AllSegs : q.db = r.db /\ q.ckpt = r.ckpt => q = r
    BY DEF TInv, PosInv, SegPos
  <2>5. \A q, r \in AllSegs' : q.db = r.db /\ q.ckpt = r.ckpt => q = r
    BY <1>0, <1>2, <1>7, <2>4 DEF Committed
  <2> QED
    BY <2>3, <2>5 DEF SegPos
<1>9. OneDb'
  BY <1>0, <1>2 DEF TInv, PosInv, OneDb, Committed
<1>10. Bound'
  <2>1. Len(wal) \in Nat /\ taken \in Nat
    BY DEF TInv, Shape, PgShape, PosInv, Bound
  <2>2. \A k \in Lines : ends[k] \in Nat /\ ends'[k] \in Nat /\ ends'[k] <= ends[k] + 1
    BY <1>0, Bounds DEF TInv, Shape, PgShape, Committed
  <2>3. \A k \in Lines : ends[k] + 1 <= Len(wal) + taken + 1
    BY <1>0 DEF TInv, PosInv, Bound, Committed
  <2>4. \A k \in Lines : ends'[k] + (IF ck'.pc = "flushed" THEN 1 ELSE 0) <= Len(wal') + taken' + 1
    BY <1>0, <2>1, <2>2, <2>3 DEF Committed
  <2> QED
    BY <1>0, <1>1, <2>4 DEF TInv, PosInv, Bound, Committed
<1>11. Phase'
  BY <1>0 DEF TInv, PosInv, Phase, SegsHere, Committed
<1>12. CompPhase'
  BY <1>0 DEF TInv, PosInv, CompPhase, Committed
<1>13. CkPos'
  <2>1. ck.redo \in Nat /\ ck.redo <= Lsn /\ pgdata.redo <= ck.redo
    BY <1>0, Bounds DEF TInv, Shape, MemShape, CkSet, PosInv, CkPos, Committed
  <2>2. TimelineOf(pgdata.ckpt) <= pgdata.tl /\ LsnOf(pgdata.ckpt) <= Lsn /\ pgdata.ckpt \in Ckpts
    BY <1>0, <1>5, DirPosIs DEF TInv, PosInv, Dirs, DirOk, Shape, PgShape, DirSet, Committed
  <2>3. pgdata.ckpt < s.ckpt
    <3>1. TimelineOf(pgdata.ckpt) \in Nat /\ LsnOf(pgdata.ckpt) \in Nat
      BY <2>2, CkptBound
    <3>2. s.ckpt \in Ckpts /\ TimelineOf(s.ckpt) = pgdata.tl /\ LsnOf(s.ckpt) = Lsn + 1 /\ pgdata.tl \in Nat
      BY <1>0 DEF Committed
    <3> QED
      BY <1>5, <2>2, <3>1, <3>2, CkptOrder
  <2>4. ck'.ckpt = s.ckpt /\ ck'.redo = ck.redo /\ pgdata' = pgdata /\ db' = db
        /\ TimelineOf(s.ckpt) = pgdata.tl /\ LsnOf(s.ckpt) = Lsn + 1 /\ s.db = db
    BY <1>0 DEF Committed
  <2>5. Valid(ck.ckpt, db)'
    BY <1>6, <2>4 DEF Valid
  <2>6. ck.redo <= Lsn + 1 /\ ck.redo < LsnOf(s.ckpt)
    BY <1>5, <2>1, <2>4
  <2> QED
    BY <1>5, <2>1, <2>3, <2>4, <2>5, <2>6 DEF CkPos
<1> QED
  BY <1>4, <1>8, <1>9, <1>10, <1>11, <1>12, <1>13 DEF PosInv

LEMMA CheckpointEndPos ==
  ASSUME TInv, Shape', CheckpointEnd
  PROVE  PosInv'
<1> DEFINE b == [db |-> db, ckpt |-> ck.ckpt, redo |-> ck.redo]
<1>1. /\ pgdata' = [pgdata EXCEPT !.ckpt = ck.ckpt, !.redo = ck.redo]
      /\ backups' \in {backups, backups \cup {b}}
      /\ \/ pg' = "down" /\ shm' = Fresh /\ cache' = NoItems /\ ck.kind = "shutdown"
         \/ UNCHANGED <<pg, shm, cache>>
      /\ ck' = NoCk /\ ck.pc = "end"
      /\ UNCHANGED <<db, wal, line, ends, bak, comp, objs, segs, bases, tikm, spill, rec,
                     gone, spoiled, abandoned, taken, recovers>>
  BY DEF CheckpointEnd, PutBackup, StopPg, local, history, counters
<1>2. pg = "up" /\ pgdata.ok /\ pgdata.target = 0
  BY <1>1, NoCkShape DEF TInv, PosInv, Phase
<1>3. pgdata'.ok = pgdata.ok /\ pgdata'.target = pgdata.target /\ pgdata'.tl = pgdata.tl
      /\ pgdata'.ckpt = ck.ckpt /\ pgdata'.redo = ck.redo
  BY <1>1 DEF TInv, Shape, PgShape, DirSet
<1>4. Grow /\ MaxTl' = MaxTl /\ recovers' \in 0..MaxRecovers
  BY <1>1, <1>3, RunningGrow
<1>5. AllSegs' \subseteq AllSegs /\ Manifests' = Manifests
  BY <1>1, NoCkShape DEF AllSegs, Manifests
<1>6. SegPos' /\ ManPos'
  BY <1>1, <1>4, <1>5, SegPosKept, ManPosKept DEF Grow
<1>7. RecPhase'
  BY <1>1, <1>2, <1>3, <1>4, RunningRec
<1>8. /\ Valid(ck.ckpt, db) /\ TimelineOf(ck.ckpt) = pgdata.tl /\ ck.redo < LsnOf(ck.ckpt)
  BY <1>1 DEF TInv, PosInv, CkPos
<1>9. BkPos'
  <2>1. \A c \in backups : Valid(c.ckpt, c.db) /\ c.redo < LsnOf(c.ckpt)
    BY DEF TInv, PosInv, BkPos
  <2>2. \A c, d : Valid(c, d) => Valid(c, d)'
    BY <1>1, <1>4 DEF Valid
  <2>3. \A c \in backups \cup {b} : Valid(c.ckpt, c.db) /\ c.redo < LsnOf(c.ckpt)
    BY <1>8, <2>1
  <2> QED
    BY <1>1, <2>2, <2>3 DEF BkPos
<1>10. DirPos'
  <2>0. PICK e : e = pgdata'
    OBVIOUS
  <2>1. DirOk(e)'
    <3>1. pgdata.tl \in 1..MaxTl' /\ LsnOf(ck.ckpt) <= ends'[<<db', pgdata.tl>>]
      BY <1>1, <1>4, <1>8 DEF Valid
    <3>2. 0 <= ends'[<<db', pgdata.tl>>]
      BY <1>1, <1>2, HereLine DEF Here, Lsn
    <3>3. TimelineOf(ck.ckpt) <= pgdata.tl
      <4>1. pgdata.tl \in Nat
        BY <1>2, HereLine, RecoveryAssumption
      <4> QED
        BY <1>8, <4>1
    <3> QED
      BY <1>2, <1>3, <1>8, <2>0, <3>1, <3>2, <3>3 DEF DirOk
  <2>2. \A d \in Dirs : DirOk(d) => DirOk(d)'
    BY <1>1, <1>4 DEF DirOk
  <2>3. Dirs' \subseteq Dirs \cup {e}
    BY <1>1, <2>0 DEF Dirs
  <2>4. \A d \in Dirs : DirOk(d)
    BY DirPosIs DEF TInv, PosInv
  <2>5. \A d \in Dirs' : DirOk(d)'
    BY <2>1, <2>2, <2>3, <2>4
  <2> QED
    BY <2>5, DirPosIsNext
<1>11. OneDb'
  <2>1. \A c \in backups' : c \in backups \/ c.db = db
    BY <1>1
  <2> QED
    BY <1>1, <1>5, <2>1 DEF TInv, PosInv, OneDb
<1>12. Bound'
  <2>1. ck'.pc # "flushed"
    BY <1>1, NoCkShape
  <2>2. \A k \in Lines : ends[k] \in Nat
    BY Bounds DEF TInv, Shape, PgShape
  <2>3. Len(wal) \in Nat /\ taken \in Nat
    BY DEF TInv, Shape, PgShape, PosInv, Bound
  <2> QED
    BY <1>1, <1>4, <2>1, <2>2, <2>3 DEF TInv, PosInv, Bound
<1>13. ck.kind = "shutdown" => comp = NoComp
  BY <1>1 DEF TInv, PosInv, CompPhase
<1>14. Phase'
  BY <1>1, <1>2, <1>3, <1>13, NoCkShape DEF TInv, PosInv, Phase, SegsHere
<1>15. CkPos' /\ CompPhase'
  BY <1>1, NoCkShape DEF TInv, PosInv, CkPos, CompPhase, NoCk
<1> QED
  BY <1>6, <1>7, <1>9, <1>10, <1>11, <1>12, <1>14, <1>15 DEF PosInv

\* A compaction puts new, made from m and S, under key.
Folds(m, S, new, key) ==
  /\ comp.pc = "idle" /\ S # {} /\ m \in ManifestsAt(shm.base) /\ pg = "up"
  /\ new = ApplySegments(m, S)
  /\ comp'.pc = "put" /\ comp'.inline = (ck.pc = "compact") /\ comp'.from = shm.base /\ comp'.key = key
  /\ comp'.m = new
  /\ bases' = Put(bases, <<db, key>>, new)
  /\ DOMAIN bases' = DOMAIN bases \cup {<<db, key>>} /\ bases'[<<db, key>>] = new
  /\ \A k \in DOMAIN bases : k # <<db, key>> => bases'[k] = bases[k]
  /\ spoiled' = spoiled \cup Outranked(m, S)
  /\ UNCHANGED <<pg, db, wal, line, ends, pgdata, bak, ck, cache, shm, objs, segs, backups,
                 tikm, spill, rec, gone, abandoned, taken, recovers, events>>
  /\ m \in ManSet /\ new \in ManSet /\ S \in SUBSET SegSet /\ S \subseteq SegsHere
  /\ \A s \in S : s.ckpt > shm.base /\ s.ckpt > m.ckpt
  /\ key \in Ckpts /\ new.ckpt <= key /\ m.ckpt <= shm.base
  /\ Newest(S) \in S /\ \A s \in S : s.ckpt <= Newest(S).ckpt
  /\ TimelineOf(key) <= MaxTl /\ TimelineOf(new.ckpt) <= MaxTl

\* Either run_compaction or run_compaction_through.
FoldsWhich(S, new, key) ==
  \/ /\ ck.pc = "compact" /\ ck.kind = "backup" /\ S = ToApply(TRUE) /\ key = new.ckpt
  \/ /\ ck.pc = "compact" \/ ck.kind # "shutdown"
     /\ ~(ck.pc = "compact" /\ ck.kind = "backup")
     /\ S = ToApply(FALSE) /\ key = Newest(S).ckpt

\* The checkpoint of a new manifest.
LEMMA FoldCkpt ==
  ASSUME TInv, NEW m \in ManSet, NEW S \in SUBSET SegSet, S # {},
         \A s \in S : s.ckpt > m.ckpt
  PROVE  LET new  == ApplySegments(m, S)
             full == {s \in S : s.chunks # {} \/ s.rels # NoItems}
         IN /\ new.ckpt <= Newest(S).ckpt /\ m.ckpt <= new.ckpt
            /\ \/ new.ckpt = m.ckpt /\ full = {}
               \/ \E s \in full : new.ckpt = s.ckpt /\ \A r \in full : r.ckpt <= s.ckpt
<1> DEFINE full == {s \in S : s.chunks # {} \/ s.rels # NoItems}
<1>1. \A s \in S : s.ckpt \in Ckpts /\ s.ckpt \in Nat
  BY CkptsNat DEF SegSet
<1>2. m.ckpt \in Nat
  BY CkptsNat DEF ManSet
<1>3. Newest(S) \in S /\ \A s \in S : s.ckpt <= Newest(S).ckpt
  BY <1>1, NewestIs
<1>4. full # {} => Newest(full) \in full /\ \A r \in full : r.ckpt <= Newest(full).ckpt
  <2>1. \A s \in full : s.ckpt \in Ckpts
    BY <1>1
  <2> HIDE DEF full
  <2> QED
    BY <2>1, NewestIs
<1>5. ApplySegments(m, S).ckpt = IF full = {} THEN m.ckpt ELSE Newest(full).ckpt
  BY DEF ApplySegments
<1>6. full \subseteq S
  OBVIOUS
<1> HIDE DEF full
<1>7. /\ ApplySegments(m, S).ckpt <= Newest(S).ckpt /\ m.ckpt <= ApplySegments(m, S).ckpt
      /\ \/ ApplySegments(m, S).ckpt = m.ckpt /\ full = {}
         \/ \E s \in full : ApplySegments(m, S).ckpt = s.ckpt /\ \A r \in full : r.ckpt <= s.ckpt
  <2>1. CASE full = {}
    BY <1>1, <1>2, <1>3, <1>5, <2>1
  <2>2. CASE full # {}
    <3>1. ApplySegments(m, S).ckpt = Newest(full).ckpt /\ Newest(full) \in full /\ Newest(full) \in S
      BY <1>4, <1>5, <1>6, <2>2
    <3>2. ApplySegments(m, S).ckpt <= Newest(S).ckpt
      BY <1>3, <3>1
    <3>3. m.ckpt <= ApplySegments(m, S).ckpt
      BY <1>1, <1>2, <3>1
    <3> QED
      BY <1>4, <2>2, <3>1, <3>2, <3>3
  <2> QED
    BY <2>1, <2>2
<1> QED
  BY <1>7 DEF full

LEMMA FoldIs ==
  ASSUME TInv, NEW through \in BOOLEAN, CompactPut(through)
  PROVE  \E m, S, new, key : Folds(m, S, new, key) /\ FoldsWhich(S, new, key)
<1>0. PICK S : S = ToApply(through)
  OBVIOUS
<1>1. PICK m \in ManifestsAt(shm.base) :
        /\ comp.pc = "idle" /\ S # {}
        /\ IF ck.pc = "compact" THEN through = (ck.kind = "backup") ELSE Running /\ ~through
        /\ comp' = [pc |-> "put", inline |-> ck.pc = "compact", from |-> shm.base,
                    key |-> CompactKey(through, m), m |-> ApplySegments(m, S)]
        /\ bases' = Put(bases, <<db, CompactKey(through, m)>>, ApplySegments(m, S))
        /\ spoiled' = spoiled \cup Outranked(m, S)
        /\ UNCHANGED <<pg, db, wal, line, ends, pgdata, bak, ck, cache, shm, objs, segs, backups,
                       tikm, spill, rec, gone, abandoned, taken, recovers, events>>
  BY <1>0, CompactPutIs
<1>2. PICK new : new = ApplySegments(m, S)
  OBVIOUS
<1>3. PICK key : key = CompactKey(through, m)
  OBVIOUS
<1>4. /\ m \in ManSet /\ m.ckpt <= shm.base /\ m.ckpt \in Ckpts /\ shm.base \in Ckpts
      /\ TimelineOf(m.ckpt) <= MaxTl
  BY LoadedIs
<1>5. /\ new \in ManSet /\ S \in SUBSET SegSet /\ S \subseteq SegsHere /\ key \in Ckpts
      /\ Newest(S) \in S /\ \A s \in S : s.ckpt <= Newest(S).ckpt
  BY <1>0, <1>1, <1>2, <1>3, <1>4, FoldShape DEF TInv
<1>6. \A s \in S : s.ckpt > shm.base /\ s.ckpt > m.ckpt /\ s.ckpt \in Nat
  <2>1. \A s \in S : s.ckpt > shm.base /\ s.ckpt \in Nat
    BY <1>0, <1>5, CkptsNat DEF ToApply, SegSet
  <2> QED
    BY <1>4, <2>1, CkptsNat
<1>7. new.ckpt <= Newest(S).ckpt /\ (new.ckpt = m.ckpt \/ \E s \in S : new.ckpt = s.ckpt)
  BY <1>1, <1>2, <1>4, <1>5, <1>6, FoldCkpt
<1>8. key = IF through THEN new.ckpt ELSE Newest(S).ckpt
  BY <1>0, <1>2, <1>3 DEF CompactKey
<1>9. new.ckpt <= key /\ new.ckpt \in Nat
  BY <1>5, <1>7, <1>8, CkptsNat DEF ManSet
<1>10. \A s \in S : TimelineOf(s.ckpt) <= MaxTl
  <2>1. \A s \in S : TimelineOf(s.ckpt) \in 1..MaxTl
    BY <1>5 DEF TInv, PosInv, SegPos, AllSegs, SegsHere, Valid
  <2>2. MaxTl \in Nat
    BY DEF TInv, PosInv, Bound
  <2> QED
    BY <2>1, <2>2
<1>11. TimelineOf(new.ckpt) <= MaxTl
  BY <1>4, <1>7, <1>10
<1>12. TimelineOf(key) <= MaxTl
  BY <1>5, <1>8, <1>10, <1>11
<1>13. pg = "up"
  <2>1. ck.pc = "compact" => pg = "up"
    BY NoCkShape DEF TInv, PosInv, Phase
  <2> QED
    BY <1>1, <2>1 DEF Running
<1>14. bases' = Put(bases, <<db, key>>, new)
  BY <1>1, <1>2, <1>3
<1>15. /\ DOMAIN bases' = DOMAIN bases \cup {<<db, key>>} /\ bases'[<<db, key>>] = new
       /\ \A k \in DOMAIN bases : k # <<db, key>> => bases'[k] = bases[k]
  BY <1>14 DEF Put
<1>16. Folds(m, S, new, key)
  BY <1>1, <1>2, <1>3, <1>4, <1>5, <1>6, <1>9, <1>11, <1>12, <1>13, <1>14, <1>15 DEF Folds
<1>17. FoldsWhich(S, new, key)
  <2>1. CASE through
    BY <1>0, <1>1, <1>8, <2>1 DEF FoldsWhich
  <2>2. CASE ~through
    BY <1>0, <1>1, <1>8, <2>2 DEF FoldsWhich, Running
  <2> QED
    BY <2>1, <2>2
<1> QED
  BY <1>16, <1>17

LEMMA CompactPutPos ==
  ASSUME TInv, Shape', NEW through \in BOOLEAN, CompactPut(through)
  PROVE  PosInv'
<1>0. PICK m, S, new, key : Folds(m, S, new, key) /\ FoldsWhich(S, new, key)
  BY FoldIs
<1>1. Grow /\ MaxTl' = MaxTl /\ recovers' \in 0..MaxRecovers
  BY <1>0, RunningGrow DEF Folds
<1>2. AllSegs' = AllSegs /\ Dirs' = Dirs
  BY <1>0 DEF AllSegs, Dirs, Folds
<1>3. SegPos' /\ BkPos' /\ DirPos' /\ RecPhase'
  BY <1>0, <1>1, <1>2, SegPosKept, BkPosKept, DirPosKept, RunningRec DEF Folds
<1>4. ManPos'
  <2>1. \A k \in DOMAIN bases' : (k = <<db, key>> /\ bases'[k] = new) \/ (k \in DOMAIN bases /\ bases'[k] = bases[k])
    BY <1>0 DEF Folds
  <2>2. Range(bases') \subseteq Range(bases) \cup {new}
    BY <2>1 DEF Range
  <2>3. Manifests' \subseteq Manifests \cup {new}
    BY <1>0, <2>2 DEF Manifests, Folds
  <2>4. TimelineOf(new.ckpt) <= MaxTl' /\ TimelineOf(key) <= MaxTl' /\ new.ckpt <= key
    BY <1>0, <1>1 DEF Folds
  <2>5. \A x \in Manifests' : TimelineOf(x.ckpt) <= MaxTl'
    BY <1>1, <2>3, <2>4 DEF TInv, PosInv, ManPos
  <2>6. \A k \in DOMAIN bases : TimelineOf(k[2]) <= MaxTl' /\ bases[k].ckpt <= k[2]
    BY <1>1 DEF TInv, PosInv, ManPos
  <2>7. \A k \in DOMAIN bases' : TimelineOf(k[2]) <= MaxTl' /\ bases'[k].ckpt <= k[2]
    BY <2>1, <2>4, <2>6
  <2> QED
    BY <2>5, <2>7 DEF ManPos
<1>5. OneDb'
  BY <1>0, <1>2 DEF TInv, PosInv, OneDb, Folds
<1>6. Bound'
  BY <1>0, <1>1 DEF TInv, PosInv, Bound, Folds
<1>7. Phase'
  BY <1>0 DEF TInv, PosInv, Phase, SegsHere, Folds
<1>8. CompPhase'
  BY <1>0 DEF CompPhase, Folds, FoldsWhich
<1>9. CkPos'
  BY <1>0, <1>1 DEF TInv, PosInv, CkPos, Lsn, Here, Valid, Folds
<1> QED
  BY <1>3, <1>4, <1>5, <1>6, <1>7, <1>8, <1>9 DEF PosInv

LEMMA CompactDeletePos ==
  ASSUME TInv, Shape', CompactDelete
  PROVE  PosInv'
<1>1. /\ segs' = segs \ Folded /\ gone' = gone \cup Folded /\ comp' = NoComp
      /\ ck' = IF comp.inline THEN [ck EXCEPT !.pc = "end"] ELSE ck
      /\ UNCHANGED <<pg, db, wal, line, ends, pgdata, bak, cache, shm, objs, bases, backups, tikm, spill,
                     rec, spoiled, abandoned, taken, recovers>>
      /\ comp.pc = "delete"
  BY DEF CompactDelete, pgVars, local, counters
<1>2. pg = "up" /\ (comp.inline => ck.pc = "compact") /\ ck \in CkSet
  BY <1>1, NoCkShape DEF TInv, PosInv, Phase, CompPhase, Shape, MemShape
<1>3. Grow /\ MaxTl' = MaxTl /\ recovers' \in 0..MaxRecovers
  BY <1>1, RunningGrow
<1>4. Folded \subseteq segs
  BY DEF Folded, SegsHere
<1>5. AllSegs' \subseteq AllSegs /\ Dirs' = Dirs /\ Manifests' \subseteq Manifests \cup {Empty}
  BY <1>1, <1>4, NoCkShape DEF AllSegs, Dirs, Manifests
<1>6. SegPos' /\ BkPos' /\ DirPos' /\ RecPhase' /\ OneDb' /\ ManPos'
  BY <1>1, <1>2, <1>3, <1>5, SegPosKept, BkPosKept, DirPosKept, RunningRec, OneDbKept, ManPosKept DEF Grow
<1>7. /\ ck'.redo = ck.redo /\ ck'.ckpt = ck.ckpt /\ ck'.kind = ck.kind
      /\ ck'.pc # "idle" => ck.pc # "idle"
      /\ ck'.pc = "flushed" => ck.pc = "flushed"
      /\ ck'.pc \in {"compact", "end"} => ck.pc \in {"compact", "end"}
  BY <1>1, <1>2 DEF CkSet
<1>8. Bound'
  <2>1. \A k \in Lines : ends[k] \in Nat
    BY Bounds DEF TInv, Shape, PgShape
  <2>2. Len(wal) \in Nat /\ taken \in Nat
    BY DEF TInv, Shape, PgShape, PosInv, Bound
  <2> QED
    BY <1>1, <1>3, <1>7, <2>1, <2>2 DEF TInv, PosInv, Bound
<1>9. Phase'
  BY <1>1, <1>2 DEF TInv, PosInv, Phase, SegsHere
<1>10. CompPhase'
  BY <1>1, NoCkShape DEF CompPhase, NoComp
<1>11. CkPos'
  BY <1>1, <1>3, <1>7 DEF TInv, PosInv, CkPos, Lsn, Here, Valid
<1> QED
  BY <1>6, <1>8, <1>9, <1>10, <1>11 DEF PosInv

\* Steps after which PostgreSQL is down.
LEMMA StoppedPos ==
  ASSUME TInv, ck' = NoCk, comp' = NoComp
  PROVE  CkPos' /\ CompPhase'
  BY NoCkShape DEF CkPos, CompPhase, NoComp, NoCk

LEMMA BoundKept ==
  ASSUME TInv, Shape', UNCHANGED <<wal, ends, taken>>, recovers' \in 0..MaxRecovers,
         ck' = ck \/ ck' = NoCk
  PROVE  Bound'
<1>1. ck'.pc = "flushed" => ck.pc = "flushed"
  BY NoCkShape
<1>2. \A k \in Lines : ends[k] \in Nat
  BY Bounds DEF TInv, Shape, PgShape
<1>3. Len(wal) \in Nat /\ taken \in Nat
  BY DEF TInv, Shape, PgShape, PosInv, Bound
<1>4. MaxTl' \in Nat
  BY UsedLinesNext
<1> QED
  BY <1>1, <1>2, <1>3, <1>4 DEF TInv, PosInv, Bound

LEMMA CrashPos ==
  ASSUME TInv, Shape', Crash
  PROVE  PosInv'
<1>1. /\ pg' = "down" /\ shm' = Fresh /\ cache' = NoItems /\ ck' = NoCk /\ comp' = NoComp /\ pg # "down"
      /\ UNCHANGED <<db, wal, line, ends, pgdata, bak, objs, segs, bases, backups, tikm, spill, rec,
                     gone, spoiled, abandoned, taken, recovers>>
  BY DEF Crash, StopPg, storage, local, history
<1>2. Grow /\ MaxTl' = MaxTl /\ recovers' \in 0..MaxRecovers
  BY <1>1, RunningGrow
<1>3. AllSegs' \subseteq AllSegs /\ Dirs' = Dirs /\ Manifests' \subseteq Manifests \cup {Empty}
  BY <1>1, NoCkShape DEF AllSegs, Dirs, Manifests
<1>4. SegPos' /\ BkPos' /\ DirPos' /\ RecPhase' /\ OneDb' /\ ManPos' /\ Bound' /\ CkPos' /\ CompPhase'
  BY <1>1, <1>2, <1>3, SegPosKept, BkPosKept, DirPosKept, RunningRec, OneDbKept, ManPosKept, BoundKept,
     StoppedPos DEF Grow
<1>5. Phase'
  BY <1>1, NoCkShape DEF TInv, PosInv, Phase, SegsHere
<1> QED
  BY <1>4, <1>5 DEF PosInv

LEMMA StartPos ==
  ASSUME TInv, Shape', Start
  PROVE  PosInv'
<1>1. /\ pg' = (IF pgdata.target # 0 THEN "recovering" ELSE "up") /\ tikm' = {InitialManifest} /\ shm' = Hydrated
      /\ rec' = IF rec.pc = "start" THEN [rec EXCEPT !.pc = "wait"] ELSE rec
      /\ gone' = IF pgdata.target # 0 THEN {} ELSE {s \in gone : s.ckpt <= InitialManifest.ckpt}
      /\ UNCHANGED <<db, wal, line, ends, pgdata, bak, ck, comp, objs, segs, bases, backups, spill,
                     abandoned, taken, recovers>>
      /\ pgdata.ok /\ pg = "down" /\ rec.pc \in {"idle", "start"}
  BY DEF Start, storage, counters
<1>2. rec'.b = rec.b /\ rec'.target = rec.target /\ rec'.saved = rec.saved /\ rec'.lost = rec.lost
      /\ rec'.pc = (IF rec.pc = "start" THEN "wait" ELSE rec.pc)
  BY <1>1 DEF TInv, Shape, LocalShape, RecSet
<1>3. ck = NoCk /\ comp = NoComp /\ (rec.pc = "start" => pgdata.target # 0)
  BY <1>1 DEF TInv, PosInv, Phase, RecPhase
<1>4. MaxTl' = MaxTl
  <2>1. NewTimeline' <=> NewTimeline
    BY <1>1, <1>2, <1>3 DEF NewTimeline
  <2> QED
    BY <1>1, <2>1 DEF MaxTl
<1>5. Grow /\ recovers' \in 0..MaxRecovers
  <2>1. MaxTl \in Nat /\ recovers \in 0..MaxRecovers
    BY DEF TInv, PosInv, Bound
  <2>2. \A d \in {0, 1}, t \in 1..MaxTl : ends[<<d, t>>] <= ends'[<<d, t>>]
    BY <1>1, UsedLines
  <2> QED
    BY <1>1, <1>4, <2>1, <2>2 DEF Grow, Grows
<1>6. AllSegs' \subseteq AllSegs /\ Dirs' = Dirs
  <2>1. shm'.active \subseteq segs
    BY <1>1, HydratedIs DEF SegsHere
  <2> QED
    BY <1>1, <1>2, <2>1 DEF AllSegs, Dirs
<1>7. Manifests' \subseteq Manifests \cup {Empty}
  <2>1. InitialManifest \in tikm \cup Range(bases) \cup {Empty}
    BY InitialShape DEF TInv, Range
  <2> QED
    BY <1>1, <1>2, <2>1 DEF Manifests
<1>8. SegPos' /\ BkPos' /\ DirPos' /\ OneDb' /\ ManPos' /\ Bound'
  BY <1>1, <1>5, <1>6, <1>7, SegPosKept, BkPosKept, DirPosKept, OneDbKept, ManPosKept, BoundKept DEF Grow
<1>9. RecPhase'
  BY <1>1, <1>2, <1>3 DEF TInv, PosInv, RecPhase, CopyPcs, SegsHere
<1>10. Phase'
  <2>1. \A s \in shm'.active : s.db = db
    BY <1>1, HydratedIs DEF SegsHere
  <2> QED
    BY <1>1, <1>3, <2>1 DEF TInv, PosInv, Phase, SegsHere
<1>11. CkPos' /\ CompPhase'
  BY <1>1, <1>3, StoppedPos
<1> QED
  BY <1>8, <1>9, <1>10, <1>11 DEF PosInv

LEMMA PromotePos ==
  ASSUME TInv, Shape', Promote
  PROVE  PosInv'
<1> DEFINE t   == recovers + 1
           new == <<db, t>>
<1>1. /\ pg' = "up" /\ pg = "recovering"
      /\ ends' = [ends EXCEPT ![new] = pgdata.target]
      /\ pgdata' = [pgdata EXCEPT !.tl = t, !.target = 0]
      /\ UNCHANGED <<db, wal, bak, ck, comp, cache, shm, objs, segs, bases, backups, tikm, spill, rec,
                     gone, spoiled, taken, recovers>>
  BY DEF Promote, memory, storage, local, counters
<1>2. pgdata.ok /\ pgdata.target # 0 /\ recovers \in 0..MaxRecovers /\ pgdata.target \in Nat
      /\ ck = NoCk /\ comp = NoComp
  BY <1>1, Bounds DEF TInv, PosInv, Phase, Bound, Shape, PgShape, DirSet
<1>3. pgdata'.ok /\ pgdata'.tl = t /\ pgdata'.target = 0 /\ pgdata'.ckpt = pgdata.ckpt /\ pgdata'.redo = pgdata.redo
  BY <1>1, <1>2 DEF TInv, Shape, PgShape, DirSet
<1>4. rec.pc \in {"idle", "wait"}
  BY <1>1 DEF TInv, PosInv, RecPhase
<1>5. MaxTl = recovers /\ MaxTl' = t /\ t \in Nat /\ t \in 1..MaxTl'
  BY <1>1, <1>2, <1>3, <1>4 DEF MaxTl, NewTimeline
<1>6. new \in Lines /\ ends \in [Lines -> Lsns]
  BY <1>2, RecoveryAssumption DEF Lines, Timelines, TInv, Shape, PgShape
<1>7. \A d, u : u \in 1..MaxTl => <<d, u>> # new
  BY <1>2, <1>5
<1>8. Grow /\ recovers' \in 0..MaxRecovers
  <2>1. \A d \in {0, 1}, u \in 1..MaxTl : ends[<<d, u>>] = ends'[<<d, u>>] /\ ends[<<d, u>>] \in Nat
    BY <1>1, <1>6, <1>7, UsedLines
  <2> QED
    BY <1>1, <1>2, <1>5, <2>1 DEF Grow, Grows
<1>9. AllSegs' = AllSegs /\ Manifests' = Manifests
  BY <1>1 DEF AllSegs, Manifests
<1>10. SegPos' /\ BkPos' /\ OneDb' /\ ManPos'
  BY <1>1, <1>8, <1>9, SegPosKept, BkPosKept, OneDbKept, ManPosKept DEF Grow
<1>11. DirOk(pgdata)
  BY <1>2, DirPosIs DEF TInv, PosInv, Dirs
<1>12. DirPos'
  <2>0. PICK e : e = pgdata'
    OBVIOUS
  <2>1. ends'[<<db', t>>] = pgdata.target
    BY <1>1, <1>6
  <2>2. /\ TimelineOf(pgdata.ckpt) \in Nat /\ TimelineOf(pgdata.ckpt) <= t
        /\ pgdata.redo < LsnOf(pgdata.ckpt) /\ LsnOf(pgdata.ckpt) <= pgdata.target
    <3>1. TimelineOf(pgdata.ckpt) \in Nat
      BY CkptBound DEF TInv, Shape, PgShape, DirSet
    <3> QED
      BY <1>2, <1>5, <1>11, <3>1 DEF DirOk
  <2>3. DirOk(e)'
    BY <1>2, <1>3, <1>5, <2>0, <2>1, <2>2 DEF DirOk
  <2>4. ASSUME NEW d \in Dirs' PROVE DirOk(d)'
    <3>1. CASE d \in bak
      <4>1. d \in Dirs /\ d \in DirSet
        BY <1>1, <2>4, <3>1 DEF Dirs, TInv, Shape, PgShape
      <4> QED
        BY <1>1, <1>8, <4>1, DirKept, DirPosIs DEF TInv, PosInv
    <3>2. CASE d = pgdata'
      BY <2>0, <2>3, <3>2
    <3> QED
      BY <1>1, <2>4, <3>1, <3>2 DEF Dirs
  <2> QED
    BY <2>4, DirPosIsNext
<1>13. RecPhase'
  BY <1>1, <1>2, <1>3, <1>8, RunningRec
<1>14. Bound'
  <2>1. \A k \in Lines : ends'[k] <= Len(wal) + taken + 1
    <3>1. \A k \in Lines : ends[k] + 0 <= Len(wal) + taken + 1 /\ ends[k] \in Nat
      BY <1>2, NoCkShape, Bounds DEF TInv, PosInv, Bound, Shape, PgShape
    <3>2. pgdata.target <= ends[Here] /\ Here \in Lines
      BY <1>2, <1>11, HereLine DEF DirOk, Here
    <3>3. Len(wal) \in Nat /\ taken \in Nat
      BY DEF TInv, Shape, PgShape, PosInv, Bound
    <3>4. pgdata.target <= Len(wal) + taken + 1
      BY <1>2, <3>1, <3>2, <3>3
    <3> QED
      BY <1>1, <1>6, <3>1, <3>3, <3>4
  <2>2. ck'.pc # "flushed"
    BY <1>1, <1>2, NoCkShape
  <2>3. \A k \in Lines : ends'[k] \in Nat
    BY Bounds DEF Shape, PgShape
  <2>4. \A k \in Lines : ends'[k] + (IF ck'.pc = "flushed" THEN 1 ELSE 0) <= Len(wal') + taken' + 1
    BY <1>1, <2>1, <2>2, <2>3
  <2> QED
    BY <1>1, <1>5, <1>8, <2>4 DEF TInv, PosInv, Bound
<1>15. Phase'
  BY <1>1, <1>2, <1>3 DEF TInv, PosInv, Phase, SegsHere
<1>16. CkPos' /\ CompPhase'
  BY <1>1, <1>2, StoppedPos
<1> QED
  BY <1>10, <1>12, <1>13, <1>14, <1>15, <1>16 DEF PosInv

LEMMA BranchPos ==
  ASSUME TInv, Shape', Branch
  PROVE  PosInv'
<1>1. PICK b \in backups :
        LET t == TimelineOf(b.ckpt)
            k == AnchorKey(b.ckpt, 0)
        IN /\ AtOrBefore(b.ckpt, 0) # {}
           /\ bases' = Put(bases, <<1, k[2]>>, bases[k])
           /\ pgdata' = [ok |-> TRUE, tl |-> t, ckpt |-> b.ckpt, redo |-> b.redo, target |-> 0]
           /\ ends' = [ends EXCEPT ![<<1, t>>] = LsnOf(b.ckpt)]
           /\ db = 0 /\ db' = 1 /\ tikm' = {} /\ pg = "down" /\ rec.pc = "idle" /\ bak = {}
           /\ UNCHANGED <<pg, wal, bak, ck, comp, cache, shm, objs, segs, backups, rec, gone, abandoned,
                          taken, recovers>>
  BY BranchIs
<1> DEFINE t == TimelineOf(b.ckpt)
           k == AnchorKey(b.ckpt, 0)
<1>2. PICK e : e = <<1, k[2]>>
  OBVIOUS
<1>3. /\ k \in DOMAIN bases /\ bases[k] \in ManSet /\ k[2] \in Ckpts /\ b.ckpt \in Ckpts /\ b.redo \in Lsns
  <2>1. DOMAIN bases \subseteq Prefixes /\ \A j \in DOMAIN bases : bases[j] \in ManSet
    BY FnsDef DEF TInv, Shape, StoreShape
  <2>2. b \in BkSet
    BY DEF TInv, Shape, StoreShape
  <2> QED
    BY <1>1, <2>1, <2>2, AnchorIs DEF BkSet
<1>4. Valid(b.ckpt, 0) /\ b.redo < LsnOf(b.ckpt) /\ b.db = 0
  BY <1>1 DEF TInv, PosInv, BkPos, OneDb
<1>5. ck = NoCk /\ comp = NoComp /\ shm = Fresh /\ pgdata.target \in {0, pgdata.target}
  BY <1>1 DEF TInv, PosInv, Phase
<1>6. MaxTl <= MaxTl' /\ MaxTl \in Nat /\ MaxTl' \in Nat
  <2>1. MaxTl' = recovers' + 1 /\ recovers' = recovers /\ recovers \in Nat
    BY <1>1 DEF MaxTl, NewTimeline, TInv, PosInv, Bound
  <2> QED
    BY <2>1 DEF MaxTl
<1>7. recovers' \in 0..MaxRecovers
  BY <1>1 DEF TInv, PosInv, Bound
<1>8. t \in 1..MaxTl /\ t \in Nat /\ LsnOf(b.ckpt) \in Nat /\ 1 <= LsnOf(b.ckpt) /\ <<1, t>> \in Lines
      /\ LsnOf(b.ckpt) <= ends[<<0, t>>] /\ <<0, t>> \in Lines
  BY <1>3, <1>4, <1>6, CkptBound, UsedLines DEF Valid
<1>9. Grows(0)
  <2> SUFFICES ASSUME NEW u \in 1..MaxTl PROVE ends[<<0, u>>] <= ends'[<<0, u>>]
    BY DEF Grows
  <2>1. <<0, u>> \in Lines /\ ends[<<0, u>>] \in Nat
    BY UsedLines
  <2>2. ends' = [ends EXCEPT ![<<1, t>>] = LsnOf(b.ckpt)] /\ ends \in [Lines -> Lsns]
    BY <1>1 DEF TInv, Shape, PgShape
  <2>3. ends'[<<0, u>>] = ends[<<0, u>>]
    <3> HIDE DEF t
    <3> QED
      BY <2>1, <2>2
  <2> QED
    BY <2>1, <2>3
<1>10. AllSegs' = AllSegs
  BY <1>1 DEF AllSegs
<1>11. SegPos'
  <2>1. \A s \in AllSegs : Valid(s.ckpt, 0) /\ s.db = 0
    BY <1>1 DEF TInv, PosInv, SegPos, OneDb
  <2>2. \A s \in AllSegs : Valid(s.ckpt, 0)'
    BY <1>6, <1>7, <1>9, <2>1, ValidKept DEF Valid
  <2>3. \A s \in AllSegs' : Valid(s.ckpt, s.db)'
    BY <1>10, <2>1, <2>2 DEF Valid
  <2> QED
    BY <1>10, <2>3 DEF TInv, PosInv, SegPos
<1>12. BkPos'
  <2>1. \A c \in backups : Valid(c.ckpt, 0) /\ c.db = 0 /\ c.redo < LsnOf(c.ckpt)
    BY <1>1 DEF TInv, PosInv, BkPos, OneDb
  <2>2. \A c \in backups : Valid(c.ckpt, 0)'
    BY <1>6, <1>7, <1>9, <2>1, ValidKept DEF Valid
  <2>3. \A c \in backups' : Valid(c.ckpt, c.db)'
    BY <1>1, <2>1, <2>2 DEF Valid
  <2> QED
    BY <1>1, <2>1, <2>3 DEF BkPos
<1>13. \A j \in DOMAIN bases' : (j = e /\ bases'[j] = bases[k]) \/ (j \in DOMAIN bases /\ bases'[j] = bases[j])
  <2>1. bases' = Put(bases, e, bases[k])
    BY <1>1, <1>2
  <2> QED
    BY <2>1 DEF Put
<1>14. ManPos'
  <2>1. Range(bases') \subseteq Range(bases)
    BY <1>3, <1>13 DEF Range
  <2>2. Manifests' \subseteq Manifests
    BY <1>1, <2>1 DEF Manifests
  <2>3. \A j \in DOMAIN bases' : TimelineOf(j[2]) <= MaxTl /\ bases'[j].ckpt <= j[2]
    BY <1>2, <1>3, <1>13 DEF TInv, PosInv, ManPos
  <2>4. \A j \in DOMAIN bases' : TimelineOf(j[2]) \in Nat
    <3>1. \A j \in DOMAIN bases' : j[2] \in Ckpts
      BY FnsDef DEF Shape, StoreShape, Prefixes
    <3> QED
      BY <3>1, CkptBound
  <2>5. \A x \in Manifests' : TimelineOf(x.ckpt) <= MaxTl /\ TimelineOf(x.ckpt) \in Nat
    <3>1. \A x \in Manifests' : x \in ManSet'
      <4>1. \A j \in DOMAIN bases' : bases'[j] \in ManSet'
        BY FnsDef DEF Shape, StoreShape
      <4> QED
        BY <4>1 DEF Manifests, Shape, LocalShape, MemShape, CompSet, RecSet, Range
    <3> QED
      BY <2>2, <3>1, CkptBound DEF TInv, PosInv, ManPos, ManSet
  <2>6. \A j \in DOMAIN bases' : TimelineOf(j[2]) <= MaxTl'
    BY <1>6, <2>3, <2>4
  <2>7. \A x \in Manifests' : TimelineOf(x.ckpt) <= MaxTl'
    BY <1>6, <2>5
  <2> QED
    BY <2>3, <2>6, <2>7 DEF ManPos
<1>15. DirPos'
  <2>0. PICK d : d = pgdata'
    OBVIOUS
  <2>1. d.tl = t /\ d.ckpt = b.ckpt /\ d.redo = b.redo /\ d.target = 0
    BY <1>1, <2>0
  <2>2. ends'[<<db', t>>] = LsnOf(b.ckpt)
    BY <1>1, <1>8 DEF TInv, Shape, PgShape
  <2>3. t \in 1..MaxTl' /\ TimelineOf(b.ckpt) <= t
    BY <1>6, <1>8
  <2>4. DirOk(d)'
    BY <1>4, <1>8, <2>1, <2>2, <2>3 DEF DirOk
  <2>5. Dirs' \subseteq {d}
    BY <1>1, <2>0 DEF Dirs
  <2> QED
    BY <2>4, <2>5, DirPosIsNext
<1>16. OneDb'
  BY <1>1 DEF OneDb
<1>17. RecPhase'
  BY <1>1 DEF RecPhase, CopyPcs
<1>18. Phase'
  <2>1. SegsHere' = {} /\ shm'.active = {}
    BY <1>1, <1>5, NoCkShape DEF SegsHere, TInv, PosInv, OneDb, AllSegs
  <2> QED
    BY <1>1, <1>5, <2>1 DEF TInv, PosInv, Phase
<1>19. CkPos' /\ CompPhase'
  BY <1>1, <1>5, StoppedPos
<1>20. Bound'
  <2>1. \A j \in Lines : ends[j] + 0 <= Len(wal) + taken + 1 /\ ends[j] \in Nat
    BY <1>5, NoCkShape, Bounds DEF TInv, PosInv, Bound, Shape, PgShape
  <2>2. Len(wal) \in Nat /\ taken \in Nat
    BY DEF TInv, Shape, PgShape, PosInv, Bound
  <2>3. LsnOf(b.ckpt) <= Len(wal) + taken + 1
    BY <1>8, <2>1, <2>2
  <2>4. \A j \in Lines : ends'[j] <= Len(wal) + taken + 1 /\ ends'[j] \in Nat
    BY <1>1, <1>8, <2>1, <2>2, <2>3 DEF TInv, Shape, PgShape
  <2>5. ck'.pc # "flushed"
    BY <1>1, <1>5, NoCkShape
  <2>6. \A j \in Lines : ends'[j] + (IF ck'.pc = "flushed" THEN 1 ELSE 0) <= Len(wal') + taken' + 1
    BY <1>1, <2>4, <2>5
  <2> QED
    BY <1>1, <1>6, <1>7, <2>6 DEF TInv, PosInv, Bound
<1> QED
  BY <1>11, <1>12, <1>14, <1>15, <1>16, <1>17, <1>18, <1>19, <1>20 DEF PosInv

\* The steps of a recovery that do not touch the store.
LEMMA ToolPos ==
  ASSUME TInv, Shape', pg = "down", UNCHANGED <<pg, db, wal, ends, ck, comp, cache, shm, segs, bases, backups, taken>>,
         recovers' \in 0..MaxRecovers, MaxTl <= MaxTl',
         AllSegs' \subseteq AllSegs, Manifests' \subseteq Manifests, Dirs' \subseteq Dirs
  PROVE  SegPos' /\ BkPos' /\ DirPos' /\ ManPos' /\ OneDb' /\ Bound' /\ CkPos' /\ CompPhase'
<1>1. ck = NoCk /\ comp = NoComp
  BY DEF TInv, PosInv, Phase
<1>2. Grow
  BY UsedLines DEF Grow, Grows
<1> QED
  BY <1>1, <1>2, SegPosKept, BkPosKept, DirPosKept, ManPosKept, OneDbKept, BoundKept, StoppedPos

LEMMA NewTimelineMax ==
  ASSUME TInv, recovers' = recovers, NewTimeline' => NewTimeline
  PROVE  MaxTl <= MaxTl' /\ recovers' \in 0..MaxRecovers
<1>1. recovers \in 0..MaxRecovers /\ recovers \in Nat
  BY DEF TInv, PosInv, Bound
<1> QED
  BY <1>1 DEF MaxTl

LEMMA RecoverBeginPos ==
  ASSUME TInv, Shape', RecoverBegin
  PROVE  PosInv'
<1>1. /\ pg = "down" /\ rec.pc = "idle" /\ pgdata.ok /\ pgdata.target = 0
      /\ IF bak = {} THEN recovers < MaxRecovers /\ recovers' = recovers + 1 ELSE recovers' = recovers
      /\ UNCHANGED <<pg, db, wal, line, ends, pgdata, bak, ck, comp, cache, shm, objs, segs, bases, backups,
                     tikm, spill, gone, spoiled, abandoned, taken>>
  BY DEF RecoverBegin, Event, pgVars, memory, storage, local, history
<1>2. PICK l \in Lsns :
        /\ InWindow(l) /\ UsableAt(l) # {}
        /\ rec' = [pc |-> "snapshot", b |-> Newest(UsableAt(l)), target |-> l, saved |-> {}, lost |-> {}]
  BY DEF RecoverBegin
<1>3. PICK b : b = Newest(UsableAt(l))
  OBVIOUS
<1>4. UsableAt(l) \subseteq BkSet /\ \A c \in UsableAt(l) : c.ckpt \in Ckpts /\ c.ckpt <= Ckpt(pgdata.tl, l)
                                                           /\ c.db = db /\ c \in backups
  BY DEF UsableAt, Backups, TInv, Shape, StoreShape, BkSet
<1>5. b \in UsableAt(l) /\ \A c \in UsableAt(l) : c.ckpt <= b.ckpt
  BY <1>2, <1>3, <1>4, NewestIs
<1>6. /\ rec'.pc = "snapshot" /\ rec'.b = b /\ rec'.target = l /\ rec'.saved = {} /\ rec'.lost = {}
  BY <1>2, <1>3
\* The window's first backup is usable, so that the newest is on the same timeline.
<1>7. TimelineOf(b.ckpt) = pgdata.tl /\ LsnOf(b.ckpt) <= l /\ l <= Lsn /\ SegsHere # {}
  <2> DEFINE mine == {c.ckpt : c \in {k \in Backups : TimelineOf(k.ckpt) = pgdata.tl}}
  <2>1. mine # {} /\ LsnOf(Min(mine)) <= l /\ l <= Lsn /\ SegsHere # {}
    BY <1>2 DEF InWindow
  <2>2. mine \subseteq Nat
    BY CkptsNat DEF Backups, TInv, Shape, StoreShape, BkSet
  <2>3. Min(mine) \in mine
    <3> HIDE DEF mine
    <3> QED
      BY <2>1, <2>2, LeastNat
  <2>4. PICK c \in Backups : TimelineOf(c.ckpt) = pgdata.tl /\ c.ckpt = Min(mine)
    BY <2>3
  <2> HIDE DEF mine
  <2>5. c.ckpt \in Ckpts
    BY DEF Backups, TInv, Shape, StoreShape, BkSet
  <2>6. pgdata.tl \in Nat /\ pgdata.tl <= MaxRecovers + 1
    BY <1>1, HereLine, RecoveryAssumption
  <2>7. /\ Ckpt(pgdata.tl, l) \in Ckpts /\ TimelineOf(Ckpt(pgdata.tl, l)) = pgdata.tl
        /\ LsnOf(Ckpt(pgdata.tl, l)) = l
    BY <2>6, CkptIn
  <2>8. c.ckpt <= Ckpt(pgdata.tl, l)
    BY <2>1, <2>4, <2>5, <2>7, CkptOrder
  <2>9. c.ckpt <= b.ckpt /\ b.ckpt <= Ckpt(pgdata.tl, l) /\ b.ckpt \in Ckpts
    BY <1>4, <1>5, <2>8 DEF UsableAt
  <2>10. TimelineOf(c.ckpt) < TimelineOf(b.ckpt) \/ TimelineOf(c.ckpt) = TimelineOf(b.ckpt)
    BY <2>5, <2>9, CkptOrder
  <2>12. TimelineOf(b.ckpt) < pgdata.tl \/ (TimelineOf(b.ckpt) = pgdata.tl /\ LsnOf(b.ckpt) <= l)
    BY <2>7, <2>9, CkptOrder
  <2>11. TimelineOf(b.ckpt) \in Nat
    BY <2>9, CkptBound
  <2> QED
    BY <2>1, <2>4, <2>6, <2>10, <2>11, <2>12
<1>8. recovers' \in 0..MaxRecovers /\ MaxTl <= MaxTl'
  <2>1. recovers \in 0..MaxRecovers /\ recovers \in Nat
    BY DEF TInv, PosInv, Bound
  <2>2. ~NewTimeline
    BY <1>1 DEF NewTimeline
  <2>3. NewTimeline' <=> bak = {}
    BY <1>1, <1>6 DEF NewTimeline
  <2> QED
    BY <1>1, <2>1, <2>2, <2>3, RecoveryAssumption DEF MaxTl
<1>9. AllSegs' \subseteq AllSegs /\ Manifests' \subseteq Manifests /\ Dirs' \subseteq Dirs
  BY <1>1, <1>6 DEF AllSegs, Manifests, Dirs
<1>10. SegPos' /\ BkPos' /\ DirPos' /\ ManPos' /\ OneDb' /\ Bound' /\ CkPos' /\ CompPhase'
  BY <1>1, <1>8, <1>9, ToolPos
<1>11. Phase'
  <2>1. tikm # {}
    BY <1>7 DEF TInv, PosInv, Phase
  <2> QED
    BY <1>1, <1>6, <2>1 DEF TInv, PosInv, Phase, SegsHere
<1>12. RecPhase'
  <2>1. b \in backups /\ b.db = db
    BY <1>4, <1>5
  <2>2. l <= ends[<<db, TimelineOf(b.ckpt)>>]
    BY <1>7 DEF Lsn, Here
  <2>3. \A d \in bak : d.target = 0
    BY DEF TInv, PosInv, RecPhase
  <2> QED
    BY <1>1, <1>6, <1>7, <2>1, <2>2, <2>3 DEF RecPhase, CopyPcs, SegsHere
<1> QED
  BY <1>10, <1>11, <1>12 DEF PosInv

LEMMA SnapshotPos ==
  ASSUME TInv, Shape', SnapshotStart \/ SnapshotEnd \/ Wipe \/ RollbackWipe
  PROVE  PosInv'
<1>1. /\ UNCHANGED <<pg, db, wal, line, ends, ck, comp, cache, shm, objs, segs, bases, backups,
                     tikm, spill, gone, spoiled, abandoned, taken, recovers>>
      /\ rec.pc \notin {"idle", "wait"}
  BY DEF SnapshotStart, SnapshotEnd, Wipe, RollbackWipe, memory, storage, local, history, counters
<1>2. pg = "down" /\ RecPhase /\ Phase
  BY <1>1 DEF TInv, PosInv, RecPhase
<1>3. rec \in RecSet /\ NoRec.pc = "idle" /\ NoRec.saved = {} /\ NoRec.lost = {} /\ ~Torn.ok /\ Torn.target = 0
  BY NoRecShape, TornShape DEF TInv, Shape, LocalShape
<1>4. CASE SnapshotStart
  <2>1. /\ rec.pc = "snapshot" /\ pgdata' = pgdata
        /\ \/ bak = {} /\ bak' = {Torn} /\ rec' = [rec EXCEPT !.pc = "copy"]
           \/ bak # {} /\ rec' = NoRec /\ bak' = bak
    BY <1>4 DEF SnapshotStart
  <2>2. \/ /\ bak = {} /\ bak' = {Torn} /\ rec'.pc = "copy"
           /\ rec'.b = rec.b /\ rec'.target = rec.target /\ rec'.saved = rec.saved /\ rec'.lost = rec.lost
        \/ bak # {} /\ bak' = bak /\ rec'.pc = "idle" /\ rec'.saved = {} /\ rec'.lost = {}
    BY <1>3, <2>1 DEF RecSet
  <2>3. NewTimeline' => NewTimeline
    BY <2>1, <2>2 DEF NewTimeline
  <2>4. AllSegs' \subseteq AllSegs /\ Manifests' \subseteq Manifests /\ Dirs' \subseteq Dirs
    BY <1>1, <1>3, <2>1, <2>2 DEF AllSegs, Manifests, Dirs
  <2>5. SegPos' /\ BkPos' /\ DirPos' /\ ManPos' /\ OneDb' /\ Bound' /\ CkPos' /\ CompPhase'
    BY <1>1, <1>2, <2>3, <2>4, NewTimelineMax, ToolPos
  <2>6. Phase'
    BY <1>1, <1>2, <2>1, <2>2 DEF Phase, SegsHere, RecPhase
  <2>7. RecPhase'
    BY <1>1, <1>2, <1>3, <2>1, <2>2 DEF RecPhase, CopyPcs, SegsHere
  <2> QED
    BY <2>5, <2>6, <2>7 DEF PosInv
<1>5. CASE SnapshotEnd
  <2>1. /\ rec.pc = "copy" /\ pgdata' = pgdata /\ bak' = {pgdata}
        /\ rec' = [rec EXCEPT !.pc = "wipe", !.saved = tikm]
    BY <1>5 DEF SnapshotEnd
  <2>2. /\ rec'.pc = "wipe" /\ rec'.b = rec.b /\ rec'.target = rec.target /\ rec'.saved = tikm /\ rec'.lost = rec.lost
    BY <1>3, <2>1 DEF RecSet
  <2>3. NewTimeline' => NewTimeline
    BY <2>1, <2>2 DEF NewTimeline
  <2>4. AllSegs' \subseteq AllSegs /\ Manifests' \subseteq Manifests /\ Dirs' \subseteq Dirs
    BY <1>1, <1>3, <2>1, <2>2 DEF AllSegs, Manifests, Dirs
  <2>5. SegPos' /\ BkPos' /\ DirPos' /\ ManPos' /\ OneDb' /\ Bound' /\ CkPos' /\ CompPhase'
    BY <1>1, <1>2, <2>3, <2>4, NewTimelineMax, ToolPos
  <2>6. tikm # {}
    BY <1>2, <2>1 DEF Phase
  <2>7. Phase'
    BY <1>1, <1>2, <2>1, <2>2, <2>6 DEF Phase, SegsHere
  <2>8. RecPhase'
    BY <1>1, <1>2, <2>1, <2>2, <2>6 DEF RecPhase, CopyPcs, SegsHere
  <2> QED
    BY <2>5, <2>7, <2>8 DEF PosInv
<1>6. CASE Wipe \/ RollbackWipe
  <2>1. /\ pgdata' = Torn /\ bak' = bak
        /\ \/ rec.pc = "wipe" /\ rec' = [rec EXCEPT !.pc = "materialize"]
           \/ rec.pc = "rollback" /\ rec' = [rec EXCEPT !.pc = "restore"]
    BY <1>6 DEF Wipe, RollbackWipe
  <2>2. /\ rec'.b = rec.b /\ rec'.target = rec.target /\ rec'.saved = rec.saved /\ rec'.lost = rec.lost
        /\ \/ rec.pc = "wipe" /\ rec'.pc = "materialize"
           \/ rec.pc = "rollback" /\ rec'.pc = "restore"
    BY <1>3, <2>1 DEF RecSet
  <2>3. NewTimeline' => NewTimeline
    BY <1>3, <2>1, <2>2 DEF NewTimeline
  <2>4. AllSegs' \subseteq AllSegs /\ Manifests' \subseteq Manifests /\ Dirs' \subseteq Dirs
    BY <1>1, <1>3, <2>1, <2>2 DEF AllSegs, Manifests, Dirs
  <2>5. SegPos' /\ BkPos' /\ DirPos' /\ ManPos' /\ OneDb' /\ Bound' /\ CkPos' /\ CompPhase'
    BY <1>1, <1>2, <2>3, <2>4, NewTimelineMax, ToolPos
  <2>6. tikm # {}
    BY <1>2, <2>2 DEF Phase
  <2>7. Phase'
    BY <1>1, <1>2, <1>3, <2>1, <2>2, <2>6 DEF Phase, SegsHere
  <2>8. RecPhase'
    BY <1>1, <1>2, <1>3, <2>1, <2>2, <2>6 DEF RecPhase, CopyPcs, SegsHere
  <2> QED
    BY <2>5, <2>7, <2>8 DEF PosInv
<1> QED
  BY <1>4, <1>5, <1>6

LEMMA MaterializePos ==
  ASSUME TInv, Shape', Materialize
  PROVE  PosInv'
<1> DEFINE k == AnchorKey(rec.b.ckpt, db)
<1>1. /\ AtOrBefore(rec.b.ckpt, db) # {} /\ tikm' = {bases[k]} /\ rec.pc = "materialize"
      /\ rec' = [rec EXCEPT !.pc = "delete"]
      /\ UNCHANGED <<pg, db, wal, line, ends, pgdata, bak, ck, comp, cache, shm, objs, segs, bases, backups,
                     spill, gone, abandoned, taken, recovers>>
  BY DEF Materialize, pgVars, memory, storage, counters
<1>2. pg = "down" /\ RecPhase /\ Phase /\ rec \in RecSet
  BY <1>1 DEF TInv, PosInv, RecPhase, Shape, LocalShape
<1>3. k \in DOMAIN bases
  <2>1. DOMAIN bases \subseteq Prefixes
    BY FnsDef DEF TInv, Shape, StoreShape
  <2>2. rec.b.ckpt \in Ckpts
    BY <1>2 DEF RecSet, BkSet
  <2> QED
    BY <1>1, <2>1, <2>2, AnchorIs
<1> HIDE DEF k
<1>4. rec'.b = rec.b /\ rec'.target = rec.target /\ rec'.saved = rec.saved /\ rec'.lost = rec.lost /\ rec'.pc = "delete"
  BY <1>1, <1>2 DEF RecSet
<1>5. NewTimeline' => NewTimeline
  BY <1>1, <1>4 DEF NewTimeline
<1>6. AllSegs' \subseteq AllSegs /\ Manifests' \subseteq Manifests /\ Dirs' \subseteq Dirs
  <2>1. bases[k] \in Range(bases)
    BY <1>3 DEF Range
  <2> QED
    BY <1>1, <1>4, <2>1 DEF AllSegs, Manifests, Dirs
<1>7. SegPos' /\ BkPos' /\ DirPos' /\ ManPos' /\ OneDb' /\ Bound' /\ CkPos' /\ CompPhase'
  BY <1>1, <1>2, <1>5, <1>6, NewTimelineMax, ToolPos
<1>8. Phase'
  BY <1>1, <1>2, <1>4 DEF Phase, SegsHere
<1>9. RecPhase'
  BY <1>1, <1>2, <1>4 DEF RecPhase, CopyPcs, SegsHere
<1> QED
  BY <1>7, <1>8, <1>9 DEF PosInv

LEMMA DeleteAllPos ==
  ASSUME TInv, Shape', DeleteAllSegments
  PROVE  PosInv'
<1>1. /\ segs' = segs \ SegsHere /\ gone' = gone \cup SegsHere
      /\ rec' = [rec EXCEPT !.pc = "configure", !.lost = gone \cup SegsHere] /\ rec.pc = "delete"
      /\ UNCHANGED <<pg, db, wal, line, ends, pgdata, bak, ck, comp, cache, shm, objs, bases, backups,
                     tikm, spill, spoiled, abandoned, taken, recovers>>
  BY DEF DeleteAllSegments, pgVars, memory, local, counters
<1>2. pg = "down" /\ RecPhase /\ Phase /\ rec \in RecSet
  BY <1>1 DEF TInv, PosInv, RecPhase, Shape, LocalShape
<1>3. /\ rec'.b = rec.b /\ rec'.target = rec.target /\ rec'.saved = rec.saved
      /\ rec'.lost = gone \cup SegsHere /\ rec'.pc = "configure"
  BY <1>1, <1>2 DEF RecSet
<1>4. NewTimeline' => NewTimeline
  BY <1>1, <1>3 DEF NewTimeline
<1>5. AllSegs' \subseteq AllSegs /\ Manifests' \subseteq Manifests /\ Dirs' \subseteq Dirs
  BY <1>1, <1>3 DEF AllSegs, Manifests, Dirs, SegsHere
<1>6. MaxTl <= MaxTl' /\ recovers' \in 0..MaxRecovers
  BY <1>1, <1>4, NewTimelineMax
<1>7. Grow
  BY <1>1, <1>6, UsedLines DEF Grow, Grows
<1>8. SegPos' /\ BkPos' /\ DirPos' /\ ManPos' /\ OneDb' /\ Bound'
  BY <1>1, <1>5, <1>6, <1>7, SegPosKept, BkPosKept, DirPosKept, ManPosKept, OneDbKept, BoundKept
<1>9. CkPos' /\ CompPhase'
  BY <1>1, <1>2, StoppedPos DEF Phase
<1>10. SegsHere' = {} /\ SegsHere # {}
  BY <1>1, <1>2 DEF SegsHere, RecPhase
<1>11. Phase'
  BY <1>1, <1>2, <1>3, <1>10 DEF Phase
<1>12. RecPhase'
  BY <1>1, <1>2, <1>3, <1>10 DEF RecPhase, CopyPcs
<1> QED
  BY <1>8, <1>9, <1>11, <1>12 DEF PosInv

LEMMA ConfigurePos ==
  ASSUME TInv, Shape', Configure
  PROVE  PosInv'
<1>1. /\ pgdata' = [ok |-> TRUE, tl |-> TimelineOf(rec.b.ckpt), ckpt |-> rec.b.ckpt, redo |-> rec.b.redo,
                    target |-> rec.target]
      /\ rec' = [rec EXCEPT !.pc = "start"] /\ rec.pc = "configure"
      /\ UNCHANGED <<pg, db, wal, line, ends, bak, ck, comp, cache, shm, objs, segs, bases, backups,
                     tikm, spill, gone, spoiled, abandoned, taken, recovers>>
  BY DEF Configure, memory, storage, local, history, counters
<1>2. pg = "down" /\ RecPhase /\ Phase /\ rec \in RecSet
  BY <1>1 DEF TInv, PosInv, RecPhase, Shape, LocalShape
<1>3. rec'.b = rec.b /\ rec'.target = rec.target /\ rec'.saved = rec.saved /\ rec'.lost = rec.lost /\ rec'.pc = "start"
  BY <1>1, <1>2 DEF RecSet
<1>4. NewTimeline' => NewTimeline
  BY <1>1 DEF NewTimeline
<1>5. MaxTl <= MaxTl' /\ recovers' \in 0..MaxRecovers
  BY <1>1, <1>4, NewTimelineMax
<1>6. Grow
  BY <1>1, <1>5, UsedLines DEF Grow, Grows
<1>7. AllSegs' \subseteq AllSegs /\ Manifests' \subseteq Manifests
  BY <1>1, <1>3 DEF AllSegs, Manifests
<1>8. SegPos' /\ BkPos' /\ ManPos' /\ OneDb' /\ Bound'
  BY <1>1, <1>5, <1>6, <1>7, SegPosKept, BkPosKept, ManPosKept, OneDbKept, BoundKept
<1>9. CkPos' /\ CompPhase'
  BY <1>1, <1>2, StoppedPos DEF Phase
<1>10. /\ rec.b \in backups /\ rec.b.db = db /\ LsnOf(rec.b.ckpt) <= rec.target
       /\ rec.target <= ends[<<db, TimelineOf(rec.b.ckpt)>>] /\ SegsHere = {}
  BY <1>1, <1>2 DEF RecPhase
<1>11. /\ TimelineOf(rec.b.ckpt) \in 1..MaxTl /\ rec.b.redo < LsnOf(rec.b.ckpt) /\ 1 <= LsnOf(rec.b.ckpt)
       /\ TimelineOf(rec.b.ckpt) \in Nat /\ rec.target \in Nat /\ LsnOf(rec.b.ckpt) \in Nat
       /\ LsnOf(rec.b.ckpt) <= ends[<<db, TimelineOf(rec.b.ckpt)>>]
  <2>1. Valid(rec.b.ckpt, db) /\ rec.b.redo < LsnOf(rec.b.ckpt)
    BY <1>10 DEF TInv, PosInv, BkPos
  <2>2. rec.target \in Nat /\ rec.b.ckpt \in Ckpts
    BY <1>2, Bounds DEF RecSet, BkSet
  <2> QED
    BY <2>1, <2>2, CkptBound DEF Valid
<1>12. DirPos'
  <2>0. PICK e : e = pgdata'
    OBVIOUS
  <2>1. /\ e.tl = TimelineOf(rec.b.ckpt) /\ e.ckpt = rec.b.ckpt /\ e.redo = rec.b.redo /\ e.target = rec.target
    BY <1>1, <2>0
  <2>2. DirOk(e)
    BY <1>10, <1>11, <2>1 DEF DirOk
  <2>3. e \in DirSet
    BY <2>0 DEF Shape, PgShape
  <2>4. Dirs' \subseteq Dirs \cup {e}
    BY <1>1, <2>0 DEF Dirs
  <2>5. \A d \in Dirs' : d \in DirSet /\ DirOk(d)
    BY <2>2, <2>3, <2>4, DirPosIs, DirsShape DEF TInv, PosInv
  <2>6. \A d \in Dirs' : DirOk(d)'
    BY <1>1, <1>5, <1>6, <2>5, DirKept
  <2> QED
    BY <2>6, DirPosIsNext
<1>13. rec.target # 0 /\ SegsHere' = {}
  BY <1>1, <1>10, <1>11 DEF SegsHere
<1>14. Phase'
  BY <1>1, <1>2, <1>3, <1>13 DEF Phase
<1>15. RecPhase'
  BY <1>1, <1>2, <1>3, <1>13 DEF RecPhase, CopyPcs
<1> QED
  BY <1>8, <1>9, <1>12, <1>14, <1>15 DEF PosInv

LEMMA RecoverEndPos ==
  ASSUME TInv, Shape', RecoverDone \/ RecoverFail \/ RollbackRestore \/ RollbackDone \/ ToolCrash
  PROVE  PosInv'
<1>1. rec \in RecSet /\ RecPhase /\ Phase /\ NoRec.pc = "idle" /\ NoRec.saved = {} /\ NoRec.lost = {}
  BY NoRecShape DEF TInv, Shape, LocalShape, PosInv
<1>2. CASE RecoverDone \/ ToolCrash
  <2>1. /\ rec' = NoRec /\ rec.pc # "idle"
        /\ bak' = {} \/ bak' = bak
        /\ (rec.pc = "wait" /\ pg = "down") \/ bak' = bak
        /\ UNCHANGED <<pg, db, wal, line, ends, pgdata, ck, comp, cache, shm, objs, segs, bases, backups,
                       tikm, spill, gone, spoiled, abandoned, taken, recovers>>
    BY <1>2 DEF RecoverDone, Cleanup, ToolCrash, pgVars, memory, storage, local, history, counters
  <2>2. NewTimeline' => NewTimeline
    BY <1>1, <2>1 DEF NewTimeline
  <2>3. MaxTl <= MaxTl' /\ recovers' \in 0..MaxRecovers
    BY <2>1, <2>2, NewTimelineMax
  <2>4. Grow
    BY <2>1, <2>3, UsedLines DEF Grow, Grows
  <2>5. AllSegs' \subseteq AllSegs /\ Manifests' \subseteq Manifests /\ Dirs' \subseteq Dirs
    BY <1>1, <2>1 DEF AllSegs, Manifests, Dirs
  <2>6. SegPos' /\ BkPos' /\ DirPos' /\ ManPos' /\ OneDb' /\ Bound'
    BY <2>1, <2>3, <2>4, <2>5, SegPosKept, BkPosKept, DirPosKept, ManPosKept, OneDbKept, BoundKept
  <2>7. CkPos' /\ CompPhase'
    <3>1. \A c : Valid(c, db) => Valid(c, db)'
      <4>1. db \in {0, 1}
        BY DEF TInv, Shape, PgShape
      <4> QED
        BY <2>1, <2>3, <2>4, <4>1, ValidKept DEF Grow, Valid
    <3>2. Lsn' = Lsn
      BY <2>1 DEF Lsn, Here
    <3>3. Valid(ck.ckpt, db) => Valid(ck.ckpt, db)'
      BY <2>1, <3>1 DEF Valid
    <3> QED
      BY <2>1, <3>2, <3>3 DEF TInv, PosInv, CkPos, CompPhase
  <2>8. tikm # {}
    BY <1>1, <2>1 DEF Phase
  <2>9. Phase'
    BY <1>1, <2>1, <2>8 DEF Phase, SegsHere
  <2>10. RecPhase'
    BY <1>1, <2>1 DEF RecPhase, CopyPcs
  <2> QED
    BY <2>6, <2>7, <2>9, <2>10 DEF PosInv
<1>3. CASE RecoverFail
  <2>1. /\ pg' = "down" /\ shm' = Fresh /\ cache' = NoItems /\ pg # "up"
        /\ rec' = [rec EXCEPT !.pc = "rollback"]
        /\ rec.pc \in {"wipe", "materialize", "delete", "configure", "start", "wait"}
        /\ UNCHANGED <<db, wal, line, ends, pgdata, bak, ck, comp, objs, segs, bases, backups, tikm, spill,
                       gone, spoiled, abandoned, taken, recovers>>
    BY <1>3 DEF RecoverFail, StopPg, storage, local, history, counters
  <2>2. /\ rec'.b = rec.b /\ rec'.target = rec.target /\ rec'.saved = rec.saved /\ rec'.lost = rec.lost
        /\ rec'.pc = "rollback" /\ ck = NoCk /\ comp = NoComp
    BY <1>1, <2>1 DEF RecSet, Phase
  <2>3. NewTimeline' => NewTimeline
    BY <2>1, <2>2 DEF NewTimeline
  <2>4. MaxTl <= MaxTl' /\ recovers' \in 0..MaxRecovers
    BY <2>1, <2>3, NewTimelineMax
  <2>5. Grow
    BY <2>1, <2>4, UsedLines DEF Grow, Grows
  <2>6. AllSegs' \subseteq AllSegs /\ Manifests' \subseteq Manifests /\ Dirs' \subseteq Dirs
    BY <2>1, <2>2, NoCkShape DEF AllSegs, Manifests, Dirs
  <2>7. SegPos' /\ BkPos' /\ DirPos' /\ ManPos' /\ OneDb' /\ Bound' /\ CkPos' /\ CompPhase'
    BY <2>1, <2>2, <2>4, <2>5, <2>6, SegPosKept, BkPosKept, DirPosKept, ManPosKept, OneDbKept, BoundKept,
       StoppedPos
  <2>8. tikm # {}
    BY <1>1, <2>1 DEF Phase
  <2>9. Phase'
    BY <1>1, <2>1, <2>2, <2>8, NoCkShape DEF Phase, SegsHere
  <2>10. RecPhase'
    BY <1>1, <2>1, <2>2 DEF RecPhase, CopyPcs
  <2> QED
    BY <2>7, <2>9, <2>10 DEF PosInv
<1>4. CASE RollbackRestore
  <2>1. /\ pgdata' = CHOOSE d \in bak : TRUE
        /\ rec' = [rec EXCEPT !.pc = "manifest"]
        /\ gone' = gone \cup rec.lost
        /\ UNCHANGED <<pg, db, wal, line, ends, bak, ck, comp, cache, shm, objs, segs, bases, backups, tikm, spill,
                       abandoned, taken, recovers>>
        /\ rec.pc = "restore"
    BY <1>4 DEF RollbackRestore, memory, storage, local, counters
  <2>2. pgdata' \in bak /\ pg = "down" /\ \A d \in bak : d.ok /\ d.target = 0
    BY <1>1, <2>1 DEF RecPhase, CopyPcs
  <2>3. /\ rec'.b = rec.b /\ rec'.target = rec.target /\ rec'.saved = rec.saved /\ rec'.lost = rec.lost
        /\ rec'.pc = "manifest"
    BY <1>1, <2>1 DEF RecSet
  <2>4. NewTimeline' => NewTimeline
    BY <2>1, <2>2, <2>3 DEF NewTimeline
  <2>5. AllSegs' \subseteq AllSegs /\ Manifests' \subseteq Manifests /\ Dirs' \subseteq Dirs
    BY <2>1, <2>2, <2>3 DEF AllSegs, Manifests, Dirs
  <2>6. SegPos' /\ BkPos' /\ DirPos' /\ ManPos' /\ OneDb' /\ Bound' /\ CkPos' /\ CompPhase'
    BY <2>1, <2>2, <2>4, <2>5, NewTimelineMax, ToolPos
  <2>7. tikm # {}
    BY <1>1, <2>1 DEF Phase
  <2>8. Phase'
    BY <1>1, <2>1, <2>2, <2>3, <2>7 DEF Phase, SegsHere
  <2>9. RecPhase'
    BY <1>1, <2>1, <2>2, <2>3 DEF RecPhase, CopyPcs
  <2> QED
    BY <2>6, <2>8, <2>9 DEF PosInv
<1>5. CASE RollbackDone
  <2>1. /\ tikm' = IF rec.saved # {} THEN rec.saved ELSE tikm
        /\ bak' = {} /\ rec' = NoRec /\ rec.pc = "manifest"
        /\ UNCHANGED <<pg, db, wal, line, ends, pgdata, ck, comp, cache, shm, objs, segs, bases, backups, spill,
                       gone, spoiled, abandoned, taken, recovers>>
    BY <1>5 DEF RollbackDone, Cleanup, memory, storage, history, counters
  <2>2. pg = "down" /\ pgdata.ok /\ pgdata.target = 0
    BY <1>1, <2>1 DEF RecPhase, CopyPcs
  <2>3. NewTimeline' => NewTimeline
    BY <1>1, <2>1 DEF NewTimeline
  <2>4. AllSegs' \subseteq AllSegs /\ Manifests' \subseteq Manifests /\ Dirs' \subseteq Dirs
    BY <1>1, <2>1 DEF AllSegs, Manifests, Dirs
  <2>5. SegPos' /\ BkPos' /\ DirPos' /\ ManPos' /\ OneDb' /\ Bound' /\ CkPos' /\ CompPhase'
    BY <2>1, <2>2, <2>3, <2>4, NewTimelineMax, ToolPos
  <2>6. tikm # {} /\ tikm' # {}
    BY <1>1, <2>1 DEF Phase
  <2>7. Phase'
    BY <1>1, <2>1, <2>2, <2>6 DEF Phase, SegsHere
  <2>8. RecPhase'
    BY <1>1, <2>1 DEF RecPhase, CopyPcs
  <2> QED
    BY <2>5, <2>7, <2>8 DEF PosInv
<1> QED
  BY <1>2, <1>3, <1>4, <1>5

LEMMA NextPos == TInv /\ [Next]_vars => PosInv'
<1> SUFFICES ASSUME TInv, [Next]_vars PROVE PosInv'
  OBVIOUS
<1>0. Shape'
  BY NextShape
<1>1. CASE UNCHANGED vars
  BY <1>1, FramePos DEF TInv
<1>2. CASE Recover
  BY <1>0, <1>2, RecoverBeginPos, SnapshotPos, MaterializePos, DeleteAllPos, ConfigurePos, RecoverEndPos
  DEF Recover
<1>3. CASE Next /\ ~Recover
  BY <1>0, <1>3, WritePos, EvictPos, SpillPos, LoadManifestPos, CheckpointStartPos, CommitPos,
     CheckpointEndPos, CompactPutPos, CompactRestPos, CompactDeletePos, CrashPos, StartPos, PromotePos,
     BranchPos DEF Next, Compact
<1> QED
  BY <1>1, <1>2, <1>3

\* Every checkpoint position that segments, backups and PGDATA carry lies on a timeline that
\* exists, at or before its end, and every manifest's key and header on a timeline that
\* exists; the phases of PostgreSQL, of the checkpoint and of tiko_pitr recover fit together
\* (store.rs, tiko_pitr.rs).
THEOREM Positions == Spec => []TInv
<1>1. Init => TInv
  BY InitShape, InitPos DEF TInv
<1>2. TInv /\ [Next]_vars => TInv'
  BY NextShape, NextPos DEF TInv
<1> QED
  BY <1>1, <1>2, PTL DEF Spec

-----------------------------------------------------------------------------
(* References *)

\* The head that a restart of the database would find.
NextHead == IF SegsHere = {} THEN 0 ELSE Newest(SegsHere).ckpt

HeadInv ==
  spoiled # Items =>
    /\ pg # "down" => shm.head = NextHead
    /\ pgdata.ok => \A s \in SegsHere : TimelineOf(s.ckpt) <= pgdata.tl

CompHead == comp.pc # "idle" => \E s \in SegsHere : comp.key <= s.ckpt

Found(c, p) == c \in Chunks \ spoiled => p \in DOMAIN objs[c]

\* The spill file belongs to the history that the database is on or may be rolled back to.
SpillLive == \/ pgdata.ok /\ (pgdata.target = 0 \/ pg # "down")
             \/ rec.pc \in CopyPcs /\ rec.lost = {}

ManRefs   == \A m \in Manifests : \A c \in DOMAIN m.refs : Found(c, m.refs[c])
SegRefs   == \A s \in AllSegs : \A c \in s.chunks : Found(c, <<s.db, s.prev>>)
DraftRefs == \A c \in DOMAIN shm.draft : Found(c, <<db, shm.head>>)
SpillRefs == SpillLive => \A c \in DOMAIN spill : Found(c, <<db, NextHead>>)

RefInv == HeadInv /\ CompHead /\ ManRefs /\ SegRefs /\ DraftRefs /\ SpillRefs

\* What is written back goes to the head's prefix.
LEMMA WriteBackObjs ==
  ASSUME Shape, NEW I \in SUBSET DOMAIN cache, WriteBack(I)
  PROVE  /\ \A c \in Chunks : DOMAIN objs[c] \subseteq DOMAIN objs'[c]
         /\ \A c \in Chunks : \A p \in DOMAIN objs[c] : p # <<db, shm.head>> => objs'[c][p] = objs[c][p]
         /\ \A c \in Chunks \cap I : <<db, shm.head>> \in DOMAIN objs'[c] /\ objs'[c][<<db, shm.head>>] = cache[c]
         /\ \A c \in Chunks \ I : objs'[c] = objs[c]
         /\ DOMAIN shm'.draft = DOMAIN shm.draft \cup I
         /\ \A i \in I : shm'.draft[i] = IF i \in Chunks THEN {} ELSE cache[i]
         /\ \A i \in DOMAIN shm.draft \ I : shm'.draft[i] = shm.draft[i]
         /\ shm'.head = shm.head /\ shm'.base = shm.base /\ shm'.redo = shm.redo
         /\ shm'.active = shm.active /\ shm'.spilled = shm.spilled
         /\ DOMAIN cache' = DOMAIN cache \ I /\ \A i \in DOMAIN cache' : cache'[i] = cache[i]
<1> DEFINE f == [i \in I |-> IF i \in Chunks THEN {} ELSE cache[i]]
           h == <<db, shm.head>>
<1>1. objs' = [c \in Chunks |-> IF c \in I THEN Put(objs[c], h, cache[c]) ELSE objs[c]]
  BY DEF WriteBack
<1>2. shm' = [shm EXCEPT !.draft = Override(f, shm.draft)]
  BY DEF WriteBack
<1>3. cache' = Restrict(cache, DOMAIN cache \ I)
  BY DEF WriteBack
<1>4. DOMAIN f = I /\ \A i \in I : f[i] = IF i \in Chunks THEN {} ELSE cache[i]
  OBVIOUS
<1>5. shm \in ShmSet /\ cache \in Fns(Items, Content)
  BY DEF Shape, MemShape
<1>6. \A c \in Chunks \cap I : objs'[c] = Put(objs[c], h, cache[c])
  BY <1>1
<1>7. \A c \in Chunks \ I : objs'[c] = objs[c]
  BY <1>1
<1> HIDE DEF f, h
<1>8. /\ DOMAIN Override(f, shm.draft) = DOMAIN shm.draft \cup I
      /\ \A i \in I : Override(f, shm.draft)[i] = f[i]
      /\ \A i \in DOMAIN shm.draft \ I : Override(f, shm.draft)[i] = shm.draft[i]
  BY <1>4 DEF Override
<1>9. /\ shm'.draft = Override(f, shm.draft)
      /\ shm'.head = shm.head /\ shm'.base = shm.base /\ shm'.redo = shm.redo
      /\ shm'.active = shm.active /\ shm'.spilled = shm.spilled
  BY <1>2, <1>5 DEF ShmSet
<1>10. DOMAIN cache' = DOMAIN cache \ I /\ \A i \in DOMAIN cache' : cache'[i] = cache[i]
  BY <1>3 DEF Restrict
<1>11. \A c \in Chunks \cap I : /\ DOMAIN objs'[c] = DOMAIN objs[c] \cup {h} /\ objs'[c][h] = cache[c]
                                /\ \A p \in DOMAIN objs[c] : p # h => objs'[c][p] = objs[c][p]
  BY <1>6 DEF Put
<1>12. \A c \in Chunks : /\ DOMAIN objs[c] \subseteq DOMAIN objs'[c]
                         /\ \A p \in DOMAIN objs[c] : p # h => objs'[c][p] = objs[c][p]
  BY <1>7, <1>11
<1>13. \A i \in I : shm'.draft[i] = IF i \in Chunks THEN {} ELSE cache[i]
  BY <1>4, <1>8, <1>9
<1> QED
  BY <1>7, <1>8, <1>9, <1>10, <1>11, <1>12, <1>13 DEF h

\* Objects are only added, and spoiled items too.
LEMMA Monotone ==
  ASSUME TInv, Shape', [Next]_vars
  PROVE  /\ spoiled \subseteq spoiled' /\ spoiled' \subseteq Items
         /\ \A c \in Chunks : DOMAIN objs[c] \subseteq DOMAIN objs'[c]
         /\ \A c \in Chunks : \A p \in DOMAIN objs[c] : p # <<db, shm.head>> => objs'[c][p] = objs[c][p]
<1>1. Shape /\ spoiled \subseteq Items /\ spoiled' \subseteq Items
  BY DEF TInv, Shape, LocalShape
<1>2. objs' = objs \/ \E I \in SUBSET DOMAIN cache : WriteBack(I)
  <2>1. ASSUME NEW i \in Items, Evict(i) PROVE WriteBack({i}) /\ {i} \in SUBSET DOMAIN cache
    BY <2>1 DEF Evict
  <2>2. ASSUME NEW kind, CheckpointStart(kind) PROVE WriteBack(DOMAIN cache)
    BY <2>2 DEF CheckpointStart
  <2>3. CASE UNCHANGED vars
    BY <2>3 DEF vars, storage
  <2>4. CASE Recover
    BY <2>4 DEF Recover, RecoverBegin, SnapshotStart, SnapshotEnd, Wipe, Materialize, DeleteAllSegments,
       Configure, RecoverDone, RecoverFail, RollbackWipe, RollbackRestore, RollbackDone, ToolCrash, storage
  <2>5. CASE Compact
    BY <2>5 DEF Compact, CompactPut, CompactPublish, CompactAdvance, CompactDelete, CompactFail, storage
  <2>6. ASSUME NEW i \in Items, Write(i) PROVE objs' = objs
    BY <2>6 DEF Write, storage
  <2>7. CASE Spill \/ LoadManifest \/ Commit \/ NoNewSegments \/ CheckpointEnd
    BY <2>7 DEF Spill, LoadManifest, Commit, NoNewSegments, CheckpointEnd, storage
  <2>8. CASE Crash \/ Start \/ Promote \/ Branch
    BY <2>8 DEF Crash, Start, Promote, Branch, storage
  <2> QED
    BY <2>1, <2>2, <2>3, <2>4, <2>5, <2>6, <2>7, <2>8 DEF Next
<1>3. spoiled \subseteq spoiled'
  <2>1. CASE UNCHANGED vars
    BY <2>1 DEF vars, history
  <2>2. CASE Recover
    BY <1>1, <2>2 DEF Recover, RecoverBegin, SnapshotStart, SnapshotEnd, Wipe, Materialize, DeleteAllSegments,
       Configure, RecoverDone, RecoverFail, RollbackWipe, RollbackRestore, RollbackDone, ToolCrash, history
  <2>3. CASE Compact
    BY <2>3 DEF Compact, CompactPut, CompactPublish, CompactAdvance, CompactDelete, CompactFail, history
  <2>4. ASSUME NEW i \in Items, Write(i) \/ Evict(i) PROVE spoiled' = spoiled
    BY <2>4 DEF Write, Evict, history
  <2>5. ASSUME NEW kind, CheckpointStart(kind) PROVE spoiled' = spoiled
    BY <2>5 DEF CheckpointStart, history
  <2>6. CASE Spill \/ LoadManifest \/ Commit \/ NoNewSegments \/ CheckpointEnd
    BY <2>6 DEF Spill, LoadManifest, Commit, NoNewSegments, CheckpointEnd, history
  <2>7. CASE Crash \/ Start \/ Promote \/ Branch
    BY <2>7 DEF Crash, Start, Promote, Branch, history
  <2> QED
    BY <2>1, <2>2, <2>3, <2>4, <2>5, <2>6, <2>7 DEF Next
<1> QED
  BY <1>1, <1>2, <1>3, WriteBackObjs

\* Steps that leave the segments and the head alone.
HeadStays ==
  /\ segs' = segs /\ db' = db
  /\ pgdata'.ok => pgdata.ok /\ pgdata'.tl = pgdata.tl
  /\ pg' # "down" => pg # "down" /\ shm'.head = shm.head

LEMMA NextHeadIs ==
  ASSUME TInv
  PROVE  /\ NextHead \in Ckpts /\ \A s \in SegsHere : s.ckpt <= NextHead
         /\ SegsHere = {} => NextHead = 0
         /\ SegsHere # {} => \E s \in SegsHere : NextHead = s.ckpt
<1>1. \A s \in SegsHere : s.ckpt \in Ckpts
  BY DEF SegsHere, TInv, Shape, StoreShape, SegSet
<1>2. SegsHere # {} => Newest(SegsHere) \in SegsHere /\ \A s \in SegsHere : s.ckpt <= Newest(SegsHere).ckpt
  BY <1>1, NewestIs
<1>3. CASE SegsHere = {}
  BY <1>3, CkptsNat DEF NextHead
<1>4. CASE SegsHere # {}
  BY <1>1, <1>2, <1>4 DEF NextHead
<1> QED
  BY <1>3, <1>4

\* A head that is the newest of the segments is the next one.
LEMMA HeadIs ==
  ASSUME NEW s \in segs, s.db = db, \A r \in SegsHere : r.ckpt <= s.ckpt /\ r.ckpt \in Ckpts
  PROVE  NextHead = s.ckpt
<1>1. s \in SegsHere
  BY DEF SegsHere
<1>2. Newest(SegsHere) \in SegsHere /\ \A r \in SegsHere : r.ckpt <= Newest(SegsHere).ckpt
  BY <1>1, NewestIs
<1>3. s.ckpt <= Newest(SegsHere).ckpt /\ Newest(SegsHere).ckpt <= s.ckpt
      /\ s.ckpt \in Nat /\ Newest(SegsHere).ckpt \in Nat
  BY <1>1, <1>2, CkptsNat
<1> QED
  BY <1>1, <1>3 DEF NextHead

HeadsAre == \A s \in segs : s.db = db /\ (\A r \in SegsHere : r.ckpt <= s.ckpt) => NextHead = s.ckpt

LEMMA HeadsOk == Shape => HeadsAre
<1> SUFFICES ASSUME Shape, NEW s \in segs, s.db = db, \A r \in SegsHere : r.ckpt <= s.ckpt
             PROVE  NextHead = s.ckpt
  BY DEF HeadsAre
<1>1. \A r \in SegsHere : r.ckpt \in Ckpts
  BY DEF SegsHere, Shape, StoreShape, SegSet
<1> QED
  BY <1>1, HeadIs

LEMMA HeadsNext == Shape' => HeadsAre'
  BY HeadsOk, PTL

LEMMA QuietHead ==
  ASSUME TInv, [Next]_vars, ~Commit, ~CompactDelete, ~Start, ~Promote, ~Branch, ~DeleteAllSegments, ~Configure,
         ~RollbackRestore
  PROVE  HeadStays
<1>1. /\ pgdata \in DirSet /\ shm \in ShmSet /\ ~Torn.ok
      /\ rec.pc \in {"snapshot", "copy", "wipe", "materialize", "rollback", "manifest"} => pg = "down"
  BY TornShape DEF TInv, Shape, PgShape, MemShape, PosInv, RecPhase
<1>2. CASE UNCHANGED vars
  BY <1>2 DEF vars, pgVars, memory, storage, HeadStays
<1>3. CASE Recover
  BY <1>1, <1>3 DEF Recover, RecoverBegin, SnapshotStart, SnapshotEnd, Wipe, Materialize, RecoverDone, RecoverFail,
     RollbackWipe, RollbackDone, ToolCrash, StopPg, HeadStays, pgVars, memory, storage
<1>4. CASE Compact
  BY <1>1, <1>4 DEF Compact, CompactPut, CompactPublish, CompactAdvance, CompactFail, HeadStays, pgVars, storage, ShmSet
<1>5. ASSUME NEW i \in Items, Write(i) PROVE HeadStays
  BY <1>5 DEF Write, HeadStays, storage
<1>6. ASSUME NEW i \in Items, Evict(i) PROVE HeadStays
  BY <1>1, <1>6 DEF Evict, WriteBack, HeadStays, pgVars, ShmSet
<1>7. ASSUME NEW kind, CheckpointStart(kind) PROVE HeadStays
  BY <1>1, <1>7 DEF CheckpointStart, WriteBack, HeadStays, pgVars, ShmSet
<1>8. CASE Spill \/ LoadManifest \/ NoNewSegments
  BY <1>1, <1>8 DEF Spill, LoadManifest, NoNewSegments, HeadStays, pgVars, memory, storage, ShmSet
<1>9. CASE CheckpointEnd \/ Crash
  BY <1>1, <1>9 DEF CheckpointEnd, Crash, StopPg, HeadStays, storage, DirSet
<1> QED
  BY <1>2, <1>3, <1>4, <1>5, <1>6, <1>7, <1>8, <1>9 DEF Next

LEMMA HeadKept ==
  ASSUME HeadInv, HeadStays, spoiled \subseteq spoiled', spoiled' \subseteq Items
  PROVE  HeadInv' /\ NextHead' = NextHead /\ SegsHere' = SegsHere
<1>1. SegsHere' = SegsHere
  BY DEF HeadStays, SegsHere
<1>2. NextHead' = NextHead
  BY <1>1 DEF NextHead
<1>3. spoiled' # Items => spoiled # Items
  OBVIOUS
<1> QED
  BY <1>1, <1>2, <1>3 DEF HeadInv, HeadStays

\* A commit's checkpoint is the newest.
LEMMA CommitHead ==
  ASSUME TInv, Shape', HeadInv, NEW s, Committed(s)
  PROVE  HeadInv'
<1> SUFFICES ASSUME spoiled # Items PROVE shm'.head = NextHead' /\ \A r \in SegsHere' : TimelineOf(r.ckpt) <= pgdata'.tl
  BY DEF HeadInv, Committed
<1>1. SegsHere' = SegsHere \cup {s} /\ s \in segs' /\ s.db = db' /\ pgdata' = pgdata /\ shm'.head = s.ckpt
      /\ TimelineOf(s.ckpt) = pgdata.tl /\ LsnOf(s.ckpt) = Lsn + 1 /\ s.ckpt \in Ckpts /\ pgdata.tl \in Nat /\ Lsn \in Nat
  BY DEF Committed, SegsHere
<1>2. ASSUME NEW r \in SegsHere PROVE r.ckpt \in Ckpts /\ TimelineOf(r.ckpt) <= pgdata.tl /\ r.ckpt <= s.ckpt
  <2>1. r.ckpt \in Ckpts /\ Valid(r.ckpt, db) /\ TimelineOf(r.ckpt) <= pgdata.tl
    BY DEF HeadInv, Committed, SegsHere, TInv, Shape, StoreShape, SegSet, PosInv, SegPos, AllSegs
  <2>2. TimelineOf(r.ckpt) = pgdata.tl => LsnOf(r.ckpt) <= Lsn
    BY <2>1 DEF Valid, Lsn, Here
  <2>3. TimelineOf(r.ckpt) \in Nat /\ LsnOf(r.ckpt) \in Nat
    BY <2>1, CkptBound
  <2>4. TimelineOf(r.ckpt) < TimelineOf(s.ckpt) \/ (TimelineOf(r.ckpt) = TimelineOf(s.ckpt) /\ LsnOf(r.ckpt) <= LsnOf(s.ckpt))
    BY <1>1, <2>1, <2>2, <2>3
  <2> QED
    BY <1>1, <2>1, <2>4, CkptOrder
<1>3. \A r \in SegsHere' : r.ckpt <= s.ckpt /\ TimelineOf(r.ckpt) <= pgdata.tl
  <2>1. s.ckpt <= s.ckpt /\ pgdata.tl <= pgdata.tl
    BY <1>1, CkptsNat
  <2> QED
    BY <1>1, <1>2, <2>1
<1>4. NextHead' = s.ckpt
  BY <1>1, <1>3, HeadsNext DEF HeadsAre
<1> QED
  BY <1>1, <1>3, <1>4

LEMMA SegmentOrder ==
  ASSUME NEW c \in Ckpts, NEW d \in Ckpts, c <= d
  PROVE  SegmentId(c) <= SegmentId(d) /\ SegmentId(c) \in Nat /\ SegmentId(d) \in Nat
<1> DEFINE a == LsnOf(c) \div SegRange
           b == LsnOf(d) \div SegRange
<1>1. /\ TimelineOf(c) \in Nat /\ TimelineOf(d) \in Nat /\ TimelineOf(c) <= MaxRecovers + 1 /\ TimelineOf(d) <= MaxRecovers + 1
      /\ LsnOf(c) \in Nat /\ LsnOf(d) \in Nat /\ LsnOf(c) <= MaxLsn /\ LsnOf(d) <= MaxLsn
  BY CkptBound, RecoveryAssumption
<1>2. SegRange \in Nat \ {0}
  BY RecoveryAssumption
<1>3. \A n \in Nat : n \div SegRange \in Nat /\ n \div SegRange <= n
  <2> SUFFICES ASSUME NEW n \in Nat PROVE n \div SegRange \in Nat /\ n \div SegRange <= n
    OBVIOUS
  <2>1. n \div SegRange \in Nat /\ n = SegRange * (n \div SegRange) + (n % SegRange) /\ n % SegRange \in Nat
    BY <1>2, DivMod
  <2>2. PICK q \in Nat : q = n \div SegRange
    BY <2>1
  <2>3. SegRange * q >= q
    BY <1>2, <2>2, Z3
  <2>4. SegRange * q \in Nat
    BY <1>2, <2>2, Z3
  <2> QED
    BY <2>1, <2>2, <2>3, <2>4
<1>4. a \in Lsns /\ b \in Lsns
  <2>1. a \in Nat /\ b \in Nat /\ a <= LsnOf(c) /\ b <= LsnOf(d)
    BY <1>1, <1>3
  <2> HIDE DEF a, b
  <2> QED
    BY <1>1, <2>1, Bounds
<1>5. /\ SegmentId(c) \in Ckpts /\ TimelineOf(SegmentId(c)) = TimelineOf(c) /\ LsnOf(SegmentId(c)) = a
      /\ SegmentId(d) \in Ckpts /\ TimelineOf(SegmentId(d)) = TimelineOf(d) /\ LsnOf(SegmentId(d)) = b
  BY <1>1, <1>4, CkptIn DEF SegmentId
<1>6. LsnOf(c) <= LsnOf(d) => a <= b
  <2> SUFFICES ASSUME LsnOf(c) <= LsnOf(d), ~(a <= b) PROVE FALSE
    OBVIOUS
  <2>1. /\ LsnOf(c) = SegRange * a + (LsnOf(c) % SegRange) /\ LsnOf(c) % SegRange \in 0..(SegRange - 1)
        /\ LsnOf(d) = SegRange * b + (LsnOf(d) % SegRange) /\ LsnOf(d) % SegRange \in 0..(SegRange - 1)
        /\ a \in Nat /\ b \in Nat
    BY <1>1, <1>2, DivMod
  <2> HIDE DEF a, b
  <2>2. SegRange * b + SegRange <= SegRange * a /\ SegRange * b \in Nat
    BY <1>2, <2>1, MulBelow
  <2>3. PICK x, y : x = LsnOf(c) % SegRange /\ y = LsnOf(d) % SegRange
    OBVIOUS
  <2>4. SegRange * a \in Nat
    BY <1>2, <2>1, Z3
  <2> QED
    BY <1>1, <1>2, <2>1, <2>2, <2>3, <2>4
<1> HIDE DEF a, b
<1>7. TimelineOf(c) < TimelineOf(d) \/ (TimelineOf(c) = TimelineOf(d) /\ LsnOf(c) <= LsnOf(d))
  BY CkptOrder
<1>8. SegmentId(c) <= SegmentId(d)
  BY <1>5, <1>6, <1>7, CkptOrder
<1> QED
  BY <1>5, <1>8, CkptsNat

LEMMA CompHeadKept ==
  ASSUME CompHead, SegsHere \subseteq SegsHere', comp'.pc # "idle" => comp.pc # "idle" /\ comp'.key = comp.key
  PROVE  CompHead'
  BY DEF CompHead

\* The newest checkpoint is not folded away.
LEMMA CompactDeleteHead ==
  ASSUME TInv, Shape', HeadInv, CompHead, CompactDelete
  PROVE  HeadInv' /\ CompHead' /\ (spoiled # Items => NextHead' = NextHead)
<1>1. /\ segs' = segs \ Folded /\ comp' = NoComp /\ comp.pc = "delete"
      /\ UNCHANGED <<pg, db, pgdata, shm, spoiled>>
  BY DEF CompactDelete, pgVars
<1>2. CompHead'
  BY <1>1, NoCkShape DEF CompHead
<1>3. SegsHere # {} /\ SegsHere' = SegsHere \ Folded
  BY <1>1 DEF CompHead, SegsHere
<1>4. PICK s \in SegsHere : NextHead = s.ckpt /\ \A r \in SegsHere : r.ckpt <= s.ckpt
  BY <1>3, NextHeadIs
<1>5. s.ckpt \in Ckpts /\ comp.key \in Ckpts /\ \A r \in SegsHere : r.ckpt \in Ckpts
  BY DEF SegsHere, TInv, Shape, StoreShape, SegSet, MemShape, CompSet
<1>6. comp.key <= s.ckpt
  <2>1. PICK r \in SegsHere : comp.key <= r.ckpt
    BY <1>1 DEF CompHead
  <2>2. r.ckpt <= s.ckpt /\ r.ckpt \in Nat /\ s.ckpt \in Nat /\ comp.key \in Nat
    BY <1>4, <1>5, CkptsNat
  <2> QED
    BY <2>1, <2>2
<1>7. s \notin Folded
  <2>1. SegmentId(comp.key) <= SegmentId(s.ckpt) /\ SegmentId(comp.key) \in Nat /\ SegmentId(s.ckpt) \in Nat
    BY <1>5, <1>6, SegmentOrder
  <2> QED
    BY <2>1 DEF Folded
<1>8. NextHead' = s.ckpt
  BY <1>1, <1>3, <1>4, <1>7, HeadsNext DEF HeadsAre, SegsHere
<1> QED
  BY <1>1, <1>2, <1>3, <1>4, <1>8 DEF HeadInv

LEMMA StartHead ==
  ASSUME TInv, Shape', HeadInv, Start
  PROVE  HeadInv' /\ CompHead' /\ NextHead' = NextHead /\ shm'.head = NextHead
<1>1. /\ shm' = Hydrated /\ UNCHANGED <<db, pgdata, segs, comp>> /\ pg = "down" /\ pgdata.ok
  BY DEF Start, storage
<1>2. SegsHere' = SegsHere /\ NextHead' = NextHead
  BY <1>1 DEF SegsHere, NextHead
<1>3. CompHead'
  BY <1>1, NoCkShape DEF CompHead, TInv, PosInv, Phase
<1>4. Hydrated.head = NextHead
  <2>1. CASE Hydrated.active = {}
    <3>1. SegsHere = {} /\ Hydrated.head = 0
      <4>1. pgdata.target # 0 => SegsHere = {}
        BY DEF TInv, PosInv, Phase
      <4> QED
        BY <2>1, <4>1, HydratedIs
    <3> QED
      BY <3>1 DEF NextHead
  <2>2. CASE Hydrated.active # {}
    <3>1. /\ Hydrated.head = Newest(Hydrated.active).ckpt /\ Newest(Hydrated.active) \in SegsHere
          /\ \A s \in SegsHere : s.ckpt <= Hydrated.head
      BY <2>2, HydratedIs
    <3>2. PICK s \in SegsHere : Hydrated.head = s.ckpt
      BY <3>1
    <3>3. HeadsAre
      BY HeadsOk DEF TInv
    <3> QED
      BY <3>1, <3>2, <3>3 DEF HeadsAre, SegsHere
  <2> QED
    BY <2>1, <2>2
<1>5. HeadInv'
  <2>1. spoiled' # Items => spoiled # Items
    BY DEF Start, TInv, Shape, Shape, LocalShape
  <2> QED
    BY <1>1, <1>2, <1>4, <2>1 DEF HeadInv
<1> QED
  BY <1>1, <1>2, <1>3, <1>4, <1>5

\* The other steps after which the segments or the timeline are different.
LEMMA TurnHead ==
  ASSUME TInv, Shape', HeadInv, Promote \/ Branch \/ DeleteAllSegments \/ Configure \/ RollbackRestore
  PROVE  HeadInv' /\ CompHead'
<1>1. CASE Promote
  <2>1. pg = "recovering" /\ UNCHANGED <<segs, db, shm, comp, spoiled>>
    BY <1>1 DEF Promote, memory, storage
  <2>2. SegsHere = {} /\ comp.pc = "idle"
    BY <2>1, NoCkShape DEF TInv, PosInv, Phase
  <2>3. SegsHere' = {} /\ NextHead' = NextHead
    BY <2>1, <2>2 DEF SegsHere, NextHead
  <2> QED
    BY <2>1, <2>2, <2>3 DEF HeadInv, CompHead
<1>2. CASE Branch
  <2>1. pg = "down" /\ pg' = pg /\ db = 0 /\ db' = 1 /\ UNCHANGED <<segs, comp>>
    BY <1>2 DEF Branch, memory
  <2>2. SegsHere' = {} /\ comp.pc = "idle"
    BY <2>1, NoCkShape DEF TInv, PosInv, Phase, OneDb, AllSegs, SegsHere
  <2> QED
    BY <2>1, <2>2 DEF HeadInv, CompHead
<1>3. CASE DeleteAllSegments \/ Configure
  <2>1. rec.pc \in {"delete", "configure"} /\ pg' = pg /\ comp' = comp /\ db' = db
        /\ (segs' = segs \ SegsHere \/ (segs' = segs /\ rec.pc = "configure"))
    BY <1>3 DEF DeleteAllSegments, Configure, pgVars, memory, storage
  <2>2. pg = "down" /\ comp.pc = "idle" /\ SegsHere' = {}
    BY <2>1, NoCkShape DEF TInv, PosInv, Phase, RecPhase, SegsHere
  <2> QED
    BY <2>1, <2>2 DEF HeadInv, CompHead
<1>4. CASE RollbackRestore
  <2>1. /\ rec.pc = "restore" /\ UNCHANGED <<pg, comp, db, segs>> /\ spoiled \subseteq Items
        /\ spoiled' # Items => \A s \in SegsHere : ~(TimelineOf(s.ckpt) > pgdata'.tl)
    BY <1>4 DEF RollbackRestore, memory, storage, TInv, Shape, LocalShape
  <2>2. pg = "down" /\ comp.pc = "idle" /\ SegsHere' = SegsHere
    BY <2>1, NoCkShape DEF TInv, PosInv, Phase, RecPhase, SegsHere
  <2>3. pgdata'.tl \in Nat
    BY RecoveryAssumption DEF Shape, PgShape, DirSet
  <2>4. \A s \in SegsHere : TimelineOf(s.ckpt) \in Nat
    <3>1. \A s \in SegsHere : s.ckpt \in Ckpts
      BY DEF SegsHere, TInv, Shape, StoreShape, SegSet
    <3> QED
      BY <3>1, CkptBound
  <2> QED
    BY <2>1, <2>2, <2>3, <2>4 DEF HeadInv, CompHead
<1> QED
  BY <1>1, <1>2, <1>3, <1>4

LEMMA CompStays ==
  ASSUME TInv, [Next]_vars, ~\E through \in BOOLEAN : CompactPut(through)
  PROVE  comp'.pc # "idle" => comp.pc # "idle" /\ comp'.key = comp.key /\ comp'.m = comp.m
<1>1. comp \in CompSet /\ NoComp.pc = "idle"
  BY NoCkShape DEF TInv, Shape, MemShape
<1>2. CASE UNCHANGED vars
  BY <1>2 DEF vars, memory
<1>3. CASE Recover
  BY <1>3 DEF Recover, RecoverBegin, SnapshotStart, SnapshotEnd, Wipe, Materialize, DeleteAllSegments,
     Configure, RecoverDone, RecoverFail, RollbackWipe, RollbackRestore, RollbackDone, ToolCrash, memory
<1>4. CASE Compact
  BY <1>1, <1>4 DEF Compact, CompactPublish, CompactAdvance, CompactDelete, CompactFail, CompSet
<1>5. ASSUME NEW i \in Items, Write(i) \/ Evict(i) PROVE comp' = comp
  BY <1>5 DEF Write, Evict
<1>6. ASSUME NEW kind, CheckpointStart(kind) PROVE comp' = comp \/ comp' = NoComp
  BY <1>6 DEF CheckpointStart
<1>7. CASE Spill \/ LoadManifest \/ Commit \/ NoNewSegments \/ CheckpointEnd
  BY <1>7 DEF Spill, LoadManifest, Commit, NoNewSegments, CheckpointEnd, memory
<1>8. CASE Crash \/ Start \/ Promote \/ Branch
  BY <1>1, <1>8 DEF Crash, Start, Promote, Branch, memory
<1> QED
  BY <1>1, <1>2, <1>3, <1>4, <1>5, <1>6, <1>7, <1>8 DEF Next

LEMMA NextHeadInv ==
  ASSUME TInv, Shape', HeadInv, CompHead, [Next]_vars
  PROVE  HeadInv' /\ CompHead'
<1>0. spoiled \subseteq spoiled' /\ spoiled' \subseteq Items
  BY Monotone
<1>1. CASE Commit
  <2>1. PICK s : Committed(s)
    BY <1>1, CommitIs
  <2>2. SegsHere \subseteq SegsHere' /\ comp' = comp
    BY <2>1 DEF Committed, SegsHere
  <2> QED
    BY <2>1, <2>2, CommitHead, CompHeadKept
<1>2. ASSUME NEW through \in BOOLEAN, CompactPut(through) PROVE HeadInv' /\ CompHead'
  <2>1. PICK m, S, new, key : Folds(m, S, new, key) /\ FoldsWhich(S, new, key)
    BY <1>2, FoldIs
  <2>2. HeadStays /\ SegsHere' = SegsHere
    BY <2>1 DEF Folds, HeadStays, SegsHere
  <2>3. key <= Newest(S).ckpt /\ Newest(S) \in SegsHere
    <3>1. m \in ManSet /\ S \in SUBSET SegSet /\ S # {} /\ (\A s \in S : s.ckpt > m.ckpt) /\ new = ApplySegments(m, S)
          /\ Newest(S) \in S /\ S \subseteq SegsHere
      BY <2>1 DEF Folds
    <3>2. new.ckpt <= Newest(S).ckpt
      BY <3>1, FoldCkpt
    <3>3. Newest(S).ckpt \in Nat
      BY <3>1, CkptsNat DEF SegSet
    <3>4. key = new.ckpt \/ key = Newest(S).ckpt
      BY <2>1 DEF FoldsWhich
    <3> QED
      BY <3>1, <3>2, <3>3, <3>4
  <2>4. CompHead'
    BY <2>1, <2>2, <2>3 DEF CompHead, Folds
  <2> QED
    BY <1>0, <2>2, <2>4, HeadKept
<1>3. CASE CompactDelete
  BY <1>3, CompactDeleteHead
<1>4. CASE Start
  BY <1>4, StartHead
<1>5. CASE Promote \/ Branch \/ DeleteAllSegments \/ Configure \/ RollbackRestore
  BY <1>5, TurnHead
<1>6. CASE ~Commit /\ ~(\E through \in BOOLEAN : CompactPut(through)) /\ ~CompactDelete /\ ~Start
           /\ ~Promote /\ ~Branch /\ ~DeleteAllSegments /\ ~Configure /\ ~RollbackRestore
  <2>1. HeadStays
    BY <1>6, QuietHead
  <2>2. HeadInv' /\ SegsHere' = SegsHere
    BY <1>0, <2>1, HeadKept
  <2> QED
    BY <1>6, <2>2, CompStays, CompHeadKept
<1> QED
  BY <1>1, <1>2, <1>3, <1>4, <1>5, <1>6

\* The sets of manifests and of checkpoints known, step by step.
LEMMA StepManifests ==
  ASSUME TInv, [Next]_vars
  PROVE  \/ Manifests' \subseteq Manifests \cup {Empty}
         \/ \E m, S, new, key : Folds(m, S, new, key) /\ FoldsWhich(S, new, key) /\ Manifests' \subseteq Manifests \cup {new}
<1>1. rec \in RecSet /\ comp \in CompSet /\ NoComp.m = Empty /\ NoRec.saved = {}
  BY NoCkShape, NoRecShape DEF TInv, Shape, MemShape, LocalShape
<1>2. CASE UNCHANGED vars
  BY <1>2 DEF vars, memory, storage, local, Manifests
<1>3. CASE Materialize
  <2>1. /\ AtOrBefore(rec.b.ckpt, db) # {} /\ tikm' = {bases[AnchorKey(rec.b.ckpt, db)]}
        /\ rec' = [rec EXCEPT !.pc = "delete"] /\ UNCHANGED <<bases, comp>>
    BY <1>3 DEF Materialize, memory, storage
  <2>2. DOMAIN bases \subseteq Prefixes /\ rec.b.ckpt \in Ckpts
    BY <1>1, FnsDef DEF TInv, Shape, StoreShape, RecSet, BkSet
  <2>3. AnchorKey(rec.b.ckpt, db) \in DOMAIN bases
    BY <2>1, <2>2, AnchorIs
  <2>4. tikm' \subseteq Range(bases) /\ rec'.saved = rec.saved
    BY <1>1, <2>1, <2>3 DEF Range, RecSet
  <2> QED
    BY <2>1, <2>4 DEF Manifests
<1>4. CASE Recover /\ ~Materialize
  <2>1. CASE RecoverBegin
    <3>1. rec'.saved = {} /\ UNCHANGED <<tikm, bases, comp>>
      BY <2>1 DEF RecoverBegin, memory, storage, local
    <3> QED
      BY <3>1 DEF Manifests
  <2>2. CASE SnapshotStart
    <3>1. rec'.saved \subseteq rec.saved /\ UNCHANGED <<tikm, bases, comp>>
      BY <1>1, <2>2 DEF SnapshotStart, memory, storage, local, RecSet
    <3> QED
      BY <3>1 DEF Manifests
  <2>3. CASE SnapshotEnd
    <3>1. rec'.saved = tikm /\ UNCHANGED <<tikm, bases, comp>>
      BY <1>1, <2>3 DEF SnapshotEnd, memory, storage, local, RecSet
    <3> QED
      BY <3>1 DEF Manifests
  <2>4. CASE Wipe \/ RollbackWipe \/ Configure
    <3>1. rec'.saved = rec.saved /\ UNCHANGED <<tikm, bases, comp>>
      BY <1>1, <2>4 DEF Wipe, RollbackWipe, Configure, memory, storage, local, RecSet
    <3> QED
      BY <3>1 DEF Manifests
  <2>5. CASE DeleteAllSegments \/ RecoverFail \/ RollbackRestore
    <3>1. rec'.saved = rec.saved /\ UNCHANGED <<tikm, bases, comp>>
      BY <1>1, <2>5 DEF DeleteAllSegments, RecoverFail, RollbackRestore, memory, storage, local, RecSet
    <3> QED
      BY <3>1 DEF Manifests
  <2>6. CASE RecoverDone \/ ToolCrash
    <3>1. rec'.saved = {} /\ UNCHANGED <<tikm, bases, comp>>
      BY <1>1, <2>6 DEF RecoverDone, ToolCrash, Cleanup, memory, storage, local
    <3> QED
      BY <3>1 DEF Manifests
  <2>7. CASE RollbackDone
    <3>1. rec'.saved = {} /\ UNCHANGED <<bases, comp>> /\ tikm' \subseteq tikm \cup rec.saved
      BY <1>1, <2>7 DEF RollbackDone, Cleanup, memory, storage, local
    <3> QED
      BY <3>1 DEF Manifests
  <2> QED
    BY <1>4, <2>1, <2>2, <2>3, <2>4, <2>5, <2>6, <2>7 DEF Recover
<1>5. ASSUME NEW through \in BOOLEAN, CompactPut(through)
      PROVE  \E m, S, new, key : Folds(m, S, new, key) /\ FoldsWhich(S, new, key) /\ Manifests' \subseteq Manifests \cup {new}
  <2>1. PICK m, S, new, key : Folds(m, S, new, key) /\ FoldsWhich(S, new, key)
    BY <1>5, FoldIs
  <2>2. \A k \in DOMAIN bases' : (k = <<db, key>> /\ bases'[k] = new) \/ (k \in DOMAIN bases /\ bases'[k] = bases[k])
    BY <2>1 DEF Folds
  <2>3. Range(bases') \subseteq Range(bases) \cup {new}
    BY <2>2 DEF Range
  <2>4. Manifests' \subseteq Manifests \cup {new}
    BY <2>1, <2>3 DEF Manifests, Folds
  <2> QED
    BY <2>1, <2>4
<1>6. CASE CompactPublish \/ CompactAdvance \/ CompactDelete \/ CompactFail
  BY <1>1, <1>6, NoCkShape DEF CompactPublish, CompactAdvance, CompactDelete, CompactFail, storage, local, Manifests, CompSet
<1>7. ASSUME NEW i \in Items, Write(i) \/ Evict(i) PROVE Manifests' = Manifests
  BY <1>7 DEF Write, Evict, storage, local, Manifests
<1>8. ASSUME NEW kind, CheckpointStart(kind) PROVE Manifests' \subseteq Manifests \cup {Empty}
  BY <1>1, <1>8 DEF CheckpointStart, local, Manifests
<1>9. CASE LoadManifest
  <2>1. tikm' \subseteq Manifests \cup {Empty}
    BY <1>9, LoadedIs DEF LoadManifest
  <2> QED
    BY <1>9, <2>1 DEF LoadManifest, Manifests, memory, storage
<1>10. CASE Spill \/ Commit \/ NoNewSegments \/ CheckpointEnd
  BY <1>10 DEF Spill, Commit, NoNewSegments, CheckpointEnd, memory, storage, local, Manifests
<1>11. CASE Start
  <2>1. InitialManifest \in tikm \cup Range(bases) \cup {Empty}
    BY InitialShape DEF TInv, Range
  <2>2. tikm' = {InitialManifest} /\ UNCHANGED <<bases, comp>> /\ rec'.saved = rec.saved
    BY <1>1, <1>11 DEF Start, storage, RecSet
  <2> QED
    BY <2>1, <2>2 DEF Manifests
<1>12. CASE Crash \/ Promote
  BY <1>1, <1>12 DEF Crash, Promote, memory, storage, local, Manifests
<1>13. CASE Branch
  <2>1. PICK b \in backups :
           /\ AtOrBefore(b.ckpt, 0) # {}
           /\ bases' = Put(bases, <<1, AnchorKey(b.ckpt, 0)[2]>>, bases[AnchorKey(b.ckpt, 0)])
           /\ tikm' = {} /\ UNCHANGED <<comp, rec>>
    BY <1>13, BranchIs
  <2>2. DOMAIN bases \subseteq Prefixes /\ b.ckpt \in Ckpts
    BY FnsDef DEF TInv, Shape, StoreShape, BkSet
  <2>3. AnchorKey(b.ckpt, 0) \in DOMAIN bases
    BY <2>1, <2>2, AnchorIs
  <2>4. PICK e, v : e = <<1, AnchorKey(b.ckpt, 0)[2]>> /\ v = bases[AnchorKey(b.ckpt, 0)]
    OBVIOUS
  <2>5. v \in Range(bases) /\ bases' = Put(bases, e, v)
    BY <2>1, <2>3, <2>4 DEF Range
  <2>6. Range(bases') \subseteq Range(bases)
    BY <2>5 DEF Range, Put
  <2> QED
    BY <2>1, <2>6 DEF Manifests
<1> QED
  BY <1>2, <1>3, <1>4, <1>5, <1>6, <1>7, <1>8, <1>9, <1>10, <1>11, <1>12, <1>13 DEF Next, Compact

LEMMA StepSegs ==
  ASSUME TInv, [Next]_vars
  PROVE  AllSegs' \subseteq AllSegs \/ \E s : Committed(s) /\ AllSegs' \subseteq AllSegs \cup {s}
<1>1. rec \in RecSet /\ shm \in ShmSet /\ Fresh.active = {} /\ NoRec.lost = {}
  BY NoCkShape, NoRecShape DEF TInv, Shape, MemShape, LocalShape
<1>2. CASE UNCHANGED vars
  BY <1>2 DEF vars, memory, storage, history, AllSegs
<1>3. CASE Recover
  <2>1. CASE RecoverBegin \/ SnapshotStart
    <3>1. rec'.lost \subseteq rec.lost /\ UNCHANGED <<segs, gone, shm>>
      BY <1>1, <2>1 DEF RecoverBegin, SnapshotStart, memory, storage, history, RecSet
    <3> QED
      BY <3>1 DEF AllSegs
  <2>2. CASE SnapshotEnd \/ Wipe \/ RollbackWipe \/ Configure \/ Materialize
    <3>1. rec'.lost = rec.lost /\ UNCHANGED <<segs, gone, shm>>
      BY <1>1, <2>2 DEF SnapshotEnd, Wipe, RollbackWipe, Configure, Materialize, memory, storage, history, RecSet
    <3> QED
      BY <3>1 DEF AllSegs
  <2>3. CASE DeleteAllSegments
    <3>1. rec'.lost = gone \cup SegsHere /\ segs' = segs \ SegsHere /\ gone' = gone \cup SegsHere /\ shm' = shm
      BY <1>1, <2>3 DEF DeleteAllSegments, memory, RecSet
    <3> QED
      BY <3>1 DEF AllSegs, SegsHere
  <2>4. CASE RecoverFail
    <3>1. rec'.lost = rec.lost /\ UNCHANGED <<segs, gone>> /\ shm'.active = {}
      BY <1>1, <2>4 DEF RecoverFail, StopPg, storage, history, RecSet
    <3> QED
      BY <3>1 DEF AllSegs
  <2>5. CASE RollbackRestore
    <3>1. rec'.lost = rec.lost /\ gone' = gone \cup rec.lost /\ UNCHANGED <<segs, shm>>
      BY <1>1, <2>5 DEF RollbackRestore, memory, storage, RecSet
    <3> QED
      BY <3>1 DEF AllSegs
  <2>6. CASE RecoverDone \/ ToolCrash \/ RollbackDone
    <3>1. rec'.lost = {} /\ UNCHANGED <<segs, gone, shm>>
      BY <1>1, <2>6 DEF RecoverDone, ToolCrash, RollbackDone, Cleanup, memory, storage, history
    <3> QED
      BY <3>1 DEF AllSegs
  <2> QED
    BY <1>3, <2>1, <2>2, <2>3, <2>4, <2>5, <2>6 DEF Recover
<1>4. CASE Compact
  BY <1>1, <1>4 DEF Compact, CompactPut, CompactPublish, CompactAdvance, CompactDelete, CompactFail, Folded, SegsHere,
     storage, history, AllSegs, ShmSet
<1>5. ASSUME NEW i \in Items, Write(i) PROVE AllSegs' = AllSegs
  BY <1>5 DEF Write, storage, history, AllSegs
<1>6. ASSUME NEW i \in Items, Evict(i) PROVE AllSegs' = AllSegs
  BY <1>1, <1>6 DEF Evict, WriteBack, AllSegs, ShmSet, history
<1>7. ASSUME NEW kind, CheckpointStart(kind) PROVE AllSegs' = AllSegs
  BY <1>1, <1>7 DEF CheckpointStart, WriteBack, AllSegs, ShmSet, history
<1>8. CASE Spill \/ LoadManifest \/ NoNewSegments
  BY <1>1, <1>8 DEF Spill, LoadManifest, NoNewSegments, memory, storage, history, AllSegs, ShmSet
<1>9. CASE CheckpointEnd \/ Crash \/ Promote \/ Branch
  BY <1>1, <1>9 DEF CheckpointEnd, Crash, Promote, Branch, StopPg, memory, storage, history, AllSegs
<1>10. CASE Start
  <2>1. shm'.active \subseteq segs /\ UNCHANGED segs /\ gone' \subseteq gone /\ rec'.lost = rec.lost
    BY <1>1, <1>10, HydratedIs DEF Start, storage, SegsHere, RecSet
  <2> QED
    BY <2>1 DEF AllSegs
<1>11. CASE Commit
  <2>1. PICK s : Committed(s)
    BY <1>11, CommitIs
  <2> QED
    BY <2>1 DEF Committed, AllSegs
<1> QED
  BY <1>2, <1>3, <1>4, <1>5, <1>6, <1>7, <1>8, <1>9, <1>10, <1>11 DEF Next

\* What is found stays found.
LEMMA FoundStays ==
  ASSUME TInv, Shape', [Next]_vars, NEW c, NEW p, Found(c, p)
  PROVE  Found(c, p)'
  BY Monotone DEF Found

LEMMA NextManRefs ==
  ASSUME TInv, Shape', RefInv, [Next]_vars
  PROVE  ManRefs'
<1>1. \A c, p : Found(c, p) => Found(c, p)'
  BY FoundStays
<1>2. DOMAIN Empty.refs = {}
  BY NoItemsFns DEF Empty
<1>3. ManRefs /\ SegRefs
  BY DEF RefInv
<1>4. ASSUME NEW m \in Manifests \cup {Empty}, NEW c \in DOMAIN m.refs PROVE Found(c, m.refs[c])
  BY <1>2, <1>3, <1>4 DEF ManRefs
<1>5. CASE Manifests' \subseteq Manifests \cup {Empty}
  BY <1>1, <1>4, <1>5 DEF ManRefs
<1>6. ASSUME NEW m, NEW S, NEW new, NEW key, Folds(m, S, new, key), Manifests' \subseteq Manifests \cup {new}
      PROVE  ManRefs'
  <2>1. /\ m \in ManSet /\ S \in SUBSET SegSet /\ S \subseteq SegsHere /\ new = ApplySegments(m, S)
        /\ m \in ManifestsAt(shm.base)
    BY <1>6 DEF Folds
  <2>2. /\ DOMAIN new.refs = DOMAIN m.refs \cup UNION {s.chunks : s \in S}
        /\ \A c \in DOMAIN new.refs : new.refs[c] = ApplyRef(c, m, S)
    BY <2>1 DEF ApplySegments
  <2>3. m \in Manifests \cup {Empty}
    BY <2>1, LoadedIs
  <2>4. ASSUME NEW c \in DOMAIN new.refs PROVE Found(c, new.refs[c])
    <3>1. CASE c \in DOMAIN m.refs /\ ApplyRef(c, m, S) = m.refs[c]
      BY <1>4, <2>2, <2>3, <3>1
    <3>2. ASSUME NEW s \in S, c \in s.chunks, ApplyRef(c, m, S) = <<db, s.prev>> PROVE Found(c, new.refs[c])
      <4>1. s \in AllSegs /\ s.db = db
        BY <2>1 DEF SegsHere, AllSegs
      <4>2. Found(c, <<s.db, s.prev>>)
        BY <1>3, <3>2, <4>1 DEF SegRefs
      <4> QED
        BY <2>2, <3>2, <4>1, <4>2
    <3> QED
      BY <2>1, <2>2, <3>1, <3>2, ApplyRefIs
  <2> QED
    BY <1>1, <1>4, <1>6, <2>4 DEF ManRefs
<1> QED
  BY <1>5, <1>6, StepManifests

LEMMA NextSegRefs ==
  ASSUME TInv, Shape', RefInv, [Next]_vars
  PROVE  SegRefs'
<1>1. \A c, p : Found(c, p) => Found(c, p)'
  BY FoundStays
<1>2. SegRefs /\ HeadInv /\ DraftRefs /\ SpillRefs
  BY DEF RefInv
<1>3. CASE AllSegs' \subseteq AllSegs
  BY <1>1, <1>2, <1>3 DEF SegRefs
<1>4. ASSUME NEW s, Committed(s), AllSegs' \subseteq AllSegs \cup {s} PROVE SegRefs'
  <2>1. /\ pg = "up" /\ pgdata.ok /\ pgdata.target = 0 /\ s.db = db /\ s.prev = shm.head
        /\ s.chunks = (DOMAIN shm.draft \cup DOMAIN spill) \cap Chunks
    BY <1>4 DEF Committed
  <2>2. SpillLive
    BY <2>1 DEF SpillLive
  <2>3. spoiled # Items => shm.head = NextHead
    BY <1>2, <2>1 DEF HeadInv
  <2>4. ASSUME NEW c \in s.chunks PROVE Found(c, <<s.db, s.prev>>)
    <3>1. CASE spoiled = Items
      BY <3>1 DEF Found, Items
    <3>2. CASE spoiled # Items
      BY <1>2, <2>1, <2>2, <2>3, <3>2 DEF DraftRefs, SpillRefs
    <3> QED
      BY <3>1, <3>2
  <2> QED
    BY <1>1, <1>2, <1>4, <2>4 DEF SegRefs
<1> QED
  BY <1>3, <1>4, StepSegs

LEMMA NextDraftRefs ==
  ASSUME TInv, Shape', DraftRefs, [Next]_vars
  PROVE  DraftRefs'
<1>1. \A c, p : Found(c, p) => Found(c, p)'
  BY FoundStays
<1>2. shm \in ShmSet /\ Shape /\ DOMAIN NoItems = {} /\ Fresh.draft = NoItems
  BY NoCkShape, NoItemsFns DEF TInv, Shape, MemShape
<1>3. ASSUME db' = db, shm'.draft = shm.draft, shm'.head = shm.head PROVE DraftRefs'
  BY <1>1, <1>3 DEF DraftRefs
<1>4. ASSUME shm'.draft = NoItems PROVE DraftRefs'
  BY <1>2, <1>4 DEF DraftRefs
<1>5. ASSUME NEW I \in SUBSET DOMAIN cache, WriteBack(I), db' = db PROVE DraftRefs'
  <2>1. /\ DOMAIN shm'.draft = DOMAIN shm.draft \cup I /\ shm'.head = shm.head
        /\ \A c \in Chunks \cap I : <<db, shm.head>> \in DOMAIN objs'[c]
    BY <1>2, <1>5, WriteBackObjs
  <2>2. PICK p : p = <<db, shm.head>> /\ p = <<db', shm'.head>>
    BY <1>5, <2>1
  <2>3. \A c \in I : Found(c, p)'
    BY <1>5, <2>1, <2>2 DEF Found
  <2>4. \A c \in DOMAIN shm.draft : Found(c, p)
    BY <2>2 DEF DraftRefs
  <2>5. \A c \in DOMAIN shm'.draft : Found(c, p)'
    BY <1>1, <2>1, <2>3, <2>4
  <2> QED
    BY <2>2, <2>5 DEF DraftRefs
<1>6. CASE UNCHANGED vars
  BY <1>3, <1>6 DEF vars, pgVars, memory
<1>7. CASE Recover
  <2>1. CASE RecoverFail
    BY <1>2, <1>4, <2>1 DEF RecoverFail, StopPg
  <2>2. CASE ~RecoverFail
    <3>1. UNCHANGED <<shm, db>>
      BY <1>7, <2>2 DEF Recover, RecoverBegin, SnapshotStart, SnapshotEnd, Wipe, Materialize, DeleteAllSegments,
         Configure, RecoverDone, RollbackWipe, RollbackRestore, RollbackDone, ToolCrash, memory, pgVars
    <3> QED
      BY <1>3, <3>1
  <2> QED
    BY <2>1, <2>2
<1>8. CASE Compact
  <2>1. db' = db /\ shm'.draft = shm.draft /\ shm'.head = shm.head
    BY <1>2, <1>8 DEF Compact, CompactPut, CompactPublish, CompactAdvance, CompactDelete, CompactFail, pgVars, ShmSet
  <2> QED
    BY <1>3, <2>1
<1>9. ASSUME NEW i \in Items, Write(i) PROVE DraftRefs'
  BY <1>3, <1>9 DEF Write
<1>10. ASSUME NEW i \in Items, Evict(i) PROVE DraftRefs'
  <2>1. WriteBack({i}) /\ {i} \in SUBSET DOMAIN cache /\ db' = db
    BY <1>10 DEF Evict, pgVars
  <2> QED
    BY <1>5, <2>1
<1>11. ASSUME NEW kind, CheckpointStart(kind) PROVE DraftRefs'
  <2>1. WriteBack(DOMAIN cache) /\ db' = db
    BY <1>11 DEF CheckpointStart, pgVars
  <2> QED
    BY <1>5, <2>1
<1>12. CASE Spill \/ Commit
  BY <1>2, <1>4, <1>12 DEF Spill, Commit, ShmSet
<1>13. CASE LoadManifest \/ NoNewSegments \/ Promote
  BY <1>3, <1>13 DEF LoadManifest, NoNewSegments, Promote, memory, pgVars
<1>14. CASE CheckpointEnd
  BY <1>2, <1>3, <1>4, <1>14 DEF CheckpointEnd, StopPg
<1>15. CASE Crash
  BY <1>2, <1>4, <1>15 DEF Crash, StopPg
<1>16. CASE Start
  BY <1>4, <1>16, HydratedIs DEF Start
<1>17. CASE Branch
  <2>1. shm' = shm /\ shm = Fresh
    BY <1>17 DEF Branch, memory, TInv, PosInv, Phase
  <2> QED
    BY <1>2, <1>4, <2>1
<1> QED
  BY <1>6, <1>7, <1>8, <1>9, <1>10, <1>11, <1>12, <1>13, <1>14, <1>15, <1>16, <1>17 DEF Next

LEMMA SpillKept ==
  ASSUME TInv, Shape', SpillRefs, [Next]_vars, db' = db, DOMAIN spill' \subseteq DOMAIN spill,
         SpillLive' => SpillLive \/ DOMAIN spill \subseteq spoiled', NextHead' = NextHead \/ spoiled' = Items
  PROVE  SpillRefs'
<1> SUFFICES ASSUME SpillLive', NEW c \in DOMAIN spill', NEW p, p = <<db', NextHead'>>
             PROVE  Found(c, p)'
  BY DEF SpillRefs
<1>1. CASE spoiled' = Items \/ c \in spoiled'
  BY <1>1 DEF Found, Items
<1>2. CASE spoiled' # Items /\ c \notin spoiled'
  <2>1. SpillLive /\ p = <<db, NextHead>> /\ c \in DOMAIN spill
    BY <1>2
  <2>2. Found(c, p)
    BY <2>1 DEF SpillRefs
  <2> QED
    BY <2>2, FoundStays
<1> QED
  BY <1>1, <1>2

\* The spill file is only of use where it was before.
LEMMA QuietSpill ==
  ASSUME TInv, [Next]_vars, ~Start, ~Configure, ~RollbackRestore, ~Branch
  PROVE  SpillLive' => SpillLive
<1>1. /\ pgdata \in DirSet /\ rec \in RecSet /\ ~Torn.ok /\ NoRec.pc = "idle"
      /\ RecPhase /\ Phase
  BY TornShape, NoRecShape DEF TInv, Shape, PgShape, LocalShape, PosInv
<1>2. CASE UNCHANGED vars
  BY <1>2 DEF vars, pgVars, SpillLive
<1>3. CASE Compact
  BY <1>3 DEF Compact, CompactPut, CompactPublish, CompactAdvance, CompactDelete, CompactFail, pgVars, SpillLive
<1>4. ASSUME NEW i \in Items, Write(i) \/ Evict(i) PROVE SpillLive' => SpillLive
  BY <1>4 DEF Write, Evict, pgVars, SpillLive
<1>5. ASSUME NEW kind, CheckpointStart(kind) PROVE SpillLive' => SpillLive
  BY <1>5 DEF CheckpointStart, pgVars, SpillLive
<1>6. CASE Spill \/ LoadManifest \/ Commit \/ NoNewSegments
  BY <1>6 DEF Spill, LoadManifest, Commit, NoNewSegments, pgVars, SpillLive
<1>7. CASE CheckpointEnd
  <2>1. pgdata'.ok = pgdata.ok /\ pgdata'.target = pgdata.target /\ rec' = rec /\ (pg' = pg \/ pg' = "down")
    BY <1>1, <1>7 DEF CheckpointEnd, StopPg, DirSet
  <2> QED
    BY <2>1 DEF SpillLive
<1>8. CASE Crash
  BY <1>8 DEF Crash, StopPg, SpillLive
<1>9. CASE Promote
  BY <1>1, <1>9 DEF Promote, Phase, SpillLive
<1>10. CASE RecoverBegin \/ SnapshotStart \/ SnapshotEnd \/ Wipe
  BY <1>1, <1>10 DEF RecoverBegin, SnapshotStart, SnapshotEnd, Wipe, RecPhase, SpillLive, CopyPcs, pgVars
<1>11. CASE Materialize \/ DeleteAllSegments
  <2>1. UNCHANGED <<pg, pgdata>> /\ rec.pc \in {"materialize", "delete"}
    BY <1>11 DEF Materialize, DeleteAllSegments, pgVars
  <2>2. rec.lost = {} /\ rec.pc \in CopyPcs
    BY <1>1, <2>1 DEF RecPhase, CopyPcs
  <2> QED
    BY <2>2 DEF SpillLive
<1>12. CASE RecoverDone \/ ToolCrash \/ RollbackDone
  BY <1>1, <1>12 DEF RecoverDone, ToolCrash, RollbackDone, Cleanup, SpillLive, CopyPcs, pgVars
<1>13. CASE RecoverFail \/ RollbackWipe
  <2>1. rec'.lost = rec.lost /\ rec.pc \in CopyPcs
    BY <1>1, <1>13 DEF RecoverFail, RollbackWipe, RecSet, CopyPcs
  <2>2. pgdata' = pgdata \/ pgdata' = Torn
    BY <1>13 DEF RecoverFail, RollbackWipe
  <2>3. pg' = pg \/ pg' = "down"
    BY <1>13 DEF RecoverFail, RollbackWipe, StopPg
  <2> QED
    BY <1>1, <2>1, <2>2, <2>3 DEF SpillLive
<1> QED
  BY <1>2, <1>3, <1>4, <1>5, <1>6, <1>7, <1>8, <1>9, <1>10, <1>11, <1>12, <1>13 DEF Next, Recover

LEMMA QuietSpillFile ==
  ASSUME TInv, [Next]_vars, ~Spill, ~Commit, ~Branch
  PROVE  spill' = spill /\ db' = db
<1>2. CASE UNCHANGED vars
  BY <1>2 DEF vars, pgVars, local
<1>3. CASE Compact
  BY <1>3 DEF Compact, CompactPut, CompactPublish, CompactAdvance, CompactDelete, CompactFail, pgVars, local
<1>4. ASSUME NEW i \in Items, Write(i) \/ Evict(i) PROVE spill' = spill /\ db' = db
  BY <1>4 DEF Write, Evict, pgVars, local
<1>5. ASSUME NEW kind, CheckpointStart(kind) PROVE spill' = spill /\ db' = db
  BY <1>5 DEF CheckpointStart, pgVars, local
<1>6. CASE LoadManifest \/ NoNewSegments \/ CheckpointEnd \/ Crash \/ Start \/ Promote
  BY <1>6 DEF LoadManifest, NoNewSegments, CheckpointEnd, Crash, Start, Promote, pgVars, local
<1>7. CASE Recover
  BY <1>7 DEF Recover, RecoverBegin, SnapshotStart, SnapshotEnd, Wipe, Materialize, DeleteAllSegments,
     Configure, RecoverDone, RecoverFail, RollbackWipe, RollbackRestore, RollbackDone, ToolCrash, pgVars, local
<1> QED
  BY <1>2, <1>3, <1>4, <1>5, <1>6, <1>7 DEF Next

LEMMA NextSpillRefs ==
  ASSUME TInv, Shape', RefInv, [Next]_vars
  PROVE  SpillRefs'
<1>1. SpillRefs /\ HeadInv /\ CompHead /\ DraftRefs /\ spoiled \subseteq spoiled' /\ spoiled' \subseteq Items
  BY Monotone DEF RefInv
<1>2. CASE Commit \/ Branch
  <2>1. spill' = NoItems
    BY <1>2 DEF Commit, Branch
  <2> QED
    BY <2>1, NoItemsFns DEF SpillRefs
<1>3. CASE Spill
  <2>1. /\ DOMAIN spill' = DOMAIN shm.draft \cup DOMAIN spill /\ pg # "down" /\ db' = db
    BY <1>3 DEF Spill, pgVars, Override
  <2>2. SpillLive /\ HeadStays
    <3>1. pgdata.ok /\ (pgdata.target = 0 \/ pg # "down")
      BY <2>1 DEF TInv, PosInv, Phase
    <3>2. shm \in ShmSet
      BY DEF TInv, Shape, MemShape
    <3> QED
      BY <1>3, <3>1, <3>2 DEF SpillLive, HeadStays, Spill, pgVars, storage, ShmSet
  <2>3. NextHead' = NextHead
    BY <1>1, <2>2, HeadKept
  <2> SUFFICES ASSUME NEW c \in DOMAIN spill', NEW p, p = <<db', NextHead'>>
               PROVE  Found(c, p)'
    BY DEF SpillRefs
  <2>4. CASE spoiled = Items
    BY <1>1, <2>4 DEF Found, Items
  <2>5. CASE spoiled # Items
    <3>1. p = <<db, shm.head>> /\ p = <<db, NextHead>>
      BY <1>1, <2>1, <2>3, <2>5 DEF HeadInv
    <3>2. Found(c, p)
      BY <1>1, <2>1, <2>2, <3>1 DEF DraftRefs, SpillRefs
    <3> QED
      BY <3>2, FoundStays
  <2> QED
    BY <2>4, <2>5
<1>4. CASE Start
  <2>1. /\ UNCHANGED <<spill, db, pgdata, rec>> \/ rec'.lost = rec.lost
        /\ UNCHANGED <<spill, db, pgdata>> /\ pgdata.ok
        /\ pgdata.target # 0 => DOMAIN spill \subseteq spoiled'
    BY <1>4 DEF Start, TInv, Shape, LocalShape, RecSet
  <2>2. SpillLive \/ DOMAIN spill \subseteq spoiled'
    BY <2>1 DEF SpillLive
  <2> QED
    BY <1>1, <1>4, <2>1, <2>2, SpillKept, StartHead
<1>5. CASE Configure
  <2>1. rec.pc = "configure" /\ pgdata'.target = rec.target /\ rec' = [rec EXCEPT !.pc = "start"] /\ pg' = pg
    BY <1>5 DEF Configure
  <2>2. /\ rec \in RecSet /\ rec.lost # {} /\ pg = "down" /\ rec.b \in backups /\ LsnOf(rec.b.ckpt) <= rec.target
        /\ rec.target \in Lsns /\ BkPos
    BY <2>1 DEF TInv, Shape, LocalShape, PosInv, RecPhase, RecSet
  <2>3. rec.target # 0
    <3>1. rec.b \in BkSet /\ rec.b.redo < LsnOf(rec.b.ckpt)
      BY <2>2 DEF BkPos, RecSet
    <3>2. rec.b.redo \in Nat /\ LsnOf(rec.b.ckpt) \in Nat
      BY <3>1, CkptBound, Bounds DEF BkSet
    <3> QED
      BY <2>2, <3>1, <3>2, Bounds
  <2>4. ~SpillLive'
    BY <2>1, <2>2, <2>3 DEF SpillLive, RecSet
  <2> QED
    BY <2>4 DEF SpillRefs
<1>6. CASE RollbackRestore
  <2>1. /\ rec.pc = "restore" /\ UNCHANGED <<spill, db, segs>>
        /\ rec.lost # {} => DOMAIN spill \subseteq spoiled' \/ spoiled' = Items
    BY <1>6 DEF RollbackRestore, local, storage
  <2>2. SpillLive \/ DOMAIN spill \subseteq spoiled'
    <3>1. DOMAIN spill \subseteq Items
      BY FnsDef DEF TInv, Shape, LocalShape
    <3> QED
      BY <2>1, <3>1 DEF SpillLive, CopyPcs
  <2>3. NextHead' = NextHead
    BY <2>1 DEF NextHead, SegsHere
  <2> QED
    BY <1>1, <2>1, <2>2, <2>3, SpillKept
<1>7. CASE DeleteAllSegments
  <2>1. /\ rec.pc = "delete" /\ rec' = [rec EXCEPT !.pc = "configure", !.lost = gone \cup SegsHere] /\ pgdata' = pgdata
    BY <1>7 DEF DeleteAllSegments, pgVars
  <2>2. rec \in RecSet /\ SegsHere # {} /\ ~pgdata.ok
    BY <2>1 DEF TInv, Shape, LocalShape, PosInv, RecPhase
  <2>3. rec'.lost # {}
    BY <2>1, <2>2 DEF RecSet
  <2> QED
    BY <2>1, <2>2, <2>3 DEF SpillRefs, SpillLive
<1>8. CASE CompactDelete
  <2>1. spill' = spill /\ db' = db /\ (SpillLive' => SpillLive) /\ spoiled' = spoiled
    BY <1>8 DEF CompactDelete, local, pgVars, SpillLive
  <2> QED
    BY <1>1, <1>8, <2>1, SpillKept, CompactDeleteHead
<1>9. CASE Promote
  <2>1. spill' = spill /\ db' = db /\ segs' = segs /\ spoiled' = spoiled /\ pg = "recovering"
    BY <1>9 DEF Promote, local, storage
  <2>2. SpillLive /\ NextHead' = NextHead
    BY <2>1 DEF SpillLive, TInv, PosInv, Phase, NextHead, SegsHere
  <2> QED
    BY <1>1, <2>1, <2>2, SpillKept
<1>10. CASE ~Commit /\ ~CompactDelete /\ ~Start /\ ~Promote /\ ~Branch /\ ~DeleteAllSegments /\ ~Configure
            /\ ~RollbackRestore /\ ~Spill
  <2>1. HeadStays /\ (SpillLive' => SpillLive) /\ spill' = spill /\ db' = db
    BY <1>10, QuietHead, QuietSpill, QuietSpillFile
  <2>2. NextHead' = NextHead
    BY <1>1, <2>1, HeadKept
  <2> QED
    BY <1>1, <2>1, <2>2, SpillKept
<1> QED
  BY <1>2, <1>3, <1>4, <1>5, <1>6, <1>7, <1>8, <1>9, <1>10

LEMMA InitRefs == Init => RefInv
<1> SUFFICES ASSUME Init PROVE RefInv
  OBVIOUS
<1>1. SegsHere = {Initdb} /\ shm.active = {Initdb} /\ shm.head = Initdb.ckpt /\ shm.draft = NoItems
  BY DEF Init, SegsHere, Initdb, Fresh
<1>2. AllSegs = {Initdb} /\ Manifests = {Empty}
  BY <1>1, NoRecShape, NoCkShape, NoItemsFns DEF Init, AllSegs, Manifests, Range
<1>3. NextHead = Initdb.ckpt
  <2>1. HeadsAre
    BY InitShape, HeadsOk
  <2>2. Initdb.ckpt <= Initdb.ckpt
    BY InitdbShape, CkptsNat DEF SegSet
  <2> QED
    BY <1>1, <2>1, <2>2 DEF HeadsAre, SegsHere
<1>4. HeadInv
  BY <1>1, <1>3, InitdbShape DEF Init, HeadInv
<1>5. CompHead
  BY NoCkShape DEF Init, CompHead
<1>6. ManRefs /\ DraftRefs /\ SpillRefs
  BY <1>1, <1>2, NoItemsFns DEF ManRefs, DraftRefs, SpillRefs, Empty, Init
<1>7. SegRefs
  <2>1. Initdb.db = 0 /\ Initdb.prev = 0 /\ Initdb.chunks = InitdbChunks
    BY DEF Initdb
  <2>2. \A c \in InitdbChunks : c \in Chunks /\ objs[c] = Put(NoItems, <<0, 0>>, {})
    BY RecoveryAssumption DEF Init
  <2>3. \A c \in InitdbChunks : <<0, 0>> \in DOMAIN objs[c]
    BY <2>2 DEF Put
  <2> QED
    BY <1>2, <2>1, <2>3 DEF SegRefs, Found
<1> QED
  BY <1>4, <1>5, <1>6, <1>7 DEF RefInv

\* Every reference of a manifest, a checkpoint, the draft or the spill file is to an object
\* that exists.
THEOREM References == Spec => []RefInv
<1>1. Spec => []TInv
  BY Positions
<1>2. TInv /\ RefInv /\ [Next]_vars => RefInv'
  <2> SUFFICES ASSUME TInv, RefInv, [Next]_vars PROVE RefInv'
    OBVIOUS
  <2>1. Shape' /\ HeadInv /\ CompHead /\ DraftRefs
    BY NextShape DEF RefInv
  <2> QED
    BY <2>1, NextHeadInv, NextManRefs, NextSegRefs, NextDraftRefs, NextSpillRefs DEF RefInv
<1> QED
  BY <1>1, <1>2, InitRefs, PTL DEF Spec

\* Only a backup's compaction that fails before its PUT leaves a backup without an anchor.
LEMMA UnanchoredStep ==
  ASSUME [Next]_vars
  PROVE  unanchored \subseteq unanchored' /\ unanchored' \subseteq unanchored \cup {<<db, ck.ckpt>>}
<1>1. CASE UNCHANGED vars
  BY <1>1 DEF vars, history
<1>2. CASE Recover
  BY <1>2 DEF Recover, RecoverBegin, SnapshotStart, SnapshotEnd, Wipe, Materialize, DeleteAllSegments,
     Configure, RecoverDone, RecoverFail, RollbackWipe, RollbackRestore, RollbackDone, ToolCrash, history
<1>3. CASE Compact
  BY <1>3 DEF Compact, CompactPut, CompactPublish, CompactAdvance, CompactDelete, CompactFail, history
<1>4. ASSUME NEW i \in Items, Write(i) \/ Evict(i) PROVE unanchored' = unanchored
  BY <1>4 DEF Write, Evict, history
<1>5. ASSUME NEW kind, CheckpointStart(kind) PROVE unanchored' = unanchored
  BY <1>5 DEF CheckpointStart, history
<1>6. CASE Spill \/ LoadManifest \/ Commit \/ NoNewSegments \/ CheckpointEnd
  BY <1>6 DEF Spill, LoadManifest, Commit, NoNewSegments, CheckpointEnd, history
<1>7. CASE Crash \/ Start \/ Promote \/ Branch
  BY <1>7 DEF Crash, Start, Promote, Branch, history
<1> QED
  BY <1>1, <1>2, <1>3, <1>4, <1>5, <1>6, <1>7 DEF Next

UnanchoredIn == unanchored \subseteq {0, 1} \X Ckpts

LEMMA Unanchored == Spec => []UnanchoredIn
<1>1. Init => UnanchoredIn
  BY DEF Init, UnanchoredIn
<1>2. TInv /\ UnanchoredIn /\ [Next]_vars => UnanchoredIn'
  <2> SUFFICES ASSUME TInv, UnanchoredIn, [Next]_vars PROVE UnanchoredIn'
    OBVIOUS
  <2>1. <<db, ck.ckpt>> \in {0, 1} \X Ckpts
    BY DEF TInv, Shape, PgShape, MemShape, CkSet
  <2>2. \A x \in {0, 1} \X Ckpts : x \in ({0, 1} \X Ckpts)'
    BY DEF Ckpts, Ckpt, MaxLsn
  <2> QED
    BY <2>1, <2>2, UnanchoredStep DEF UnanchoredIn
<1> QED
  BY <1>1, <1>2, Positions, PTL DEF Spec

LEMMA TypeIs == TInv /\ ManRefs /\ UnanchoredIn => TypeOK
<1> SUFFICES ASSUME TInv, ManRefs, UnanchoredIn PROVE TypeOK
  OBVIOUS
<1>1. PgShape /\ MemShape /\ StoreShape /\ LocalShape
  BY DEF TInv, Shape
<1>2. Cardinality(bak) <= 1 /\ Cardinality(tikm) <= 1
  BY <1>1, AtMostOne DEF PgShape, LocalShape
<1>3. \A k \in Lines : line[k] \subseteq 1..Len(wal) /\ ends[k] \in Lsns
  BY <1>1 DEF PgShape, Content
<1>4. DOMAIN cache \subseteq Items /\ Range(cache) \subseteq Content
  BY <1>1, FnsDef DEF MemShape, Range
<1>5. shm.draft \in [DOMAIN shm.draft -> Content]
  <2>1. shm.draft \in Fns(Items, Content)
    BY <1>1 DEF MemShape, ShmSet
  <2> QED
    BY <2>1, FnsDef
<1>6. ASSUME NEW m \in tikm \cup Range(bases)
      PROVE  Manifest(m) /\ \A c \in DOMAIN m.refs \ spoiled : m.refs[c] \in DOMAIN objs[c]
  <2>1. m \in ManSet /\ m \in Manifests
    BY <1>1, FnsDef DEF LocalShape, StoreShape, Range, Manifests
  <2>2. m.refs \in Fns(Chunks, Prefixes) /\ m.rels \in Fns(Relforks, Content) /\ m.ckpt \in Ckpts
    BY <2>1 DEF ManSet
  <2>3. DOMAIN m.refs \subseteq Chunks /\ Range(m.refs) \subseteq Prefixes
        /\ DOMAIN m.rels \subseteq Relforks /\ Range(m.rels) \subseteq Content
    BY <2>2, FnsDef DEF Range
  <2> QED
    BY <2>1, <2>2, <2>3 DEF Manifest, ManRefs, Found, Prefixes
<1> QED
  BY <1>1, <1>2, <1>3, <1>4, <1>5, <1>6 DEF TypeOK, PgShape, MemShape, StoreShape, LocalShape, DirSet, ShmSet, BkSet,
     UnanchoredIn

\* The variables keep their types, and a chunk reference of a manifest names an object that
\* exists (manifest.rs, store.rs), apart from the chunks in spoiled.
THEOREM RecoveryTypeOK == Spec => []TypeOK
<1>1. TInv /\ RefInv /\ UnanchoredIn => TypeOK
  BY TypeIs DEF RefInv
<1> QED
  BY <1>1, Positions, References, Unanchored, PTL

-----------------------------------------------------------------------------
(* The first timeline: a database that has not been recovered to a point in time or
   branched, with its crashes and restarts *)

First == db = 0 /\ recovers = 0
One   == <<0, 1>>
Ever  == segs \cup gone

\* What a committed checkpoint holds of an item.
Val(s, i) == IF i \in Chunks THEN objs[i][<<s.db, s.prev>>] ELSE s.rels[i]

\* The records of an item up to an LSN, and whether there are some after it.
Upto(i, l)    == Records(i, One, l)
Touched(i, l) == \E r \in line[One] : wal[r].item = i /\ wal[r].lsn > l

\* Every record up to an LSN is in a checkpoint at or before c.
Covered(i, c, l) == \A r \in Upto(i, l) : \E s \in Ever : i \in ItemsOf(s) /\ s.ckpt <= c /\ r \in Val(s, i)

\* What has not been committed: the draft and its spill file.
Pending    == DOMAIN shm.draft \cup DOMAIN spill
Held(i, f) == IF i \in Chunks THEN objs[i][<<0, NextHead>>] ELSE f[i]
Pend(i)    == Held(i, IF i \in DOMAIN shm.draft THEN shm.draft ELSE spill)
HeadObj(i) == i \in Chunks /\ <<0, NextHead>> \in DOMAIN objs[i]

\* The redo position that a crash would leave, and the one that the caches are newer than.
KeptRedo  == IF ck.pc \in {"compact", "end"} THEN ck.redo ELSE pgdata.redo
CacheRedo == IF ck.pc # "idle" THEN ck.redo ELSE pgdata.redo

Quiet ==
  /\ rec = NoRec /\ bak = {} /\ abandoned = {}
  /\ pgdata.ok /\ pgdata.tl = 1 /\ pgdata.target = 0
  /\ \A r \in line[One] : wal[r].lsn <= ends[One]
  /\ ck.pc = "idle" => ck.kind # "shutdown"

Order ==
  /\ segs # {}
  /\ \A s \in Ever : s.ckpt <= NextHead /\ s.prev < s.ckpt
  /\ \A m \in Manifests : m.ckpt <= NextHead /\ \A c \in DOMAIN m.refs : m.refs[c][2] < NextHead
  /\ \A k \in DOMAIN bases : k[2] <= NextHead
  /\ \A c \in Chunks : \A p \in DOMAIN objs[c] : p[2] <= NextHead
  /\ shm.base <= NextHead /\ (pg = "up" => shm.head = NextHead)
  /\ ck.pc \in {"compact", "end"} => ck.ckpt = NextHead

\* What a manifest's key is ahead of its header by holds nothing.
Gaps == \A k \in DOMAIN bases : \A s \in Ever :
          bases[k].ckpt < s.ckpt /\ s.ckpt <= k[2] => ItemsOf(s) = {}

Full(s) == ItemsOf(s) # {}

Base ==
  pg = "up" =>
    /\ \A g \in gone : Full(g) => g.ckpt <= shm.base
    /\ shm.active \subseteq Ever /\ shm.active # {}
    /\ \A s \in shm.active, r \in segs : r.ckpt > s.ckpt => r \in shm.active
    /\ ManifestsAt(shm.base) # {} \/ comp.pc = "published" \/ ck.kind = "shutdown"

CompInv ==
  /\ comp.pc # "idle" =>
       /\ <<0, comp.key>> \in DOMAIN bases /\ bases[<<0, comp.key>>] = comp.m
       /\ \A g \in gone : Full(g) => g.ckpt <= comp.key
       /\ comp.pc = "delete" => shm.base = comp.key
  /\ ck.pc = "compact" /\ ~comp.inline =>
       shm.base < ck.ckpt /\ (comp.pc # "idle" => comp.key < ck.ckpt)

\* A base manifest at or before a checkpoint that has everything that it holds.
Anchored(c) == \E k \in DOMAIN bases : /\ k[2] <= c
                                   /\ \A s \in Ever : Full(s) /\ s.ckpt <= c => s.ckpt <= k[2]

Good(c) == <<0, c>> \in unanchored \/ Anchored(c)

Tails ==
  /\ \A b \in backups : Good(b.ckpt) /\ b.ckpt <= pgdata.ckpt
  /\ ck.kind = "backup" /\ (ck.pc = "end" \/ (ck.pc = "compact" /\ comp.inline)) => Good(ck.ckpt)

SegVal(i) ==
  /\ \A s \in Ever : i \in ItemsOf(s) => Val(s, i) \subseteq Upto(i, LsnOf(s.ckpt))
  /\ \A s, r \in Ever : i \in ItemsOf(s) /\ i \in ItemsOf(r) /\ s.ckpt <= r.ckpt => Val(s, i) \subseteq Val(r, i)

ManOk(m, i) ==
  /\ m.ckpt = 0 \/ TimelineOf(m.ckpt) = 1
  /\ Resolve(m, i) \subseteq Upto(i, LsnOf(m.ckpt))
  /\ \A s \in Ever : i \in ItemsOf(s) =>
       IF s.ckpt <= m.ckpt THEN Val(s, i) \subseteq Resolve(m, i) ELSE Resolve(m, i) \subseteq Val(s, i)
ManVal(i) == \A m \in Manifests : ManOk(m, i)

DirVal(i) ==
  /\ Covered(i, pgdata.ckpt, pgdata.redo)
  /\ \A b \in backups : Covered(i, b.ckpt, b.redo)
  /\ \A s \in Ever : i \in ItemsOf(s) /\ s.ckpt > pgdata.ckpt => Touched(i, pgdata.redo)

PendVal(i) ==
  /\ \A f \in {shm.draft, spill} : i \in DOMAIN f =>
       /\ Touched(i, KeptRedo) /\ Held(i, f) \subseteq Upto(i, Lsn)
       /\ \A s \in Ever : i \in ItemsOf(s) => Val(s, i) \subseteq Held(i, f)
       /\ \A m \in Manifests : Resolve(m, i) \subseteq Held(i, f)
  /\ HeadObj(i) => Touched(i, KeptRedo)

\* While the store runs: no object under the head's prefix is forgotten; ...
HeadHeld(i) == HeadObj(i) => i \in DOMAIN cache \cup DOMAIN shm.draft \/ (shm.spilled /\ i \in DOMAIN spill)
\* ... the newest of cache, draft and checkpoints has all records; ...
CacheIs(i)  == i \in DOMAIN cache => cache[i] = Upto(i, Lsn) /\ Touched(i, CacheRedo)
PendIs(i)   == i \in Pending \ DOMAIN cache => (i \in DOMAIN shm.draft \/ shm.spilled) /\ Pend(i) = Upto(i, Lsn)
CleanIs(i)  == i \notin DOMAIN cache \cup Pending => Covered(i, NextHead, Lsn)
\* ... a checkpoint has the records before its redo position; ...
FlushIs(i)  == ck.pc = "flushed" => IF i \in Pending THEN Upto(i, ck.redo) \subseteq Pend(i) ELSE Covered(i, NextHead, ck.redo)
EndIs(i)    == ck.pc \in {"compact", "end"} => Covered(i, NextHead, ck.redo)
\* ... and the active window skips nothing of an item.
WindowOk(i) == \A s \in shm.active, r \in Ever :
  i \in ItemsOf(s) /\ i \in ItemsOf(r) /\ r.ckpt > s.ckpt => r \in shm.active
UpVal(i) ==
  pg = "up" => HeadHeld(i) /\ CacheIs(i) /\ PendIs(i) /\ CleanIs(i) /\ FlushIs(i) /\ EndIs(i) /\ WindowOk(i)

StoreInv   == Quiet /\ Order /\ Gaps /\ Base /\ CompInv /\ Tails
ItemInv(i) == SegVal(i) /\ ManVal(i) /\ DirVal(i) /\ PendVal(i) /\ UpVal(i)
FirstInv   == First => StoreInv /\ \A i \in Items \ spoiled : ItemInv(i)

\* The steps that leave the database on its first timeline.
FirstNext ==
  \/ \E i \in Items : Write(i) \/ Evict(i)
  \/ Spill \/ LoadManifest
  \/ \E kind \in {"online", "backup", "shutdown"} : CheckpointStart(kind)
  \/ Commit \/ NoNewSegments \/ CheckpointEnd
  \/ Compact \/ Crash \/ Start
  \/ UNCHANGED vars

LEMMA FirstStep ==
  ASSUME TInv, FirstInv, [Next]_vars, First'
  PROVE  First /\ StoreInv /\ FirstNext
<1>1. recovers \in Nat /\ recovers' = 0 /\ db' = 0
  BY DEF TInv, PosInv, Bound, First
<1>2. First
  <2>1. CASE UNCHANGED vars
    BY <1>1, <2>1 DEF vars, pgVars, counters, First
  <2>2. CASE Recover
    BY <1>1, <2>2 DEF Recover, RecoverBegin, SnapshotStart, SnapshotEnd, Wipe, Materialize, DeleteAllSegments,
       Configure, RecoverDone, RecoverFail, RollbackWipe, RollbackRestore, RollbackDone, ToolCrash, pgVars, counters, First
  <2>3. CASE Compact
    BY <1>1, <2>3 DEF Compact, CompactPut, CompactPublish, CompactAdvance, CompactDelete, CompactFail, pgVars, counters, First
  <2>4. CASE \E i \in Items : Write(i) \/ Evict(i)
    BY <1>1, <2>4 DEF Write, Evict, pgVars, counters, First
  <2>5. CASE Spill \/ LoadManifest \/ Commit \/ NoNewSegments \/ CheckpointEnd
    BY <1>1, <2>5 DEF Spill, LoadManifest, Commit, NoNewSegments, CheckpointEnd, pgVars, counters, First
  <2>6. CASE \E kind \in {"online", "backup", "shutdown"} : CheckpointStart(kind)
    BY <1>1, <2>6 DEF CheckpointStart, pgVars, First
  <2>7. CASE Crash \/ Start \/ Promote \/ Branch
    BY <1>1, <2>7 DEF Crash, Start, Promote, Branch, counters, First
  <2> QED
    BY <2>1, <2>2, <2>3, <2>4, <2>5, <2>6, <2>7 DEF Next
<1>3. StoreInv
  BY <1>2 DEF FirstInv
<1>4. ~Branch
  BY <1>1 DEF Branch
<1>5. ~Promote
  BY <1>3 DEF Promote, StoreInv, Quiet, TInv, PosInv, Phase
<1>6. ~RecoverBegin
  BY <1>1, <1>2, <1>3 DEF RecoverBegin, StoreInv, Quiet, First
<1>7. ~Recover
  BY <1>3, <1>6, NoRecShape DEF Recover, SnapshotStart, SnapshotEnd, Wipe, Materialize, DeleteAllSegments,
     Configure, RecoverDone, RecoverFail, RollbackWipe, RollbackRestore, RollbackDone, ToolCrash, StoreInv, Quiet
<1> QED
  BY <1>2, <1>3, <1>4, <1>5, <1>7 DEF Next, FirstNext

LEMMA InitFirst == Init => FirstInv
<1> SUFFICES ASSUME Init PROVE StoreInv /\ \A i \in Items \ spoiled : ItemInv(i)
  BY DEF FirstInv
<1>1. /\ pg = "up" /\ db = 0 /\ wal = <<>> /\ line = [k \in Lines |-> {}]
      /\ pgdata = [ok |-> TRUE, tl |-> 1, ckpt |-> Initdb.ckpt, redo |-> 0, target |-> 0]
      /\ bak = {} /\ ck = NoCk /\ comp = NoComp /\ cache = NoItems
      /\ shm = [Fresh EXCEPT !.head = Initdb.ckpt, !.active = {Initdb}]
      /\ objs = [c \in Chunks |-> IF c \in InitdbChunks THEN Put(NoItems, <<0, 0>>, {}) ELSE NoItems]
      /\ segs = {Initdb} /\ bases = NoItems /\ backups = {} /\ tikm = {Empty} /\ spill = NoItems
      /\ rec = NoRec /\ gone = {} /\ spoiled = {} /\ abandoned = {}
  BY DEF Init
<1>2. Shape /\ TInv /\ RefInv
  BY InitShape, InitPos, InitRefs DEF TInv
<1>3. /\ shm.head = Initdb.ckpt /\ shm.active = {Initdb} /\ shm.base = 0 /\ shm.draft = NoItems /\ shm.spilled = FALSE
      /\ pgdata.ckpt = Initdb.ckpt /\ pgdata.redo = 0 /\ pgdata.ok /\ pgdata.tl = 1 /\ pgdata.target = 0
      /\ ck.pc = "idle" /\ ck.kind = "online" /\ comp.pc = "idle" /\ comp.m = Empty /\ ~comp.inline
      /\ rec.saved = {}
  BY <1>1, NoRecShape DEF Fresh, NoCk, NoComp
<1>4. Initdb.ckpt \in Ckpts /\ Initdb.ckpt \in Nat /\ Initdb.ckpt > 0 /\ Initdb.db = 0 /\ Initdb.prev = 0
  <2>1. Initdb \in SegSet /\ LsnOf(Initdb.ckpt) = 1 /\ Initdb.ckpt \in Ckpts /\ Initdb.ckpt \in Nat
    BY InitdbShape, CkptsNat DEF SegSet
  <2>2. Initdb.ckpt # 0
    BY <2>1, ZeroCkpt
  <2> QED
    BY <2>1, <2>2 DEF Initdb
<1>5. SegsHere = {Initdb} /\ NextHead = Initdb.ckpt
  <2>1. SegsHere = {Initdb}
    BY <1>1, <1>4 DEF SegsHere
  <2>2. \A s \in SegsHere : s.ckpt <= NextHead /\ NextHead \in Ckpts
    BY <1>2, NextHeadIs
  <2>3. PICK s \in SegsHere : NextHead = s.ckpt
    BY <1>2, <2>1, NextHeadIs
  <2> QED
    BY <2>1, <2>3
<1>6. Ever = {Initdb} /\ DOMAIN bases = {} /\ Range(bases) = {} /\ DOMAIN shm.draft = {} /\ DOMAIN spill = {}
      /\ DOMAIN cache = {}
  BY <1>1, <1>3 DEF Ever, NoItems, Range
<1>7. Manifests = {Empty} /\ Empty.ckpt = 0 /\ DOMAIN Empty.refs = {} /\ DOMAIN Empty.rels = {}
  BY <1>1, <1>3, <1>6 DEF Manifests, Empty, NoItems
<1>8. line[One] = {}
  BY <1>1, RecoveryAssumption DEF One, Lines, Timelines
<1>9. \A i, l : Upto(i, l) = {}
  BY <1>8 DEF Upto, Records
<1>10. \A c \in Chunks : DOMAIN objs[c] \subseteq {<<0, 0>>} /\ \A p \in DOMAIN objs[c] : objs[c][p] = {}
  BY <1>1 DEF Put, NoItems
<1>11. \A c \in InitdbChunks : <<0, 0>> \in DOMAIN objs[c]
  BY <1>1, RecoveryAssumption DEF Put
<1>12. ItemsOf(Initdb) = InitdbChunks
  BY DEF ItemsOf, Initdb, NoItems
<1>13. StoreInv
  <2>1. Quiet
    BY <1>1, <1>3, <1>8 DEF Quiet
  <2>2. Order
    BY <1>1, <1>3, <1>4, <1>5, <1>6, <1>7, <1>10 DEF Order
  <2>3. ManifestsAt(shm.base) # {}
    BY <1>3 DEF ManifestsAt
  <2> QED
    BY <1>1, <1>3, <1>4, <1>6, <2>1, <2>2, <2>3 DEF StoreInv, Gaps, Base, CompInv, Tails, Ever
<1>14. ASSUME NEW i \in Items PROVE ItemInv(i)
  <2>1. \A s \in Ever : i \in ItemsOf(s) => Val(s, i) = {}
    <3>1. i \in ItemsOf(Initdb) => i \in Chunks /\ Val(Initdb, i) = {}
      BY <1>4, <1>10, <1>11, <1>12, RecoveryAssumption DEF Val
    <3> QED
      BY <1>6, <3>1
  <2>2. Resolve(Empty, i) = {}
    BY <1>7 DEF Resolve
  <2>3. i \notin Pending /\ ~HeadObj(i) /\ i \notin DOMAIN cache
    BY <1>4, <1>5, <1>6, <1>10 DEF Pending, HeadObj
  <2>4. \A c, l : Covered(i, c, l)
    BY <1>9 DEF Covered
  <2> QED
    BY <1>1, <1>3, <1>4, <1>6, <1>7, <2>1, <2>2, <2>3, <2>4
    DEF ItemInv, SegVal, ManVal, ManOk, DirVal, PendVal, UpVal, HeadHeld, CacheIs, PendIs, CleanIs, FlushIs, EndIs, WindowOk, Pending
<1> QED
  BY <1>13, <1>14

-----------------------------------------------------------------------------
(* Its WAL and its checkpoints, step by step *)

Ctx  == TInv /\ RefInv /\ First /\ StoreInv
Step == Ctx /\ FirstNext /\ First' /\ TInv' /\ RefInv'

LEMMA StepIsNext == FirstNext => [Next]_vars
  BY DEF FirstNext, Next

LEMMA FirstIs ==
  ASSUME Ctx
  PROVE  /\ db = 0 /\ recovers = 0 /\ rec = NoRec /\ rec.pc = "idle" /\ rec.saved = {} /\ rec.lost = {}
         /\ pgdata \in DirSet /\ pgdata.ok /\ pgdata.tl = 1 /\ pgdata.target = 0 /\ bak = {} /\ abandoned = {}
         /\ Here = One /\ One \in Lines /\ Lsn = ends[One] /\ Lsn \in Lsns /\ Lsn \in Nat
         /\ SegsHere = segs /\ pg \in {"down", "up"} /\ tikm # {} /\ SpillLive
         /\ segs \subseteq SegSet /\ gone \subseteq SegSet /\ Ever \subseteq SegSet /\ Ever \subseteq AllSegs
         /\ \A s \in Ever : s.db = 0 /\ s.ckpt \in Ckpts /\ s.ckpt \in Nat /\ s.prev \in Ckpts /\ s.prev \in Nat
                            /\ TimelineOf(s.ckpt) = 1 /\ LsnOf(s.ckpt) \in 1..Lsn
         /\ line[One] \subseteq 1..Len(wal) /\ pgdata.redo \in Nat /\ pgdata.ckpt \in Ckpts /\ pgdata.ckpt \in Nat
<1>1. db = 0 /\ recovers = 0 /\ rec = NoRec /\ pgdata.ok /\ pgdata.tl = 1 /\ pgdata.target = 0 /\ bak = {} /\ abandoned = {}
  BY DEF Ctx, First, StoreInv, Quiet
<1>2. rec.pc = "idle" /\ rec.saved = {} /\ rec.lost = {}
  BY <1>1, NoRecShape
<1>3. pgdata \in DirSet /\ pgdata.redo \in Nat /\ pgdata.ckpt \in Ckpts /\ pgdata.ckpt \in Nat
  BY Bounds, CkptsNat DEF Ctx, TInv, Shape, PgShape, DirSet
<1>4. Here = One /\ One \in Lines /\ Lsn = ends[One] /\ Lsn \in Lsns /\ Lsn \in Nat
  <2>1. Here = One
    BY <1>1 DEF Here, One
  <2> QED
    BY <1>1, <2>1, HereLine DEF Ctx, Lsn
<1>5. SegsHere = segs /\ \A s \in AllSegs : s.db = 0
  <2>1. \A s \in AllSegs : s.db = 0
    BY <1>1 DEF Ctx, TInv, PosInv, OneDb
  <2> QED
    BY <1>1, <2>1 DEF SegsHere, AllSegs
<1>6. pg \in {"down", "up"} /\ tikm # {} /\ SpillLive
  BY <1>1 DEF Ctx, TInv, Shape, PgShape, PosInv, Phase, SpillLive
<1>7. segs \subseteq SegSet /\ gone \subseteq SegSet /\ Ever \subseteq SegSet /\ Ever \subseteq AllSegs
  BY DEF Ctx, TInv, Shape, StoreShape, LocalShape, Ever, AllSegs
<1>8. MaxTl = 1
  BY <1>1, <1>2 DEF MaxTl, NewTimeline
<1>9. ASSUME NEW s \in Ever
      PROVE  s.db = 0 /\ s.ckpt \in Ckpts /\ s.ckpt \in Nat /\ s.prev \in Ckpts /\ s.prev \in Nat
             /\ TimelineOf(s.ckpt) = 1 /\ LsnOf(s.ckpt) \in 1..Lsn
  <2>1. s \in SegSet /\ s \in AllSegs /\ s.db = 0
    BY <1>5, <1>7
  <2>2. s.ckpt \in Ckpts /\ s.ckpt \in Nat /\ s.prev \in Ckpts /\ s.prev \in Nat
    BY <2>1, CkptsNat DEF SegSet
  <2>3. Valid(s.ckpt, 0)
    BY <2>1 DEF Ctx, TInv, PosInv, SegPos
  <2>4. TimelineOf(s.ckpt) = 1
    BY <1>8, <2>3 DEF Valid
  <2>5. LsnOf(s.ckpt) \in 1..ends[<<0, 1>>]
    BY <2>3, <2>4 DEF Valid
  <2> QED
    BY <1>4, <2>1, <2>2, <2>4, <2>5 DEF One
<1>10. line[One] \subseteq 1..Len(wal)
  BY <1>4 DEF Ctx, TInv, Shape, PgShape, Content
<1> QED
  BY <1>1, <1>2, <1>3, <1>4, <1>5, <1>6, <1>7, <1>9, <1>10

\* A change appends a record at the end of the timeline.
Written(i) ==
  /\ Len(wal') = Len(wal) + 1 /\ wal'[Len(wal) + 1].item = i /\ wal'[Len(wal) + 1].lsn = Lsn + 1
  /\ \A r \in 1..Len(wal) : wal'[r] = wal[r]
  /\ line'[One] = line[One] \cup {Len(wal) + 1} /\ ends'[One] = Lsn + 1

LEMMA WriteIs ==
  ASSUME Ctx, NEW i \in Items, Write(i)
  PROVE  Written(i)
<1>1. /\ wal' = Append(wal, [item |-> i, lsn |-> Lsn + 1])
      /\ ends' = [ends EXCEPT ![Here] = @ + 1]
      /\ line' = [line EXCEPT ![Here] = @ \cup {Len(wal) + 1}]
  BY DEF Write
<1>2. Here = One /\ One \in Lines /\ Lsn = ends[One] /\ line \in [Lines -> Content] /\ ends \in [Lines -> Lsns]
      /\ wal \in Seq([item : Items, lsn : Lsns])
  BY FirstIs DEF Ctx, TInv, Shape, PgShape
<1>3. /\ Len(wal') = Len(wal) + 1 /\ wal'[Len(wal) + 1] = [item |-> i, lsn |-> Lsn + 1]
      /\ \A r \in 1..Len(wal) : wal'[r] = wal[r]
  BY <1>1, <1>2
<1> QED
  BY <1>1, <1>2, <1>3 DEF Written

\* The other steps write no record.
LEMMA NotWritten ==
  ASSUME Ctx, FirstNext, \A i \in Items : ~Write(i)
  PROVE  wal' = wal /\ line' = line /\ (~Commit => ends' = ends)
<1>1. CASE Spill \/ LoadManifest \/ Commit \/ NoNewSegments \/ CheckpointEnd \/ Crash \/ Start
  BY <1>1 DEF Spill, LoadManifest, Commit, NoNewSegments, CheckpointEnd, Crash, Start, pgVars
<1>2. CASE Compact
  BY <1>2 DEF Compact, CompactPut, CompactPublish, CompactAdvance, CompactDelete, CompactFail, pgVars
<1>3. CASE \E i \in Items : Evict(i)
  BY <1>3 DEF Evict, pgVars
<1>4. CASE \E kind \in {"online", "backup", "shutdown"} : CheckpointStart(kind)
  BY <1>4 DEF CheckpointStart, pgVars
<1>5. CASE UNCHANGED vars
  BY <1>5 DEF vars, pgVars
<1> QED
  BY <1>1, <1>2, <1>3, <1>4, <1>5 DEF FirstNext

LEMMA RecordsGrow ==
  ASSUME Ctx, NEW i \in Items, Written(i)
  PROVE  /\ \A j : \A l \in Nat : Upto(j, l) \subseteq Upto(j, l)' /\ (l <= Lsn => Upto(j, l)' = Upto(j, l))
         /\ \A j, l : j # i => Upto(j, l)' = Upto(j, l)
         /\ \A l \in Nat : l = Lsn + 1 => Upto(i, l)' = Upto(i, Lsn) \cup {Len(wal) + 1}
         /\ \A j, l : Touched(j, l) => Touched(j, l)'
         /\ \A l \in Nat : l <= Lsn => Touched(i, l)'
<1>1. line[One] \subseteq 1..Len(wal) /\ Lsn \in Nat /\ Len(wal) \in Nat /\ \A r \in line[One] : wal[r].lsn <= Lsn
  BY FirstIs DEF Ctx, StoreInv, Quiet, TInv, Shape, PgShape
<1>2. \A r \in line[One] : wal'[r] = wal[r] /\ r # Len(wal) + 1 /\ wal[r].lsn \in Nat
  <2>1. \A r \in 1..Len(wal) : wal[r].lsn \in Nat
    BY WalIs DEF Ctx, TInv, Shape
  <2> QED
    BY <1>1, <2>1 DEF Written
<1> DEFINE n == Len(wal) + 1
<1>3. line'[One] = line[One] \cup {n} /\ wal'[n].item = i /\ wal'[n].lsn = Lsn + 1
  BY DEF Written
<1> HIDE DEF n
<1>4. \A j, l : Upto(j, l)' = Upto(j, l) \cup (IF j = i /\ Lsn + 1 <= l THEN {n} ELSE {})
  BY <1>2, <1>3 DEF Upto, Records
<1>5. Upto(i, Lsn + 1) = Upto(i, Lsn)
  BY <1>1, <1>2 DEF Upto, Records
<1>6. \A j, l : Touched(j, l) => Touched(j, l)'
  BY <1>2, <1>3 DEF Touched
<1>7. \A l \in Nat : l <= Lsn => Touched(i, l)'
  BY <1>1, <1>3 DEF Touched
<1>8. ASSUME NEW j, NEW l \in Nat PROVE Upto(j, l) \subseteq Upto(j, l)' /\ (l <= Lsn => Upto(j, l)' = Upto(j, l))
  <2>1. Upto(j, l)' = Upto(j, l) \cup (IF j = i /\ Lsn + 1 <= l THEN {n} ELSE {})
    BY <1>4
  <2>2. l <= Lsn => ~(Lsn + 1 <= l)
    BY <1>1
  <2> QED
    BY <2>1, <2>2
<1>9. \A j, l : j # i => Upto(j, l)' = Upto(j, l)
  BY <1>4
<1>10. ASSUME NEW l \in Nat, l = Lsn + 1 PROVE Upto(i, l)' = Upto(i, Lsn) \cup {n}
  BY <1>1, <1>4, <1>5, <1>10
<1> USE DEF n
<1> QED
  BY <1>6, <1>7, <1>8, <1>9, <1>10

LEMMA RecordsStay ==
  ASSUME wal' = wal, line' = line
  PROVE  /\ \A j, l : Upto(j, l)' = Upto(j, l)
         /\ \A j, l : Touched(j, l)' <=> Touched(j, l)
  BY DEF Upto, Records, Touched

\* Nothing is after the end of the WAL.
LEMMA RecordsIn ==
  ASSUME Ctx, NEW i
  PROVE  /\ \A l \in Nat : Upto(i, l) \subseteq Upto(i, Lsn)
         /\ \A l, k \in Nat : l <= k => Upto(i, l) \subseteq Upto(i, k)
         /\ \A l \in Nat : l <= Lsn /\ ~Touched(i, l) => Upto(i, l) = Upto(i, Lsn)
<1>1. line[One] \subseteq 1..Len(wal) /\ Lsn \in Nat /\ \A r \in line[One] : wal[r].lsn <= Lsn
  BY FirstIs DEF Ctx, StoreInv, Quiet
<1>2. \A r \in line[One] : wal[r].lsn \in Nat
  BY <1>1, WalIs DEF Ctx, TInv, Shape
<1> QED
  BY <1>1, <1>2 DEF Upto, Records, Touched

LEMMA HeadIsNow ==
  ASSUME Ctx
  PROVE  /\ NextHead \in Ckpts /\ NextHead \in Nat /\ NextHead > 0
         /\ \E s \in segs : s.ckpt = NextHead /\ \A r \in segs : r.ckpt <= s.ckpt
         /\ TimelineOf(NextHead) = 1 /\ LsnOf(NextHead) \in 1..Lsn
<1>1. SegsHere = segs /\ segs # {} /\ segs \subseteq Ever
  BY FirstIs DEF Ctx, StoreInv, Order, Ever
<1>2. PICK s \in segs : NextHead = s.ckpt
  BY <1>1, NextHeadIs DEF Ctx
<1>3. NextHead \in Ckpts /\ NextHead \in Nat /\ \A r \in segs : r.ckpt <= NextHead
  BY <1>1, NextHeadIs, CkptsNat DEF Ctx
<1>4. TimelineOf(NextHead) = 1
  BY <1>1, <1>2, FirstIs
<1>5. NextHead # 0
  BY <1>4, ZeroCkpt
<1> QED
  BY <1>1, <1>2, <1>3, <1>4, <1>5, FirstIs

\* The newest checkpoint is the new one of a commit, and otherwise stays.
HeadMoves(s) == Committed(s) /\ NextHead' = s.ckpt /\ NextHead < s.ckpt /\ Ever' = Ever \cup {s}

LEMMA HeadStep ==
  ASSUME Step
  PROVE  \/ NextHead' = NextHead /\ ~Commit /\ Ever' \subseteq Ever /\ (~Start => Ever' = Ever) /\ segs' # {}
         \/ Commit /\ \E s : HeadMoves(s)
<1>0. Ctx /\ FirstNext /\ TInv /\ Shape' /\ [Next]_vars /\ db = 0 /\ db' = 0 /\ SegsHere = segs
  BY StepIsNext, FirstIs DEF Step, Ctx, TInv, First
<1>a. SegsHere' = segs'
  BY <1>0 DEF SegsHere, Step, TInv, PosInv, OneDb, AllSegs
<1>1. PICK h \in segs : h.ckpt = NextHead /\ \A r \in segs : r.ckpt <= h.ckpt
  BY <1>0, HeadIsNow
<1>2. CASE Commit
  <2>1. PICK s : Committed(s)
    BY <1>0, <1>2, CommitIs
  <2>2. segs' = segs \cup {s} /\ gone' = gone /\ s.ckpt \in Ckpts /\ TimelineOf(s.ckpt) = 1 /\ LsnOf(s.ckpt) = Lsn + 1
    BY <1>0, <2>1, FirstIs DEF Committed
  <2>3. NextHead < s.ckpt
    <3>1. NextHead \in Ckpts /\ TimelineOf(NextHead) = 1 /\ LsnOf(NextHead) \in 1..Lsn /\ Lsn \in Nat
      BY <1>0, HeadIsNow, FirstIs
    <3> QED
      BY <2>2, <3>1, CkptOrder
  <2>4. NextHead' = s.ckpt
    <3>1. s.ckpt \in Nat /\ NextHead \in Nat /\ \A r \in segs : r.ckpt \in Nat /\ r.ckpt <= NextHead
      BY <1>0, <1>1, <2>2, HeadIsNow, FirstIs, CkptsNat DEF Ever
    <3>2. \A r \in segs' : r.ckpt <= s.ckpt
      BY <2>2, <2>3, <3>1
    <3>3. s \in segs' /\ s.db = db'
      BY <1>0, <2>1, <2>2 DEF Committed
    <3> QED
      BY <1>0, <1>a, <3>2, <3>3, HeadsNext DEF HeadsAre
  <2> QED
    BY <1>2, <2>1, <2>2, <2>3, <2>4 DEF HeadMoves, Ever
<1>3. CASE CompactDelete /\ ~Commit
  <2>1. segs' = segs \ Folded /\ gone' = gone \cup Folded /\ Folded \subseteq segs /\ comp.pc = "delete"
    BY <1>0, <1>3 DEF CompactDelete, Folded
  <2>2. h \notin Folded
    <3>1. PICK r \in segs : comp.key <= r.ckpt
      BY <1>0, <2>1 DEF Step, Ctx, RefInv, CompHead
    <3>2. h.ckpt \in Ckpts /\ comp.key \in Ckpts /\ r.ckpt \in Ckpts /\ r.ckpt <= h.ckpt
      BY <1>0, <1>1, FirstIs DEF Ever, TInv, Shape, MemShape, CompSet
    <3>3. comp.key <= h.ckpt
      BY <3>1, <3>2, CkptsNat
    <3>4. SegmentId(comp.key) <= SegmentId(h.ckpt) /\ SegmentId(comp.key) \in Nat /\ SegmentId(h.ckpt) \in Nat
      BY <3>2, <3>3, SegmentOrder
    <3> QED
      BY <3>4 DEF Folded
  <2>3. h \in segs' /\ h.db = db' /\ \A r \in segs' : r.ckpt <= h.ckpt
    BY <1>0, <1>1, <2>1, <2>2, FirstIs DEF Ever
  <2>4. NextHead' = NextHead
    BY <1>0, <1>1, <1>a, <2>3, HeadsNext DEF HeadsAre
  <2> QED
    BY <1>3, <2>1, <2>3, <2>4 DEF Ever
<1>4. CASE ~Commit /\ ~CompactDelete
  <2>1. segs' = segs /\ (~Start => gone' = gone) /\ gone' \subseteq gone
    <3>1. CASE Spill \/ LoadManifest \/ NoNewSegments \/ CheckpointEnd \/ Crash
      BY <3>1 DEF Spill, LoadManifest, NoNewSegments, CheckpointEnd, Crash, storage, history
    <3>2. CASE Start
      BY <1>0, <3>2 DEF Start, storage
    <3>3. CASE Compact
      BY <1>4, <3>3 DEF Compact, CompactPut, CompactPublish, CompactAdvance, CompactFail, storage, history
    <3>4. CASE \E i \in Items : Write(i) \/ Evict(i)
      BY <3>4 DEF Write, Evict, storage, history
    <3>5. CASE \E kind \in {"online", "backup", "shutdown"} : CheckpointStart(kind)
      BY <3>5 DEF CheckpointStart, history
    <3>6. CASE UNCHANGED vars
      BY <3>6 DEF vars, storage, history
    <3> QED
      BY <1>0, <1>4, <3>1, <3>2, <3>3, <3>4, <3>5, <3>6 DEF FirstNext
  <2>2. NextHead' = NextHead
    BY <1>0, <1>a, <2>1 DEF NextHead
  <2> QED
    BY <1>1, <1>4, <2>1, <2>2 DEF Ever
<1> QED
  BY <1>2, <1>3, <1>4

LEMMA NextQuiet ==
  ASSUME Step
  PROVE  Quiet'
<1>0. Ctx /\ FirstNext /\ Quiet /\ pgdata \in DirSet /\ ck \in CkSet /\ comp \in CompSet /\ rec = NoRec /\ NoRec.pc = "idle"
  BY FirstIs, NoRecShape DEF Step, Ctx, StoreInv, TInv, Shape, MemShape
<1>1. rec' = rec /\ bak' = bak /\ abandoned' = abandoned
      /\ pgdata'.ok = pgdata.ok /\ pgdata'.tl = pgdata.tl /\ pgdata'.target = pgdata.target
      /\ (ck'.pc = "idle" => ck'.kind # "shutdown")
  <2>0. NoCk.kind = "online" /\ (ck.pc = "idle" => ck.kind # "shutdown")
    BY <1>0 DEF NoCk, Quiet
  <2>1. CASE \E i \in Items : Write(i) \/ Evict(i)
    BY <2>0, <2>1 DEF Write, Evict, pgVars, history
  <2>2. CASE Spill \/ LoadManifest \/ NoNewSegments
    BY <1>0, <2>0, <2>2 DEF Spill, LoadManifest, NoNewSegments, pgVars, history, memory, CkSet
  <2>3. CASE \E kind \in {"online", "backup", "shutdown"} : CheckpointStart(kind)
    BY <2>3 DEF CheckpointStart, pgVars, history
  <2>4. CASE Commit
    BY <1>0, <2>4 DEF Commit, history, CkSet
  <2>5. CASE CheckpointEnd
    BY <1>0, <2>0, <2>5 DEF CheckpointEnd, history, DirSet
  <2>6. CASE Compact
    BY <1>0, <2>0, <2>6 DEF Compact, CompactPut, CompactPublish, CompactAdvance, CompactDelete, CompactFail, pgVars, history, CkSet
  <2>7. CASE Crash
    BY <2>0, <2>7 DEF Crash, history
  <2>8. CASE Start
    BY <1>0, <2>0, <2>8 DEF Start
  <2>9. CASE UNCHANGED vars
    BY <2>0, <2>9 DEF vars, pgVars, history, memory
  <2> QED
    BY <1>0, <2>1, <2>2, <2>3, <2>4, <2>5, <2>6, <2>7, <2>8, <2>9 DEF FirstNext
<1>2. \A r \in line'[One] : wal'[r].lsn <= ends'[One]
  <2>1. \A r \in line[One] : wal[r].lsn <= ends[One] /\ r \in 1..Len(wal) /\ wal[r].lsn \in Nat /\ ends[One] \in Nat
    <3>1. line[One] \subseteq 1..Len(wal) /\ \A r \in line[One] : wal[r].lsn <= ends[One] /\ ends[One] \in Nat
      BY <1>0, FirstIs DEF Quiet
    <3>2. \A r \in 1..Len(wal) : wal[r].lsn \in Nat
      BY <1>0, WalIs DEF Ctx, TInv, Shape
    <3> QED
      BY <3>1, <3>2
  <2>2. CASE \E i \in Items : Write(i)
    <3>1. PICK i \in Items : Written(i)
      BY <1>0, <2>2, WriteIs
    <3>2. Lsn \in Nat /\ Lsn = ends[One] /\ Len(wal) \in Nat
      BY <1>0, FirstIs DEF Ctx, TInv, Shape, PgShape
    <3> QED
      BY <2>1, <3>1, <3>2 DEF Written
  <2>3. CASE \A i \in Items : ~Write(i)
    <3>1. wal' = wal /\ line' = line /\ (~Commit => ends' = ends)
      BY <1>0, <2>3, NotWritten
    <3>2. Commit => ends'[One] = ends[One] + 1
      <4>1. Here = One /\ One \in Lines /\ ends \in [Lines -> Lsns]
        BY <1>0, FirstIs DEF Ctx, TInv, Shape, PgShape
      <4> QED
        BY <4>1 DEF Commit
    <3> QED
      BY <2>1, <3>1, <3>2
  <2> QED
    BY <2>2, <2>3
<1> QED
  BY <1>0, <1>1, <1>2 DEF Quiet

\* The objects that appear are those under the head's prefix.
LEMMA NextObjs ==
  ASSUME Step
  PROVE  /\ \A c \in Chunks : \A p \in DOMAIN objs'[c] : p \in DOMAIN objs[c] \/ (p = <<0, NextHead>> /\ pg = "up")
         /\ \A c \in Chunks : DOMAIN objs[c] \subseteq DOMAIN objs'[c]
         /\ \A c \in Chunks : \A p \in DOMAIN objs[c] : p # <<0, NextHead>> => objs'[c][p] = objs[c][p]
         /\ (pg = "up" \/ objs' = objs)
<1>0. Ctx /\ FirstNext /\ db = 0 /\ Shape /\ pg \in {"down", "up"} /\ (pg = "up" => shm.head = NextHead)
  BY FirstIs DEF Step, Ctx, StoreInv, Order, TInv
<1>1. objs' = objs \/ (pg = "up" /\ \E I \in SUBSET DOMAIN cache : WriteBack(I))
  <2>1. ASSUME NEW i \in Items, Evict(i) PROVE WriteBack({i}) /\ {i} \in SUBSET DOMAIN cache /\ pg = "up"
    BY <1>0, <2>1 DEF Evict
  <2>2. ASSUME NEW kind, CheckpointStart(kind) PROVE WriteBack(DOMAIN cache) /\ pg = "up"
    BY <2>2 DEF CheckpointStart
  <2>3. CASE UNCHANGED vars
    BY <2>3 DEF vars, storage
  <2>5. CASE Compact
    BY <2>5 DEF Compact, CompactPut, CompactPublish, CompactAdvance, CompactDelete, CompactFail, storage
  <2>6. ASSUME NEW i \in Items, Write(i) PROVE objs' = objs
    BY <2>6 DEF Write, storage
  <2>7. CASE Spill \/ LoadManifest \/ Commit \/ NoNewSegments \/ CheckpointEnd
    BY <2>7 DEF Spill, LoadManifest, Commit, NoNewSegments, CheckpointEnd, storage
  <2>8. CASE Crash \/ Start
    BY <2>8 DEF Crash, Start, storage
  <2> QED
    BY <1>0, <2>1, <2>2, <2>3, <2>5, <2>6, <2>7, <2>8 DEF FirstNext
<1>2. CASE objs' = objs
  BY <1>2
<1>3. ASSUME pg = "up", NEW I \in SUBSET DOMAIN cache, WriteBack(I)
      PROVE  /\ \A c \in Chunks : \A p \in DOMAIN objs'[c] : p \in DOMAIN objs[c] \/ p = <<0, NextHead>>
             /\ \A c \in Chunks : DOMAIN objs[c] \subseteq DOMAIN objs'[c]
             /\ \A c \in Chunks : \A p \in DOMAIN objs[c] : p # <<0, NextHead>> => objs'[c][p] = objs[c][p]
  <2>1. objs' = [c \in Chunks |-> IF c \in I THEN Put(objs[c], <<0, NextHead>>, cache[c]) ELSE objs[c]]
    BY <1>0, <1>3 DEF WriteBack
  <2>2. \A c \in Chunks : DOMAIN objs'[c] \subseteq DOMAIN objs[c] \cup {<<0, NextHead>>}
    BY <2>1 DEF Put
  <2>3. /\ \A c \in Chunks : DOMAIN objs[c] \subseteq DOMAIN objs'[c]
        /\ \A c \in Chunks : \A p \in DOMAIN objs[c] : p # <<db, shm.head>> => objs'[c][p] = objs[c][p]
    BY <1>0, <1>3, WriteBackObjs
  <2> QED
    BY <1>0, <1>3, <2>2, <2>3
<1> QED
  BY <1>1, <1>2, <1>3

HeadTyped == NextHead \in Ckpts

LEMMA HeadCkpt == TInv => HeadTyped
  BY NextHeadIs DEF HeadTyped

LEMMA HeadCkptNext == TInv' => HeadTyped'
  BY HeadCkpt, PTL

LEMMA NextManifests ==
  ASSUME Step
  PROVE  \A m \in Manifests' : m.ckpt <= NextHead' /\ \A c \in DOMAIN m.refs : m.refs[c][2] < NextHead'
<1>0. Ctx /\ TInv /\ [Next]_vars /\ Order /\ NextHead \in Nat /\ NextHead > 0 /\ segs = SegsHere /\ segs \subseteq Ever
  BY StepIsNext, HeadIsNow, FirstIs DEF Step, Ctx, StoreInv, Ever
<1>1. NextHead <= NextHead' /\ NextHead' \in Nat
  <2>1. NextHead' \in Ckpts
    BY HeadCkptNext DEF Step, HeadTyped
  <2> QED
    BY <1>0, <2>1, HeadStep, CkptsNat DEF HeadMoves
<1>2. ASSUME NEW m \in Manifests \cup {Empty}
      PROVE  m.ckpt <= NextHead /\ m.ckpt \in Nat /\ \A c \in DOMAIN m.refs : m.refs[c][2] < NextHead /\ m.refs[c][2] \in Nat
  <2>1. m.ckpt <= NextHead /\ \A c \in DOMAIN m.refs : m.refs[c][2] < NextHead
    <3>1. CASE m \in Manifests
      BY <1>0, <3>1 DEF Order
    <3>2. CASE m = Empty
      BY <1>0, <3>2, NoItemsFns DEF Empty
    <3> QED
      BY <3>1, <3>2
  <2>2. m \in ManSet
    <3>1. \A k \in DOMAIN bases : bases[k] \in ManSet
      BY <1>0, FnsDef DEF TInv, Shape, StoreShape
    <3>2. comp.m \in ManSet /\ tikm \subseteq ManSet /\ rec.saved \subseteq ManSet
      BY <1>0 DEF TInv, Shape, MemShape, LocalShape, CompSet, RecSet
    <3> QED
      BY <3>1, <3>2, EmptyShape DEF Manifests, Range
  <2>3. m.ckpt \in Nat /\ \A c \in DOMAIN m.refs : m.refs[c] \in Prefixes
    BY <2>2, FnsDef, CkptsNat DEF ManSet
  <2> QED
    BY <2>1, <2>3, CkptsNat DEF Prefixes
<1>3. CASE Manifests' \subseteq Manifests \cup {Empty}
  BY <1>0, <1>1, <1>2, <1>3
<1>4. ASSUME NEW m, NEW S, NEW new, NEW key, Folds(m, S, new, key), Manifests' \subseteq Manifests \cup {new}
      PROVE  \A x \in Manifests' : x.ckpt <= NextHead' /\ \A c \in DOMAIN x.refs : x.refs[c][2] < NextHead'
  <2>1. /\ m \in ManSet /\ S \in SUBSET SegSet /\ S \subseteq segs /\ new = ApplySegments(m, S)
        /\ m \in ManifestsAt(shm.base) /\ S # {} /\ (\A s \in S : s.ckpt > m.ckpt) /\ new \in ManSet /\ Newest(S) \in S
    BY <1>0, <1>4 DEF Folds
  <2>2. /\ DOMAIN new.refs = DOMAIN m.refs \cup UNION {s.chunks : s \in S}
        /\ \A c \in DOMAIN new.refs : new.refs[c] = ApplyRef(c, m, S)
    BY <2>1 DEF ApplySegments
  <2>3. m \in Manifests \cup {Empty}
    BY <1>0, <2>1, LoadedIs
  <2>4. \A s \in S : s.ckpt <= NextHead /\ s.prev < s.ckpt /\ s.ckpt \in Nat /\ s.prev \in Nat
    BY <1>0, <2>1, FirstIs DEF Order
  <2>5. new.ckpt <= NextHead /\ new.ckpt \in Nat
    <3>1. new.ckpt <= Newest(S).ckpt
      BY <1>0, <2>1, FoldCkpt
    <3>2. new.ckpt \in Nat
      BY <2>1, CkptsNat DEF ManSet
    <3> QED
      BY <1>0, <2>1, <2>4, <3>1, <3>2
  <2>6. ASSUME NEW c \in DOMAIN new.refs PROVE new.refs[c][2] < NextHead /\ new.refs[c][2] \in Nat
    <3>1. CASE c \in DOMAIN m.refs /\ ApplyRef(c, m, S) = m.refs[c]
      BY <1>2, <2>2, <2>3, <3>1
    <3>2. ASSUME NEW s \in S, c \in s.chunks, ApplyRef(c, m, S) = <<db, s.prev>> PROVE new.refs[c][2] < NextHead /\ new.refs[c][2] \in Nat
      BY <1>0, <2>2, <2>4, <3>2
    <3> QED
      BY <2>1, <2>2, <3>1, <3>2, ApplyRefIs
  <2> QED
    BY <1>0, <1>1, <1>2, <1>4, <2>5, <2>6
<1> QED
  BY <1>0, <1>3, <1>4, StepManifests

LEMMA HeadGrows ==
  ASSUME Step
  PROVE  NextHead <= NextHead' /\ NextHead' \in Nat /\ NextHead \in Nat
<1>1. NextHead' \in Ckpts
  BY HeadCkptNext DEF Step, HeadTyped
<1>2. NextHead \in Nat
  BY HeadIsNow DEF Step
<1> QED
  BY <1>1, <1>2, HeadStep, CkptsNat DEF HeadMoves

LEMMA BasesStep ==
  ASSUME Step
  PROVE  bases' = bases \/ \E m, S, new, key : Folds(m, S, new, key) /\ FoldsWhich(S, new, key)
<1>0. TInv /\ FirstNext
  BY DEF Step, Ctx
<1>1. CASE Spill \/ LoadManifest \/ Commit \/ NoNewSegments \/ CheckpointEnd \/ Crash \/ Start
  BY <1>1 DEF Spill, LoadManifest, Commit, NoNewSegments, CheckpointEnd, Crash, Start, storage
<1>2. CASE CompactPublish \/ CompactAdvance \/ CompactDelete \/ CompactFail
  BY <1>2 DEF CompactPublish, CompactAdvance, CompactDelete, CompactFail, storage
<1>3. CASE \E through \in BOOLEAN : CompactPut(through)
  BY <1>0, <1>3, FoldIs
<1>4. CASE \E i \in Items : Write(i) \/ Evict(i)
  BY <1>4 DEF Write, Evict, storage
<1>5. CASE \E kind \in {"online", "backup", "shutdown"} : CheckpointStart(kind)
  BY <1>5 DEF CheckpointStart
<1>6. CASE UNCHANGED vars
  BY <1>6 DEF vars, storage
<1> QED
  BY <1>0, <1>1, <1>2, <1>3, <1>4, <1>5, <1>6 DEF FirstNext, Compact

\* A restart goes on with the local manifest.
LEMMA StartIs ==
  ASSUME Ctx, Start
  PROVE  /\ pg = "down" /\ pg' = "up" /\ tikm' = tikm /\ InitialManifest \in tikm /\ tikm = {InitialManifest}
         /\ shm' = Hydrated /\ shm'.base = InitialManifest.ckpt /\ shm'.head = NextHead
         /\ shm'.draft = NoItems /\ shm'.spilled = FALSE
         /\ shm'.active \subseteq segs /\ shm'.active # {}
         /\ \A a \in shm'.active, s \in segs : a.ckpt <= s.ckpt => s \in shm'.active
         /\ spoiled' = spoiled \cup Missed
         /\ gone' = {s \in gone : s.ckpt <= InitialManifest.ckpt}
         /\ UNCHANGED <<db, wal, line, ends, pgdata, ck, comp, objs, segs, bases, backups, spill, rec>>
         /\ cache' = [i \in {wal[r].item : r \in Replayed} |-> Lookup(i)' \cup {r \in Replayed : wal[r].item = i}]
         /\ Replayed = {r \in line[One] : wal[r].lsn > pgdata.redo}
         /\ ck = NoCk /\ comp = NoComp
<1>0. /\ TInv /\ pgdata.target = 0 /\ pgdata.ok /\ tikm # {} /\ rec.pc = "idle" /\ SegsHere = segs /\ Here = One
      /\ segs # {} /\ \A m, n \in tikm : m = n
  BY FirstIs DEF Ctx, StoreInv, Order, TInv, Shape, LocalShape
<1>1. InitialManifest \in tikm
  BY <1>0, InitialShape DEF TInv
<1>2. tikm = {InitialManifest}
  BY <1>0, <1>1
<1>3. /\ Hydrated.base = InitialManifest.ckpt /\ Hydrated.draft = NoItems /\ Hydrated.spilled = FALSE
      /\ Hydrated.active \subseteq segs
      /\ \A a \in Hydrated.active, s \in segs : a.ckpt <= s.ckpt => s \in Hydrated.active
      /\ Hydrated.active # {}
  BY <1>0, HydratedIs
<1>4. Hydrated.head = NextHead
  <2>1. /\ Hydrated.head = Newest(Hydrated.active).ckpt /\ Newest(Hydrated.active) \in segs
        /\ \A s \in SegsHere : s.ckpt <= Hydrated.head
    BY <1>0, <1>3, HydratedIs
  <2>2. PICK s \in segs : Hydrated.head = s.ckpt
    BY <2>1
  <2>3. HeadsAre
    BY <1>0, HeadsOk DEF TInv
  <2> QED
    BY <1>0, <2>1, <2>2, <2>3 DEF HeadsAre, SegsHere
<1>5. Replayed = {r \in line[One] : wal[r].lsn > pgdata.redo}
  BY <1>0 DEF Replayed
<1>6. /\ pg = "down" /\ pg' = "up" /\ tikm' = {InitialManifest} /\ shm' = Hydrated
      /\ spoiled' = spoiled \cup Missed /\ gone' = {s \in gone : s.ckpt <= InitialManifest.ckpt}
      /\ UNCHANGED <<db, wal, line, ends, pgdata, ck, comp, objs, segs, bases, backups, spill, rec>>
      /\ cache' = [i \in {wal[r].item : r \in Replayed} |-> Lookup(i)' \cup {r \in Replayed : wal[r].item = i}]
  BY <1>0 DEF Start, storage
<1>7. ck = NoCk /\ comp = NoComp
  BY <1>0, <1>6 DEF TInv, PosInv, Phase
<1> QED
  BY <1>1, <1>2, <1>3, <1>4, <1>5, <1>6, <1>7

\* The base and the head of the running store.
LEMMA ShmStep ==
  ASSUME Step
  PROVE  \/ /\ pg' = pg /\ ~Commit /\ ~CompactAdvance /\ ~Start
            /\ shm'.base = shm.base /\ shm'.head = shm.head /\ shm'.active = shm.active
         \/ Commit
         \/ /\ CompactAdvance /\ comp.pc = "published" /\ comp'.pc = "delete" /\ comp'.key = comp.key
            /\ comp'.m = comp.m /\ comp'.inline = comp.inline
            /\ shm'.base = comp.key /\ shm'.head = shm.head /\ shm'.active = shm.active /\ shm'.draft = shm.draft
            /\ shm'.spilled = shm.spilled /\ shm'.redo = shm.redo
            /\ UNCHANGED <<pg, db, wal, line, ends, pgdata, ck, cache, objs, segs, bases, backups, tikm, spill, gone, spoiled>>
         \/ Start
         \/ pg' = "down" /\ shm'.base = 0
<1>0. TInv /\ FirstNext /\ shm \in ShmSet /\ comp \in CompSet /\ Fresh.base = 0
  BY NoCkShape DEF Step, Ctx, TInv, Shape, MemShape
<1>1. CASE Commit \/ Start
  BY <1>1
<1>2. CASE CompactAdvance
  BY <1>0, <1>2 DEF CompactAdvance, pgVars, storage, local, history, ShmSet, CompSet
<1>3. CASE Crash \/ (CheckpointEnd /\ ck.kind = "shutdown")
  BY <1>0, <1>3 DEF Crash, CheckpointEnd, StopPg
<1>a. CASE ~Commit /\ ~Start /\ ~CompactAdvance /\ ~Crash /\ ~(CheckpointEnd /\ ck.kind = "shutdown")
  <2>1. CASE Spill \/ LoadManifest \/ NoNewSegments \/ CheckpointEnd
    BY <1>0, <1>a, <2>1 DEF Spill, LoadManifest, NoNewSegments, CheckpointEnd, pgVars, memory, ShmSet
  <2>2. CASE CompactPublish \/ CompactDelete \/ CompactFail \/ \E through \in BOOLEAN : CompactPut(through)
    BY <1>a, <2>2 DEF CompactPublish, CompactDelete, CompactFail, CompactPut, pgVars
  <2>4. CASE \E i \in Items : Write(i) \/ Evict(i)
    BY <1>0, <1>a, <2>4 DEF Write, Evict, WriteBack, pgVars, ShmSet
  <2>5. CASE \E kind \in {"online", "backup", "shutdown"} : CheckpointStart(kind)
    BY <1>0, <1>a, <2>5 DEF CheckpointStart, WriteBack, pgVars, ShmSet
  <2>6. CASE UNCHANGED vars
    BY <1>a, <2>6 DEF vars, pgVars, memory
  <2> QED
    BY <1>0, <1>a, <2>1, <2>2, <2>4, <2>5, <2>6 DEF FirstNext, Compact
<1> QED
  BY <1>1, <1>2, <1>3, <1>a

LEMMA CkStep ==
  ASSUME Step
  PROVE  \/ Commit
         \/ ck'.pc \in {"compact", "end"} =>
              /\ ck.pc \in {"compact", "end"} /\ ck'.ckpt = ck.ckpt /\ ck'.redo = ck.redo /\ ck'.kind = ck.kind
              /\ pg = "up" /\ pg' = "up" /\ UNCHANGED <<pgdata, backups>>
              /\ ck'.pc = "compact" => ck.pc = "compact"
<1>0. TInv /\ FirstNext /\ ck \in CkSet /\ comp \in CompSet /\ NoCk.pc = "idle" /\ (ck.pc # "idle" => pg = "up")
  BY NoCkShape DEF Step, Ctx, TInv, Shape, MemShape, PosInv, Phase
<1>1. CASE Spill \/ LoadManifest \/ NoNewSegments
  BY <1>0, <1>1 DEF Spill, LoadManifest, NoNewSegments, pgVars, memory, storage, CkSet
<1>2. CASE CheckpointEnd \/ Crash
  BY <1>0, <1>2 DEF CheckpointEnd, Crash
<1>3. CASE Start
  BY <1>0, <1>3 DEF Start
<1>4. CASE CompactDelete \/ CompactFail
  <2>1. comp.inline => ck.pc = "compact"
    BY <1>0 DEF TInv, PosInv, CompPhase
  <2>2. ck.ckpt = ck'.ckpt /\ ck.redo = ck'.redo /\ ck.kind = ck'.kind /\ UNCHANGED <<pg, pgdata, backups>>
        /\ (ck' = ck \/ (ck.pc = "compact" /\ ck'.pc = "end"))
    BY <1>0, <1>4, <2>1, FailIs DEF CompactDelete, pgVars, CkSet
  <2> QED
    BY <1>0, <2>2
<1>5. CASE CompactPublish \/ CompactAdvance \/ \E through \in BOOLEAN : CompactPut(through)
  BY <1>0, <1>5 DEF CompactPublish, CompactAdvance, CompactPut, pgVars, storage
<1>6. CASE \E i \in Items : Write(i) \/ Evict(i)
  BY <1>0, <1>6 DEF Write, Evict, pgVars, storage
<1>7. CASE \E kind \in {"online", "backup", "shutdown"} : CheckpointStart(kind)
  BY <1>0, <1>7 DEF CheckpointStart
<1>8. CASE UNCHANGED vars
  BY <1>0, <1>8 DEF vars, pgVars, memory, storage
<1> QED
  BY <1>0, <1>1, <1>2, <1>3, <1>4, <1>5, <1>6, <1>7, <1>8 DEF FirstNext, Compact

LEMMA NextOrder ==
  ASSUME Step
  PROVE  Order'
<1>0. Ctx /\ Order /\ FirstNext /\ TInv' /\ First' /\ db = 0 /\ Ever \subseteq SegSet
  BY FirstIs DEF Step, Ctx, StoreInv
<1>1. NextHead <= NextHead' /\ NextHead' \in Nat /\ NextHead \in Nat
  BY HeadGrows
<1>2. segs' # {}
  BY HeadStep DEF HeadMoves, Committed
<1>3. \A s \in Ever' : s.ckpt <= NextHead' /\ s.prev < s.ckpt
  <2>1. \A s \in Ever : s.ckpt <= NextHead /\ s.prev < s.ckpt /\ s.ckpt \in Nat
    BY <1>0, FirstIs DEF Order
  <2>2. ASSUME NEW s, HeadMoves(s) PROVE s.ckpt <= NextHead' /\ s.prev < s.ckpt
    BY <1>0, <1>1, <2>2 DEF HeadMoves, Committed, Order
  <2> QED
    BY <1>1, <2>1, <2>2, HeadStep DEF HeadMoves
<1>4. \A k \in DOMAIN bases' : k[2] <= NextHead'
  <2>1. \A k \in DOMAIN bases : k[2] <= NextHead /\ k[2] \in Nat
    <3>1. DOMAIN bases \subseteq Prefixes
      BY <1>0, FnsDef DEF Ctx, TInv, Shape, StoreShape
    <3> QED
      BY <1>0, <3>1, CkptsNat DEF Order, Prefixes
  <2>2. ASSUME NEW m, NEW S, NEW new, NEW key, Folds(m, S, new, key), FoldsWhich(S, new, key)
        PROVE  \A k \in DOMAIN bases' : k[2] <= NextHead'
    <3>1. key \in Ckpts /\ DOMAIN bases' = DOMAIN bases \cup {<<db, key>>} /\ Newest(S) \in segs /\ new.ckpt <= key
          /\ new = ApplySegments(m, S) /\ m \in ManSet /\ S \in SUBSET SegSet /\ S # {} /\ \A s \in S : s.ckpt > m.ckpt
      BY <2>2 DEF Folds, SegsHere
    <3>2. new.ckpt <= Newest(S).ckpt
      BY <1>0, <3>1, FoldCkpt DEF Ctx
    <3>3. key = new.ckpt \/ key = Newest(S).ckpt
      BY <2>2 DEF FoldsWhich
    <3>4. Newest(S).ckpt <= NextHead /\ Newest(S).ckpt \in Nat /\ key \in Nat
      BY <1>0, <3>1, FirstIs, CkptsNat DEF Order, Ever
    <3>5. key <= NextHead
      BY <1>1, <3>2, <3>3, <3>4
    <3> QED
      BY <1>1, <2>1, <3>1, <3>4, <3>5
  <2>3. CASE bases' = bases
    BY <1>1, <2>1, <2>3
  <2> QED
    BY <2>2, <2>3, BasesStep
<1>5. \A c \in Chunks : \A p \in DOMAIN objs'[c] : p[2] <= NextHead'
  <2>1. ASSUME NEW c \in Chunks, NEW p \in DOMAIN objs[c] PROVE p[2] <= NextHead /\ p[2] \in Nat
    <3>1. DOMAIN objs[c] \subseteq Prefixes
      BY <1>0, FnsDef DEF Ctx, TInv, Shape, StoreShape
    <3> QED
      BY <1>0, <3>1, CkptsNat DEF Order, Prefixes
  <2>2. <<0, NextHead>>[2] = NextHead
    OBVIOUS
  <2> QED
    BY <1>1, <2>1, <2>2, NextObjs
<1>6. shm'.base <= NextHead'
  <2>1. shm.base \in Nat /\ comp.key \in Nat
    BY <1>0, CkptsNat DEF Ctx, TInv, Shape, MemShape, ShmSet, CompSet
  <2>2. shm'.base \in Nat
    BY <1>0, CkptsNat DEF TInv, Shape, MemShape, ShmSet
  <2>3. CASE CompactAdvance /\ comp.pc = "published" /\ shm'.base = comp.key
    <3>1. <<0, comp.key>> \in DOMAIN bases
      BY <1>0, <2>3 DEF Ctx, StoreInv, CompInv
    <3>2. comp.key <= NextHead
      BY <1>0, <3>1 DEF Order
    <3> QED
      BY <1>1, <2>1, <2>3, <3>2
  <2>4. CASE Start
    <3>1. shm'.base = InitialManifest.ckpt /\ InitialManifest \in Manifests
      BY <1>0, <2>4, StartIs DEF Manifests
    <3> QED
      BY <1>0, <1>1, <2>2, <3>1 DEF Order
  <2>5. CASE Commit
    <3>1. shm'.base = shm.base
      BY <1>0, <2>5, CommitIs DEF Ctx, Committed
    <3> QED
      BY <1>0, <1>1, <2>1, <3>1 DEF Order
  <2> QED
    BY <1>0, <1>1, <2>1, <2>2, <2>3, <2>4, <2>5, ShmStep DEF Order
<1>7. pg' = "up" => shm'.head = NextHead'
  <2>1. CASE Commit
    BY <2>1, HeadStep DEF HeadMoves, Committed
  <2>2. CASE Start
    <3>1. ~Commit
      BY <1>0, <2>2, StartIs, NoCkShape DEF Commit
    <3> QED
      BY <1>0, <2>2, <3>1, StartIs, HeadStep
  <2> QED
    BY <1>0, <2>1, <2>2, ShmStep, HeadStep DEF Order
<1>8. ck'.pc \in {"compact", "end"} => ck'.ckpt = NextHead'
  <2>1. CASE Commit
    BY <2>1, HeadStep DEF HeadMoves, Committed
  <2>2. CASE ~Commit
    BY <1>0, <2>2, HeadStep, CkStep DEF Order
  <2> QED
    BY <2>1, <2>2
<1> QED
  BY <1>2, <1>3, <1>4, <1>5, <1>6, <1>7, <1>8, NextManifests DEF Order

\* The manifest at the base has all that there is at or before it.
LEMMA BaseHas ==
  ASSUME Ctx, NEW m \in ManifestsAt(shm.base), NEW s \in Ever, Full(s), s.ckpt <= shm.base
  PROVE  s.ckpt <= m.ckpt
<1>1. /\ \/ m = Empty /\ shm.base = 0
         \/ m \in tikm /\ m.ckpt = shm.base
         \/ <<db, shm.base>> \in DOMAIN bases /\ m = bases[<<db, shm.base>>]
      /\ m.ckpt \in Nat /\ shm.base \in Nat
  <2>1. ReadShape /\ shm.base \in Ckpts
    BY ShapeReads DEF Ctx, TInv, Shape, MemShape, ShmSet
  <2>2. m \in ManSet
    BY <2>1, ManifestsShape
  <2> QED
    BY <2>1, <2>2, ManifestsShape, CkptsNat DEF ManSet
<1>2. s.ckpt \in Nat /\ s.ckpt > 0
  <2>1. s.ckpt \in Nat /\ TimelineOf(s.ckpt) = 1
    BY FirstIs
  <2> QED
    BY <2>1, ZeroCkpt
<1>3. CASE <<db, shm.base>> \in DOMAIN bases /\ m = bases[<<db, shm.base>>]
  <2>1. ~(m.ckpt < s.ckpt)
    BY <1>3 DEF Ctx, StoreInv, Gaps, Full
  <2> QED
    BY <1>1, <1>2, <2>1
<1> QED
  BY <1>1, <1>2, <1>3

LEMMA NextGaps ==
  ASSUME Step
  PROVE  Gaps'
<1>0. Ctx /\ Gaps /\ Order /\ db = 0 /\ SegsHere = segs
  BY FirstIs DEF Step, Ctx, StoreInv
<1>1. CASE bases' = bases
  <2>1. ASSUME NEW k \in DOMAIN bases, NEW s, HeadMoves(s), s.ckpt <= k[2] PROVE FALSE
    <3>1. k[2] <= NextHead /\ NextHead < s.ckpt /\ s.ckpt \in Ckpts
      BY <1>0, <2>1 DEF Order, HeadMoves, Committed
    <3>2. k[2] \in Nat /\ s.ckpt \in Nat /\ NextHead \in Nat
      <4>1. DOMAIN bases \subseteq Prefixes
        BY <1>0, FnsDef DEF Ctx, TInv, Shape, StoreShape
      <4> QED
        BY <1>0, <3>1, <4>1, CkptsNat, HeadIsNow DEF Prefixes
    <3> QED
      BY <2>1, <3>1, <3>2
  <2> QED
    BY <1>0, <1>1, <2>1, HeadStep DEF Gaps, HeadMoves
<1>2. ASSUME NEW m, NEW S, NEW new, NEW key, Folds(m, S, new, key), FoldsWhich(S, new, key)
      PROVE  Gaps'
  <2>1. /\ S # {} /\ m \in ManifestsAt(shm.base) /\ pg = "up" /\ new = ApplySegments(m, S)
        /\ DOMAIN bases' = DOMAIN bases \cup {<<db, key>>} /\ bases'[<<db, key>>] = new
        /\ \A k \in DOMAIN bases : k # <<db, key>> => bases'[k] = bases[k]
        /\ segs' = segs /\ gone' = gone /\ m \in ManSet /\ new \in ManSet /\ S \in SUBSET SegSet
        /\ \A s \in S : s.ckpt > m.ckpt
        /\ key \in Ckpts /\ Newest(S) \in S /\ S \subseteq segs
    BY <1>0, <1>2 DEF Folds
  <2>2. ASSUME NEW s \in Ever, new.ckpt < s.ckpt, s.ckpt <= key PROVE ~Full(s)
    <3>0. s.ckpt \in Nat /\ s.ckpt \in Ckpts /\ new.ckpt \in Nat /\ m.ckpt \in Nat /\ shm.base \in Nat
      BY <1>0, <2>1, FirstIs, CkptsNat DEF ManSet, Ctx, TInv, Shape, MemShape, ShmSet
    <3>1. S = ToApply(FALSE) /\ key = Newest(S).ckpt
      <4>1. key # new.ckpt
        BY <2>2, <3>0
      <4>2. FoldsWhich(S, new, key)
        BY <1>2
      <4> QED
        BY <4>1, <4>2 DEF FoldsWhich
    <3>2. /\ m.ckpt <= new.ckpt
          /\ \/ new.ckpt = m.ckpt /\ {x \in S : x.chunks # {} \/ x.rels # NoItems} = {}
             \/ \E x \in {x \in S : x.chunks # {} \/ x.rels # NoItems} :
                  new.ckpt = x.ckpt /\ \A r \in {y \in S : y.chunks # {} \/ y.rels # NoItems} : r.ckpt <= x.ckpt
      BY <1>0, <2>1, FoldCkpt DEF Ctx
    <3>3. CASE s \in S
      <4>1. ~(s.chunks # {} \/ s.rels # NoItems)
        BY <2>2, <3>0, <3>2, <3>3
      <4> QED
        BY <4>1, NoItemsFns DEF Full, ItemsOf
    <3>4. CASE s \notin S
      <4> SUFFICES ASSUME Full(s) PROVE FALSE
        OBVIOUS
      <4>1. s.ckpt <= shm.base
        <5>1. CASE s \in gone
          BY <1>0, <2>1, <5>1 DEF Ctx, StoreInv, Base
        <5>2. CASE s \in segs
          <6>1. PICK upper \in Nat : \A x \in segs : x \in S <=> x.ckpt > shm.base /\ x.ckpt < upper
            <7>1. shm.redo \in Nat /\ shm.head \in Nat
              BY <1>0, CkptsNat DEF Ctx, TInv, Shape, MemShape, ShmSet
            <7>2. S = {x \in segs : x.ckpt > shm.base /\ x.ckpt < (IF shm.redo = 0 THEN shm.head ELSE shm.redo)}
              BY <1>0, <3>1 DEF ToApply
            <7> QED
              BY <7>1, <7>2
          <6>2. PICK n \in S : n.ckpt = key
            BY <2>1, <3>1
          <6>3. n.ckpt < upper /\ n.ckpt \in Nat
            BY <1>0, <2>1, <6>1, FirstIs DEF Ever
          <6> QED
            BY <2>2, <3>0, <3>4, <5>2, <6>1, <6>2, <6>3
        <5> QED
          BY <5>1, <5>2 DEF Ever
      <4>2. s.ckpt <= m.ckpt
        BY <1>0, <2>1, <4>1, BaseHas
      <4> QED
        BY <2>2, <3>0, <3>2, <4>2
    <3> QED
      BY <3>3, <3>4
  <2> QED
    BY <1>0, <2>1, <2>2 DEF Gaps, Full, Ever
<1> QED
  BY <1>1, <1>2, BasesStep

LEMMA GoneStep ==
  ASSUME Step
  PROVE  gone' = gone \/ Start \/ (CompactDelete /\ gone' = gone \cup Folded)
<1>0. FirstNext
  BY DEF Step
<1>1. CASE Spill \/ LoadManifest \/ Commit \/ NoNewSegments \/ CheckpointEnd \/ Crash
  BY <1>1 DEF Spill, LoadManifest, Commit, NoNewSegments, CheckpointEnd, Crash, history
<1>2. CASE Compact
  BY <1>2 DEF Compact, CompactPut, CompactPublish, CompactAdvance, CompactDelete, CompactFail, history
<1>3. CASE \E i \in Items : Write(i) \/ Evict(i)
  BY <1>3 DEF Write, Evict, history
<1>4. CASE \E kind \in {"online", "backup", "shutdown"} : CheckpointStart(kind)
  BY <1>4 DEF CheckpointStart, history
<1>5. CASE UNCHANGED vars
  BY <1>5 DEF vars, history
<1> QED
  BY <1>0, <1>1, <1>2, <1>3, <1>4, <1>5 DEF FirstNext

\* Of what a compaction deletes nothing is at or after its manifest's key.
LEMMA FoldedBelow ==
  ASSUME Ctx, NEW s \in Folded
  PROVE  s.ckpt <= comp.key
<1>1. s \in segs /\ SegmentId(s.ckpt) < SegmentId(comp.key)
  BY DEF Folded, SegsHere
<1>2. s.ckpt \in Ckpts /\ comp.key \in Ckpts
  BY <1>1, FirstIs DEF Ever, Ctx, TInv, Shape, MemShape, CompSet
<1>3. comp.key <= s.ckpt => SegmentId(comp.key) <= SegmentId(s.ckpt) /\ SegmentId(comp.key) \in Nat /\ SegmentId(s.ckpt) \in Nat
  BY <1>2, SegmentOrder
<1> QED
  BY <1>1, <1>2, <1>3, CkptsNat

\* The compaction under way.
LEMMA CompStep ==
  ASSUME Step
  PROVE  \/ \E m, S, new, key : Folds(m, S, new, key) /\ FoldsWhich(S, new, key)
         \/ comp'.pc = "idle" /\ ~comp'.inline
         \/ /\ comp.pc # "idle" /\ comp'.pc # "idle" /\ UNCHANGED <<bases, gone>>
            /\ comp'.key = comp.key /\ comp'.m = comp.m /\ comp'.inline = comp.inline
            /\ \/ comp'.pc = "published" /\ shm' = shm /\ ck' = ck
               \/ CompactAdvance /\ comp'.pc = "delete" /\ ck' = ck
               \/ comp' = comp /\ shm'.base = shm.base /\ (ck'.pc = "compact" => ck.pc = "compact" \/ Commit)
<1>0. TInv /\ FirstNext /\ comp \in CompSet /\ shm \in ShmSet /\ NoComp.pc = "idle" /\ ~NoComp.inline
      /\ (comp.pc = "idle" => comp = NoComp) /\ NoCk.pc = "idle" /\ (comp.pc # "idle" => pg = "up")
  BY NoCkShape DEF Step, Ctx, TInv, Shape, MemShape, PosInv, CompPhase, Phase, NoComp
<1>a. CASE comp' = comp /\ UNCHANGED <<bases, gone>> /\ shm'.base = shm.base /\ (ck'.pc = "compact" => ck.pc = "compact" \/ Commit)
  BY <1>0, <1>a
<1>1. CASE Spill \/ LoadManifest
  BY <1>0, <1>a, <1>1 DEF Spill, LoadManifest, memory, storage, history, ShmSet
<1>2. CASE NoNewSegments
  BY <1>0, <1>2 DEF NoNewSegments
<1>3. CASE Commit
  <2>1. comp' = comp /\ UNCHANGED <<bases, gone>> /\ shm'.base = shm.base
    BY <1>0, <1>3, CommitIs DEF Committed
  <2> QED
    BY <1>3, <1>a, <2>1
<1>4. CASE CheckpointEnd
  <2>1. CASE ck.kind = "shutdown"
    <3>1. comp.pc = "idle"
      <4>1. comp.pc # "idle" => ck.pc = "compact"
        BY <1>0, <2>1 DEF TInv, PosInv, CompPhase
      <4> QED
        BY <1>4, <4>1 DEF CheckpointEnd
    <3> QED
      BY <1>0, <1>4, <3>1 DEF CheckpointEnd
  <2>2. CASE ck.kind # "shutdown"
    BY <1>0, <1>a, <1>4, <2>2 DEF CheckpointEnd, history
  <2> QED
    BY <2>1, <2>2
<1>5. CASE Crash \/ CompactDelete \/ CompactFail
  BY <1>0, <1>5 DEF Crash, CompactDelete, CompactFail
<1>6. CASE Start
  BY <1>0, <1>6 DEF Start
<1>7. CASE CompactPublish \/ CompactAdvance
  BY <1>0, <1>7 DEF CompactPublish, CompactAdvance, storage, history, CompSet
<1>8. CASE \E through \in BOOLEAN : CompactPut(through)
  BY <1>0, <1>8, FoldIs
<1>9. CASE \E i \in Items : Write(i) \/ Evict(i)
  BY <1>0, <1>a, <1>9 DEF Write, Evict, WriteBack, storage, history, ShmSet
<1>10. CASE \E kind \in {"online", "backup", "shutdown"} : CheckpointStart(kind)
  BY <1>0, <1>a, <1>10 DEF CheckpointStart, WriteBack, ShmSet, history
<1>11. CASE UNCHANGED vars
  BY <1>0, <1>a, <1>11 DEF vars, memory, storage, history
<1> QED
  BY <1>0, <1>1, <1>2, <1>3, <1>4, <1>5, <1>6, <1>7, <1>8, <1>9, <1>10, <1>11 DEF FirstNext, Compact

LEMMA NextComp ==
  ASSUME Step
  PROVE  CompInv'
<1>0. Ctx /\ CompInv /\ Base /\ Order /\ db = 0 /\ comp \in CompSet /\ (ck.pc # "idle" => pg = "up")
  BY FirstIs, NoCkShape DEF Step, Ctx, StoreInv, TInv, Shape, MemShape, PosInv, Phase
<1>1. ASSUME NEW m, NEW S, NEW new, NEW key, Folds(m, S, new, key), FoldsWhich(S, new, key)
      PROVE  CompInv'
  <2>1. /\ m \in ManifestsAt(shm.base) /\ pg = "up" /\ comp'.pc = "put" /\ comp'.key = key /\ comp'.m = new
        /\ comp'.inline = (ck.pc = "compact") /\ <<0, key>> \in DOMAIN bases' /\ bases'[<<0, key>>] = new
        /\ gone' = gone /\ ck' = ck /\ new.ckpt <= key /\ m.ckpt <= shm.base /\ key \in Ckpts /\ new \in ManSet
        /\ new = ApplySegments(m, S) /\ m \in ManSet /\ S \in SUBSET SegSet /\ S # {} /\ \A s \in S : s.ckpt > m.ckpt
    BY <1>0, <1>1 DEF Folds
  <2>2. m.ckpt <= new.ckpt
    BY <1>0, <2>1, FoldCkpt DEF Ctx
  <2>3. ASSUME NEW g \in gone, Full(g) PROVE g.ckpt <= key
    <3>1. g.ckpt <= shm.base
      BY <1>0, <2>1, <2>3 DEF Base
    <3>2. g.ckpt <= m.ckpt
      BY <1>0, <2>1, <2>3, <3>1, BaseHas DEF Ever
    <3>3. g.ckpt \in Nat /\ m.ckpt \in Nat /\ new.ckpt \in Nat /\ key \in Nat
      BY <1>0, <2>1, FirstIs, CkptsNat DEF ManSet, Ever
    <3> QED
      BY <2>1, <2>2, <3>2, <3>3
  <2> QED
    BY <2>1, <2>3 DEF CompInv, Full
<1>2. CASE comp'.pc = "idle" /\ ~comp'.inline
  <2>1. ASSUME ck'.pc = "compact" PROVE shm'.base < ck'.ckpt
    <3>1. CASE Commit
      <4>1. PICK s : HeadMoves(s)
        BY <3>1, HeadStep
      <4>2. shm'.base = shm.base /\ ck'.ckpt = s.ckpt /\ NextHead < s.ckpt /\ s.ckpt \in Ckpts
        BY <4>1 DEF HeadMoves, Committed
      <4>3. shm.base \in Nat /\ s.ckpt \in Nat /\ NextHead \in Nat
        BY <1>0, <4>2, HeadIsNow, CkptsNat DEF Ctx, TInv, Shape, MemShape, ShmSet
      <4> QED
        BY <1>0, <4>2, <4>3 DEF Order
    <3>2. CASE ~Commit
      <4>1. ck.pc = "compact" /\ ck'.ckpt = ck.ckpt /\ pg' = "up"
        BY <2>1, <3>2, CkStep
      <4>2. ~comp.inline
        <5> SUFFICES ASSUME comp.inline PROVE FALSE
          OBVIOUS
        <5>1. comp.pc # "idle"
          BY <1>0 DEF Ctx, TInv, PosInv, CompPhase
        <5>2. FirstNext /\ NoCk.pc = "idle"
          BY NoCkShape DEF Step
        <5>3. ~(\E i \in Items : Write(i) \/ Evict(i)) /\ ~Spill /\ ~LoadManifest
          BY <1>2, <5>1 DEF Write, Evict, Spill, LoadManifest, memory
        <5>4. ~NoNewSegments /\ ~Crash /\ ~CheckpointEnd
          BY <2>1, <5>1, <5>2 DEF NoNewSegments, Crash, CheckpointEnd
        <5>5. ~CompactPublish /\ ~CompactAdvance /\ ~\E through \in BOOLEAN : CompactPut(through)
          BY <1>0, <1>2, <5>1 DEF CompactPublish, CompactAdvance, CompactPut, CompSet
        <5>6. ~CompactDelete /\ ~CompactFail
          BY <1>0, <2>1, <5>1, FailIs DEF CompactDelete, CompInv, Ctx, TInv, Shape, MemShape, CkSet
        <5>7. ~Start
          BY <1>2, <5>1 DEF Start
        <5>8. ~(\E kind \in {"online", "backup", "shutdown"} : CheckpointStart(kind)) /\ ~(UNCHANGED vars)
          BY <1>2, <2>1, <5>1 DEF CheckpointStart, vars, memory
        <5> QED
          BY <3>2, <5>2, <5>3, <5>4, <5>5, <5>6, <5>7, <5>8 DEF FirstNext, Compact
      <4>3. shm.base < ck.ckpt /\ (comp.pc # "idle" => comp.key < ck.ckpt)
        BY <1>0, <4>1, <4>2 DEF CompInv
      <4>4. shm'.base = shm.base \/ (CompactAdvance /\ shm'.base = comp.key /\ comp.pc # "idle")
        <5>1. ~Start
          BY <1>0, <4>1, StartIs, NoCkShape
        <5> QED
          BY <1>2, <3>2, <4>1, <5>1, ShmStep
      <4> QED
        BY <4>1, <4>3, <4>4
    <3> QED
      BY <3>1, <3>2
  <2> QED
    BY <1>2, <2>1 DEF CompInv
<1>3. CASE /\ comp.pc # "idle" /\ comp'.pc # "idle" /\ UNCHANGED <<bases, gone>>
           /\ comp'.key = comp.key /\ comp'.m = comp.m /\ comp'.inline = comp.inline
           /\ \/ comp'.pc = "published" /\ shm' = shm /\ ck' = ck
              \/ CompactAdvance /\ comp'.pc = "delete" /\ ck' = ck
              \/ comp' = comp /\ shm'.base = shm.base /\ (ck'.pc = "compact" => ck.pc = "compact" \/ Commit)
  <2>1. comp'.pc = "delete" => shm'.base = comp'.key
    <3>1. CompactAdvance => shm'.base = comp.key
      BY <1>0 DEF CompactAdvance, Ctx, TInv, Shape, MemShape, ShmSet
    <3> QED
      BY <1>0, <1>3, <3>1 DEF CompInv
  <2>2. ASSUME ck'.pc = "compact", ~comp'.inline PROVE shm'.base < ck'.ckpt /\ comp'.key < ck'.ckpt
    <3>1. CASE Commit
      <4>1. PICK s : HeadMoves(s)
        BY <3>1, HeadStep
      <4>2. shm'.base = shm.base /\ ck'.ckpt = s.ckpt /\ NextHead < s.ckpt /\ s.ckpt \in Ckpts /\ comp' = comp
        BY <4>1 DEF HeadMoves, Committed
      <4>3. shm.base \in Nat /\ s.ckpt \in Nat /\ NextHead \in Nat /\ comp.key \in Nat
        BY <1>0, <4>2, HeadIsNow, CkptsNat DEF Ctx, TInv, Shape, MemShape, ShmSet, CompSet
      <4>4. shm.base <= NextHead /\ comp.key <= NextHead
        BY <1>0, <1>3 DEF Order, CompInv
      <4> QED
        BY <4>2, <4>3, <4>4
    <3>2. CASE ~Commit
      <4>1. ck.pc = "compact" /\ ck'.ckpt = ck.ckpt
        BY <2>2, <3>2, CkStep
      <4>2. shm.base < ck.ckpt /\ comp.key < ck.ckpt
        BY <1>0, <1>3, <2>2, <4>1 DEF CompInv
      <4>3. CompactAdvance => shm'.base = comp.key
        BY <1>0 DEF CompactAdvance, Ctx, TInv, Shape, MemShape, ShmSet
      <4> QED
        BY <1>3, <4>1, <4>2, <4>3
    <3> QED
      BY <3>1, <3>2
  <2>3. /\ <<0, comp'.key>> \in DOMAIN bases' /\ bases'[<<0, comp'.key>>] = comp'.m
        /\ \A g \in gone' : Full(g) => g.ckpt <= comp'.key
    BY <1>0, <1>3 DEF CompInv
  <2> QED
    BY <2>1, <2>2, <2>3 DEF CompInv, Full
<1> QED
  BY <1>1, <1>2, <1>3, CompStep

LEMMA ManifestsStay ==
  ASSUME db' = db, tikm' = tikm, DOMAIN bases \subseteq DOMAIN bases', NEW c, ManifestsAt(c) # {}
  PROVE  ManifestsAt(c)' # {}
  BY DEF ManifestsAt

\* While the store runs, its base manifest is found, except where a compaction has just
\* replaced it.
HasBase == ManifestsAt(shm.base) # {} \/ comp.pc = "published" \/ ck.kind = "shutdown"

LEMMA NextHasBase ==
  ASSUME Step, pg' = "up"
  PROVE  HasBase'
<1>0. /\ Ctx /\ TInv /\ FirstNext /\ db = 0 /\ db' = 0 /\ shm \in ShmSet /\ ck \in CkSet /\ comp \in CompSet /\ NoCk.kind = "online"
      /\ (pg = "up" => HasBase) /\ (ck.pc = "idle" => ck.kind # "shutdown") /\ CompInv
  BY FirstIs DEF Step, Ctx, StoreInv, Base, HasBase, Quiet, First, TInv, Shape, MemShape, NoCk
<1>a. ASSUME tikm' = tikm, DOMAIN bases \subseteq DOMAIN bases', shm'.base = shm.base,
             HasBase, ck.kind = "shutdown" => ck'.kind = "shutdown", comp.pc = "published" => comp'.pc = "published" \/ ck'.kind = "shutdown"
      PROVE  HasBase'
  <2>1. CASE ManifestsAt(shm.base) # {}
    <3>1. PICK c : c = shm.base
      OBVIOUS
    <3>2. ManifestsAt(c)' # {}
      BY <1>0, <1>a, <2>1, <3>1, ManifestsStay
    <3> QED
      BY <1>a, <3>1, <3>2 DEF HasBase
  <2> QED
    BY <1>a, <2>1 DEF HasBase
<1>1. CASE \E i \in Items : Write(i) \/ Evict(i)
  <2>1. pg = "up" /\ UNCHANGED <<tikm, bases, comp, ck>> /\ shm'.base = shm.base
    BY <1>0, <1>1, FirstIs DEF Write, Evict, WriteBack, Running, storage, local, ShmSet
  <2> QED
    BY <1>0, <1>a, <2>1
<1>2. CASE Spill
  <2>1. pg = "up" /\ UNCHANGED <<tikm, bases, comp, ck>> /\ shm'.base = shm.base
    BY <1>0, <1>2, FirstIs DEF Spill, storage, ShmSet
  <2> QED
    BY <1>0, <1>a, <2>1
<1>3. CASE LoadManifest
  <2>1. /\ UNCHANGED <<bases, shm>> /\ ManifestsAt(shm.base) # {} /\ tikm' = ManifestsAt(shm.base)
        /\ \A m \in tikm : m.ckpt # shm.base
    BY <1>3 DEF LoadManifest, storage, memory
  <2>2. CASE shm.base = 0
    BY <2>1, <2>2 DEF HasBase, ManifestsAt
  <2>3. CASE shm.base # 0
    <3>1. <<db, shm.base>> \in DOMAIN bases
      BY <2>1, <2>3 DEF ManifestsAt
    <3> QED
      BY <1>0, <2>1, <2>3, <3>1 DEF HasBase, ManifestsAt
  <2> QED
    BY <2>2, <2>3
<1>4. CASE \E kind \in {"online", "backup", "shutdown"} : CheckpointStart(kind)
  <2>1. /\ pg = "up" /\ UNCHANGED <<tikm, bases>> /\ ck.pc = "idle" /\ shm'.base = shm.base
        /\ comp' = comp \/ ck'.kind = "shutdown"
    BY <1>0, <1>4 DEF CheckpointStart, WriteBack, local, ShmSet
  <2> QED
    BY <1>0, <1>a, <2>1
<1>5. CASE Commit
  <2>1. pg = "up" /\ UNCHANGED <<tikm, bases, comp>> /\ shm'.base = shm.base /\ ck'.kind = ck.kind
    BY <1>0, <1>5, CommitIs DEF Committed
  <2> QED
    BY <1>0, <1>a, <2>1
<1>6. CASE NoNewSegments
  <2>1. pg = "up" /\ UNCHANGED <<tikm, bases, comp, shm>> /\ ck'.kind = ck.kind
    BY <1>0, <1>6 DEF NoNewSegments, local, storage, CkSet, pgVars
  <2> QED
    BY <1>0, <1>a, <2>1
<1>7. CASE CheckpointEnd
  <2>1. pg = "up" /\ UNCHANGED <<tikm, bases, comp, shm>> /\ ck.kind # "shutdown"
    BY <1>0, <1>7, NoCkShape DEF CheckpointEnd, StopPg, local, TInv, PosInv, Phase
  <2> QED
    BY <1>0, <1>a, <2>1
<1>8. CASE \E through \in BOOLEAN : CompactPut(through)
  <2>1. PICK m, S, new, key : Folds(m, S, new, key)
    BY <1>0, <1>8, FoldIs
  <2>2. /\ pg = "up" /\ UNCHANGED <<tikm, ck, shm>> /\ comp.pc = "idle" /\ DOMAIN bases \subseteq DOMAIN bases'
        /\ ManifestsAt(shm.base) # {}
    BY <2>1 DEF Folds
  <2> QED
    BY <1>0, <1>a, <2>2
<1>9. CASE CompactPublish
  BY <1>0, <1>9 DEF CompactPublish, HasBase, CompSet
<1>10. CASE CompactAdvance
  <2>1. shm'.base = comp.key /\ bases' = bases /\ comp.pc = "published" /\ tikm' = tikm
    BY <1>0, <1>10 DEF CompactAdvance, storage, local, ShmSet
  <2>2. <<0, comp.key>> \in DOMAIN bases
    BY <1>0, <2>1 DEF CompInv
  <2> QED
    BY <1>0, <2>1, <2>2 DEF HasBase, ManifestsAt
<1>11. CASE CompactDelete \/ CompactFail
  <2>1. pg = "up" /\ UNCHANGED <<tikm, bases, shm>> /\ ck'.kind = ck.kind /\ comp.pc # "published"
    BY <1>0, <1>11, FailIs DEF CompactDelete, local, CkSet, pgVars
  <2> QED
    BY <1>0, <1>a, <2>1
<1>12. CASE Crash
  BY <1>12 DEF Crash, StopPg
<1>13. CASE Start
  <2>1. tikm' = {InitialManifest} /\ shm'.base = InitialManifest.ckpt
    BY <1>0, <1>13, StartIs
  <2> QED
    BY <2>1 DEF HasBase, ManifestsAt
<1>14. CASE UNCHANGED vars
  <2>1. pg = "up" /\ UNCHANGED <<tikm, bases, comp, ck, shm>>
    BY <1>14 DEF vars, pgVars, memory, storage, local
  <2> QED
    BY <1>0, <1>a, <2>1
<1> QED
  BY <1>0, <1>1, <1>2, <1>3, <1>4, <1>5, <1>6, <1>7, <1>8, <1>9, <1>10, <1>11, <1>12, <1>13, <1>14 DEF FirstNext, Compact

\* The active window after a commit.
LEMMA CommitWindow ==
  ASSUME Ctx, NEW s, Committed(s), NextHead < s.ckpt
  PROVE  /\ s \in shm'.active /\ shm'.active \subseteq shm.active \cup {s}
         /\ \A a \in shm'.active : \A r \in shm.active \cup {s} : a.ckpt <= r.ckpt => r \in shm'.active
         /\ \A a \in shm.active : a.ckpt < s.ckpt /\ a.ckpt \in Nat
<1>1. /\ shm'.active = Window(shm.active \cup {s}) /\ pg = "up" /\ s.ckpt \in Ckpts
      /\ shm.active \subseteq Ever /\ IsFiniteSet(shm.active) /\ NextHead \in Nat
      /\ \A a \in Ever : a.ckpt <= NextHead
  BY HeadIsNow DEF Committed, Ctx, StoreInv, Base, Order, TInv, Shape, MemShape
<1>2. \A a \in shm.active : a.ckpt < s.ckpt /\ a.ckpt \in Nat /\ a.ckpt \in Ckpts
  BY <1>1, FirstIs, CkptsNat
<1> DEFINE S == shm.active \cup {s}
<1>3. IsFiniteSet(S)
  BY <1>1, FS_AddElement
<1>4. \A a \in S : a.ckpt \in Ckpts
  BY <1>1, <1>2
<1>5. \A a, r \in S : a.ckpt = r.ckpt => a = r
  <2>1. \A a, r \in shm.active : a.ckpt = r.ckpt => a = r
    BY <1>1, FirstIs DEF Ctx, TInv, PosInv, SegPos
  <2> QED
    BY <1>2, <2>1
<1>6. S # {} /\ Newest(S) \in S /\ \A r \in S : r.ckpt <= Newest(S).ckpt
  <2>1. S # {}
    OBVIOUS
  <2> HIDE DEF S
  <2> QED
    BY <1>4, <2>1, NewestIs
<1>7. Newest(S) = s
  <2>1. PICK n : n = Newest(S)
    OBVIOUS
  <2>2. n \in S /\ s.ckpt <= n.ckpt /\ s.ckpt \in Nat
    <3>1. s \in S
      OBVIOUS
    <3> HIDE DEF S
    <3> QED
      BY <1>1, <1>6, <2>1, <3>1, CkptsNat
  <2>3. n = s
    BY <1>2, <2>2
  <2> QED
    BY <2>1, <2>3
<1>8. /\ Window(S) \subseteq S
      /\ \A a \in Window(S), r \in S : a.ckpt <= r.ckpt => r \in Window(S)
      /\ Newest(S) \in Window(S)
  <2> HIDE DEF S
  <2> QED
    BY <1>3, <1>4, <1>5, <1>6, WindowIs
<1> QED
  BY <1>1, <1>2, <1>7, <1>8

LEMMA NextBase ==
  ASSUME Step
  PROVE  Base'
<1> SUFFICES ASSUME pg' = "up" PROVE Base'
  BY DEF Base
<1>0. Ctx /\ FirstNext /\ CompInv /\ (pg = "up" => Base) /\ db = 0
  BY FirstIs DEF Step, Ctx, StoreInv
<1>1. HasBase'
  BY NextHasBase
<1>2. CASE Commit
  <2>1. PICK s : HeadMoves(s)
    BY <1>2, HeadStep
  <2>2. /\ Committed(s) /\ NextHead < s.ckpt /\ segs' = segs \cup {s} /\ gone' = gone /\ shm'.base = shm.base /\ pg = "up"
        /\ Ever' = Ever \cup {s}
    BY <2>1 DEF HeadMoves, Committed
  <2>3. /\ s \in shm'.active /\ shm'.active \subseteq shm.active \cup {s}
        /\ \A a \in shm'.active : \A r \in shm.active \cup {s} : a.ckpt <= r.ckpt => r \in shm'.active
        /\ \A a \in shm.active : a.ckpt < s.ckpt /\ a.ckpt \in Nat
    BY <1>0, <2>2, CommitWindow
  <2>4. s.ckpt \in Nat /\ \A r \in segs : r.ckpt \in Nat /\ r.ckpt < s.ckpt
    <3>1. s.ckpt \in Ckpts /\ NextHead \in Nat
      BY <1>0, <2>2, HeadIsNow DEF Committed
    <3>2. \A r \in segs : r.ckpt \in Nat /\ r.ckpt <= NextHead
      BY <1>0, FirstIs DEF Ever, Ctx, StoreInv, Order
    <3> QED
      BY <2>2, <3>1, <3>2, CkptsNat
  <2>5. ASSUME NEW a \in shm'.active, NEW r \in segs', r.ckpt > a.ckpt PROVE r \in shm'.active
    <3>1. CASE r = s
      BY <2>3, <3>1
    <3>2. CASE r \in segs
      <4>1. a # s /\ a \in shm.active
        BY <2>3, <2>4, <2>5, <3>2
      <4>2. r \in shm.active
        BY <1>0, <2>2, <2>5, <3>2, <4>1 DEF Base
      <4>3. a.ckpt <= r.ckpt
        BY <2>3, <2>5, <4>1, <4>2
      <4> QED
        BY <2>3, <4>2, <4>3
    <3> QED
      BY <2>2, <3>1, <3>2
  <2>6. shm'.active \subseteq Ever' /\ shm'.active # {} /\ \A g \in gone' : Full(g) => g.ckpt <= shm'.base
    BY <1>0, <2>2, <2>3 DEF Base
  <2> QED
    BY <1>1, <2>5, <2>6 DEF Base, HasBase, Full
<1>3. CASE Start
  <2>0. /\ shm'.base = InitialManifest.ckpt /\ gone' = {s \in gone : s.ckpt <= InitialManifest.ckpt} /\ segs' = segs
        /\ shm'.active \subseteq segs /\ shm'.active # {}
        /\ \A a \in shm'.active, s \in segs : a.ckpt <= s.ckpt => s \in shm'.active
    BY <1>0, <1>3, StartIs
  <2>1. \A a \in shm'.active, s \in segs : s.ckpt > a.ckpt => a.ckpt <= s.ckpt
    BY <1>0, <2>0, FirstIs DEF Ever
  <2> QED
    BY <1>1, <2>0, <2>1 DEF Base, HasBase, Ever
<1>4. CASE ~Commit /\ ~Start
  <2>1. Ever' = Ever /\ pg = "up" /\ shm'.active = shm.active
        /\ (shm'.base = shm.base \/ (CompactAdvance /\ shm'.base = comp.key /\ comp.pc = "published"))
    BY <1>0, <1>4, HeadStep, ShmStep
  <2>2. segs' \subseteq segs
    <3>1. CASE CompactDelete
      BY <3>1 DEF CompactDelete
    <3>2. CASE gone' = gone
      <4>1. CASE Spill \/ LoadManifest \/ NoNewSegments \/ CheckpointEnd \/ Crash
        BY <4>1 DEF Spill, LoadManifest, NoNewSegments, CheckpointEnd, Crash, storage
      <4>2. CASE Compact
        BY <4>2 DEF Compact, CompactPut, CompactPublish, CompactAdvance, CompactDelete, CompactFail, storage
      <4>3. CASE \E i \in Items : Write(i) \/ Evict(i)
        BY <4>3 DEF Write, Evict, storage
      <4>4. CASE \E kind \in {"online", "backup", "shutdown"} : CheckpointStart(kind)
        BY <4>4 DEF CheckpointStart
      <4>5. CASE UNCHANGED vars
        BY <4>5 DEF vars, storage
      <4> QED
        BY <1>0, <1>4, <4>1, <4>2, <4>3, <4>4, <4>5 DEF FirstNext
    <3> QED
      BY <1>4, <3>1, <3>2, GoneStep
  <2>3. ASSUME NEW g \in gone', Full(g) PROVE g.ckpt <= shm'.base
    <3>1. CASE gone' = gone
      <4>1. g.ckpt <= shm.base /\ (comp.pc # "idle" => g.ckpt <= comp.key)
        BY <1>0, <2>1, <2>3, <3>1 DEF Base, CompInv
      <4> QED
        BY <2>1, <4>1
    <3>2. CASE CompactDelete /\ gone' = gone \cup Folded
      <4>1. comp.pc = "delete" /\ shm' = shm
        BY <3>2 DEF CompactDelete
      <4>2. shm.base = comp.key
        BY <1>0, <4>1 DEF CompInv
      <4>3. g \in Folded => g.ckpt <= comp.key
        BY <1>0, FoldedBelow
      <4> QED
        BY <1>0, <2>1, <2>3, <3>2, <4>1, <4>2, <4>3 DEF Base
    <3> QED
      BY <1>4, <3>1, <3>2, GoneStep
  <2> QED
    BY <1>0, <1>1, <2>1, <2>2, <2>3 DEF Base, HasBase, Full
<1> QED
  BY <1>2, <1>3, <1>4

\* The checkpoint of a base backup ends its compaction.
LEMMA CkEnds ==
  ASSUME Step, ck.pc = "compact", ck'.pc = "end", ~comp.inline
  PROVE  NoNewSegments \/ (CompactFail /\ comp.pc = "idle")
<1>0. Ctx /\ FirstNext /\ ck \in CkSet /\ NoCk.pc = "idle"
  BY NoCkShape DEF Step, Ctx, TInv, Shape, MemShape
<1>1. CASE \E i \in Items : Write(i) \/ Evict(i)
  BY <1>1 DEF Write, Evict
<1>2. CASE Spill \/ LoadManifest \/ Commit \/ CheckpointEnd
  BY <1>2 DEF Spill, LoadManifest, Commit, CheckpointEnd, memory
<1>3. CASE \E kind \in {"online", "backup", "shutdown"} : CheckpointStart(kind)
  BY <1>3 DEF CheckpointStart
<1>4. CASE Compact
  BY <1>4 DEF Compact, CompactPut, CompactPublish, CompactAdvance, CompactDelete, CompactFail
<1>5. CASE Crash \/ Start
  BY <1>0, <1>5 DEF Crash, Start
<1>6. CASE UNCHANGED vars
  BY <1>6 DEF vars, memory
<1> QED
  BY <1>0, <1>1, <1>2, <1>3, <1>4, <1>5, <1>6 DEF FirstNext

LEMMA BackupFolds ==
  ASSUME Ctx, ck.pc = "compact", ck.kind = "backup", ~comp.inline, comp.pc = "idle"
  PROVE  ToApply(TRUE) # {} /\ ManifestsAt(shm.base) # {}
<1>1. pg = "up" /\ shm.base < ck.ckpt /\ ck.ckpt = NextHead /\ SegsHere = segs
  BY FirstIs DEF Ctx, TInv, PosInv, Phase, NoCk, StoreInv, CompInv, Order
<1>2. PICK s \in segs : s.ckpt = NextHead
  BY HeadIsNow
<1>3. s.ckpt <= ck.ckpt /\ s.ckpt > shm.base
  <2>1. NextHead \in Nat /\ shm.base \in Nat
    BY HeadIsNow, CkptsNat DEF Ctx, TInv, Shape, MemShape, ShmSet
  <2> QED
    BY <1>1, <1>2, <2>1
<1>4. s \in ToApply(TRUE)
  BY <1>1, <1>2, <1>3 DEF ToApply
<1> QED
  BY <1>1, <1>4 DEF Ctx, StoreInv, Base

\* The manifest of a base backup has all that its checkpoint has.
LEMMA BackupAnchored ==
  ASSUME Step, NEW m, NEW S, NEW new, NEW key, Folds(m, S, new, key), FoldsWhich(S, new, key),
         ck.pc = "compact", ck.kind = "backup", NEW c, c = ck.ckpt
  PROVE  Anchored(c)'
<1>0. Ctx /\ TInv /\ SegsHere = segs /\ db = 0
  BY FirstIs DEF Step, Ctx
<1>1. /\ S = ToApply(TRUE) /\ key = new.ckpt /\ new = ApplySegments(m, S) /\ m \in ManifestsAt(shm.base) /\ pg = "up"
      /\ <<0, key>> \in DOMAIN bases' /\ UNCHANGED <<segs, gone, ck, shm>> /\ m \in ManSet /\ S \in SUBSET SegSet /\ S # {}
      /\ key \in Ckpts /\ \A s \in S : s.ckpt > m.ckpt
  BY <1>0 DEF Folds, FoldsWhich
<1>2. Ever' = Ever /\ c = NextHead
  BY <1>0, <1>1 DEF Ever, Ctx, StoreInv, Order
<1> DEFINE full == {s \in S : s.chunks # {} \/ s.rels # NoItems}
<1>3. /\ m.ckpt <= new.ckpt /\ new.ckpt <= Newest(S).ckpt
      /\ \/ new.ckpt = m.ckpt /\ full = {}
         \/ \E s \in full : new.ckpt = s.ckpt /\ \A r \in full : r.ckpt <= s.ckpt
  BY <1>0, <1>1, FoldCkpt
<1>4. \A s \in S : Full(s) => s \in full
  <2>1. DOMAIN NoItems = {}
    BY DEF NoItems
  <2> QED
    BY <2>1 DEF Full, ItemsOf
<1> HIDE DEF full
<1>5. key <= c
  <2>1. NextHead' = NextHead /\ \A k \in DOMAIN bases' : k[2] <= NextHead'
    <3>1. Order' /\ ~Commit
      BY <1>1, NextOrder DEF Folds, Commit
    <3> QED
      BY <3>1, HeadStep DEF Order
  <2> QED
    BY <1>1, <1>2, <2>1
<1>6. ASSUME NEW s \in Ever, Full(s), s.ckpt <= c PROVE s.ckpt <= key
  <2>0. s.ckpt \in Nat /\ m.ckpt \in Nat /\ key \in Nat /\ shm.base \in Nat
    BY <1>0, <1>1, FirstIs, CkptsNat DEF ManSet, TInv, Shape, MemShape, ShmSet
  <2>1. CASE s.ckpt <= shm.base
    <3>1. s.ckpt <= m.ckpt
      BY <1>0, <1>1, <1>6, <2>1, BaseHas
    <3>2. m.ckpt <= key
      BY <1>1, <1>3
    <3> QED
      BY <2>0, <3>1, <3>2
  <2>2. CASE ~(s.ckpt <= shm.base)
    <3>1. s \in segs
      BY <1>0, <1>1, <1>6, <2>2 DEF Ctx, StoreInv, Base, Ever
    <3>2. s \in S
      <4>1. s.ckpt > shm.base /\ s.ckpt <= ck.ckpt
        BY <1>6, <2>0, <2>2
      <4> QED
        BY <1>0, <1>1, <3>1, <4>1 DEF ToApply
    <3>3. s \in full
      BY <1>4, <1>6, <3>2
    <3> QED
      BY <1>1, <1>3, <3>3
  <2> QED
    BY <2>1, <2>2
<1> QED
  <2>1. <<0, key>>[2] = key
    OBVIOUS
  <2>2. \A s : Full(s)' <=> Full(s)
    BY DEF Full, ItemsOf
  <2> QED
    BY <1>1, <1>2, <1>5, <1>6, <2>1, <2>2 DEF Anchored

\* An anchor stays one, for later checkpoints are after the one that it anchors.
LEMMA AnchoredStays ==
  ASSUME Step, NEW c \in Ckpts, Anchored(c), TimelineOf(c) = 1, LsnOf(c) <= Lsn
  PROVE  Anchored(c)'
<1>1. PICK k \in DOMAIN bases : k[2] <= c /\ \A s \in Ever : Full(s) /\ s.ckpt <= c => s.ckpt <= k[2]
  BY DEF Anchored
<1>2. k \in DOMAIN bases'
  <2>1. ASSUME NEW m, NEW S, NEW new, NEW key, Folds(m, S, new, key) PROVE DOMAIN bases \subseteq DOMAIN bases'
    BY <2>1 DEF Folds
  <2> QED
    BY <1>1, <2>1, BasesStep
<1>3. ASSUME NEW s \in Ever', s.ckpt <= c PROVE s \in Ever
  <2>1. ASSUME NEW r, HeadMoves(r) PROVE s # r
    <3>1. r.ckpt \in Ckpts /\ TimelineOf(r.ckpt) = 1 /\ LsnOf(r.ckpt) = Lsn + 1 /\ Lsn \in Nat /\ LsnOf(c) \in Nat
      BY <2>1, FirstIs, CkptBound DEF HeadMoves, Committed, Step
    <3>2. c < r.ckpt
      <4>1. LsnOf(c) < LsnOf(r.ckpt)
        BY <3>1
      <4> QED
        BY <3>1, <4>1, CkptOrder
    <3> QED
      BY <1>3, <3>1, <3>2, CkptsNat
  <2>2. CASE Commit
    <3>1. PICK r : HeadMoves(r)
      BY <2>2, HeadStep
    <3> QED
      BY <1>3, <2>1, <3>1 DEF HeadMoves
  <2>3. CASE ~Commit
    BY <1>3, <2>3, HeadStep
  <2> QED
    BY <2>2, <2>3
<1>4. \A s : Full(s)' <=> Full(s)
  BY DEF Full, ItemsOf
<1> QED
  BY <1>1, <1>2, <1>3, <1>4 DEF Anchored

LEMMA BackupsIn ==
  ASSUME Ctx, NEW c, (\E b \in backups : c = b.ckpt) \/ (ck.pc \in {"compact", "end"} /\ c = ck.ckpt)
  PROVE  c \in Ckpts /\ TimelineOf(c) = 1 /\ LsnOf(c) \in 1..Lsn
<1>1. MaxTl = 1
  BY FirstIs DEF MaxTl, NewTimeline
<1>2. Valid(c, 0) /\ c \in Ckpts
  BY FirstIs DEF Ctx, TInv, PosInv, BkPos, OneDb, CkPos, Shape, MemShape, CkSet, StoreShape, BkSet
<1>3. TimelineOf(c) = 1
  BY <1>1, <1>2 DEF Valid
<1>4. LsnOf(c) \in 1..ends[<<0, 1>>]
  BY <1>2, <1>3 DEF Valid
<1> QED
  BY <1>2, <1>3, <1>4, FirstIs DEF One

LEMMA BackupStep ==
  ASSUME Step
  PROVE  \/ UNCHANGED <<pgdata, backups>>
         \/ /\ CheckpointEnd /\ ck.pc = "end" /\ ck' = NoCk /\ pgdata'.ckpt = ck.ckpt /\ pgdata'.redo = ck.redo
            /\ UNCHANGED <<bases, segs, gone, objs, wal, line, ends, spoiled, tikm, comp, spill>>
            /\ \/ backups' = backups
               \/ ck.kind = "backup" /\ backups' = backups \cup {[db |-> db, ckpt |-> ck.ckpt, redo |-> ck.redo]}
<1>0. Ctx /\ FirstNext /\ pgdata \in DirSet
  BY FirstIs DEF Step
<1>1. CASE \E i \in Items : Write(i) \/ Evict(i)
  BY <1>1 DEF Write, Evict, pgVars, storage
<1>2. CASE Spill \/ LoadManifest \/ Commit \/ NoNewSegments
  BY <1>2 DEF Spill, LoadManifest, Commit, NoNewSegments, pgVars, storage
<1>3. CASE \E kind \in {"online", "backup", "shutdown"} : CheckpointStart(kind)
  BY <1>3 DEF CheckpointStart, pgVars
<1>4. CASE Compact
  BY <1>4 DEF Compact, CompactPut, CompactPublish, CompactAdvance, CompactDelete, CompactFail, pgVars, storage
<1>5. CASE Crash \/ Start
  BY <1>0, <1>5 DEF Crash, Start, storage
<1>6. CASE UNCHANGED vars
  BY <1>6 DEF vars, pgVars, storage
<1>7. CASE CheckpointEnd
  BY <1>0, <1>7 DEF CheckpointEnd, PutBackup, DirSet, local, history
<1> QED
  BY <1>0, <1>1, <1>2, <1>3, <1>4, <1>5, <1>6, <1>7 DEF FirstNext

LEMMA NextTails ==
  ASSUME Step
  PROVE  Tails'
<1>0. /\ Ctx /\ TInv /\ FirstNext /\ Tails /\ CompInv /\ pgdata.ckpt \in Nat /\ ck \in CkSet /\ ck.ckpt \in Nat
      /\ \A b \in backups : b.ckpt \in Nat
  BY FirstIs, CkptsNat DEF Step, Ctx, StoreInv, TInv, Shape, MemShape, StoreShape, BkSet, CkSet
<1>1. ASSUME NEW c, (\E b \in backups : c = b.ckpt) \/ (ck.pc \in {"compact", "end"} /\ c = ck.ckpt), Good(c)
      PROVE  Good(c)'
  <2>1. c \in Ckpts /\ TimelineOf(c) = 1 /\ LsnOf(c) \in 1..Lsn /\ Lsn \in Nat
    BY <1>0, <1>1, BackupsIn, FirstIs
  <2>2. LsnOf(c) <= Lsn
    BY <2>1
  <2>3. unanchored \subseteq unanchored'
    BY <1>0, StepIsNext, UnanchoredStep
  <2>4. Anchored(c) => Anchored(c)'
    BY <2>1, <2>2, AnchoredStays
  <2> QED
    BY <1>1, <2>3, <2>4 DEF Good
<1>2. ASSUME NEW b \in backups' PROVE Good(b.ckpt)' /\ b.ckpt <= pgdata'.ckpt
  <2>1. PICK c : c = b.ckpt
    OBVIOUS
  <2>2. CASE b \in backups
    <3>1. Good(c) /\ c <= pgdata.ckpt
      BY <1>0, <2>1, <2>2 DEF Tails
    <3>2. Good(c)'
      BY <1>1, <2>1, <2>2, <3>1
    <3>3. pgdata.ckpt <= pgdata'.ckpt /\ pgdata'.ckpt \in Nat
      <4>1. ck.pc = "end" => pgdata.ckpt < ck.ckpt
        BY <1>0 DEF TInv, PosInv, CkPos
      <4> QED
        BY <1>0, <4>1, BackupStep
    <3> QED
      BY <1>0, <2>1, <2>2, <3>1, <3>2, <3>3 DEF Good, Anchored, Ever, Full, ItemsOf
  <2>3. CASE b \notin backups
    <3>1. ck.pc = "end" /\ ck.kind = "backup" /\ c = ck.ckpt /\ pgdata'.ckpt = ck.ckpt
      BY <2>1, <2>3, BackupStep
    <3>2. Good(c)
      BY <1>0, <3>1 DEF Tails
    <3>3. Good(c)'
      BY <1>1, <3>1, <3>2
    <3> QED
      BY <1>0, <2>1, <3>1, <3>3 DEF Good, Anchored, Ever, Full, ItemsOf
  <2> QED
    BY <2>2, <2>3
<1>3. ASSUME ck'.kind = "backup", ck'.pc = "end" \/ (ck'.pc = "compact" /\ comp'.inline)
      PROVE  Good(ck.ckpt)'
  <2>1. PICK c : c = ck'.ckpt
    OBVIOUS
  <2>2. CASE Commit
    <3>1. PICK s : Committed(s)
      BY <1>0, <2>2, CommitIs
    <3>2. ck.pc = "flushed" /\ comp' = comp /\ ck'.pc = "compact"
      BY <1>3, <3>1 DEF Committed
    <3>3. ~comp.inline
      BY <1>0, <3>2 DEF TInv, PosInv, CompPhase
    <3> QED
      BY <1>3, <3>2, <3>3
  <2>3. CASE ~Commit
    <3>1. /\ ck.pc \in {"compact", "end"} /\ c = ck.ckpt /\ ck.kind = "backup"
          /\ ck'.pc = "compact" => ck.pc = "compact"
      BY <1>3, <2>1, <2>3, CkStep
    <3>2. Good(c) => Good(c)'
      BY <1>1, <3>1
    <3>3. CASE ck.pc = "end" \/ comp.inline
      <4>1. Good(c)
        BY <1>0, <3>1, <3>3 DEF Tails
      <4> QED
        BY <2>1, <3>2, <4>1 DEF Good, Anchored, Ever, Full, ItemsOf
    <3>4. CASE ck.pc = "compact" /\ ~comp.inline
      <4>1. CASE ck'.pc = "end"
        <5>1. CASE NoNewSegments
          <6>1. comp.pc = "idle" /\ ToApply(TRUE) = {}
            BY <3>1, <5>1 DEF NoNewSegments
          <6> QED
            BY <1>0, <3>1, <3>4, <6>1, BackupFolds
        <5>2. CASE CompactFail /\ comp.pc = "idle"
          <6>1. <<0, ck.ckpt>> \in unanchored' /\ ck'.ckpt = ck.ckpt
            BY <1>0, <3>1, <5>2, FirstIs DEF CompactFail, CkSet
          <6> QED
            BY <6>1 DEF Good
        <5> QED
          BY <3>4, <4>1, <5>1, <5>2, CkEnds
      <4>2. CASE ck'.pc = "compact" /\ comp'.inline
        <5>1. PICK m, S, new, key : Folds(m, S, new, key) /\ FoldsWhich(S, new, key)
          BY <3>4, <4>2, CompStep
        <5>2. Anchored(c)'
          BY <3>1, <3>4, <5>1, BackupAnchored
        <5> QED
          BY <2>1, <5>2 DEF Good, Anchored, Ever, Full, ItemsOf
      <4> QED
        BY <1>3, <4>1, <4>2
    <3> QED
      BY <3>1, <3>3, <3>4
  <2> QED
    BY <2>2, <2>3
<1> QED
  BY <1>2, <1>3 DEF Tails

LEMMA NextStore == Step => StoreInv'
  BY NextQuiet, NextOrder, NextGaps, NextBase, NextComp, NextTails DEF StoreInv

-----------------------------------------------------------------------------
(* What checkpoints and manifests hold, step by step *)

LEMMA ItemKinds ==
  ASSUME Ctx, NEW i \in Items, NEW s \in Ever
  PROVE  /\ i \in ItemsOf(s) /\ i \in Chunks => i \in s.chunks
         /\ i \in ItemsOf(s) /\ i \notin Chunks => i \in DOMAIN s.rels
<1>1. s \in SegSet
  BY FirstIs
<1>2. s.chunks \subseteq Chunks /\ DOMAIN s.rels \subseteq Relforks
  BY <1>1, FnsDef DEF SegSet
<1> QED
  BY <1>2, RecoveryAssumption DEF ItemsOf, Items

LEMMA ObjStays ==
  ASSUME Step, NEW i \in Chunks, NEW p \in DOMAIN objs[i], p # <<0, NextHead>>
  PROVE  p \in DOMAIN objs'[i] /\ objs'[i][p] = objs[i][p]
  BY NextObjs

LEMMA SegObj ==
  ASSUME Ctx, NEW i \in Chunks \ spoiled, NEW s \in Ever, i \in s.chunks
  PROVE  <<s.db, s.prev>> \in DOMAIN objs[i] /\ <<s.db, s.prev>> # <<0, NextHead>>
<1>1. s \in AllSegs /\ s.prev \in Nat /\ s.ckpt \in Nat
  BY FirstIs
<1>2. s.prev < s.ckpt /\ s.ckpt <= NextHead /\ NextHead \in Nat
  BY HeadIsNow DEF Ctx, StoreInv, Order
<1> QED
  BY <1>1, <1>2 DEF Ctx, RefInv, SegRefs, Found

LEMMA ValStays ==
  ASSUME Step, NEW i \in Items \ spoiled, NEW s \in Ever, i \in ItemsOf(s)
  PROVE  Val(s, i)' = Val(s, i)
<1>0. Ctx
  BY DEF Step
<1>1. CASE i \in Chunks
  <2>1. i \in s.chunks
    BY <1>0, <1>1, ItemKinds
  <2>2. <<s.db, s.prev>> \in DOMAIN objs[i] /\ <<s.db, s.prev>> # <<0, NextHead>>
    BY <1>0, <1>1, <2>1, SegObj
  <2> QED
    BY <1>1, <2>2, ObjStays DEF Val
<1>2. CASE i \notin Chunks
  BY <1>2 DEF Val
<1> QED
  BY <1>1, <1>2

LEMMA ManObj ==
  ASSUME Ctx, NEW i \in Chunks \ spoiled, NEW m \in Manifests, i \in DOMAIN m.refs
  PROVE  m.refs[i] \in DOMAIN objs[i] /\ m.refs[i] # <<0, NextHead>>
<1>1. m.refs[i][2] < NextHead /\ NextHead \in Nat
  BY HeadIsNow DEF Ctx, StoreInv, Order
<1> QED
  BY <1>1 DEF Ctx, RefInv, ManRefs, Found

LEMMA EmptyResolves == \A i : Resolve(Empty, i) = {}
<1>1. DOMAIN Empty.refs = {} /\ DOMAIN Empty.rels = {}
  BY DEF Empty, NoItems
<1> QED
  BY <1>1 DEF Resolve

LEMMA ResolveStays ==
  ASSUME Step, NEW i \in Items \ spoiled, NEW m \in Manifests
  PROVE  Resolve(m, i)' = Resolve(m, i)
<1>0. Ctx
  BY DEF Step
<1>1. CASE i \in Chunks /\ i \in DOMAIN m.refs
  <2>1. m.refs[i] \in DOMAIN objs[i] /\ m.refs[i] # <<0, NextHead>>
    BY <1>0, <1>1, ManObj
  <2>2. m.refs[i] \in DOMAIN objs'[i] /\ objs'[i][m.refs[i]] = objs[i][m.refs[i]]
    BY <1>1, <2>1, ObjStays
  <2> QED
    BY <1>1, <2>1, <2>2 DEF Resolve
<1>2. CASE ~(i \in Chunks /\ i \in DOMAIN m.refs)
  BY <1>2 DEF Resolve
<1> QED
  BY <1>1, <1>2

\* Records that are written do not change.
LEMMA UptoStays ==
  ASSUME Step, NEW i
  PROVE  /\ \A l \in Nat : Upto(i, l) \subseteq Upto(i, l)' /\ (l <= Lsn => Upto(i, l)' = Upto(i, l))
         /\ \A l : Touched(i, l) => Touched(i, l)'
<1>0. Ctx /\ FirstNext
  BY DEF Step
<1>1. CASE \E j \in Items : Write(j)
  <2>1. PICK j \in Items : Written(j)
    BY <1>0, <1>1, WriteIs
  <2> QED
    BY <1>0, <2>1, RecordsGrow
<1>2. CASE \A j \in Items : ~Write(j)
  <2>1. wal' = wal /\ line' = line
    BY <1>0, <1>2, NotWritten
  <2> QED
    BY <2>1, RecordsStay
<1> QED
  BY <1>1, <1>2

\* The end of the timeline, and what is before it.
LEMMA LsnStep ==
  ASSUME Step
  PROVE  /\ Lsn' \in Nat /\ Lsn <= Lsn'
         /\ \A i : Upto(i, Lsn) \subseteq Upto(i, Lsn)'
         /\ (\A i \in Items : ~Write(i)) => \A i : Upto(i, Lsn)' = Upto(i, Lsn)
         /\ \A j \in Items : Write(j) => Lsn' = Lsn + 1 /\ Upto(j, Lsn)' = Upto(j, Lsn) \cup {Len(wal) + 1}
                                          /\ \A i : i # j => Upto(i, Lsn)' = Upto(i, Lsn)
<1>0. Ctx /\ FirstNext /\ Lsn \in Nat /\ Lsn = ends[One] /\ Here = One /\ One \in Lines /\ ends \in [Lines -> Lsns]
  BY FirstIs DEF Step, Ctx, TInv, Shape, PgShape
<1>1. Lsn' = ends'[One]
  BY NextQuiet DEF Step, Quiet, First, Lsn, Here, One
<1>2. PICK n : n = Lsn'
  OBVIOUS
<1>3. ASSUME NEW i PROVE Upto(i, Lsn)' = Upto(i, n)'
  BY <1>2 DEF Upto, Records
<1>4. ASSUME NEW j \in Items, Write(j)
      PROVE  /\ n = Lsn + 1 /\ Upto(j, n)' = Upto(j, Lsn) \cup {Len(wal) + 1}
             /\ \A i : i # j => Upto(i, n)' = Upto(i, Lsn)
  <2>1. Written(j)
    BY <1>0, <1>4, WriteIs
  <2>2. n = Lsn + 1
    BY <1>1, <1>2, <2>1 DEF Written
  <2>3. n \in Nat /\ Lsn <= n
    BY <1>0, <2>2
  <2>4. Upto(j, n)' = Upto(j, Lsn) \cup {Len(wal) + 1}
    BY <1>0, <2>1, <2>2, <2>3, RecordsGrow
  <2>5. ASSUME NEW i, i # j PROVE Upto(i, n)' = Upto(i, Lsn)
    <3>1. Upto(i, n)' = Upto(i, n)
      BY <1>0, <2>1, <2>5, RecordsGrow
    <3>2. Upto(i, n) = Upto(i, Lsn)
      BY <1>0, <2>3, RecordsIn
    <3> QED
      BY <3>1, <3>2
  <2> QED
    BY <2>2, <2>4, <2>5
<1>5. ASSUME \A j \in Items : ~Write(j)
      PROVE  n \in Nat /\ Lsn <= n /\ \A i : Upto(i, n)' = Upto(i, Lsn)
  <2>1. wal' = wal /\ line' = line /\ (~Commit => ends' = ends)
    BY <1>0, <1>5, NotWritten
  <2>2. Commit => ends'[One] = ends[One] + 1
    BY <1>0 DEF Commit
  <2>3. n \in Nat /\ Lsn <= n
    BY <1>0, <1>1, <1>2, <2>1, <2>2
  <2>4. ASSUME NEW i PROVE Upto(i, n)' = Upto(i, Lsn)
    <3>1. Upto(i, n)' = Upto(i, n)
      BY <2>1, RecordsStay
    <3>2. Upto(i, n) = Upto(i, Lsn)
      BY <1>0, <2>3, RecordsIn
    <3> QED
      BY <3>1, <3>2
  <2> QED
    BY <2>3, <2>4
<1> HIDE DEF Upto, Lsn
<1>6. n \in Nat /\ Lsn <= n /\ \A i : Upto(i, Lsn) \subseteq Upto(i, n)'
  <2>1. CASE \E j \in Items : Write(j)
    <3>1. PICK j \in Items : Write(j)
      BY <2>1
    <3>2. n = Lsn + 1 /\ Upto(j, n)' = Upto(j, Lsn) \cup {Len(wal) + 1} /\ \A i : i # j => Upto(i, n)' = Upto(i, Lsn)
      BY <1>4, <3>1
    <3> QED
      BY <1>0, <3>2
  <2> QED
    BY <1>5, <2>1
<1> QED
  BY <1>2, <1>3, <1>4, <1>5, <1>6

LEMMA StillClean ==
  ASSUME Step, NEW i \in Items \ spoiled'
  PROVE  i \in Items \ spoiled
<1>1. TInv /\ Shape' /\ [Next]_vars
  BY StepIsNext DEF Step, Ctx, TInv
<1> QED
  BY <1>1, Monotone

\* What waits to be committed is what the commit puts into its checkpoint.
LEMMA CommitVal ==
  ASSUME Step, NEW s, HeadMoves(s), NEW i \in Items
  PROVE  (i \in ItemsOf(s) <=> i \in Pending) /\ (i \in Pending => Val(s, i)' = Pend(i))
<1>1. /\ Committed(s) /\ pg = "up" /\ shm.head = NextHead /\ db = 0 /\ objs' = objs /\ s.db = 0 /\ s.prev = NextHead
      /\ shm \in ShmSet
  BY FirstIs DEF HeadMoves, Committed, Step, Ctx, StoreInv, Order, TInv, Shape, MemShape
<1>2. i \in ItemsOf(s) <=> i \in Pending
  BY <1>1 DEF Committed, ItemsOf, Pending, Items
<1>3. CASE i \in Chunks
  BY <1>1, <1>2, <1>3 DEF Val, Pend, Held
<1>4. CASE i \notin Chunks
  <2>1. i \in Relforks
    BY <1>4 DEF Items
  <2>2. i \in Pending => i \in DOMAIN s.rels /\ s.rels[i] = IF i \in DOMAIN shm.draft THEN shm.draft[i] ELSE spill[i]
    BY <1>1, <2>1 DEF Committed, Pending
  <2> QED
    BY <1>2, <1>4, <2>2 DEF Val, Pend, Held
<1> QED
  BY <1>2, <1>3, <1>4

LEMMA PendHas ==
  ASSUME NEW i \in Pending, PendVal(i)
  PROVE  /\ Touched(i, KeptRedo) /\ Pend(i) \subseteq Upto(i, Lsn)
         /\ \A s \in Ever : i \in ItemsOf(s) => Val(s, i) \subseteq Pend(i)
         /\ \A m \in Manifests : Resolve(m, i) \subseteq Pend(i)
<1>1. PICK f \in {shm.draft, spill} : i \in DOMAIN f /\ Pend(i) = Held(i, f)
  BY DEF Pending, Pend
<1> QED
  BY <1>1 DEF PendVal

LEMMA NextSegVal ==
  ASSUME Step, NEW i \in Items \ spoiled', ItemInv(i)
  PROVE  SegVal(i)'
<1>0. Ctx /\ i \in Items \ spoiled /\ SegVal(i) /\ PendVal(i) /\ Lsn \in Nat
  BY StillClean, FirstIs DEF Step, ItemInv
<1>1. ASSUME NEW s \in Ever, i \in ItemsOf(s) PROVE Val(s, i)' = Val(s, i) /\ Val(s, i)' \subseteq Upto(i, LsnOf(s.ckpt))'
  <2>1. Val(s, i)' = Val(s, i) /\ Val(s, i) \subseteq Upto(i, LsnOf(s.ckpt))
    BY <1>0, <1>1, ValStays DEF SegVal
  <2>2. PICK l : l = LsnOf(s.ckpt)
    OBVIOUS
  <2>3. l \in Nat
    BY <1>0, <2>2, FirstIs
  <2>4. Upto(i, l) \subseteq Upto(i, l)'
    BY <2>3, UptoStays
  <2> QED
    BY <2>1, <2>2, <2>4 DEF Upto, Records
<1>2. \A s, r \in Ever : i \in ItemsOf(s) /\ i \in ItemsOf(r) /\ s.ckpt <= r.ckpt => Val(s, i)' \subseteq Val(r, i)'
  BY <1>0, <1>1 DEF SegVal
<1>3. ASSUME NEW s, HeadMoves(s), i \in ItemsOf(s)
      PROVE  /\ Val(s, i)' \subseteq Upto(i, LsnOf(s.ckpt))'
             /\ \A r \in Ever : i \in ItemsOf(r) => Val(r, i)' \subseteq Val(s, i)' /\ ~(s.ckpt <= r.ckpt)
  <2>1. i \in Pending /\ Val(s, i)' = Pend(i)
    BY <1>0, <1>3, CommitVal
  <2>2. Pend(i) \subseteq Upto(i, Lsn) /\ \A r \in Ever : i \in ItemsOf(r) => Val(r, i) \subseteq Pend(i)
    BY <1>0, <2>1, PendHas
  <2>3. PICK l : l = LsnOf(s.ckpt)
    OBVIOUS
  <2>4. l = Lsn + 1 /\ s.ckpt \in Ckpts
    BY <1>3, <2>3 DEF HeadMoves, Committed
  <2>5. Upto(i, Lsn) \subseteq Upto(i, l) /\ Upto(i, l) \subseteq Upto(i, l)'
    <3>1. l \in Nat /\ Lsn <= l
      BY <1>0, <2>4
    <3> QED
      BY <1>0, <3>1, RecordsIn, UptoStays
  <2>6. Val(s, i)' \subseteq Upto(i, l)'
    BY <2>1, <2>2, <2>5
  <2>7. ASSUME NEW r \in Ever PROVE ~(s.ckpt <= r.ckpt)
    <3>1. r.ckpt \in Nat /\ NextHead \in Nat /\ r.ckpt <= NextHead /\ NextHead < s.ckpt /\ s.ckpt \in Nat
      BY <1>0, <1>3, <2>4, FirstIs, HeadIsNow, CkptsNat DEF HeadMoves, Ctx, StoreInv, Order
    <3> QED
      BY <3>1
  <2> QED
    BY <1>1, <2>1, <2>2, <2>3, <2>6, <2>7 DEF Upto, Records
<1>4. CASE Commit
  <2>1. PICK s : HeadMoves(s)
    BY <1>4, HeadStep
  <2>2. Ever' = Ever \cup {s}
    BY <2>1 DEF HeadMoves
  <2>3. \A r \in Ever' : i \in ItemsOf(r) => Val(r, i)' \subseteq Upto(i, LsnOf(r.ckpt))'
    BY <1>1, <1>3, <2>1, <2>2
  <2>4. \A q, r \in Ever' : i \in ItemsOf(q) /\ i \in ItemsOf(r) /\ q.ckpt <= r.ckpt => Val(q, i)' \subseteq Val(r, i)'
    BY <1>2, <1>3, <2>1, <2>2
  <2> QED
    BY <2>3, <2>4 DEF SegVal, ItemsOf
<1>5. CASE ~Commit
  <2>1. Ever' \subseteq Ever
    BY <1>5, HeadStep
  <2> QED
    BY <1>1, <1>2, <2>1 DEF SegVal, ItemsOf
<1> QED
  BY <1>4, <1>5

\* What a new manifest says of an item: what the newest folded checkpoint with it has, or
\* what the last manifest said.
LEMMA FoldedVal ==
  ASSUME Ctx, NEW m, NEW S, NEW new, NEW key, Folds(m, S, new, key), NEW i \in Items \ spoiled'
  PROVE  \/ \E n \in S : /\ i \in ItemsOf(n) /\ \A s \in S : i \in ItemsOf(s) => s.ckpt <= n.ckpt
                         /\ Resolve(new, i) = Val(n, i)
         \/ (\A s \in S : i \notin ItemsOf(s)) /\ Resolve(new, i) = Resolve(m, i)
<1>0. /\ db = 0 /\ new = ApplySegments(m, S) /\ m \in ManSet /\ S \in SUBSET SegSet /\ S \subseteq segs /\ S \subseteq Ever
      /\ i \in Items /\ i \notin spoiled /\ i \notin Outranked(m, S) /\ \A s \in S : s.db = 0
  BY FirstIs DEF Folds, Ever
<1> DEFINE W == {s \in S : i \in ItemsOf(s)}
<1>1. CASE W # {}
  <2>1. PICK n : n = Newest(W)
    OBVIOUS
  <2>2. n \in W /\ \A s \in W : s.ckpt <= n.ckpt
    <3>1. \A s \in W : s.ckpt \in Ckpts
      BY <1>0, FirstIs
    <3> HIDE DEF W
    <3> QED
      BY <1>1, <2>1, <3>1, NewestIs
  <2>3. CASE i \in Chunks
    <3>1. W = {s \in S : i \in s.chunks}
      <4>1. \A s \in S : i \in ItemsOf(s) <=> i \in s.chunks
        BY <1>0, <2>3, ItemKinds DEF ItemsOf
      <4> QED
        BY <4>1
    <3>2. ApplyRef(i, m, S) = <<db, n.prev>>
      <4>1. i \in UNION {s.chunks : s \in S}
        BY <1>1, <3>1
      <4>2. ApplyRef(i, m, S) = <<db, Newest({s \in S : i \in s.chunks}).prev>>
        BY <1>0, <4>1 DEF Outranked
      <4>3. Newest({s \in S : i \in s.chunks}) = n
        BY <2>1, <3>1
      <4> QED
        BY <4>2, <4>3
    <3>3. i \in DOMAIN new.refs /\ new.refs[i] = <<0, n.prev>>
      <4>1. i \in DOMAIN m.refs \cup UNION {s.chunks : s \in S}
        BY <1>1, <3>1
      <4> QED
        BY <1>0, <3>2, <4>1 DEF ApplySegments
    <3>4. <<n.db, n.prev>> \in DOMAIN objs[i] /\ n.db = 0
      BY <1>0, <2>2, <2>3, <3>1, SegObj
    <3> QED
      BY <2>2, <2>3, <3>3, <3>4 DEF Resolve, Val
  <2>4. CASE i \notin Chunks
    <3>1. W = {s \in S : i \in DOMAIN s.rels}
      <4>1. \A s \in S : i \in ItemsOf(s) <=> i \in DOMAIN s.rels
        BY <1>0, <2>4, ItemKinds DEF ItemsOf
      <4> QED
        BY <4>1
    <3>2. i \in DOMAIN new.rels /\ new.rels[i] = n.rels[i]
      <4>1. i \in DOMAIN m.rels \cup UNION {DOMAIN s.rels : s \in S}
        BY <1>1, <3>1
      <4>2. new.rels[i] = IF {s \in S : i \in DOMAIN s.rels} = {} THEN m.rels[i]
                          ELSE Newest({s \in S : i \in DOMAIN s.rels}).rels[i]
        BY <1>0, <4>1 DEF ApplySegments
      <4>3. new.rels[i] = Newest(W).rels[i]
        <5> HIDE DEF W
        <5> QED
          BY <1>1, <3>1, <4>2
      <4> QED
        BY <1>0, <2>1, <4>1, <4>3 DEF ApplySegments
    <3> QED
      BY <2>2, <2>4, <3>2 DEF Resolve, Val
  <2> QED
    BY <2>3, <2>4
<1>2. CASE W = {}
  <2>1. \A s \in S : i \notin ItemsOf(s) /\ i \notin s.chunks /\ i \notin DOMAIN s.rels
    BY <1>2 DEF ItemsOf
  <2>2. CASE i \in Chunks
    <3>1. i \in DOMAIN new.refs <=> i \in DOMAIN m.refs
      BY <1>0, <2>1 DEF ApplySegments
    <3>2. i \in DOMAIN m.refs => new.refs[i] = m.refs[i]
      <4>1. {s.prev : s \in {r \in S : i \in r.chunks}} = {}
        BY <2>1
      <4>2. ApplyRef(i, m, S) = m.refs[i]
        BY <4>1 DEF ApplyRef
      <4> QED
        BY <1>0, <4>2 DEF ApplySegments
    <3> QED
      BY <2>1, <2>2, <3>1, <3>2 DEF Resolve
  <2>3. CASE i \notin Chunks
    <3>1. i \in DOMAIN new.rels <=> i \in DOMAIN m.rels
      BY <1>0, <2>1 DEF ApplySegments
    <3>2. i \in DOMAIN m.rels => new.rels[i] = m.rels[i]
      <4>1. {s \in S : i \in DOMAIN s.rels} = {}
        BY <2>1
      <4> QED
        BY <1>0, <4>1 DEF ApplySegments
    <3> QED
      BY <2>1, <2>3, <3>1, <3>2 DEF Resolve
  <2> QED
    BY <2>2, <2>3
<1> QED
  BY <1>1, <1>2

LEMMA EmptyOk ==
  ASSUME Ctx, NEW i
  PROVE  ManOk(Empty, i)
<1>1. Empty.ckpt = 0 /\ Resolve(Empty, i) = {}
  BY ZeroCkpt, EmptyResolves
<1>2. \A s \in Ever : ~(s.ckpt <= 0)
  <2>1. \A s \in Ever : TimelineOf(s.ckpt) = 1 /\ s.ckpt \in Nat
    BY FirstIs
  <2>2. \A s \in Ever : s.ckpt # 0
    BY <2>1, ZeroCkpt
  <2> QED
    BY <2>1, <2>2
<1> QED
  BY <1>1, <1>2 DEF ManOk

\* Of two manifests, or of a checkpoint and a manifest, the later one has the later LSN.
LEMMA LaterLsn ==
  ASSUME NEW c \in Ckpts, NEW d \in Ckpts, c <= d, c = 0 \/ TimelineOf(c) = 1, d = c \/ TimelineOf(d) = 1
  PROVE  LsnOf(c) \in Nat /\ LsnOf(d) \in Nat /\ LsnOf(c) <= LsnOf(d)
<1>1. LsnOf(c) \in Nat /\ LsnOf(d) \in Nat
  BY CkptBound
<1>2. CASE c = 0
  BY <1>1, <1>2, ZeroCkpt
<1>3. CASE d = c
  BY <1>1, <1>3
<1>4. CASE TimelineOf(c) = 1 /\ TimelineOf(d) = 1
  BY <1>1, <1>4, CkptOrder
<1> QED
  BY <1>2, <1>3, <1>4

\* The folded checkpoints are all those after the last manifest and up to the newest of them.
LEMMA FoldsAll ==
  ASSUME Ctx, NEW m, NEW S, NEW new, NEW key, Folds(m, S, new, key), FoldsWhich(S, new, key),
         NEW s \in Ever, Full(s), s.ckpt <= Newest(S).ckpt
  PROVE  s \in S \/ s.ckpt <= m.ckpt
<1>0. /\ db = 0 /\ SegsHere = segs /\ Newest(S) \in S /\ m \in ManifestsAt(shm.base) /\ pg = "up" /\ s.ckpt \in Nat
      /\ shm.base \in Nat /\ S \subseteq segs /\ S \subseteq Ever
  BY FirstIs, CkptsNat DEF Folds, Ctx, TInv, Shape, MemShape, ShmSet, Ever
<1>1. CASE s.ckpt <= shm.base
  BY <1>0, <1>1, BaseHas
<1>2. CASE s.ckpt > shm.base
  <2>1. s \in segs
    <3>1. s \in gone => s.ckpt <= shm.base
      BY <1>0 DEF Ctx, StoreInv, Base
    <3> QED
      BY <1>0, <1>2, <3>1 DEF Ever
  <2>2. PICK n : n = Newest(S)
    OBVIOUS
  <2>3. n \in S /\ n.ckpt \in Nat /\ s.ckpt <= n.ckpt
    BY <1>0, <2>2, FirstIs
  <2> DEFINE upper == IF shm.redo = 0 THEN shm.head ELSE shm.redo
  <2>4. upper \in Nat /\ ck.ckpt \in Nat
    BY CkptsNat DEF Ctx, TInv, Shape, MemShape, ShmSet, CkSet
  <2>5. CASE S = ToApply(TRUE)
    <3>1. n.ckpt <= ck.ckpt
      BY <2>3, <2>5 DEF ToApply
    <3>2. s.ckpt <= ck.ckpt
      BY <1>0, <2>3, <2>4, <3>1
    <3> QED
      BY <1>0, <1>2, <2>1, <2>5, <3>2 DEF ToApply
  <2>6. CASE S = ToApply(FALSE)
    <3>1. n.ckpt < upper
      BY <2>3, <2>6 DEF ToApply
    <3>2. s.ckpt < upper
      <4> HIDE DEF upper
      <4> QED
        BY <1>0, <2>3, <2>4, <3>1
    <3> QED
      BY <1>0, <1>2, <2>1, <2>6, <3>2 DEF ToApply
  <2> QED
    BY <2>5, <2>6 DEF FoldsWhich
<1> QED
  BY <1>0, <1>1, <1>2

\* A new manifest has the newest of what it was made from.
LEMMA FoldedOk ==
  ASSUME Ctx, NEW m, NEW S, NEW new, NEW key, Folds(m, S, new, key), FoldsWhich(S, new, key),
         NEW i \in Items \ spoiled', SegVal(i), ManVal(i)
  PROVE  ManOk(new, i)
<1>0. /\ S \subseteq segs /\ S \subseteq Ever /\ m \in ManSet /\ new \in ManSet /\ S \in SUBSET SegSet /\ S # {} /\ TInv
      /\ new = ApplySegments(m, S) /\ \A s \in S : s.ckpt > m.ckpt
  BY FirstIs DEF Folds, Ctx, Ever
<1>1. ManOk(m, i)
  <2>1. m \in Manifests \cup {Empty}
    BY LoadedIs DEF Ctx, Folds
  <2> QED
    BY <2>1, EmptyOk DEF ManVal
<1> DEFINE full == {s \in S : s.chunks # {} \/ s.rels # NoItems}
<1>2. /\ m.ckpt <= new.ckpt /\ new.ckpt <= Newest(S).ckpt
      /\ \/ new.ckpt = m.ckpt /\ full = {}
         \/ \E s \in full : new.ckpt = s.ckpt /\ \A r \in full : r.ckpt <= s.ckpt
  BY <1>0, FoldCkpt
<1>3. \A s \in S : Full(s) => s \in full
  <2>1. DOMAIN NoItems = {}
    BY DEF NoItems
  <2> QED
    BY <2>1 DEF Full, ItemsOf
<1>4. new.ckpt = m.ckpt \/ TimelineOf(new.ckpt) = 1
  <2>1. \A s \in full : TimelineOf(s.ckpt) = 1
    BY <1>0, FirstIs
  <2> HIDE DEF full
  <2> QED
    BY <1>2, <2>1
<1>5. new.ckpt = 0 \/ TimelineOf(new.ckpt) = 1
  BY <1>1, <1>4 DEF ManOk
<1>6. \A s \in S : Full(s) => s.ckpt <= new.ckpt
  <2> HIDE DEF full
  <2> QED
    BY <1>2, <1>3
<1> HIDE DEF full
<1>7. m.ckpt \in Ckpts /\ new.ckpt \in Ckpts /\ m.ckpt \in Nat /\ new.ckpt \in Nat /\ Newest(S).ckpt \in Nat
  <2>1. m.ckpt \in Ckpts /\ new.ckpt \in Ckpts
    BY <1>0 DEF ManSet
  <2>2. Newest(S) \in Ever
    BY <1>0 DEF Folds
  <2> QED
    BY <2>1, <2>2, FirstIs, CkptsNat
<1>8. CASE \E n \in S : /\ i \in ItemsOf(n) /\ \A s \in S : i \in ItemsOf(s) => s.ckpt <= n.ckpt
                        /\ Resolve(new, i) = Val(n, i)
  <2>1. PICK n \in S : /\ i \in ItemsOf(n) /\ \A s \in S : i \in ItemsOf(s) => s.ckpt <= n.ckpt
                       /\ Resolve(new, i) = Val(n, i)
    BY <1>8
  <2>2. n \in Ever /\ n.ckpt <= new.ckpt /\ n.ckpt \in Ckpts /\ n.ckpt \in Nat /\ TimelineOf(n.ckpt) = 1 /\ n.ckpt > m.ckpt
    BY <1>0, <1>6, <2>1, FirstIs DEF Full
  <2>3. Val(n, i) \subseteq Upto(i, LsnOf(n.ckpt))
    BY <2>1, <2>2 DEF SegVal
  <2>4. Upto(i, LsnOf(n.ckpt)) \subseteq Upto(i, LsnOf(new.ckpt))
    <3>1. TimelineOf(new.ckpt) = 1
      BY <1>4, <1>7, <2>2
    <3>2. LsnOf(n.ckpt) \in Nat /\ LsnOf(new.ckpt) \in Nat /\ LsnOf(n.ckpt) <= LsnOf(new.ckpt)
      BY <1>7, <2>2, <3>1, LaterLsn
    <3> QED
      BY <3>2, RecordsIn
  <2>5. ASSUME NEW s \in Ever, i \in ItemsOf(s), s.ckpt <= new.ckpt PROVE Val(s, i) \subseteq Val(n, i)
    <3>1. s \in S \/ s.ckpt <= m.ckpt
      <4>1. s.ckpt <= Newest(S).ckpt /\ Full(s)
        BY <1>2, <1>7, <2>5, FirstIs DEF Full
      <4> QED
        BY <4>1, FoldsAll
    <3>2. s.ckpt <= n.ckpt
      BY <1>7, <2>1, <2>2, <2>5, <3>1, FirstIs
    <3> QED
      BY <2>1, <2>2, <2>5, <3>2 DEF SegVal
  <2>6. ASSUME NEW s \in Ever, i \in ItemsOf(s), ~(s.ckpt <= new.ckpt) PROVE Val(n, i) \subseteq Val(s, i)
    <3>1. n.ckpt <= s.ckpt
      BY <1>7, <2>2, <2>6, FirstIs
    <3> QED
      BY <2>1, <2>2, <2>6, <3>1 DEF SegVal
  <2> QED
    BY <1>5, <2>1, <2>3, <2>4, <2>5, <2>6 DEF ManOk
<1>9. CASE (\A s \in S : i \notin ItemsOf(s)) /\ Resolve(new, i) = Resolve(m, i)
  <2>1. Resolve(m, i) \subseteq Upto(i, LsnOf(m.ckpt))
    BY <1>1 DEF ManOk
  <2>2. Upto(i, LsnOf(m.ckpt)) \subseteq Upto(i, LsnOf(new.ckpt))
    <3>1. m.ckpt = 0 \/ TimelineOf(m.ckpt) = 1
      BY <1>1 DEF ManOk
    <3>2. LsnOf(m.ckpt) \in Nat /\ LsnOf(new.ckpt) \in Nat /\ LsnOf(m.ckpt) <= LsnOf(new.ckpt)
      BY <1>2, <1>4, <1>7, <3>1, LaterLsn
    <3> QED
      BY <3>2, RecordsIn
  <2>3. ASSUME NEW s \in Ever, i \in ItemsOf(s), s.ckpt <= new.ckpt PROVE Val(s, i) \subseteq Resolve(m, i)
    <3>1. s.ckpt <= Newest(S).ckpt /\ Full(s)
      BY <1>2, <1>7, <2>3, FirstIs DEF Full
    <3>2. s.ckpt <= m.ckpt
      BY <1>9, <2>3, <3>1, FoldsAll
    <3> QED
      BY <1>1, <2>3, <3>2 DEF ManOk
  <2>4. ASSUME NEW s \in Ever, i \in ItemsOf(s), ~(s.ckpt <= new.ckpt) PROVE Resolve(m, i) \subseteq Val(s, i)
    <3>1. ~(s.ckpt <= m.ckpt)
      BY <1>2, <1>7, <2>4, FirstIs
    <3> QED
      BY <1>1, <2>4, <3>1 DEF ManOk
  <2> QED
    BY <1>5, <1>9, <2>1, <2>2, <2>3, <2>4 DEF ManOk
<1> QED
  BY <1>8, <1>9, FoldedVal

LEMMA ManOkStays ==
  ASSUME Step, NEW i \in Items \ spoiled', ItemInv(i), NEW m \in Manifests
  PROVE  ManOk(m, i)'
<1>0. Ctx /\ i \in Items \ spoiled /\ ManOk(m, i) /\ PendVal(i)
  BY StillClean DEF Step, ItemInv, ManVal
<1>1. Resolve(m, i)' = Resolve(m, i)
  BY <1>0, ResolveStays
<1>2. m.ckpt \in Ckpts /\ m.ckpt <= NextHead
  <2>1. m \in ManSet
    BY <1>0 DEF Ctx, TInv, Shape, StoreShape, LocalShape, MemShape, CompSet, RecSet, Manifests, Fns, Range
  <2> QED
    BY <1>0, <2>1 DEF ManSet, Ctx, StoreInv, Order
<1>3. Resolve(m, i)' \subseteq Upto(i, LsnOf(m.ckpt))'
  <2>1. PICK l : l = LsnOf(m.ckpt)
    OBVIOUS
  <2>2. l \in Nat
    BY <1>2, <2>1, CkptBound
  <2>3. Upto(i, l) \subseteq Upto(i, l)'
    BY <2>2, UptoStays
  <2> QED
    BY <1>0, <1>1, <2>1, <2>3 DEF ManOk, Upto, Records
<1>4. ASSUME NEW s \in Ever, i \in ItemsOf(s)
      PROVE  IF s.ckpt <= m.ckpt THEN Val(s, i)' \subseteq Resolve(m, i)' ELSE Resolve(m, i)' \subseteq Val(s, i)'
  <2>1. Val(s, i)' = Val(s, i)
    BY <1>0, <1>4, ValStays
  <2> QED
    BY <1>0, <1>1, <1>4, <2>1 DEF ManOk
<1>5. CASE ~Commit
  <2>1. Ever' \subseteq Ever
    BY <1>5, HeadStep
  <2> QED
    BY <1>0, <1>3, <1>4, <2>1 DEF ManOk, ItemsOf
<1>6. CASE Commit
  <2>1. PICK s : HeadMoves(s)
    BY <1>6, HeadStep
  <2>2. Ever' = Ever \cup {s} /\ NextHead < s.ckpt /\ s.ckpt \in Ckpts
    BY <2>1 DEF HeadMoves, Committed
  <2>3. ~(s.ckpt <= m.ckpt)
    BY <1>0, <1>2, <2>2, HeadIsNow, CkptsNat
  <2>4. i \in ItemsOf(s) => Resolve(m, i)' \subseteq Val(s, i)'
    <3>1. i \in ItemsOf(s) => i \in Pending /\ Val(s, i)' = Pend(i)
      BY <1>0, <2>1, CommitVal
    <3>2. i \in Pending => Resolve(m, i) \subseteq Pend(i)
      BY <1>0, PendHas
    <3> QED
      BY <1>1, <3>1, <3>2
  <2> QED
    BY <1>0, <1>3, <1>4, <2>2, <2>3, <2>4 DEF ManOk, ItemsOf
<1> QED
  BY <1>5, <1>6

EmptyFine == \A i \in Items : ManOk(Empty, i)

LEMMA EmptyIsFine == Ctx => EmptyFine
  BY EmptyOk DEF EmptyFine
LEMMA EmptyIsFineNext == Ctx' => EmptyFine'
  BY EmptyIsFine, PTL

LEMMA NextCtx == Step => Ctx'
  BY NextStore DEF Step, Ctx

LEMMA NextManVal ==
  ASSUME Step, NEW i \in Items \ spoiled', ItemInv(i)
  PROVE  ManVal(i)'
<1>0. Ctx /\ TInv /\ [Next]_vars /\ i \in Items /\ SegVal(i) /\ ManVal(i)
  BY StepIsNext DEF Step, Ctx, ItemInv
<1>1. \A m \in Manifests : ManOk(m, i)'
  BY ManOkStays
<1>2. ManOk(Empty, i)'
  BY <1>0, NextCtx, EmptyIsFineNext DEF EmptyFine
<1>3. CASE Manifests' \subseteq Manifests \cup {Empty}
  BY <1>1, <1>2, <1>3 DEF ManVal
<1>4. ASSUME NEW m, NEW S, NEW new, NEW key, Folds(m, S, new, key), FoldsWhich(S, new, key), Manifests' \subseteq Manifests \cup {new}
      PROVE  ManVal(i)'
  <2>1. ManOk(new, i)
    BY <1>0, <1>4, FoldedOk
  <2>2. UNCHANGED <<objs, segs, gone, wal, line>>
    BY <1>4 DEF Folds
  <2>3. ManOk(new, i)'
    BY <2>1, <2>2 DEF ManOk, Ever, Val, Resolve, Upto, Records, ItemsOf
  <2> QED
    BY <1>1, <1>4, <2>3 DEF ManVal
<1> QED
  BY <1>0, <1>3, <1>4, StepManifests

\* What checkpoints cover stays covered, ...
LEMMA CoveredStays ==
  ASSUME Step, ~Start, NEW i \in Items \ spoiled, NEW c, NEW l \in Nat, l <= Lsn, Covered(i, c, l)
  PROVE  Covered(i, c, l)'
<1>1. Upto(i, l)' = Upto(i, l)
  BY UptoStays
<1>2. Ever \subseteq Ever'
  <2>1. CASE Commit
    BY <2>1, HeadStep DEF HeadMoves
  <2> QED
    BY <2>1, HeadStep
<1>3. ASSUME NEW r \in Upto(i, l)' PROVE \E s \in Ever' : i \in ItemsOf(s) /\ s.ckpt <= c /\ r \in Val(s, i)'
  <2>1. PICK s \in Ever : i \in ItemsOf(s) /\ s.ckpt <= c /\ r \in Val(s, i)
    BY <1>1, <1>3 DEF Covered
  <2> QED
    BY <1>2, <2>1, ValStays
<1> QED
  BY <1>3 DEF Covered, ItemsOf

\* ... and at a restart what is covered up to the control file's checkpoint.
LEMMA CoveredStart ==
  ASSUME Step, Start, NEW i \in Items \ spoiled', NEW c \in Nat, c <= pgdata.ckpt, NEW l \in Nat, Covered(i, c, l)
  PROVE  Covered(i, c, l)'
<1>0. Ctx /\ i \in Items \ spoiled
  BY StillClean DEF Step
<1>1. /\ UNCHANGED <<wal, line, segs>> /\ i \notin Missed
      /\ gone' = {s \in gone : s.ckpt <= InitialManifest.ckpt} /\ InitialManifest.ckpt \in Nat
  BY <1>0, StartIs, InitialShape, CkptsNat DEF Ctx, TInv
<1>2. Upto(i, l)' = Upto(i, l)
  BY <1>1, RecordsStay
<1>3. ASSUME NEW s \in Ever, i \in ItemsOf(s), s.ckpt <= c PROVE s \in Ever'
  <2>1. s.ckpt \in Nat /\ s.db = db /\ pgdata.ckpt \in Nat
    BY <1>0, FirstIs
  <2>2. s \in gone => ~(InitialManifest.ckpt < s.ckpt /\ s.ckpt <= pgdata.ckpt)
    BY <1>1, <1>3, <2>1 DEF Missed
  <2> QED
    BY <1>1, <1>3, <2>1, <2>2 DEF Ever
<1>4. ASSUME NEW r \in Upto(i, l)' PROVE \E s \in Ever' : i \in ItemsOf(s) /\ s.ckpt <= c /\ r \in Val(s, i)'
  <2>1. PICK s \in Ever : i \in ItemsOf(s) /\ s.ckpt <= c /\ r \in Val(s, i)
    BY <1>2, <1>4 DEF Covered
  <2> QED
    BY <1>0, <1>3, <2>1, ValStays
<1> QED
  BY <1>4 DEF Covered, ItemsOf

\* Redo positions are within the timeline.
LEMMA RedoIs ==
  ASSUME Ctx
  PROVE  /\ pgdata.redo \in Nat /\ pgdata.redo <= Lsn
         /\ ck.redo \in Nat /\ (ck.pc # "idle" => ck.redo <= Lsn /\ pgdata.redo <= ck.redo /\ pg = "up")
         /\ \A b \in backups : b.redo \in Nat /\ b.redo <= Lsn /\ b.ckpt \in Nat /\ b.ckpt <= pgdata.ckpt
<1>1. pgdata \in Dirs /\ LsnOf(pgdata.ckpt) \in Nat
  BY FirstIs, CkptBound DEF Dirs
<1>2. pgdata.redo < LsnOf(pgdata.ckpt) /\ LsnOf(pgdata.ckpt) <= ends[One]
  BY <1>1, FirstIs DEF Ctx, TInv, PosInv, DirPos, One
<1>3. pgdata.redo \in Nat /\ pgdata.redo <= Lsn
  BY <1>1, <1>2, FirstIs
<1>4. ck.redo \in Nat /\ (ck.pc # "idle" => ck.redo <= Lsn /\ pgdata.redo <= ck.redo /\ pg = "up")
  BY Bounds, NoCkShape DEF Ctx, TInv, Shape, MemShape, CkSet, PosInv, CkPos, Phase
<1>5. ASSUME NEW b \in backups PROVE b.redo \in Nat /\ b.redo <= Lsn /\ b.ckpt \in Nat /\ b.ckpt <= pgdata.ckpt
  <2>1. b.ckpt \in Ckpts /\ LsnOf(b.ckpt) \in 1..Lsn
    BY BackupsIn
  <2>2. b.redo < LsnOf(b.ckpt) /\ b.redo \in Nat
    BY Bounds DEF Ctx, TInv, PosInv, BkPos, Shape, StoreShape, BkSet
  <2>3. b.redo <= Lsn
    BY <2>1, <2>2, FirstIs
  <2> QED
    BY <2>1, <2>2, <2>3, CkptsNat DEF Ctx, StoreInv, Tails
<1> QED
  BY <1>3, <1>4, <1>5

LEMMA NextDirVal ==
  ASSUME Step, NEW i \in Items \ spoiled', ItemInv(i)
  PROVE  DirVal(i)'
<1>0. /\ Ctx /\ i \in Items \ spoiled /\ DirVal(i) /\ PendVal(i) /\ UpVal(i) /\ pgdata.ckpt \in Nat /\ Lsn \in Nat
      /\ pgdata.redo \in Nat /\ pgdata.redo <= Lsn
  BY StillClean, RedoIs, FirstIs DEF Step, ItemInv
<1>1. ASSUME NEW c \in Nat, NEW l \in Nat, c <= pgdata.ckpt, l <= Lsn, Covered(i, c, l) PROVE Covered(i, c, l)'
  BY <1>0, <1>1, CoveredStays, CoveredStart
<1>2. ASSUME NEW c, NEW l, c = pgdata.ckpt, l = pgdata.redo PROVE Covered(i, c, l)'
  <2>1. Covered(i, c, l)
    BY <1>0, <1>2 DEF DirVal
  <2>2. c \in Nat /\ l \in Nat /\ c <= pgdata.ckpt /\ l <= Lsn
    BY <1>0, <1>2
  <2> QED
    BY <1>1, <2>1, <2>2
<1>3. ASSUME NEW b \in backups PROVE Covered(i, b.ckpt, b.redo)'
  <2>1. Covered(i, b.ckpt, b.redo)
    BY <1>0 DEF DirVal
  <2>2. PICK c, l : c = b.ckpt /\ l = b.redo
    OBVIOUS
  <2>3. c \in Nat /\ l \in Nat /\ c <= pgdata.ckpt /\ l <= Lsn
    BY <1>0, <2>2, RedoIs
  <2>4. Covered(i, c, l)'
    BY <1>1, <2>1, <2>2, <2>3
  <2> QED
    BY <2>2, <2>4
<1>4. CASE UNCHANGED <<pgdata, backups>>
  <2>1. Covered(i, pgdata.ckpt, pgdata.redo)'
    <3>1. PICK c, l : c = pgdata.ckpt /\ l = pgdata.redo
      OBVIOUS
    <3>2. Covered(i, c, l)'
      BY <1>2, <3>1
    <3> QED
      BY <1>4, <3>1, <3>2
  <2>2. \A b \in backups' : Covered(i, b.ckpt, b.redo)'
    BY <1>3, <1>4
  <2>3. ASSUME NEW s \in Ever', i \in ItemsOf(s), s.ckpt > pgdata.ckpt PROVE Touched(i, pgdata.redo)'
    <3>1. PICK l : l = pgdata.redo
      OBVIOUS
    <3>2. Touched(i, l)
      <4>1. CASE s \in Ever
        BY <1>0, <2>3, <3>1, <4>1 DEF DirVal
      <4>2. CASE s \notin Ever
        <5>1. Commit /\ \E r : HeadMoves(r)
          BY <4>2, HeadStep
        <5>2. PICK r : HeadMoves(r)
          BY <5>1
        <5>3. s = r
          BY <4>2, <5>2 DEF HeadMoves
        <5>4. i \in Pending
          BY <1>0, <2>3, <5>2, <5>3, CommitVal
        <5>5. Touched(i, KeptRedo)
          BY <1>0, <5>4, PendHas
        <5>6. ck.pc = "flushed"
          BY <5>2 DEF HeadMoves, Committed
        <5> QED
          BY <3>1, <5>5, <5>6 DEF KeptRedo
      <4> QED
        BY <4>1, <4>2
    <3>3. Touched(i, l)'
      BY <3>2, UptoStays
    <3> QED
      BY <1>4, <3>1, <3>3
  <2> QED
    BY <1>4, <2>1, <2>2, <2>3 DEF DirVal, ItemsOf
<1>5. CASE /\ CheckpointEnd /\ ck.pc = "end" /\ pgdata'.ckpt = ck.ckpt /\ pgdata'.redo = ck.redo
           /\ UNCHANGED <<bases, segs, gone, objs, wal, line, ends, spoiled, tikm, comp, spill>>
           /\ \/ backups' = backups
              \/ ck.kind = "backup" /\ backups' = backups \cup {[db |-> db, ckpt |-> ck.ckpt, redo |-> ck.redo]}
  <2>1. PICK c, l : c = ck.ckpt /\ l = ck.redo
    OBVIOUS
  <2>2. pg = "up" /\ c = NextHead
    BY <1>0, <1>5, <2>1, RedoIs DEF Ctx, StoreInv, Order
  <2>3. Covered(i, c, l)
    BY <1>0, <1>5, <2>1, <2>2 DEF UpVal, EndIs
  <2>4. Covered(i, c, l)'
    BY <1>5, <2>3 DEF Covered, Upto, Records, Ever, Val, ItemsOf
  <2>5. \A b \in backups' : Covered(i, b.ckpt, b.redo)'
    BY <1>3, <1>5, <2>1, <2>4
  <2>6. \A s \in Ever' : ~(s.ckpt > c)
    <3>1. Ever' = Ever
      BY <1>5 DEF Ever
    <3>2. \A s \in Ever : s.ckpt <= c /\ s.ckpt \in Nat /\ c \in Nat
      BY <1>0, <2>2, FirstIs, HeadIsNow DEF Ctx, StoreInv, Order
    <3> QED
      BY <3>1, <3>2
  <2>7. Covered(i, pgdata.ckpt, pgdata.redo)'
    BY <1>5, <2>1, <2>4
  <2>8. \A s \in Ever' : ~(s.ckpt > pgdata'.ckpt)
    BY <1>5, <2>1, <2>6
  <2> QED
    BY <2>5, <2>7, <2>8 DEF DirVal
<1> QED
  BY <1>4, <1>5, BackupStep

-----------------------------------------------------------------------------
(* What a lookup finds *)

\* The newest checkpoint that has an item, or the base manifest when no later one has it.
Finds(i) ==
  /\ \A s \in Ever : i \in ItemsOf(s) => Val(s, i) \subseteq Lookup(i)
  /\ Lookup(i) \subseteq Upto(i, Lsn)

\* Nothing of the item waits to be committed.
Settled(i) ==
  /\ i \notin DOMAIN shm.draft
  /\ ~(shm.spilled /\ (HeadObj(i) \/ i \in DOMAIN spill))

Readable(i) == pg = "up" /\ ManifestsAt(shm.base) # {} /\ Settled(i) /\ SegVal(i) /\ ManVal(i) /\ WindowOk(i)

\* A checkpoint that is at or after the oldest in the window is in it.
LEMMA InWindowOf ==
  ASSUME Ctx, pg = "up", NEW a \in shm.active, NEW s \in segs, a.ckpt <= s.ckpt
  PROVE  s \in shm.active
<1>1. a \in Ever /\ s \in Ever /\ a \in AllSegs /\ s \in AllSegs
  BY FirstIs DEF Ctx, StoreInv, Base, Ever
<1>2. a.ckpt \in Nat /\ s.ckpt \in Nat /\ a.db = s.db
  BY <1>1, FirstIs
<1>3. CASE a.ckpt = s.ckpt
  BY <1>1, <1>2, <1>3 DEF Ctx, TInv, PosInv, SegPos
<1>4. CASE s.ckpt > a.ckpt
  BY <1>4 DEF Ctx, StoreInv, Base
<1> QED
  BY <1>2, <1>3, <1>4

\* What the base manifest says, when no later checkpoint in a segment has the item.
LEMMA BaseFinds ==
  ASSUME Ctx, NEW i \in Items \ spoiled, Readable(i),
         \A s \in segs : i \in ItemsOf(s) => s.ckpt <= shm.base,
         Lookup(i) = UNION {Resolve(m, i) : m \in ManifestsAt(shm.base)}
  PROVE  Finds(i)
<1>1. ReadShape /\ shm.base \in Ckpts /\ pg = "up" /\ TInv
  BY ShapeReads DEF Ctx, TInv, Shape, MemShape, ShmSet, Readable
<1>2. PICK m : m \in ManifestsAt(shm.base)
  BY DEF Readable
<1>3. \A n \in ManifestsAt(shm.base) : n = m
  BY <1>1, <1>2, ManifestsShape
<1>4. Lookup(i) = Resolve(m, i)
  BY <1>2, <1>3
<1>5. ManOk(m, i)
  <2>1. m \in Manifests \cup {Empty}
    BY <1>1, <1>2, LoadedIs
  <2> QED
    BY <2>1, EmptyOk DEF Readable, ManVal
<1>6. ASSUME NEW s \in Ever, i \in ItemsOf(s) PROVE Val(s, i) \subseteq Lookup(i)
  <2>1. Full(s) /\ s.ckpt <= shm.base
    BY <1>1, <1>6 DEF Ctx, StoreInv, Base, Ever, Full
  <2>2. s.ckpt <= m.ckpt
    BY <1>2, <2>1, BaseHas
  <2> QED
    BY <1>4, <1>5, <1>6, <2>2 DEF ManOk
<1>7. Lookup(i) \subseteq Upto(i, Lsn)
  <2>1. m.ckpt \in Ckpts
    BY <1>1, <1>2, LoadedIs
  <2>2. LsnOf(m.ckpt) \in Nat
    BY <2>1, CkptBound
  <2> QED
    BY <1>4, <1>5, <2>2, RecordsIn DEF ManOk
<1> QED
  BY <1>6, <1>7 DEF Finds

\* What a checkpoint has, when no other one has a later version.
LEMMA NewestFinds ==
  ASSUME Ctx, NEW i \in Items \ spoiled, SegVal(i), NEW n \in Ever, i \in ItemsOf(n), Lookup(i) = Val(n, i),
         \A s \in Ever : i \in ItemsOf(s) => s.ckpt <= n.ckpt
  PROVE  Finds(i)
<1>1. LsnOf(n.ckpt) \in Nat
  BY FirstIs
<1>2. Upto(i, LsnOf(n.ckpt)) \subseteq Upto(i, Lsn)
  BY <1>1, RecordsIn
<1> QED
  BY <1>2 DEF Finds, SegVal

LEMMA GoneBelow ==
  ASSUME Ctx, pg = "up", NEW s \in Ever, Full(s)
  PROVE  s \in segs \/ s.ckpt <= shm.base
  BY DEF Ctx, StoreInv, Base, Ever

LEMMA ChunkFinds ==
  ASSUME Ctx, NEW i \in Items \ spoiled, i \in Chunks, Readable(i)
  PROVE  Finds(i)
<1> DEFINE top    == IF shm.active = {} THEN shm.head ELSE Min({s.ckpt : s \in shm.active})
           active == Holding(i, shm.active)
           below  == Holding(i, {s \in SegsHere : shm.base <= s.ckpt /\ s.ckpt < top})
<1>0. /\ db = 0 /\ SegsHere = segs /\ pg = "up" /\ shm.head = NextHead /\ shm.active \subseteq Ever /\ shm.active # {}
      /\ shm.base \in Nat /\ SegVal(i) /\ WindowOk(i) /\ i \notin DOMAIN shm.draft /\ ~(shm.spilled /\ HeadObj(i))
  BY FirstIs, CkptsNat DEF Ctx, StoreInv, Base, Order, TInv, Shape, MemShape, ShmSet, Readable, Settled
<1>1. Lookup(i) = IF active # {} THEN objs[i][<<db, Newest(active).prev>>]
                  ELSE IF below # {} THEN objs[i][<<db, Newest(below).prev>>]
                  ELSE UNION {Resolve(m, i) : m \in ManifestsAt(shm.base)}
  BY <1>0 DEF Lookup, GetChunk, HeadObj
<1>2. ASSUME NEW s \in Ever PROVE (i \in ItemsOf(s) <=> i \in s.chunks) /\ (i \in s.chunks => <<db, s.prev>> \in DOMAIN objs[i])
  <2>1. s.db = db
    BY <1>0, FirstIs
  <2> QED
    BY <2>1, ItemKinds, SegObj DEF ItemsOf
<1>3. active = {s \in shm.active : i \in ItemsOf(s)}
  BY <1>0, <1>2 DEF Holding
<1>4. below = {s \in segs : shm.base <= s.ckpt /\ s.ckpt < top /\ i \in ItemsOf(s)}
  <2>1. segs \subseteq Ever
    BY DEF Ever
  <2> HIDE DEF top
  <2> QED
    BY <1>0, <1>2, <2>1 DEF Holding
<1>5. \A s \in Ever : s.ckpt \in Nat /\ s.ckpt \in Ckpts /\ s.db = db
  BY <1>0, FirstIs
<1>6. PICK a \in shm.active : top = a.ckpt
  <2>1. {s.ckpt : s \in shm.active} \in SUBSET Nat /\ {s.ckpt : s \in shm.active} # {}
    BY <1>0, <1>5
  <2>2. Min({s.ckpt : s \in shm.active}) \in {s.ckpt : s \in shm.active}
    BY <2>1, LeastNat
  <2> QED
    BY <1>0, <2>2
<1> HIDE DEF top, active, below
<1>7. CASE active # {}
  <2>1. PICK n : n = Newest(active)
    OBVIOUS
  <2>2. n \in active /\ \A s \in active : s.ckpt <= n.ckpt
    <3>1. \A s \in active : s.ckpt \in Ckpts
      BY <1>0, <1>3, <1>5
    <3> QED
      BY <1>7, <2>1, <3>1, NewestIs
  <2>3. n \in shm.active /\ n \in Ever /\ i \in ItemsOf(n)
    BY <1>0, <1>3, <2>2
  <2>4. ASSUME NEW s \in Ever, i \in ItemsOf(s) PROVE s.ckpt <= n.ckpt
    <3>1. CASE s.ckpt > n.ckpt
      <4>1. s \in active
        BY <1>0, <1>3, <2>3, <2>4, <3>1 DEF WindowOk
      <4> QED
        BY <2>2, <4>1
    <3> QED
      BY <1>5, <2>3, <3>1
  <2>5. Lookup(i) = Val(n, i)
    BY <1>1, <1>5, <1>7, <2>1, <2>3 DEF Val
  <2> QED
    BY <1>0, <2>3, <2>4, <2>5, NewestFinds
<1>8. ASSUME active = {}, NEW s \in segs, i \in ItemsOf(s) PROVE s.ckpt < top
  <2>1. s \notin shm.active /\ s \in Ever
    BY <1>3, <1>8 DEF Ever
  <2>2. ~(a.ckpt <= s.ckpt)
    BY <1>0, <2>1, InWindowOf
  <2> QED
    BY <1>0, <1>5, <1>6, <2>1, <2>2
<1>9. CASE active = {} /\ below # {}
  <2>1. PICK n : n = Newest(below)
    OBVIOUS
  <2>2. n \in below /\ \A s \in below : s.ckpt <= n.ckpt
    <3>1. \A s \in below : s.ckpt \in Ckpts
      BY <1>4, <1>5 DEF Ever
    <3> QED
      BY <1>9, <2>1, <3>1, NewestIs
  <2>3. n \in segs /\ n \in Ever /\ i \in ItemsOf(n) /\ shm.base <= n.ckpt
    BY <1>4, <2>2 DEF Ever
  <2>4. ASSUME NEW s \in Ever, i \in ItemsOf(s) PROVE s.ckpt <= n.ckpt
    <3>1. CASE s \in segs
      <4>1. s.ckpt < top
        BY <1>8, <1>9, <2>4, <3>1
      <4>2. CASE shm.base <= s.ckpt
        BY <1>4, <2>2, <2>4, <3>1, <4>1, <4>2
      <4> QED
        BY <1>0, <1>5, <2>3, <4>2
    <3>2. CASE s.ckpt <= shm.base
      BY <1>0, <1>5, <2>3, <3>2
    <3> QED
      BY <1>0, <2>4, <3>1, <3>2, GoneBelow DEF Full
  <2>5. Lookup(i) = Val(n, i)
    BY <1>1, <1>5, <1>9, <2>1, <2>3 DEF Val
  <2> QED
    BY <1>0, <2>3, <2>4, <2>5, NewestFinds
<1>10. CASE active = {} /\ below = {}
  <2>1. \A s \in segs : i \in ItemsOf(s) => ~(shm.base <= s.ckpt)
    BY <1>4, <1>8, <1>10
  <2>2. \A s \in segs : i \in ItemsOf(s) => s.ckpt <= shm.base
    BY <1>0, <1>5, <2>1 DEF Ever
  <2>3. Lookup(i) = UNION {Resolve(m, i) : m \in ManifestsAt(shm.base)}
    BY <1>1, <1>10
  <2> QED
    BY <2>2, <2>3, BaseFinds
<1> QED
  BY <1>7, <1>9, <1>10

\* An index that does not list a relation fork of its checkpoint has overflowed.
LEMMA IndexStops ==
  ASSUME NEW s \in SegSet, NEW r \in DOMAIN s.rels
  PROVE  Stops(r, s)
<1> SUFFICES ASSUME r \notin Indexed(s) PROVE Overflowed(s)
  BY DEF Stops
<1> DEFINE D == DOMAIN s.rels
           L == {q \in D : q < r}
<1>1. D \subseteq Relforks /\ D \subseteq Nat /\ IndexCap \in Nat
  BY FnsDef, RecoveryAssumption DEF SegSet
<1>2. IsFiniteSet(D)
  BY <1>1, RecoveryAssumption, FS_Subset DEF Items
<1>3. IsFiniteSet(L) /\ L \subseteq D /\ r \notin L /\ r \in D
  <2>1. L \subseteq D /\ r \notin L /\ r \in D
    BY <1>1
  <2> HIDE DEF D, L
  <2> QED
    BY <1>2, <2>1, FS_Subset
<1>4. ~(Cardinality(L) < IndexCap)
  BY DEF Indexed
<1> HIDE DEF D, L
<1>5. IsFiniteSet(L \cup {r}) /\ Cardinality(L \cup {r}) = Cardinality(L) + 1
  BY <1>3, FS_AddElement
<1>6. Cardinality(L \cup {r}) <= Cardinality(D) /\ Cardinality(D) \in Nat /\ Cardinality(L) \in Nat
  <2>1. L \cup {r} \subseteq D
    BY <1>3
  <2>2. Cardinality(L \cup {r}) <= Cardinality(D)
    BY <1>2, <2>1, FS_Subset
  <2> QED
    BY <1>2, <1>3, <2>2, FS_CardinalityType
<1>7. Cardinality(D) > IndexCap
  BY <1>1, <1>4, <1>5, <1>6
<1> QED
  BY <1>7 DEF Overflowed, D

LEMMA MetaFinds ==
  ASSUME Ctx, NEW i \in Items \ spoiled, i \notin Chunks, Readable(i)
  PROVE  Finds(i)
<1> DEFINE stops == {s \in shm.active : Stops(i, s)}
           top   == IF stops # {} THEN Newest(stops).ckpt
                    ELSE IF shm.active # {} THEN Min({s.ckpt : s \in shm.active})
                    ELSE shm.head
           below == {s \in SegsHere : /\ shm.base <= s.ckpt /\ s.ckpt <= top
                                      /\ i \in DOMAIN s.rels}
<1>0. /\ db = 0 /\ SegsHere = segs /\ pg = "up" /\ shm.active \subseteq Ever /\ shm.active # {}
      /\ shm.base \in Nat /\ SegVal(i) /\ WindowOk(i) /\ i \notin DOMAIN shm.draft /\ ~(shm.spilled /\ i \in DOMAIN spill)
  BY FirstIs, CkptsNat DEF Ctx, StoreInv, Base, TInv, Shape, MemShape, ShmSet, Readable, Settled
<1>1. Lookup(i) = IF stops # {} /\ i \in Indexed(Newest(stops)) THEN Newest(stops).rels[i]
                  ELSE IF below # {} THEN Newest(below).rels[i]
                  ELSE UNION {Resolve(m, i) : m \in ManifestsAt(shm.base)}
  BY <1>0 DEF Lookup, GetMeta
<1>2. \A s \in Ever : i \in ItemsOf(s) <=> i \in DOMAIN s.rels
  BY ItemKinds DEF ItemsOf
<1>3. \A s \in shm.active : i \in ItemsOf(s) => s \in stops
  <2>1. \A s \in shm.active : s \in SegSet
    BY <1>0, FirstIs
  <2> QED
    BY <1>0, <1>2, <2>1, IndexStops
<1>4. \A s \in Ever : s.ckpt \in Nat /\ s.ckpt \in Ckpts
  BY FirstIs
<1>5. stops # {} => Newest(stops) \in stops /\ \A s \in stops : s.ckpt <= Newest(stops).ckpt
  <2>1. \A s \in stops : s.ckpt \in Ckpts
    BY <1>0, <1>4
  <2> HIDE DEF stops
  <2> QED
    BY <2>1, NewestIs
<1>6. PICK a \in shm.active : top = a.ckpt
  <2>1. {s.ckpt : s \in shm.active} \in SUBSET Nat /\ {s.ckpt : s \in shm.active} # {}
    BY <1>0, <1>4
  <2>2. Min({s.ckpt : s \in shm.active}) \in {s.ckpt : s \in shm.active}
    BY <2>1, LeastNat
  <2>3. CASE stops # {}
    BY <1>5, <2>3
  <2>4. CASE stops = {}
    BY <1>0, <2>2, <2>4
  <2> QED
    BY <2>3, <2>4
<1>7. ASSUME NEW s \in segs, i \in ItemsOf(s) PROVE s.ckpt <= top
  <2>1. s \in Ever /\ s.ckpt \in Nat /\ a.ckpt \in Nat
    BY <1>0, <1>4 DEF Ever
  <2>2. CASE s.ckpt > top
    <3>1. a.ckpt <= s.ckpt
      BY <1>6, <2>1, <2>2
    <3>2. s \in shm.active
      BY <1>0, <3>1, InWindowOf
    <3>3. s \in stops
      BY <1>3, <1>7, <3>2
    <3> QED
      BY <1>5, <3>3
  <2> QED
    BY <1>6, <2>1, <2>2
<1>8. top \in Nat
  BY <1>0, <1>4, <1>6
<1>9. below = {s \in segs : shm.base <= s.ckpt /\ s.ckpt <= top /\ i \in ItemsOf(s)}
  <2>1. segs \subseteq Ever
    BY DEF Ever
  <2> HIDE DEF top
  <2> QED
    BY <1>0, <1>2, <2>1
<1> HIDE DEF top, below
<1>10. CASE stops # {} /\ i \in Indexed(Newest(stops))
  <2>1. PICK n : n = Newest(stops)
    OBVIOUS
  <2>2. n \in shm.active /\ n \in Ever /\ (\A s \in stops : s.ckpt <= n.ckpt)
    BY <1>0, <1>5, <1>10, <2>1
  <2>3. i \in ItemsOf(n)
    BY <1>10, <2>1 DEF Indexed, ItemsOf
  <2>4. ASSUME NEW s \in Ever, i \in ItemsOf(s) PROVE s.ckpt <= n.ckpt
    <3>1. CASE s.ckpt > n.ckpt
      <4>1. s \in shm.active
        BY <1>0, <2>2, <2>3, <2>4, <3>1 DEF WindowOk
      <4> QED
        BY <1>3, <2>2, <2>4, <4>1
    <3> QED
      BY <1>4, <2>2, <3>1
  <2>5. Lookup(i) = Val(n, i)
    BY <1>1, <1>10, <2>1 DEF Val
  <2> QED
    BY <1>0, <2>2, <2>3, <2>4, <2>5, NewestFinds
<1> HIDE DEF stops
<1>11. CASE ~(stops # {} /\ i \in Indexed(Newest(stops))) /\ below # {}
  <2>1. PICK n : n = Newest(below)
    OBVIOUS
  <2>2. n \in below /\ \A s \in below : s.ckpt <= n.ckpt
    <3>1. \A s \in below : s.ckpt \in Ckpts
      BY <1>4, <1>9 DEF Ever
    <3> QED
      BY <1>11, <2>1, <3>1, NewestIs
  <2>3. n \in segs /\ n \in Ever /\ i \in ItemsOf(n) /\ shm.base <= n.ckpt
    BY <1>9, <2>2 DEF Ever
  <2>4. ASSUME NEW s \in Ever, i \in ItemsOf(s) PROVE s.ckpt <= n.ckpt
    <3>1. CASE s \in segs
      <4>1. s.ckpt <= top
        BY <1>7, <2>4, <3>1
      <4>2. CASE shm.base <= s.ckpt
        BY <1>9, <2>2, <2>4, <3>1, <4>1, <4>2
      <4> QED
        BY <1>0, <1>4, <2>3, <4>2
    <3>2. CASE s.ckpt <= shm.base
      BY <1>0, <1>4, <2>3, <3>2
    <3> QED
      BY <1>0, <2>4, <3>1, <3>2, GoneBelow DEF Full
  <2>5. Lookup(i) = Val(n, i)
    BY <1>1, <1>11, <2>1 DEF Val
  <2> QED
    BY <1>0, <2>3, <2>4, <2>5, NewestFinds
<1>12. CASE ~(stops # {} /\ i \in Indexed(Newest(stops))) /\ below = {}
  <2>1. \A s \in segs : i \in ItemsOf(s) => ~(shm.base <= s.ckpt)
    BY <1>7, <1>9, <1>12
  <2>2. \A s \in segs : i \in ItemsOf(s) => s.ckpt <= shm.base
    BY <1>0, <1>4, <2>1 DEF Ever
  <2>3. Lookup(i) = UNION {Resolve(m, i) : m \in ManifestsAt(shm.base)}
    BY <1>1, <1>12
  <2> QED
    BY <2>2, <2>3, BaseFinds
<1> QED
  BY <1>10, <1>11, <1>12

AllFind == \A i \in Items \ spoiled : Readable(i) => Finds(i)

LEMMA LookupsFind == Ctx => AllFind
  BY ChunkFinds, MetaFinds DEF AllFind
LEMMA LookupsFindNext == Ctx' => AllFind'
  BY LookupsFind, PTL

\* A lookup finds what waits to be committed.
LEMMA PendFinds ==
  ASSUME Ctx, NEW i \in Items \ spoiled, i \in Pending, i \in DOMAIN shm.draft \/ shm.spilled, pg = "up"
  PROVE  Lookup(i) = Pend(i)
<1>0. db = 0 /\ shm.head = NextHead /\ SpillLive
  BY FirstIs DEF Ctx, StoreInv, Order
<1>1. CASE i \in Chunks
  <2>1. <<0, NextHead>> \in DOMAIN objs[i]
    BY <1>0, <1>1 DEF Ctx, RefInv, DraftRefs, SpillRefs, Found, Pending
  <2> QED
    BY <1>0, <1>1, <2>1 DEF Lookup, GetChunk, Pend, Held
<1>2. CASE i \notin Chunks
  BY <1>2 DEF Lookup, GetMeta, Pend, Held, Pending
<1> QED
  BY <1>1, <1>2

\* What is not in the caches is found, exactly.
LEMMA ReadsLatest ==
  ASSUME Ctx, NEW i \in Items \ spoiled, ItemInv(i), pg = "up", i \notin DOMAIN cache, ManifestsAt(shm.base) # {}
  PROVE  Lookup(i) = Upto(i, Lsn)
<1>0. SegVal(i) /\ ManVal(i) /\ HeadHeld(i) /\ PendIs(i) /\ CleanIs(i) /\ WindowOk(i)
  BY DEF ItemInv, UpVal
<1>1. CASE i \in Pending
  <2>1. (i \in DOMAIN shm.draft \/ shm.spilled) /\ Pend(i) = Upto(i, Lsn)
    BY <1>0, <1>1 DEF PendIs
  <2> QED
    BY <1>1, <2>1, PendFinds
<1>2. CASE i \notin Pending
  <2>1. Settled(i)
    BY <1>0, <1>2 DEF Settled, HeadHeld, Pending
  <2>2. Finds(i)
    BY <1>0, <2>1, LookupsFind DEF Readable, AllFind
  <2>3. Covered(i, NextHead, Lsn)
    BY <1>0, <1>2 DEF CleanIs
  <2> QED
    BY <2>2, <2>3 DEF Finds, Covered
<1> QED
  BY <1>1, <1>2

-----------------------------------------------------------------------------
(* What is not yet committed, step by step *)

\* The caches, the draft and its spill file are changed by a write, a write-back, a spill,
\* a commit, a stop and a start.
Rests ==
  /\ pg' = pg /\ UNCHANGED <<cache, objs, spill, wal, line, ends>>
  /\ shm'.draft = shm.draft /\ shm'.spilled = shm.spilled
  /\ \/ ck'.pc = ck.pc /\ ck'.redo = ck.redo /\ pgdata' = pgdata
     \/ ck.pc = "compact" /\ ck'.pc = "end" /\ ck'.redo = ck.redo /\ pgdata' = pgdata
     \/ ck.pc = "end" /\ ck'.pc = "idle" /\ pgdata'.redo = ck.redo
WritesBack(I) ==
  /\ WriteBack(I) /\ I \in SUBSET DOMAIN cache /\ pg = "up" /\ pg' = pg /\ UNCHANGED <<spill, wal, line, ends, pgdata>>
  /\ \/ ck' = ck
     \/ ck.pc = "idle" /\ ck'.pc = "flushed" /\ ck'.redo = Lsn /\ I = DOMAIN cache
Halts == pg' = "down" /\ DOMAIN shm'.draft = {} /\ UNCHANGED <<objs, spill>>
Spills ==
  /\ pg = "up" /\ pg' = pg /\ UNCHANGED <<cache, objs, wal, line, ends, ck, pgdata>>
  /\ spill' = Override(shm.draft, spill) /\ DOMAIN shm'.draft = {} /\ shm'.spilled = TRUE

LEMMA StepKinds ==
  ASSUME Step
  PROVE  Start \/ Commit \/ (\E i \in Items : Write(i)) \/ Spills \/ (\E I : WritesBack(I)) \/ Halts \/ Rests
<1>0. /\ Ctx /\ FirstNext /\ shm \in ShmSet /\ ck \in CkSet /\ pg \in {"down", "up"} /\ pgdata \in DirSet
      /\ NoCk.pc = "idle" /\ Fresh.draft = NoItems /\ DOMAIN NoItems = {}
  BY FirstIs, NoCkShape DEF Step, Ctx, TInv, Shape, MemShape, NoItems
<1>1. CASE LoadManifest \/ NoNewSegments
  BY <1>0, <1>1 DEF LoadManifest, NoNewSegments, Rests, pgVars, memory, storage, local, CkSet
<1>2. CASE Spill
  BY <1>0, <1>2 DEF Spill, Spills, pgVars, storage, ShmSet
<1>3. CASE CheckpointEnd
  <2>1. CASE ck.kind = "shutdown"
    BY <1>0, <1>3, <2>1 DEF CheckpointEnd, StopPg, Halts, local
  <2>2. CASE ck.kind # "shutdown"
    BY <1>0, <1>3, <2>2 DEF CheckpointEnd, Rests, local, DirSet
  <2> QED
    BY <2>1, <2>2
<1>4. CASE Crash
  BY <1>0, <1>4 DEF Crash, StopPg, Halts, storage, local
<1>5. CASE \E i \in Items : Evict(i)
  BY <1>0, <1>5 DEF Evict, WritesBack, local, pgVars
<1>6. CASE \E kind \in {"online", "backup", "shutdown"} : CheckpointStart(kind)
  BY <1>0, <1>6 DEF CheckpointStart, WritesBack, local, pgVars
<1>7. CASE Compact
  BY <1>0, <1>7 DEF Compact, CompactPut, CompactPublish, CompactAdvance, CompactDelete, CompactFail, Rests, pgVars, storage, local,
     CkSet, ShmSet, Ctx, TInv, PosInv, CompPhase
<1>8. CASE UNCHANGED vars
  BY <1>8 DEF vars, pgVars, memory, storage, local, Rests
<1> QED
  BY <1>0, <1>1, <1>2, <1>3, <1>4, <1>5, <1>6, <1>7, <1>8 DEF FirstNext

LEMMA WritesBackIs ==
  ASSUME Ctx, NEW I, WritesBack(I)
  PROVE  /\ \A c \in Chunks \cap I : <<0, NextHead>> \in DOMAIN objs'[c] /\ objs'[c][<<0, NextHead>>] = cache[c]
         /\ \A c \in Chunks \ I : objs'[c] = objs[c]
         /\ DOMAIN shm'.draft = DOMAIN shm.draft \cup I
         /\ \A i \in I : i \notin Chunks => shm'.draft[i] = cache[i]
         /\ \A i \in DOMAIN shm.draft \ I : shm'.draft[i] = shm.draft[i]
         /\ shm'.spilled = shm.spilled
         /\ DOMAIN cache' = DOMAIN cache \ I /\ \A i \in DOMAIN cache' : cache'[i] = cache[i]
<1>1. Shape /\ I \in SUBSET DOMAIN cache /\ WriteBack(I)
  BY DEF Ctx, TInv, WritesBack
<1>2. db = 0 /\ shm.head = NextHead
  BY FirstIs DEF WritesBack, Ctx, StoreInv, Order
<1> QED
  BY <1>1, <1>2, WriteBackObjs

LEMMA HeadAfter ==
  ASSUME Step, ~Commit
  PROVE  NextHead' = NextHead
  BY HeadStep

\* Where what waits to be committed comes from.
Source(i, v) == \/ \E g \in {shm.draft, spill} : i \in DOMAIN g /\ v = Held(i, g)
                \/ pg = "up" /\ i \in DOMAIN cache /\ v = cache[i]

LEMMA NextHeld ==
  ASSUME Step, ~Commit, NEW i \in Items
  PROVE  /\ \A f \in {shm'.draft, spill'} : i \in DOMAIN f => \E v : v = Held(i, f)' /\ Source(i, v)
         /\ HeadObj(i)' => HeadObj(i) \/ (pg = "up" /\ i \in DOMAIN cache)
<1>0. Ctx /\ FirstNext /\ NextHead' = NextHead
  BY HeadAfter DEF Step
<1>a. ASSUME objs' = objs, NEW f, i \in DOMAIN f, f \in {shm.draft, spill} PROVE \E v : v = Held(i, f)' /\ Source(i, v)
  <2>1. PICK v : v = Held(i, f)'
    OBVIOUS
  <2>2. v = Held(i, f)
    BY <1>0, <1>a, <2>1 DEF Held
  <2> QED
    BY <1>a, <2>1, <2>2 DEF Source
<1>b. ASSUME objs' = objs, spill' = spill, shm'.draft = shm.draft \/ DOMAIN shm'.draft = {}
      PROVE  /\ \A f \in {shm'.draft, spill'} : i \in DOMAIN f => \E v : v = Held(i, f)' /\ Source(i, v)
             /\ HeadObj(i)' => HeadObj(i)
  <2>1. \A f \in {shm'.draft, spill'} : i \in DOMAIN f => f \in {shm.draft, spill}
    BY <1>b
  <2> QED
    BY <1>0, <1>a, <1>b, <2>1 DEF HeadObj
<1>1. CASE Start
  BY <1>0, <1>1, <1>b, StartIs DEF NoItems
<1>2. CASE \E j \in Items : Write(j)
  BY <1>2, <1>b DEF Write, storage, local
<1>3. CASE Halts
  BY <1>3, <1>b DEF Halts
<1>4. CASE Rests
  BY <1>4, <1>b DEF Rests
<1>5. CASE Spills
  <2>1. objs' = objs /\ DOMAIN shm'.draft = {} /\ spill' = Override(shm.draft, spill)
    BY <1>5 DEF Spills
  <2>2. ASSUME i \in DOMAIN spill' PROVE \E g \in {shm.draft, spill} : i \in DOMAIN g /\ spill'[i] = g[i]
    <3>1. DOMAIN spill' = DOMAIN spill \cup DOMAIN shm.draft
      BY <2>1, OverrideIs
    <3>2. i \in DOMAIN shm.draft => spill'[i] = shm.draft[i]
      BY <2>1 DEF Override
    <3>3. i \in DOMAIN spill \ DOMAIN shm.draft => spill'[i] = spill[i]
      BY <2>1 DEF Override
    <3> QED
      BY <2>2, <3>1, <3>2, <3>3
  <2>3. ASSUME NEW f, f = spill', i \in DOMAIN f PROVE \E v : v = Held(i, f)' /\ Source(i, v)
    <3>1. PICK g \in {shm.draft, spill} : i \in DOMAIN g /\ f[i] = g[i]
      BY <2>2, <2>3
    <3>2. PICK v : v = Held(i, f)'
      OBVIOUS
    <3>3. v = Held(i, g)
      BY <1>0, <2>1, <3>1, <3>2 DEF Held
    <3> QED
      BY <3>1, <3>2, <3>3 DEF Source
  <2> QED
    BY <1>0, <2>1, <2>3 DEF HeadObj
<1>6. ASSUME NEW I, WritesBack(I)
      PROVE  /\ \A f \in {shm'.draft, spill'} : i \in DOMAIN f => \E v : v = Held(i, f)' /\ Source(i, v)
             /\ HeadObj(i)' => HeadObj(i) \/ (pg = "up" /\ i \in DOMAIN cache)
  <2>0. I \subseteq DOMAIN cache /\ pg = "up" /\ spill' = spill
    BY <1>6 DEF WritesBack
  <2>1. /\ \A c \in Chunks \cap I : <<0, NextHead>> \in DOMAIN objs'[c] /\ objs'[c][<<0, NextHead>>] = cache[c]
        /\ \A c \in Chunks \ I : objs'[c] = objs[c]
        /\ DOMAIN shm'.draft = DOMAIN shm.draft \cup I
        /\ \A j \in I : j \notin Chunks => shm'.draft[j] = cache[j]
        /\ \A j \in DOMAIN shm.draft \ I : shm'.draft[j] = shm.draft[j]
    BY <1>0, <1>6, WritesBackIs
  <2>2. ASSUME NEW f \in {shm'.draft, spill'}, i \in DOMAIN f PROVE \E v : v = Held(i, f)' /\ Source(i, v)
    <3>1. PICK v : v = Held(i, f)'
      OBVIOUS
    <3>2. CASE i \in Chunks
      <4>1. v = objs'[i][<<0, NextHead>>]
        BY <1>0, <3>1, <3>2 DEF Held
      <4>2. CASE i \in I
        BY <2>0, <2>1, <3>1, <3>2, <4>1, <4>2 DEF Source
      <4>3. CASE i \notin I
        <5>1. PICK g \in {shm.draft, spill} : i \in DOMAIN g
          BY <2>0, <2>1, <2>2, <4>3
        <5>2. v = Held(i, g)
          BY <2>1, <3>2, <4>1, <4>3 DEF Held
        <5> QED
          BY <3>1, <5>1, <5>2 DEF Source
      <4> QED
        BY <4>2, <4>3
    <3>3. CASE i \notin Chunks
      <4>1. v = f[i]
        BY <3>1, <3>3 DEF Held
      <4>2. CASE f = spill'
        <5>1. i \in DOMAIN spill /\ v = Held(i, spill)
          BY <2>0, <2>2, <3>3, <4>1, <4>2 DEF Held
        <5> QED
          BY <3>1, <5>1 DEF Source
      <4>3. CASE f = shm'.draft /\ i \in I
        BY <2>0, <2>1, <3>1, <3>3, <4>1, <4>3 DEF Source
      <4>4. CASE f = shm'.draft /\ i \notin I
        <5>1. i \in DOMAIN shm.draft /\ v = Held(i, shm.draft)
          BY <2>1, <2>2, <3>3, <4>1, <4>4 DEF Held
        <5> QED
          BY <3>1, <5>1 DEF Source
      <4> QED
        BY <2>2, <4>2, <4>3, <4>4
    <3> QED
      BY <3>2, <3>3
  <2>3. HeadObj(i)' => HeadObj(i) \/ i \in I
    BY <1>0, <2>1 DEF HeadObj
  <2> QED
    BY <2>0, <2>2, <2>3
<1> QED
  BY <1>1, <1>2, <1>3, <1>4, <1>5, <1>6, StepKinds

\* No committed version of an item has more than v.
Behind(i, v) ==
  /\ \A s \in Ever : i \in ItemsOf(s) => Val(s, i) \subseteq v
  /\ \A m \in Manifests : Resolve(m, i) \subseteq v
PendOk(i, v) == Touched(i, KeptRedo) /\ v \subseteq Upto(i, Lsn) /\ Behind(i, v)

LEMMA PendValIs ==
  ASSUME NEW i
  PROVE  PendVal(i) <=> /\ \A f \in {shm.draft, spill} : i \in DOMAIN f => PendOk(i, Held(i, f))
                        /\ HeadObj(i) => Touched(i, KeptRedo)
  BY DEF PendVal, PendOk, Behind

LEMMA ManifestsIn ==
  ASSUME Ctx, NEW m \in Manifests
  PROVE  m \in ManSet /\ m.ckpt \in Ckpts
<1>1. m \in ManSet
  BY DEF Ctx, TInv, Shape, StoreShape, LocalShape, MemShape, CompSet, RecSet, Manifests, Fns, Range
<1> QED
  BY <1>1 DEF ManSet

LEMMA BehindUpto ==
  ASSUME Ctx, NEW i \in Items, SegVal(i), ManVal(i)
  PROVE  Behind(i, Upto(i, Lsn))
<1>1. ASSUME NEW s \in Ever, i \in ItemsOf(s) PROVE Val(s, i) \subseteq Upto(i, Lsn)
  <2>1. LsnOf(s.ckpt) \in Nat
    BY FirstIs
  <2>2. Upto(i, LsnOf(s.ckpt)) \subseteq Upto(i, Lsn)
    BY <2>1, RecordsIn
  <2> QED
    BY <1>1, <2>2 DEF SegVal
<1>2. ASSUME NEW m \in Manifests PROVE Resolve(m, i) \subseteq Upto(i, Lsn)
  <2>1. LsnOf(m.ckpt) \in Nat
    BY ManifestsIn, CkptBound
  <2>2. Upto(i, LsnOf(m.ckpt)) \subseteq Upto(i, Lsn)
    BY <2>1, RecordsIn
  <2> QED
    BY <2>2 DEF ManVal, ManOk
<1> QED
  BY <1>1, <1>2 DEF Behind

LEMMA BehindStays ==
  ASSUME Step, ~Commit, NEW i \in Items \ spoiled', NEW v, Behind(i, v)
  PROVE  Behind(i, v)'
<1>0. Ctx /\ TInv /\ [Next]_vars /\ i \in Items \ spoiled
  BY StillClean, StepIsNext DEF Step, Ctx
<1>1. ASSUME NEW s \in Ever', i \in ItemsOf(s) PROVE Val(s, i)' \subseteq v
  <2>1. s \in Ever
    BY <1>1, HeadStep
  <2> QED
    BY <1>0, <1>1, <2>1, ValStays DEF Behind
<1>2. \A m \in Manifests : Resolve(m, i)' \subseteq v
  BY <1>0, ResolveStays DEF Behind
<1>3. Resolve(Empty, i)' = {}
  <2>1. DOMAIN Empty.refs = {} /\ DOMAIN Empty.rels = {}
    BY DEF Empty, NoItems
  <2> QED
    BY <2>1 DEF Resolve
<1>4. CASE Manifests' \subseteq Manifests \cup {Empty}
  BY <1>1, <1>2, <1>3, <1>4 DEF Behind, ItemsOf
<1>5. ASSUME NEW m, NEW S, NEW new, NEW key, Folds(m, S, new, key), FoldsWhich(S, new, key), Manifests' \subseteq Manifests \cup {new}
      PROVE  Behind(i, v)'
  <2>1. Resolve(new, i) \subseteq v
    <3>1. Resolve(m, i) \subseteq v
      <4>1. m \in Manifests \cup {Empty}
        BY <1>0, <1>5, LoadedIs DEF Folds
      <4> QED
        BY <4>1, EmptyResolves DEF Behind
    <3>2. S \subseteq Ever
      BY <1>0, <1>5, FirstIs DEF Folds, Ever
    <3>3. CASE \E n \in S : i \in ItemsOf(n) /\ Resolve(new, i) = Val(n, i)
      BY <3>2, <3>3 DEF Behind
    <3> QED
      BY <1>0, <1>5, <3>1, <3>3, FoldedVal
  <2>2. objs' = objs
    BY <1>5 DEF Folds
  <2>3. Resolve(new, i)' \subseteq v
    BY <2>1, <2>2 DEF Resolve
  <2> QED
    BY <1>1, <1>2, <1>5, <2>3 DEF Behind, ItemsOf
<1> QED
  BY <1>0, <1>4, <1>5, StepManifests

LEMMA TouchedDown ==
  ASSUME Ctx, NEW i, NEW k \in Nat, NEW l \in Nat, k <= l, Touched(i, l)
  PROVE  Touched(i, k)
<1>1. PICK r \in line[One] : wal[r].item = i /\ wal[r].lsn > l
  BY DEF Touched
<1>2. wal[r].lsn \in Nat
  BY FirstIs, WalIs DEF Ctx, TInv, Shape
<1> QED
  BY <1>1, <1>2 DEF Touched

\* What a crash would replay, it goes on replaying until the next checkpoint is committed.
LEMMA KeptStays ==
  ASSUME Step, ~Commit, NEW i, Touched(i, KeptRedo)
  PROVE  Touched(i, KeptRedo)'
<1>0. Ctx /\ KeptRedo \in Nat /\ pgdata.redo \in Nat /\ pgdata.redo <= KeptRedo
  BY RedoIs DEF Step, KeptRedo
<1>1. PICK k : k = KeptRedo'
  OBVIOUS
<1>2. k \in Nat /\ k <= KeptRedo
  <2>1. CASE ck'.pc \in {"compact", "end"}
    <3>1. ck.pc \in {"compact", "end"} /\ ck'.redo = ck.redo
      BY <2>1, CkStep
    <3>2. k = KeptRedo
      BY <1>1, <2>1, <3>1 DEF KeptRedo
    <3> QED
      BY <1>0, <3>2
  <2>2. CASE ck'.pc \notin {"compact", "end"}
    <3>1. k = pgdata'.redo
      BY <1>1, <2>2 DEF KeptRedo
    <3>2. CASE pgdata' = pgdata
      BY <1>0, <3>1, <3>2
    <3>3. CASE ck.pc = "end" /\ pgdata'.redo = ck.redo
      BY <1>0, <3>1, <3>3 DEF KeptRedo
    <3> QED
      BY <3>2, <3>3, BackupStep
  <2> QED
    BY <2>1, <2>2
<1>3. Touched(i, k)
  BY <1>0, <1>2, TouchedDown
<1>4. Touched(i, k)'
  BY <1>3, UptoStays
<1> QED
  BY <1>1, <1>4 DEF Touched

\* Where what waits to be committed comes from, it was fit to be committed.
LEMMA SourceOk ==
  ASSUME Ctx, NEW i \in Items, ItemInv(i), NEW v, Source(i, v)
  PROVE  PendOk(i, v)
<1>1. CASE \E g \in {shm.draft, spill} : i \in DOMAIN g /\ v = Held(i, g)
  BY <1>1, PendValIs DEF ItemInv
<1>2. CASE pg = "up" /\ i \in DOMAIN cache /\ v = cache[i]
  <2>1. v = Upto(i, Lsn) /\ Touched(i, CacheRedo)
    BY <1>2 DEF ItemInv, UpVal, CacheIs
  <2>2. KeptRedo \in Nat /\ CacheRedo \in Nat /\ KeptRedo <= CacheRedo
    BY RedoIs DEF KeptRedo, CacheRedo
  <2>3. Touched(i, KeptRedo)
    BY <2>1, <2>2, TouchedDown
  <2>4. Behind(i, v)
    BY <2>1, BehindUpto DEF ItemInv
  <2> QED
    BY <2>1, <2>3, <2>4 DEF PendOk
<1> QED
  BY <1>1, <1>2 DEF Source

LEMMA PendOkStays ==
  ASSUME Step, ~Commit, NEW i \in Items \ spoiled', NEW v, PendOk(i, v)
  PROVE  PendOk(i, v)'
<1>1. Touched(i, KeptRedo)'
  BY KeptStays DEF PendOk
<1>2. v \subseteq Upto(i, Lsn)'
  BY LsnStep DEF PendOk
<1>3. Behind(i, v)'
  BY BehindStays DEF PendOk
<1> QED
  BY <1>1, <1>2, <1>3 DEF PendOk

LEMMA NextPendVal ==
  ASSUME Step, NEW i \in Items \ spoiled', ItemInv(i)
  PROVE  PendVal(i)'
<1>0. Ctx /\ i \in Items \ spoiled /\ PendVal(i)
  BY StillClean DEF Step, ItemInv
<1>1. CASE Commit
  <2>1. PICK s : HeadMoves(s)
    BY <1>1, HeadStep
  <2>2. shm'.draft = NoItems /\ spill' = NoItems /\ objs' = objs /\ NextHead' = s.ckpt /\ NextHead < s.ckpt /\ s.ckpt \in Ckpts
    BY <2>1 DEF HeadMoves, Committed
  <2>3. ~HeadObj(i)'
    <3>1. i \in Chunks => \A p \in DOMAIN objs[i] : p[2] <= NextHead
      BY <1>0 DEF Ctx, StoreInv, Order
    <3>2. NextHead \in Nat /\ s.ckpt \in Nat
      BY <1>0, <2>2, HeadIsNow, CkptsNat
    <3>3. i \in Chunks => <<0, s.ckpt>> \notin DOMAIN objs[i]
      BY <2>2, <3>1, <3>2
    <3> QED
      BY <2>2, <3>3 DEF HeadObj
  <2>4. DOMAIN NoItems = {}
    BY DEF NoItems
  <2> QED
    BY <2>2, <2>3, <2>4 DEF PendVal
<1>2. CASE ~Commit
  <2>1. ASSUME NEW f \in {shm'.draft, spill'}, i \in DOMAIN f PROVE PendOk(i, Held(i, f))'
    <3>1. PICK v : v = Held(i, f)' /\ Source(i, v)
      BY <1>0, <1>2, <2>1, NextHeld
    <3>2. PendOk(i, v)
      BY <1>0, <3>1, SourceOk
    <3>3. PendOk(i, v)'
      BY <1>2, <3>2, PendOkStays
    <3> QED
      BY <3>1, <3>3 DEF PendOk, Behind
  <2>2. HeadObj(i)' => Touched(i, KeptRedo)'
    <3>1. HeadObj(i)' => HeadObj(i) \/ (pg = "up" /\ i \in DOMAIN cache)
      BY <1>0, <1>2, NextHeld
    <3>2. HeadObj(i) => Touched(i, KeptRedo)
      BY <1>0 DEF PendVal
    <3>3. pg = "up" /\ i \in DOMAIN cache => Touched(i, KeptRedo)
      BY <1>0, SourceOk DEF Source, PendOk
    <3> QED
      BY <1>2, <3>1, <3>2, <3>3, KeptStays
  <2> QED
    BY <2>1, <2>2 DEF PendVal, PendOk, Behind
<1> QED
  BY <1>1, <1>2

\* A step that neither writes an item nor writes it back, nor commits.
Keeps(i) ==
  /\ (i \in DOMAIN cache' <=> i \in DOMAIN cache)
  /\ i \in DOMAIN cache => cache'[i] = cache[i] /\ CacheRedo' = CacheRedo
  /\ (i \in Pending' <=> i \in Pending) /\ (i \in Pending => Pend(i)' = Pend(i))
  /\ Upto(i, Lsn)' = Upto(i, Lsn)
  /\ \/ ~(i \in DOMAIN shm.draft \/ (shm.spilled /\ i \in DOMAIN spill))
     \/ i \in DOMAIN shm'.draft \/ (shm'.spilled /\ i \in DOMAIN spill')
  /\ HeadObj(i)' => HeadObj(i)
  /\ ck'.pc = "flushed" => (ck.pc = "flushed" /\ ck'.redo = ck.redo) \/ (ck'.redo = Lsn /\ DOMAIN cache' = {})

LEMMA PendSame ==
  ASSUME NextHead' = NextHead, UNCHANGED <<objs, spill>>, shm'.draft = shm.draft, NEW i
  PROVE  (i \in Pending' <=> i \in Pending) /\ Pend(i)' = Pend(i) /\ (HeadObj(i)' <=> HeadObj(i))
  BY DEF Pending, Pend, Held, HeadObj

LEMMA PendSpills ==
  ASSUME NextHead' = NextHead, Spills, NEW i
  PROVE  /\ (i \in Pending' <=> i \in Pending) /\ (i \in Pending => Pend(i)' = Pend(i) /\ i \in DOMAIN spill')
         /\ (HeadObj(i)' <=> HeadObj(i))
<1>1. objs' = objs /\ DOMAIN shm'.draft = {} /\ spill' = Override(shm.draft, spill)
  BY DEF Spills
<1>2. DOMAIN spill' = DOMAIN spill \cup DOMAIN shm.draft
  BY <1>1 DEF Override
<1>3. i \in Pending => spill'[i] = IF i \in DOMAIN shm.draft THEN shm.draft[i] ELSE spill[i]
  BY <1>1 DEF Override, Pending
<1>4. i \in Pending => Pend(i)' = Pend(i)
  <2>1. CASE i \in Chunks
    BY <1>1, <2>1 DEF Pend, Held
  <2>2. CASE i \notin Chunks
    BY <1>1, <1>3, <2>2 DEF Pend, Held
  <2> QED
    BY <2>1, <2>2
<1> QED
  BY <1>1, <1>2, <1>4 DEF Pending, HeadObj

LEMMA PendBack ==
  ASSUME Ctx, NextHead' = NextHead, NEW I, WritesBack(I), NEW i \in Items
  PROVE  /\ i \in I => i \in Pending' /\ i \in DOMAIN shm'.draft /\ Pend(i)' = cache[i]
         /\ i \notin I => /\ (i \in Pending' <=> i \in Pending) /\ (i \in Pending => Pend(i)' = Pend(i))
                          /\ (HeadObj(i)' <=> HeadObj(i)) /\ (i \in DOMAIN shm'.draft <=> i \in DOMAIN shm.draft)
<1>1. /\ \A c \in Chunks \cap I : <<0, NextHead>> \in DOMAIN objs'[c] /\ objs'[c][<<0, NextHead>>] = cache[c]
      /\ \A c \in Chunks \ I : objs'[c] = objs[c]
      /\ DOMAIN shm'.draft = DOMAIN shm.draft \cup I
      /\ \A j \in I : j \notin Chunks => shm'.draft[j] = cache[j]
      /\ \A j \in DOMAIN shm.draft \ I : shm'.draft[j] = shm.draft[j]
      /\ spill' = spill
  BY WritesBackIs DEF WritesBack
<1>2. CASE i \in I
  <2>1. i \in Chunks => Pend(i)' = cache[i]
    BY <1>1, <1>2 DEF Pend, Held
  <2>2. i \notin Chunks => Pend(i)' = cache[i]
    BY <1>1, <1>2 DEF Pend, Held
  <2> QED
    BY <1>1, <1>2, <2>1, <2>2 DEF Pending
<1>3. CASE i \notin I
  <2>1. (i \in DOMAIN shm'.draft <=> i \in DOMAIN shm.draft) /\ (i \in Pending' <=> i \in Pending)
    BY <1>1, <1>3 DEF Pending
  <2>2. HeadObj(i)' <=> HeadObj(i)
    BY <1>1, <1>3 DEF HeadObj
  <2>3. i \in Chunks => Pend(i)' = Pend(i)
    BY <1>1, <1>3 DEF Pend, Held
  <2>4. i \notin Chunks => Pend(i)' = Pend(i)
    BY <1>1, <1>3, <2>1 DEF Pend, Held
  <2> QED
    BY <1>3, <2>1, <2>2, <2>3, <2>4
<1> QED
  BY <1>2, <1>3

LEMMA KeepsOr ==
  ASSUME Step, ~Start, ~Commit, pg' = "up", NEW i \in Items, ~Write(i), \A I : WritesBack(I) => i \notin I
  PROVE  Keeps(i) /\ pg = "up"
<1>0. Ctx /\ FirstNext /\ NextHead' = NextHead
  BY HeadAfter DEF Step
<1>1. ASSUME NEW j \in Items, Write(j) PROVE Keeps(i) /\ pg = "up"
  <2>1. /\ j # i /\ pg = "up" /\ UNCHANGED <<ck, shm, objs, spill, pgdata>>
        /\ \E v : cache' = Put(cache, j, v)
    BY <1>1 DEF Write, Running, storage, local
  <2>2. (i \in DOMAIN cache' <=> i \in DOMAIN cache) /\ (i \in DOMAIN cache => cache'[i] = cache[i])
    <3>1. PICK v : cache' = Put(cache, j, v)
      BY <2>1
    <3> QED
      BY <2>1, <3>1 DEF Put
  <2>3. Upto(i, Lsn)' = Upto(i, Lsn)
    BY <1>1, <2>1, LsnStep
  <2>4. (i \in Pending' <=> i \in Pending) /\ Pend(i)' = Pend(i) /\ (HeadObj(i)' <=> HeadObj(i))
    BY <1>0, <2>1, PendSame
  <2>5. CacheRedo' = CacheRedo
    BY <2>1 DEF CacheRedo
  <2> QED
    BY <2>1, <2>2, <2>3, <2>4, <2>5 DEF Keeps
<1>2. CASE \A j \in Items : ~Write(j)
  <2>1. Upto(i, Lsn)' = Upto(i, Lsn)
    BY <1>2, LsnStep
  <2>2. CASE Spills
    <3>1. CacheRedo' = CacheRedo
      BY <2>2 DEF Spills, CacheRedo
    <3> QED
      BY <1>0, <2>1, <2>2, <3>1, PendSpills DEF Keeps, Spills, Pending
  <2>3. CASE Rests
    <3>1. (i \in Pending' <=> i \in Pending) /\ Pend(i)' = Pend(i) /\ (HeadObj(i)' <=> HeadObj(i))
      BY <1>0, <2>3, PendSame DEF Rests
    <3>2. CacheRedo' = CacheRedo
      BY <2>3 DEF Rests, CacheRedo
    <3> QED
      BY <2>1, <2>3, <3>1, <3>2 DEF Keeps, Rests
  <2>4. ASSUME NEW I, WritesBack(I) PROVE Keeps(i) /\ pg = "up"
    <3>1. i \notin I /\ pg = "up" /\ UNCHANGED <<spill, pgdata>>
      BY <2>4 DEF WritesBack
    <3>2. shm'.spilled = shm.spilled /\ DOMAIN cache' = DOMAIN cache \ I /\ \A j \in DOMAIN cache' : cache'[j] = cache[j]
      BY <1>0, <2>4, WritesBackIs
    <3>3. /\ (i \in Pending' <=> i \in Pending) /\ (i \in Pending => Pend(i)' = Pend(i))
          /\ (HeadObj(i)' <=> HeadObj(i)) /\ (i \in DOMAIN shm'.draft <=> i \in DOMAIN shm.draft)
      BY <1>0, <2>4, <3>1, PendBack
    <3>4. i \in DOMAIN cache => CacheRedo' = CacheRedo
      BY <2>4, <3>1 DEF WritesBack, CacheRedo
    <3>5. ck'.pc = "flushed" => (ck.pc = "flushed" /\ ck'.redo = ck.redo) \/ (ck'.redo = Lsn /\ DOMAIN cache' = {})
      BY <2>4, <3>2 DEF WritesBack
    <3> QED
      BY <2>1, <3>1, <3>2, <3>3, <3>4, <3>5 DEF Keeps
  <2> QED
    BY <1>2, <2>2, <2>3, <2>4, StepKinds DEF Halts
<1> QED
  BY <1>1, <1>2

\* What is covered in the next state.
LEMMA NowCovered ==
  ASSUME Step, NEW i, NEW l, NEW h, h = NextHead',
         \A r \in Upto(i, l)' : \E s \in Ever' : i \in ItemsOf(s) /\ r \in Val(s, i)'
  PROVE  Covered(i, h, l)'
<1>1. \A s \in Ever' : s.ckpt <= h
  BY NextStore DEF StoreInv, Order
<1> QED
  BY <1>1 DEF Covered, ItemsOf

UpParts(i) == HeadHeld(i) /\ CacheIs(i) /\ PendIs(i) /\ CleanIs(i) /\ FlushIs(i)

LEMMA KeepsUp ==
  ASSUME Step, ~Start, ~Commit, pg = "up", NEW i \in Items \ spoiled', ItemInv(i), Keeps(i)
  PROVE  UpParts(i)'
<1>0. /\ Ctx /\ i \in Items \ spoiled /\ NextHead' = NextHead /\ Lsn \in Nat
      /\ HeadHeld(i) /\ CacheIs(i) /\ PendIs(i) /\ CleanIs(i) /\ FlushIs(i)
  BY StillClean, HeadAfter, FirstIs DEF Step, ItemInv, UpVal
<1>1. PICK h, n, q, u : h = NextHead' /\ n = Lsn' /\ q = ck'.redo /\ u = CacheRedo'
  OBVIOUS
<1>2. HeadHeld(i)'
  BY <1>0 DEF HeadHeld, Keeps
<1>3. CacheIs(i)'
  <2>1. i \in DOMAIN cache => Touched(i, u)'
    <3>1. i \in DOMAIN cache => u = CacheRedo /\ Touched(i, CacheRedo)
      BY <1>0, <1>1 DEF CacheIs, Keeps
    <3> QED
      BY <3>1, UptoStays
  <2>2. i \in DOMAIN cache => Touched(i, CacheRedo)'
    BY <1>1, <2>1 DEF Touched
  <2> QED
    BY <1>0, <2>2 DEF CacheIs, Keeps
<1>4. PendIs(i)'
  <2>1. i \in Pending \ DOMAIN cache => i \in DOMAIN shm.draft \/ (shm.spilled /\ i \in DOMAIN spill)
    BY <1>0 DEF PendIs, Pending
  <2> QED
    BY <1>0, <2>1 DEF PendIs, Keeps
<1>5. CleanIs(i)'
  <2>1. ASSUME i \notin DOMAIN cache \cup Pending PROVE Covered(i, NextHead, Lsn)'
    <3>1. Covered(i, h, Lsn)
      BY <1>0, <1>1, <2>1 DEF CleanIs
    <3>2. PICK k : k = Lsn
      OBVIOUS
    <3>3. Covered(i, h, k)'
      BY <1>0, <3>1, <3>2, CoveredStays
    <3>4. Upto(i, k)' = Upto(i, Lsn)'
      BY <1>0, <3>2, UptoStays DEF Keeps
    <3>5. Upto(i, n)' = Upto(i, Lsn)'
      BY <1>1 DEF Upto, Records
    <3>6. Covered(i, h, n)'
      BY <3>3, <3>4, <3>5 DEF Covered
    <3> QED
      BY <1>1, <3>6 DEF Covered, Upto, Records
  <2> QED
    BY <2>1 DEF CleanIs, Keeps
<1>6. FlushIs(i)'
  <2>1. CASE ck.pc = "flushed" /\ ck'.redo = ck.redo
    <3>1. q = ck.redo /\ q \in Nat /\ q <= Lsn
      BY <1>0, <1>1, <2>1, RedoIs
    <3>2. i \in Pending => Upto(i, q)' \subseteq Pend(i)'
      BY <1>0, <2>1, <3>1, UptoStays DEF FlushIs, Keeps
    <3>3. i \notin Pending => Covered(i, h, q)'
      <4>1. i \notin Pending => Covered(i, h, q)
        BY <1>0, <1>1, <2>1, <3>1 DEF FlushIs
      <4> QED
        BY <1>0, <3>1, <4>1, CoveredStays
    <3>4. i \in Pending => Upto(i, ck.redo)' \subseteq Pend(i)'
      BY <1>1, <3>2 DEF Upto, Records
    <3>5. i \notin Pending => Covered(i, NextHead, ck.redo)'
      BY <1>1, <3>3 DEF Covered, Upto, Records
    <3> QED
      BY <3>4, <3>5 DEF FlushIs, Keeps
  <2>2. CASE ck'.redo = Lsn /\ DOMAIN cache' = {}
    <3>1. q = Lsn /\ Upto(i, q)' = Upto(i, Lsn)
      BY <1>0, <1>1, <2>2, UptoStays
    <3>2. i \in Pending' => Pend(i)' = Upto(i, Lsn)'
      BY <1>4, <2>2 DEF PendIs
    <3>3. Upto(i, ck.redo)' = Upto(i, q)'
      BY <1>1 DEF Upto, Records
    <3>4. i \notin Pending' => Covered(i, NextHead, ck.redo)'
      <4>1. i \notin Pending' => Covered(i, h, n)'
        <5>1. i \notin Pending' => Covered(i, NextHead, Lsn)'
          BY <1>5, <2>2 DEF CleanIs
        <5> QED
          BY <1>1, <5>1 DEF Covered, Upto, Records
      <4>2. Upto(i, n)' = Upto(i, q)'
        <5>1. Upto(i, n)' = Upto(i, Lsn)'
          BY <1>1 DEF Upto, Records
        <5> QED
          BY <3>1, <5>1 DEF Keeps
      <4>3. i \notin Pending' => Covered(i, h, q)'
        BY <4>1, <4>2 DEF Covered
      <4> QED
        BY <1>1, <4>3 DEF Covered, Upto, Records
    <3> QED
      BY <3>1, <3>2, <3>3, <3>4 DEF FlushIs, Keeps
  <2> QED
    BY <2>1, <2>2 DEF FlushIs, Keeps
<1> QED
  BY <1>2, <1>3, <1>4, <1>5, <1>6 DEF UpParts

UpEnds(i) == EndIs(i) /\ WindowOk(i)

LEMMA EndsKept ==
  ASSUME Step, ~Start, ~Commit, pg = "up", pg' = "up", NEW i \in Items \ spoiled', ItemInv(i)
  PROVE  UpEnds(i)'
<1>0. Ctx /\ i \in Items \ spoiled /\ NextHead' = NextHead /\ EndIs(i) /\ WindowOk(i)
  BY StillClean, HeadAfter DEF Step, ItemInv, UpVal
<1>1. WindowOk(i)'
  <2>1. Ever' = Ever /\ shm'.active = shm.active
    BY HeadStep, ShmStep
  <2> QED
    BY <1>0, <2>1 DEF WindowOk, ItemsOf
<1>2. ASSUME ck'.pc \in {"compact", "end"} PROVE Covered(i, NextHead, ck.redo)'
  <2>1. ck.pc \in {"compact", "end"} /\ ck'.redo = ck.redo
    BY <1>2, CkStep
  <2>2. PICK h, q : h = NextHead /\ q = ck.redo
    OBVIOUS
  <2>3. Covered(i, h, q) /\ q \in Nat /\ q <= Lsn
    BY <1>0, <2>1, <2>2, RedoIs DEF EndIs
  <2>4. Covered(i, h, q)'
    BY <1>0, <2>3, CoveredStays
  <2> QED
    BY <1>0, <2>1, <2>2, <2>4
<1> QED
  BY <1>1, <1>2 DEF UpEnds, EndIs

LEMMA UpWrite ==
  ASSUME Step, NEW i \in Items \ spoiled', ItemInv(i), Write(i)
  PROVE  UpParts(i)'
<1>0. Ctx /\ i \in Items \ spoiled /\ Written(i)
  BY StillClean, WriteIs DEF Step
<1>1. /\ pg = "up" /\ UNCHANGED <<pg, ck, shm, objs, spill, pgdata>>
      /\ i \in DOMAIN cache \/ ManifestsAt(shm.base) # {}
      /\ cache' = Put(cache, i, (IF i \in DOMAIN cache THEN cache[i] ELSE Lookup(i)) \cup {Len(wal) + 1})
  BY DEF Write, Running, storage, local
<1>2. ~Commit /\ NextHead' = NextHead
  <2>1. Commit => wal' = wal
    BY DEF Commit
  <2>2. Len(wal') = Len(wal) + 1 /\ Len(wal) \in Nat
    BY <1>0, WalIs DEF Written, Ctx, TInv, Shape
  <2> QED
    BY <2>1, <2>2, HeadAfter
<1>3. (IF i \in DOMAIN cache THEN cache[i] ELSE Lookup(i)) = Upto(i, Lsn)
  <2>1. i \in DOMAIN cache => cache[i] = Upto(i, Lsn)
    BY <1>1 DEF ItemInv, UpVal, CacheIs
  <2>2. i \notin DOMAIN cache => Lookup(i) = Upto(i, Lsn)
    BY <1>0, <1>1, ReadsLatest
  <2> QED
    BY <2>1, <2>2
<1>4. i \in DOMAIN cache' /\ cache'[i] = Upto(i, Lsn)'
  <2>1. Upto(i, Lsn)' = Upto(i, Lsn) \cup {Len(wal) + 1}
    BY LsnStep
  <2> QED
    BY <1>1, <1>3, <2>1 DEF Put
<1>5. Touched(i, CacheRedo)'
  <2>1. PICK u : u = CacheRedo'
    OBVIOUS
  <2>2. u \in Nat /\ u <= Lsn
    BY <1>0, <1>1, <2>1, RedoIs DEF CacheRedo
  <2>3. Touched(i, u)'
    BY <1>0, <2>2, RecordsGrow
  <2> QED
    BY <2>1, <2>3 DEF Touched
<1>6. FlushIs(i)'
  <2>1. ASSUME ck'.pc = "flushed"
        PROVE  IF i \in Pending' THEN Upto(i, ck.redo)' \subseteq Pend(i)' ELSE Covered(i, NextHead, ck.redo)'
    <3>1. ck' = ck /\ ck.pc = "flushed" /\ FlushIs(i)
      BY <1>1, <2>1 DEF ItemInv, UpVal
    <3>2. PICK h, q : h = NextHead /\ q = ck.redo
      OBVIOUS
    <3>3. q \in Nat /\ q <= Lsn
      BY <1>0, <3>1, <3>2, RedoIs
    <3>4. (i \in Pending' <=> i \in Pending) /\ Pend(i)' = Pend(i)
      BY <1>1, <1>2, PendSame
    <3>5. i \in Pending => Upto(i, q)' \subseteq Pend(i)'
      BY <3>1, <3>2, <3>3, <3>4, UptoStays DEF FlushIs
    <3>6. i \notin Pending => Covered(i, h, q)'
      <4>1. i \notin Pending => Covered(i, h, q)
        BY <3>1, <3>2 DEF FlushIs
      <4>2. ~Start
        BY <1>1 DEF Start
      <4> QED
        BY <1>0, <3>3, <4>1, <4>2, CoveredStays
    <3>7. i \in Pending => Upto(i, ck.redo)' \subseteq Pend(i)'
      BY <3>1, <3>2, <3>5
    <3>8. i \notin Pending => Covered(i, NextHead, ck.redo)'
      BY <1>2, <3>1, <3>2, <3>6
    <3> QED
      BY <3>4, <3>7, <3>8
  <2> QED
    BY <2>1 DEF FlushIs
<1> QED
  BY <1>4, <1>5, <1>6 DEF UpParts, HeadHeld, CacheIs, PendIs, CleanIs

LEMMA UpBack ==
  ASSUME Step, NEW I, WritesBack(I), NEW i \in I, i \in Items \ spoiled', ItemInv(i)
  PROVE  UpParts(i)'
<1>0. /\ Ctx /\ i \in Items \ spoiled /\ pg = "up" /\ i \in DOMAIN cache /\ DOMAIN cache' = DOMAIN cache \ I
      /\ cache[i] = Upto(i, Lsn)
  <2>1. Ctx /\ i \in Items \ spoiled /\ pg = "up" /\ i \in DOMAIN cache
    BY StillClean DEF Step, WritesBack
  <2> QED
    BY <2>1, WritesBackIs DEF ItemInv, UpVal, CacheIs
<1>1. ~Commit /\ NextHead' = NextHead /\ (\A j \in Items : ~Write(j))
  <2>1. UNCHANGED <<wal, ends>>
    BY DEF WritesBack
  <2>2. \A j \in Items : ~Write(j)
    <3>1. ASSUME NEW j \in Items, Write(j) PROVE FALSE
      <4>1. Len(wal') = Len(wal) + 1 /\ Len(wal) \in Nat
        BY <1>0, <3>1, WriteIs, WalIs DEF Written, Ctx, TInv, Shape
      <4> QED
        BY <2>1, <4>1
    <3> QED
      BY <3>1
  <2>3. ~Commit
    <3>1. ASSUME Commit PROVE FALSE
      <4>1. PICK s : HeadMoves(s)
        BY <3>1, HeadStep
      <4>2. Lsn' = Lsn + 1 /\ Lsn \in Nat /\ db' = db /\ pgdata' = pgdata
        BY <4>1 DEF HeadMoves, Committed
      <4>3. Lsn' = Lsn
        BY <2>1, <4>2 DEF Lsn, Here
      <4> QED
        BY <4>2, <4>3
    <3> QED
      BY <3>1
  <2> QED
    BY <2>2, <2>3, HeadAfter
<1>2. i \in Pending' /\ i \in DOMAIN shm'.draft /\ Pend(i)' = cache[i] /\ i \notin DOMAIN cache'
  BY <1>0, <1>1, PendBack
<1>3. Pend(i)' = Upto(i, Lsn)'
  BY <1>0, <1>1, <1>2, LsnStep
<1>4. ck'.pc = "flushed" => Upto(i, ck.redo)' \subseteq Pend(i)'
  <2>1. PICK q : q = ck'.redo
    OBVIOUS
  <2>2. ck'.pc = "flushed" => q \in Nat /\ q <= Lsn
    BY <1>0, <2>1, RedoIs, FirstIs DEF WritesBack
  <2>3. ck'.pc = "flushed" => Upto(i, q)' \subseteq Pend(i)'
    BY <1>0, <1>2, <2>2, UptoStays, RecordsIn
  <2> QED
    BY <2>1, <2>3 DEF Upto, Records
<1> QED
  BY <1>2, <1>3, <1>4 DEF UpParts, HeadHeld, CacheIs, PendIs, CleanIs, FlushIs

LEMMA UpCommit ==
  ASSUME Step, Commit, NEW i \in Items \ spoiled', ItemInv(i)
  PROVE  UpParts(i)' /\ UpEnds(i)'
<1>0. Ctx /\ i \in Items \ spoiled
  BY StillClean DEF Step
<1>1. PICK s : HeadMoves(s)
  BY HeadStep
<1>2. /\ Committed(s) /\ NextHead < s.ckpt /\ Ever' = Ever \cup {s} /\ NextHead' = s.ckpt
      /\ pg = "up" /\ ck.pc = "flushed" /\ UNCHANGED <<cache, objs, wal, line, pgdata>> /\ ck'.redo = ck.redo
      /\ DOMAIN shm'.draft = {} /\ DOMAIN spill' = {} /\ ck'.pc \in {"end", "compact"}
  BY <1>1 DEF HeadMoves, Committed, NoItems
<1>3. /\ CacheIs(i) /\ PendIs(i) /\ CleanIs(i) /\ FlushIs(i) /\ WindowOk(i)
  BY <1>2 DEF ItemInv, UpVal
<1>4. Pending' = {}
  BY <1>2 DEF Pending
<1>5. /\ s.ckpt \in Nat /\ NextHead \in Nat /\ (i \in Chunks => \A p \in DOMAIN objs[i] : p[2] <= NextHead)
      /\ \A r \in Ever : r.ckpt \in Nat /\ r.ckpt < s.ckpt
  <2>1. s.ckpt \in Ckpts /\ NextHead \in Nat /\ \A r \in Ever : r.ckpt \in Nat /\ r.ckpt <= NextHead
    BY <1>0, <1>2, HeadIsNow, FirstIs DEF Committed, Ctx, StoreInv, Order
  <2> QED
    BY <1>0, <1>2, <2>1, CkptsNat DEF Ctx, StoreInv, Order
<1>6. ~HeadObj(i)'
  <2>1. i \in Chunks => <<0, s.ckpt>> \notin DOMAIN objs[i]
    BY <1>2, <1>5
  <2> QED
    BY <1>2, <2>1 DEF HeadObj
<1>7. \A l : Upto(i, l)' = Upto(i, l) /\ (Touched(i, l)' <=> Touched(i, l))
  BY <1>2, RecordsStay
<1>8. Upto(i, Lsn)' = Upto(i, Lsn)
  <2>1. Len(wal) \in Nat
    BY <1>0, WalIs DEF Ctx, TInv, Shape
  <2>2. \A j \in Items : ~Write(j)
    BY <1>0, <1>2, <2>1, WriteIs DEF Written
  <2> QED
    BY <2>2, LsnStep
<1>9. CacheIs(i)'
  <2>1. CacheRedo' = ck.redo /\ CacheRedo = ck.redo
    BY <1>2 DEF CacheRedo
  <2>2. i \in DOMAIN cache => Touched(i, ck.redo)
    BY <1>3, <2>1 DEF CacheIs
  <2>3. PICK u : u = ck.redo
    OBVIOUS
  <2>4. i \in DOMAIN cache => Touched(i, u)'
    BY <1>7, <2>2, <2>3
  <2>5. i \in DOMAIN cache => Touched(i, CacheRedo)'
    BY <2>1, <2>3, <2>4 DEF Touched
  <2> QED
    BY <1>2, <1>3, <1>8, <2>5 DEF CacheIs
<1>10. ASSUME NEW r, r \in Pend(i) /\ i \in Pending PROVE \E t \in Ever' : i \in ItemsOf(t) /\ r \in Val(t, i)'
  BY <1>0, <1>1, <1>2, <1>10, CommitVal
<1>11. ASSUME NEW c, NEW l, NEW r \in Upto(i, l), Covered(i, c, l)
       PROVE  \E t \in Ever' : i \in ItemsOf(t) /\ r \in Val(t, i)'
  <2>1. PICK t \in Ever : i \in ItemsOf(t) /\ r \in Val(t, i)
    BY <1>11 DEF Covered
  <2> QED
    BY <1>0, <1>2, <2>1, ValStays
<1>12. PICK h, n, q : h = NextHead' /\ n = Lsn' /\ q = ck.redo
  OBVIOUS
<1>13. CleanIs(i)'
  <2>1. ASSUME i \notin DOMAIN cache PROVE Covered(i, NextHead, Lsn)'
    <3>1. Upto(i, n)' = Upto(i, Lsn)
      <4>1. Upto(i, n)' = Upto(i, Lsn)'
        BY <1>12 DEF Upto, Records
      <4> QED
        BY <1>8, <4>1
    <3>2. \A r \in Upto(i, Lsn) : \E t \in Ever' : i \in ItemsOf(t) /\ r \in Val(t, i)'
      BY <1>3, <1>10, <1>11, <2>1 DEF PendIs, CleanIs
    <3>3. Covered(i, h, n)'
      BY <1>12, <3>1, <3>2, NowCovered
    <3> QED
      BY <1>12, <3>3 DEF Covered, Upto, Records
  <2> QED
    BY <1>2, <2>1 DEF CleanIs
<1>14. Covered(i, NextHead, ck.redo)'
  <2>1. \A r \in Upto(i, q) : \E t \in Ever' : i \in ItemsOf(t) /\ r \in Val(t, i)'
    BY <1>2, <1>3, <1>10, <1>11, <1>12 DEF FlushIs
  <2>2. Covered(i, h, q)'
    BY <1>7, <1>12, <2>1, NowCovered
  <2> QED
    BY <1>2, <1>12, <2>2 DEF Covered, Upto, Records
<1>15. WindowOk(i)'
  <2>1. ASSUME NEW a \in shm'.active, NEW r \in Ever', i \in ItemsOf(a), i \in ItemsOf(r), r.ckpt > a.ckpt
        PROVE  r \in shm'.active
    <3>1. /\ s \in shm'.active /\ shm'.active \subseteq shm.active \cup {s}
          /\ \A b \in shm'.active : \A t \in shm.active \cup {s} : b.ckpt <= t.ckpt => t \in shm'.active
          /\ \A b \in shm.active : b.ckpt < s.ckpt /\ b.ckpt \in Nat
      BY <1>0, <1>2, CommitWindow
    <3>2. CASE r = s
      BY <3>1, <3>2
    <3>3. CASE r \in Ever
      <4>1. a # s /\ a \in shm.active
        BY <1>5, <2>1, <3>1, <3>3
      <4>2. r \in shm.active
        BY <1>3, <2>1, <3>3, <4>1 DEF WindowOk
      <4>3. a.ckpt <= r.ckpt
        BY <2>1, <3>1, <4>1, <4>2
      <4> QED
        BY <3>1, <4>2, <4>3
    <3> QED
      BY <1>2, <3>2, <3>3
  <2> QED
    BY <2>1 DEF WindowOk, ItemsOf
<1> QED
  BY <1>2, <1>4, <1>6, <1>9, <1>13, <1>14, <1>15 DEF UpParts, UpEnds, HeadHeld, PendIs, FlushIs, EndIs

\* What a restart replays of an item: the records after the redo position.
LEMMA StartCache ==
  ASSUME Ctx, Start, NEW i
  PROVE  /\ i \in DOMAIN cache' <=> Touched(i, pgdata.redo)
         /\ i \in DOMAIN cache' => cache'[i] = Lookup(i)' \cup {r \in line[One] : wal[r].lsn > pgdata.redo /\ wal[r].item = i}
<1>1. /\ cache' = [j \in {wal[r].item : r \in Replayed} |-> Lookup(j)' \cup {r \in Replayed : wal[r].item = j}]
      /\ Replayed = {r \in line[One] : wal[r].lsn > pgdata.redo}
  BY StartIs
<1>2. i \in {wal[r].item : r \in Replayed} <=> Touched(i, pgdata.redo)
  BY <1>1 DEF Touched
<1>3. {r \in Replayed : wal[r].item = i} = {r \in line[One] : wal[r].lsn > pgdata.redo /\ wal[r].item = i}
  BY <1>1
<1>4. DOMAIN cache' = {wal[r].item : r \in Replayed}
  BY <1>1
<1>5. i \in DOMAIN cache' => cache'[i] = Lookup(i)' \cup {r \in Replayed : wal[r].item = i}
  BY <1>1
<1> QED
  BY <1>2, <1>3, <1>4, <1>5

LEMMA StartWindow ==
  ASSUME Step, Start, NEW i \in Items \ spoiled'
  PROVE  WindowOk(i)'
<1>0. /\ Ctx /\ db = 0 /\ shm' = Hydrated /\ shm'.active \subseteq segs /\ segs' = segs /\ gone' \subseteq gone
      /\ \A a \in shm'.active, s \in segs : a.ckpt <= s.ckpt => s \in shm'.active
      /\ i \notin Missed /\ \A s \in Ever : s.ckpt \in Nat /\ s.db = 0
  BY StartIs, FirstIs DEF Step
<1>1. ASSUME NEW a \in shm'.active, NEW r \in Ever', i \in ItemsOf(a), i \in ItemsOf(r), r.ckpt > a.ckpt
      PROVE  r \in shm'.active
  <2>1. a \in Ever /\ r \in Ever /\ a.ckpt <= r.ckpt /\ a.ckpt < r.ckpt
    BY <1>0, <1>1 DEF Ever
  <2>2. CASE r \in segs
    BY <1>0, <2>1, <2>2
  <2>3. CASE r \in gone
    BY <1>0, <1>1, <2>1, <2>3 DEF Missed
  <2> QED
    BY <2>1, <2>2, <2>3 DEF Ever
<1> QED
  BY <1>1 DEF WindowOk, ItemsOf

LEMMA UpStart ==
  ASSUME Step, Start, NEW i \in Items \ spoiled', ItemInv(i)
  PROVE  UpParts(i)' /\ UpEnds(i)'
<1>0. Ctx /\ Ctx' /\ i \in Items \ spoiled /\ PendVal(i) /\ WindowOk(i)' /\ SegVal(i)' /\ ManVal(i)' /\ DirVal(i)'
  BY StillClean, StartWindow, NextSegVal, NextManVal, NextDirVal, NextCtx DEF Step, ItemInv
<1>1. /\ pg' = "up" /\ UNCHANGED <<wal, line, ends, pgdata, ck, objs, spill>> /\ ck = NoCk /\ NextHead' = NextHead
      /\ DOMAIN shm'.draft = {} /\ shm'.spilled = FALSE /\ shm'.base = InitialManifest.ckpt
      /\ InitialManifest \in tikm' /\ tikm' = tikm
  <2>1. ~Commit
    BY <1>0, StartIs, RedoIs DEF Commit
  <2> QED
    BY <1>0, <2>1, StartIs, HeadAfter DEF NoItems
<1>2. ck.pc = "idle" /\ KeptRedo = pgdata.redo /\ CacheRedo' = pgdata.redo
  BY <1>1 DEF NoCk, KeptRedo, CacheRedo
<1>3. PICK e, n, h : e = pgdata.redo /\ n = Lsn' /\ h = NextHead'
  OBVIOUS
<1>4. e \in Nat /\ e <= Lsn /\ Lsn = ends[One] /\ Lsn \in Nat
  BY <1>0, <1>3, RedoIs, FirstIs
<1>5. /\ \A l : Upto(i, l)' = Upto(i, l) /\ (Touched(i, l)' <=> Touched(i, l))
      /\ Upto(i, Lsn)' = Upto(i, Lsn) /\ Upto(i, n)' = Upto(i, Lsn)
  <2>1. \A l : Upto(i, l)' = Upto(i, l) /\ (Touched(i, l)' <=> Touched(i, l))
    BY <1>1, RecordsStay
  <2>2. Len(wal) \in Nat
    BY <1>0, WalIs DEF Ctx, TInv, Shape
  <2>3. \A j \in Items : ~Write(j)
    BY <1>0, <1>1, <2>2, WriteIs DEF Written
  <2>4. Upto(i, Lsn)' = Upto(i, Lsn)
    BY <2>3, LsnStep
  <2>5. Upto(i, n)' = Upto(i, Lsn)'
    BY <1>3 DEF Upto, Records
  <2> QED
    BY <2>1, <2>4, <2>5
<1>6. /\ i \in DOMAIN cache' <=> Touched(i, e)
      /\ i \in DOMAIN cache' => cache'[i] = Lookup(i)' \cup {r \in line[One] : wal[r].lsn > e /\ wal[r].item = i}
  BY <1>0, <1>3, StartCache
<1>7. (HeadObj(i)' => i \in DOMAIN cache') /\ (i \in Pending' => i \in DOMAIN cache')
  <2>1. HeadObj(i) \/ i \in DOMAIN spill => Touched(i, e)
    BY <1>0, <1>2, <1>3 DEF PendVal
  <2> QED
    BY <1>1, <1>6, <2>1 DEF HeadObj, Pending
<1>8. Finds(i)'
  <2>1. Settled(i)'
    BY <1>1 DEF Settled
  <2>2. ManifestsAt(shm.base)' # {}
    BY <1>1 DEF ManifestsAt
  <2>3. Readable(i)'
    BY <1>0, <1>1, <2>1, <2>2 DEF Readable
  <2> QED
    BY <1>0, <2>3, LookupsFindNext DEF AllFind
<1>9. \A r \in Upto(i, e) : \E s \in Ever' : i \in ItemsOf(s) /\ r \in Val(s, i)'
  <2>1. Covered(i, pgdata.ckpt, pgdata.redo)'
    BY <1>0 DEF DirVal
  <2>2. Upto(i, pgdata.redo)' = Upto(i, e)
    <3>1. Upto(i, e)' = Upto(i, e)
      BY <1>5
    <3> QED
      BY <1>1, <1>3, <3>1 DEF Upto, Records
  <2> QED
    BY <2>1, <2>2 DEF Covered, ItemsOf
<1>10. CacheIs(i)'
  <2>1. Lookup(i)' \subseteq Upto(i, Lsn)
    BY <1>5, <1>8 DEF Finds
  <2>2. \A r \in line[One] : wal[r].item = i => r \in Upto(i, Lsn)
    BY <1>0, <1>4 DEF Ctx, StoreInv, Quiet, Upto, Records
  <2>3. Upto(i, e) \subseteq Lookup(i)'
    BY <1>8, <1>9 DEF Finds, ItemsOf
  <2>4. \A r \in Upto(i, Lsn) : r \in Upto(i, e) \/ (r \in line[One] /\ wal[r].lsn > e /\ wal[r].item = i)
    <3>1. \A r \in line[One] : wal[r].lsn \in Nat
      BY <1>0, FirstIs, WalIs DEF Ctx, TInv, Shape
    <3> QED
      BY <1>4, <3>1 DEF Upto, Records
  <2>5. i \in DOMAIN cache' => cache'[i] = Upto(i, Lsn)
    BY <1>6, <2>1, <2>2, <2>3, <2>4
  <2>6. i \in DOMAIN cache' => Touched(i, CacheRedo)'
    <3>1. i \in DOMAIN cache' => Touched(i, e)'
      BY <1>5, <1>6
    <3> QED
      BY <1>2, <1>3, <3>1 DEF Touched
  <2> QED
    BY <1>5, <2>5, <2>6 DEF CacheIs
<1>11. CleanIs(i)'
  <2>1. ASSUME i \notin DOMAIN cache' PROVE Covered(i, NextHead, Lsn)'
    <3>1. Upto(i, e) = Upto(i, Lsn)
      BY <1>0, <1>4, <1>6, <2>1, RecordsIn
    <3>2. Covered(i, h, n)'
      BY <1>3, <1>5, <1>9, <3>1, NowCovered
    <3> QED
      BY <1>3, <3>2 DEF Covered, Upto, Records
  <2> QED
    BY <2>1 DEF CleanIs
<1> QED
  BY <1>0, <1>1, <1>2, <1>7, <1>10, <1>11 DEF UpParts, UpEnds, HeadHeld, PendIs, FlushIs, EndIs

LEMMA NextUpVal ==
  ASSUME Step, NEW i \in Items \ spoiled', ItemInv(i)
  PROVE  UpVal(i)'
<1> SUFFICES ASSUME pg' = "up" PROVE UpParts(i)' /\ UpEnds(i)'
  BY DEF UpVal, UpParts, UpEnds
<1>1. CASE Commit \/ Start
  BY <1>1, UpCommit, UpStart
<1>2. CASE ~Commit /\ ~Start
  <2>1. pg = "up"
    BY <1>2, ShmStep
  <2>2. UpEnds(i)'
    BY <1>2, <2>1, EndsKept
  <2>3. CASE Write(i)
    BY <2>2, <2>3, UpWrite
  <2>4. CASE \E I : WritesBack(I) /\ i \in I
    BY <2>2, <2>4, UpBack
  <2>5. CASE ~Write(i) /\ \A I : WritesBack(I) => i \notin I
    <3>1. Keeps(i)
      BY <1>2, <2>5, KeepsOr
    <3> QED
      BY <1>2, <2>1, <2>2, <3>1, KeepsUp
  <2> QED
    BY <2>3, <2>4, <2>5
<1> QED
  BY <1>1, <1>2

-----------------------------------------------------------------------------
(* Reads and backups of the first timeline *)

LEMMA NextFirst ==
  ASSUME TInv, RefInv, FirstInv, [Next]_vars, TInv', RefInv'
  PROVE  FirstInv'
<1> SUFFICES ASSUME First' PROVE StoreInv' /\ \A i \in Items \ spoiled' : ItemInv(i)'
  BY DEF FirstInv
<1>1. Step /\ \A i \in Items \ spoiled : ItemInv(i)
  BY FirstStep DEF FirstInv, Step, Ctx
<1>2. ASSUME NEW i \in Items \ spoiled' PROVE ItemInv(i)'
  <2>1. ItemInv(i)
    BY <1>1, StillClean
  <2> QED
    BY <1>1, <2>1, NextSegVal, NextManVal, NextDirVal, NextPendVal, NextUpVal DEF ItemInv
<1> QED
  BY <1>1, <1>2, NextStore

\* The inductive invariant of the first timeline: the store's checkpoints, manifests and
\* recovery window are in order, and of every item each of them holds what the WAL has up to
\* its place; the newest of caches, draft, spill file and checkpoints holds all of it.
THEOREM FirstTimeline == Spec => []FirstInv
<1>1. Spec => []TInv /\ []RefInv
  BY Positions, References
<1>2. TInv /\ RefInv /\ FirstInv /\ [Next]_vars /\ TInv' /\ RefInv' => FirstInv'
  BY NextFirst
<1> QED
  BY <1>1, <1>2, InitFirst, PTL DEF Spec

LEMMA FirstReads == TInv /\ RefInv /\ FirstInv => (db = 0 /\ recovers = 0 => Latest)
<1> SUFFICES ASSUME TInv, RefInv, FirstInv, db = 0 /\ recovers = 0 PROVE Latest
  OBVIOUS
<1>1. Ctx /\ \A i \in Items \ spoiled : ItemInv(i)
  BY DEF Ctx, First, FirstInv
<1>2. Here = One
  BY <1>1, FirstIs
<1> QED
  BY <1>1, <1>2, ReadsLatest DEF Latest, Upto

\* The manifests at or before a backup are of the first timeline and not newer than it, ...
LEMMA AnchorIn ==
  ASSUME Ctx, NEW b \in backups, NEW a, a = AnchorKey(b.ckpt, 0), AtOrBefore(b.ckpt, 0) # {}
  PROVE  /\ a \in DOMAIN bases /\ a[2] <= b.ckpt /\ \A j \in AtOrBefore(b.ckpt, 0) : j[2] <= a[2]
         /\ bases[a] \in Manifests /\ bases[a].ckpt <= b.ckpt
         /\ \A j \in DOMAIN bases : j[1] = 0 /\ j[2] \in Nat /\ bases[j].ckpt \in Nat
         /\ b.ckpt \in Nat /\ \A s \in Ever : s.ckpt \in Nat
<1>1. /\ \A j \in DOMAIN bases : j[1] = 0 /\ j[2] \in Nat /\ bases[j].ckpt \in Nat /\ bases[j].ckpt <= j[2]
      /\ b.ckpt \in Nat /\ \A s \in Ever : s.ckpt \in Nat
  <2>1. \A j \in DOMAIN bases : j[2] \in Ckpts /\ bases[j] \in Manifests
    BY FnsDef DEF Ctx, TInv, Shape, StoreShape, Prefixes, Manifests, Range
  <2>2. \A j \in DOMAIN bases : j[1] = 0 /\ bases[j].ckpt <= j[2]
    BY FirstIs DEF Ctx, TInv, PosInv, OneDb, ManPos
  <2> QED
    BY <2>1, <2>2, ManifestsIn, BackupsIn, FirstIs, CkptsNat
<1>2. a \in AtOrBefore(b.ckpt, 0) /\ \A j \in AtOrBefore(b.ckpt, 0) : j[2] <= a[2]
  <2>1. DOMAIN bases \subseteq Prefixes /\ b.ckpt \in Ckpts
    BY FnsDef, BackupsIn DEF Ctx, TInv, Shape, StoreShape
  <2> QED
    BY <2>1, AnchorIs
<1>3. a \in DOMAIN bases /\ a[2] <= b.ckpt
  BY <1>2 DEF AtOrBefore
<1>4. bases[a] \in Manifests
  BY <1>3 DEF Manifests, Range
<1> QED
  BY <1>1, <1>2, <1>3, <1>4

\* ... and that of an anchored backup has what the backup's checkpoint has.
LEMMA AnchorHas ==
  ASSUME Ctx, NEW b \in backups, NEW a, a = AnchorKey(b.ckpt, 0), <<0, b.ckpt>> \notin unanchored
  PROVE  /\ AtOrBefore(b.ckpt, 0) # {}
         /\ \A s \in Ever : Full(s) /\ s.ckpt <= b.ckpt => s.ckpt <= bases[a].ckpt
<1>1. PICK k \in DOMAIN bases : k[2] <= b.ckpt /\ \A s \in Ever : Full(s) /\ s.ckpt <= b.ckpt => s.ckpt <= k[2]
  BY DEF Ctx, StoreInv, Tails, Good, Anchored
<1>2. k \in AtOrBefore(b.ckpt, 0)
  <2>1. k[1] = 0
    BY FirstIs DEF Ctx, TInv, PosInv, OneDb
  <2> QED
    BY <1>1, <2>1 DEF AtOrBefore
<1>3. ASSUME NEW s \in Ever, Full(s), s.ckpt <= b.ckpt PROVE s.ckpt <= bases[a].ckpt
  <2>1. s.ckpt <= k[2] /\ k[2] <= a[2] /\ a \in DOMAIN bases
    BY <1>1, <1>2, <1>3, AnchorIn
  <2>2. s.ckpt \in Nat /\ k[2] \in Nat /\ a[2] \in Nat /\ bases[a].ckpt \in Nat
    BY <1>1, <1>2, <2>1, AnchorIn
  <2>3. ~(bases[a].ckpt < s.ckpt)
    BY <1>3, <2>1, <2>2 DEF Ctx, StoreInv, Gaps, Full
  <2> QED
    BY <2>2, <2>3
<1> QED
  BY <1>2, <1>3

LEMMA FirstBackups == TInv /\ RefInv /\ FirstInv => (db = 0 /\ recovers = 0 => AnchorsIntact)
<1> SUFFICES ASSUME TInv, RefInv, FirstInv, db = 0 /\ recovers = 0, NEW b \in backups
             PROVE  NothingLater(b) /\ (<<b.db, b.ckpt>> \notin unanchored => HasAll(b))
  BY DEF AnchorsIntact
<1>1. Ctx /\ \A i \in Items \ spoiled : ItemInv(i)
  BY DEF Ctx, First, FirstInv
<1>2. /\ b.db = 0 /\ TimelineOf(b.ckpt) = 1 /\ b.ckpt \in Ckpts /\ LsnOf(b.ckpt) \in Nat
      /\ <<b.db, TimelineOf(b.ckpt)>> = One
  BY <1>1, BackupsIn, FirstIs DEF Ctx, TInv, PosInv, OneDb, One
<1>3. PICK a : a = AnchorKey(b.ckpt, 0)
  OBVIOUS
<1>4. PICK m : m = bases[a]
  OBVIOUS
<1>5. ASSUME <<0, b.ckpt>> \notin unanchored, NEW i \in Items \ spoiled PROVE Upto(i, b.redo) \subseteq Resolve(m, i)
  <2>1. ASSUME NEW r \in Upto(i, b.redo) PROVE r \in Resolve(m, i)
    <3>1. PICK s \in Ever : i \in ItemsOf(s) /\ s.ckpt <= b.ckpt /\ r \in Val(s, i)
      BY <1>1, <2>1 DEF ItemInv, DirVal, Covered
    <3>2. s.ckpt <= m.ckpt /\ AtOrBefore(b.ckpt, 0) # {}
      BY <1>1, <1>3, <1>4, <1>5, <3>1, AnchorHas DEF Full
    <3>3. m \in Manifests
      BY <1>1, <1>3, <1>4, <3>2, AnchorIn
    <3> QED
      BY <1>1, <1>5, <3>1, <3>2, <3>3 DEF ItemInv, ManVal, ManOk
  <2> QED
    BY <2>1
<1>6. ASSUME AtOrBefore(b.ckpt, 0) # {}, NEW i \in Items \ spoiled PROVE Resolve(m, i) \subseteq Upto(i, LsnOf(b.ckpt))
  <2>0. m \in Manifests /\ m.ckpt <= b.ckpt
    BY <1>1, <1>3, <1>4, <1>6, AnchorIn
  <2>1. ManOk(m, i) /\ m.ckpt \in Ckpts
    BY <1>1, <1>6, <2>0, ManifestsIn DEF ItemInv, ManVal
  <2>2. LsnOf(m.ckpt) \in Nat /\ LsnOf(m.ckpt) <= LsnOf(b.ckpt)
    BY <1>2, <2>0, <2>1, LaterLsn DEF ManOk
  <2>3. Upto(i, LsnOf(m.ckpt)) \subseteq Upto(i, LsnOf(b.ckpt))
    BY <1>1, <1>2, <2>2, RecordsIn
  <2> QED
    BY <2>1, <2>3 DEF ManOk
<1>7. NothingLater(b)
  BY <1>2, <1>3, <1>4, <1>6 DEF NothingLater, Upto
<1>8. ASSUME <<0, b.ckpt>> \notin unanchored PROVE HasAll(b)
  <2>1. AtOrBefore(b.ckpt, 0) # {}
    BY <1>1, <1>3, <1>8, AnchorHas
  <2> QED
    BY <1>2, <1>3, <1>4, <1>5, <1>8, <2>1 DEF HasAll, Upto
<1> QED
  BY <1>2, <1>7, <1>8

\* Until its first recovery or branch, through any writes, evictions, spills, checkpoints,
\* compactions that end or fail, crashes and restarts, what a read finds in the store
\* (Store::get_chunk, get_relfork_meta) is exactly what the WAL says of an item outside
\* spoiled.  On this timeline a restart spoils an item (Missed) whose newest version was in a
\* segment that is deleted, when the local manifest has been set back to a base below that
\* segment, or when the window is filled up with a segment below the base that an
\* interrupted compaction has left behind.
THEOREM FirstTimelineLatest == Spec => [](db = 0 /\ recovers = 0 => Latest)
  BY Positions, References, FirstTimeline, FirstReads, PTL

\* On the first timeline every base backup whose own compaction has put its manifest stays
\* good: of every item outside spoiled, the base manifest that materialize_base_manifest_at
\* would choose for it has every record up to the backup's redo position, whatever is written,
\* compacted or deleted since.  No backup's manifest, one left unanchored by a failed
\* compaction included, has a record after the backup's checkpoint.
THEOREM FirstTimelineAnchors == Spec => [](db = 0 /\ recovers = 0 => AnchorsIntact)
  BY Positions, References, FirstTimeline, FirstBackups, PTL

-----------------------------------------------------------------------------
(* PGDATA and its copy *)

Shapes ==
  /\ "ok" \in DOMAIN pgdata
  /\ "pc" \in DOMAIN rec
  /\ \A d \in bak : "ok" \in DOMAIN d

\* What each step of a recovery relies on: before the snapshot is complete PGDATA is
\* good, unless a copy was left by a recovery that was killed; after it the copy is;
\* and both are when the copy is about to go.
CopyInv ==
  /\ rec.pc \in {"idle", "snapshot", "copy"} \cup CopyPcs
  /\ PgdataKept
  /\ rec.pc = "copy" => pgdata.ok
  /\ rec.pc \in CopyPcs => bak # {} /\ \A d \in bak : d.ok
  /\ rec.pc \in {"start", "wait", "manifest"} => pgdata.ok

SafeInv == Shapes /\ CopyInv

\* The database is created with a PGDATA, and no recovery is under way.
LEMMA InitSafe == Init => SafeInv
  BY DEF Init, NoRec, SafeInv, Shapes, CopyInv, CopyPcs, PgdataKept

\* Steps that touch neither PGDATA, nor its copy, nor the recovery.
LEMMA FrameSafe ==
  ASSUME SafeInv, UNCHANGED <<pgdata, bak, rec>>
  PROVE  SafeInv'
  BY DEF SafeInv, Shapes, CopyInv, PgdataKept

\* PostgreSQL rewrites its control file and leaves the rest of PGDATA complete.
LEMMA ControlFileSafe ==
  ASSUME SafeInv, UNCHANGED <<bak, rec>>,
         "ok" \in DOMAIN pgdata', pgdata'.ok = pgdata.ok
  PROVE  SafeInv'
  BY DEF SafeInv, Shapes, CopyInv, PgdataKept

\* The steps of the running database.
LEMMA DatabaseSafe ==
  ASSUME SafeInv,
         \/ \E i \in Items : Write(i) \/ Evict(i)
         \/ Spill \/ LoadManifest
         \/ \E kind \in {"online", "backup", "shutdown"} : CheckpointStart(kind)
         \/ Commit \/ NoNewSegments \/ CheckpointEnd
         \/ Compact
         \/ Crash \/ Start \/ Promote
  PROVE  SafeInv'
<1>1. ASSUME NEW i \in Items, Write(i) \/ Evict(i) PROVE SafeInv'
  BY <1>1, FrameSafe DEF Write, Evict, pgVars
<1>2. CASE Spill \/ LoadManifest
  BY <1>2, FrameSafe DEF Spill, LoadManifest, pgVars
<1>3. ASSUME NEW kind \in {"online", "backup", "shutdown"}, CheckpointStart(kind) PROVE SafeInv'
  BY <1>3, FrameSafe DEF CheckpointStart, pgVars
<1>4. CASE Commit \/ NoNewSegments
  BY <1>4, FrameSafe DEF Commit, NoNewSegments, pgVars
<1>5. CASE CheckpointEnd
  BY <1>5, ControlFileSafe DEF CheckpointEnd, SafeInv, Shapes
<1>6. CASE Compact
  BY <1>6, FrameSafe DEF Compact, CompactPut, CompactPublish, CompactAdvance, CompactDelete, CompactFail, pgVars
<1>7. CASE Crash
  BY <1>7, FrameSafe DEF Crash
<1>8. CASE Start
  BY <1>8 DEF Start, SafeInv, Shapes, CopyInv, CopyPcs, PgdataKept
<1>9. CASE Promote
  BY <1>9, ControlFileSafe DEF Promote, SafeInv, Shapes
<1> QED
  BY <1>1, <1>2, <1>3, <1>4, <1>5, <1>6, <1>7, <1>8, <1>9

\* The steps of tiko_pitr recover, its rollback and its being killed.
LEMMA RecoverSafe ==
  ASSUME SafeInv, Recover
  PROVE  SafeInv'
<1> USE DEF SafeInv, Shapes, CopyInv, CopyPcs, PgdataKept
<1>1. CASE RecoverBegin
  BY <1>1 DEF RecoverBegin, pgVars
<1>2. CASE SnapshotStart
  BY <1>2 DEF SnapshotStart, NoRec, Torn
<1>3. CASE SnapshotEnd
  BY <1>3 DEF SnapshotEnd
<1>4. CASE Wipe
  BY <1>4 DEF Wipe, Torn
<1>5. CASE Materialize
  BY <1>5 DEF Materialize, pgVars
<1>6. CASE DeleteAllSegments
  BY <1>6 DEF DeleteAllSegments, pgVars
<1>7. CASE Configure
  BY <1>7 DEF Configure
<1>8. CASE RecoverDone
  BY <1>8 DEF RecoverDone, Cleanup, NoRec
<1>9. CASE RecoverFail
  BY <1>9 DEF RecoverFail
<1>10. CASE RollbackWipe
  BY <1>10 DEF RollbackWipe, Torn
<1>11. CASE RollbackRestore
  <2>1. pgdata' \in bak
    BY <1>11 DEF RollbackRestore
  <2> QED
    BY <1>11, <2>1 DEF RollbackRestore
<1>12. CASE RollbackDone
  BY <1>12 DEF RollbackDone, Cleanup, NoRec
<1>13. CASE ToolCrash
  BY <1>13 DEF ToolCrash, NoRec, pgVars
<1> QED
  BY <1>1, <1>2, <1>3, <1>4, <1>5, <1>6, <1>7, <1>8, <1>9, <1>10, <1>11, <1>12, <1>13
  DEF Recover

\* A branch unpacks a PGDATA of its own, while no recovery is under way.
LEMMA BranchSafe ==
  ASSUME SafeInv, Branch
  PROVE  SafeInv'
<1>1. /\ pgdata'.ok /\ "ok" \in DOMAIN pgdata'
      /\ UNCHANGED <<bak, rec>>
      /\ rec.pc = "idle"
  BY DEF Branch
<1> QED
  BY <1>1 DEF SafeInv, Shapes, CopyInv, CopyPcs, PgdataKept

\* Wherever tiko_pitr recover stops, failed or killed, PGDATA or its copy is complete.
THEOREM RecoveryKeepsPgdata == Spec => []PgdataKept
<1>1. SafeInv /\ [Next]_vars => SafeInv'
  <2> SUFFICES ASSUME SafeInv, [Next]_vars PROVE SafeInv'
    OBVIOUS
  <2>1. CASE UNCHANGED vars
    BY <2>1, FrameSafe DEF vars, pgVars
  <2>2. CASE Recover
    BY <2>2, RecoverSafe
  <2>3. CASE Branch
    BY <2>3, BranchSafe
  <2>4. CASE Next /\ ~Recover /\ ~Branch
    BY <2>4, DatabaseSafe DEF Next
  <2> QED
    BY <2>1, <2>2, <2>3, <2>4
<1>2. SafeInv => PgdataKept
  BY DEF SafeInv, CopyInv
<1> QED
  BY InitSafe, <1>1, <1>2, PTL DEF Spec
=============================================================================
