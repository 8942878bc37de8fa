---------------------------- MODULE RWLockProofs ----------------------------
(***************************************************************************)
(* AtomicRWLock is exclusive for every number of threads below 2^30.       *)
(*                                                                         *)
(* Mutual exclusion is not inductive: it follows from what the word says   *)
(* about the guards.  LockInv states it: the word is EXCLUSIVE exactly     *)
(* when one thread holds the WriteGuard, and otherwise counts the          *)
(* ReadGuards.                                                             *)
(***************************************************************************)
EXTENDS RWLock, FiniteSetTheorems, TLAPS

Holders(n) == state = n \/ state = WRITER_PENDING + n

LockInv ==
  /\ pc \in [Threads -> PcValues]
  /\ seen \in [Threads -> Int]
  /\ state \in Int
  /\ \A t, u \in Threads : pc[t] = "writing" /\ pc[u] = "writing" => t = u
  /\ \A t \in Threads : pc[t] = "writing" => state = EXCLUSIVE
  /\ state = EXCLUSIVE => Reading = {}
  /\ state # EXCLUSIVE => Holders(Cardinality(Reading))
  /\ \A t \in Threads : pc[t] \in {"read_cas", "write_mark"} =>
                          seen[t] >= 0 /\ ~IsPending(seen[t])
  /\ PendingHasWriter

\* All the proofs need of the constant: it is a positive integer.
LEMMA PendingBit == WRITER_PENDING \in Int /\ WRITER_PENDING > 0
BY SMT DEF WRITER_PENDING

\* The number of read guards, before and after one is handed out or dropped.
LEMMA ReadingCard ==
  /\ IsFiniteSet(Reading)
  /\ Cardinality(Reading) \in Nat
  /\ Cardinality(Threads) \in Nat
  /\ Cardinality(Reading) <= Cardinality(Threads)
<1>1. Reading \subseteq Threads
  BY DEF Reading
<1>2. IsFiniteSet(Threads)
  BY ThreadsAssumption
<1> QED
  BY <1>1, <1>2, FS_Subset, FS_CardinalityType

LEMMA ReadingCardNext ==
  /\ IsFiniteSet(Reading')
  /\ Cardinality(Reading') \in Nat
  /\ Cardinality(Reading') <= Cardinality(Threads)
<1>1. Reading' \subseteq Threads
  BY DEF Reading
<1>2. IsFiniteSet(Threads)
  BY ThreadsAssumption
<1> QED
  BY <1>1, <1>2, FS_Subset, FS_CardinalityType

LEMMA ReadingGrows ==
  ASSUME NEW t \in Threads, pc \in [Threads -> PcValues],
         pc[t] # "reading", Goto(t, "reading")
  PROVE  Cardinality(Reading') = Cardinality(Reading) + 1
<1>1. Reading' = Reading \cup {t} /\ t \notin Reading
  BY DEF Reading, Goto
<1> QED
  BY <1>1, ReadingCard, FS_AddElement

LEMMA ReadingShrinks ==
  ASSUME NEW t \in Threads, pc \in [Threads -> PcValues],
         pc[t] = "reading", Goto(t, "idle")
  PROVE  /\ Cardinality(Reading') = Cardinality(Reading) - 1
         /\ Cardinality(Reading) >= 1
<1>1. Reading' = Reading \ {t} /\ t \in Reading
  BY DEF Reading, Goto
<1>2. Cardinality(Reading') = Cardinality(Reading) - 1
  BY <1>1, ReadingCard, FS_RemoveElement
<1> QED
  BY <1>2, ReadingCardNext, ReadingCard

LEMMA ReadingSame ==
  ASSUME NEW t \in Threads, NEW l, pc \in [Threads -> PcValues],
         pc[t] # "reading", l # "reading", Goto(t, l)
  PROVE  Reading' = Reading
BY DEF Reading, Goto

LEMMA InitLock == Init => LockInv
<1> SUFFICES ASSUME Init PROVE LockInv
  OBVIOUS
<1>1. Reading = {}
  BY DEF Init, Reading
<1>2. Cardinality(Reading) = 0
  BY <1>1, FS_EmptySet
<1> QED
  BY <1>1, <1>2, PendingBit DEF Init, LockInv, Holders, PcValues, PendingHasWriter, IsPending,
                    EXCLUSIVE

\* Every atomic operation keeps the word and the guards in agreement.
LEMMA NextLock == LockInv /\ [Next]_vars => LockInv'
<1> SUFFICES ASSUME LockInv, [Next]_vars PROVE LockInv'
  OBVIOUS
<1> USE PendingBit, ThreadsAssumption, ReadingCard, ReadingCardNext
    DEF LockInv, Holders, PendingHasWriter, IsPending, EXCLUSIVE
<1>1. ASSUME NEW t \in Threads, Read(t) PROVE LockInv'
  <2>1. Reading' = Reading
    BY <1>1, ReadingSame DEF Read
  <2> QED
    BY <1>1, <2>1 DEF Read, Goto, PcValues, ReadSteps, WriteSteps
<1>2. ASSUME NEW t \in Threads, ReadLoad(t) PROVE LockInv'
  <2>1. Reading' = Reading
    BY <1>2, ReadingSame DEF ReadLoad
  <2> QED
    BY <1>2, <2>1 DEF ReadLoad, Goto, PcValues, ReadSteps, WriteSteps
<1>3. ASSUME NEW t \in Threads, ReadCas(t) PROVE LockInv'
  <2>1. CASE state = seen[t] /\ state' = seen[t] + 1 /\ Goto(t, "reading")
    <3>1. Cardinality(Reading') = Cardinality(Reading) + 1
      BY <1>3, <2>1, ReadingGrows DEF ReadCas
    <3>2. state = Cardinality(Reading) /\ state' = Cardinality(Reading')
      BY <1>3, <2>1, <3>1 DEF ReadCas
    <3>3. state' >= 0 /\ ~IsPending(state')
      BY <3>2
    <3>4. \A u \in Threads : pc[u] # "writing"
      BY <1>3, <2>1 DEF ReadCas
    <3> QED
      BY <1>3, <2>1, <3>2, <3>3, <3>4 DEF ReadCas, Goto, PcValues, ReadSteps, WriteSteps
  <2>2. CASE Goto(t, "read_load") /\ UNCHANGED state
    <3>1. Reading' = Reading
      BY <1>3, <2>2, ReadingSame DEF ReadCas
    <3> QED
      BY <1>3, <2>2, <3>1 DEF ReadCas, Goto, PcValues, ReadSteps, WriteSteps
  <2> QED
    BY <1>3, <2>1, <2>2 DEF ReadCas, Cas
<1>4. ASSUME NEW t \in Threads, DropReadGuard(t) PROVE LockInv'
  <2>1. /\ Cardinality(Reading') = Cardinality(Reading) - 1
        /\ Cardinality(Reading) >= 1
    BY <1>4, ReadingShrinks DEF DropReadGuard
  <2>2. state # EXCLUSIVE
    BY <1>4 DEF DropReadGuard, Reading
  <2>3. state' # EXCLUSIVE /\ Holders(Cardinality(Reading))'
    BY <1>4, <2>1, <2>2 DEF DropReadGuard
  <2>4. PendingHasWriter'
    BY <1>4, <2>1, <2>2 DEF DropReadGuard, Goto, WriteSteps
  <2> QED
    BY <1>4, <2>2, <2>3, <2>4 DEF DropReadGuard, Goto, PcValues, ReadSteps, WriteSteps
<1>5. ASSUME NEW t \in Threads, Write(t) PROVE LockInv'
  <2>1. Reading' = Reading
    BY <1>5, ReadingSame DEF Write
  <2> QED
    BY <1>5, <2>1 DEF Write, Goto, PcValues, ReadSteps, WriteSteps
<1>6. ASSUME NEW t \in Threads, WriteFast(t) \/ WriteTake(t) PROVE LockInv'
  <2>1. CASE state \in {0, WRITER_PENDING} /\ state' = EXCLUSIVE /\ Goto(t, "writing")
    <3>1. Reading' = Reading
      BY <1>6, <2>1, ReadingSame DEF WriteFast, WriteTake
    <3>2. Cardinality(Reading) = 0
      BY <2>1
    <3>3. Reading' = {}
      BY <3>1, <3>2, FS_EmptySet
    <3> QED
      BY <1>6, <2>1, <3>3 DEF WriteFast, WriteTake, Goto, PcValues, ReadSteps, WriteSteps
  <2>2. CASE (Goto(t, "write_load") \/ Goto(t, "write_fast")) /\ UNCHANGED state
    <3>1. Reading' = Reading
      BY <1>6, <2>2, ReadingSame DEF WriteFast, WriteTake
    <3> QED
      BY <1>6, <2>2, <3>1 DEF WriteFast, WriteTake, Goto, PcValues, ReadSteps, WriteSteps
  <2> QED
    BY <1>6, <2>1, <2>2 DEF WriteFast, WriteTake, Cas
<1>7. ASSUME NEW t \in Threads, WriteLoad(t) PROVE LockInv'
  <2>1. Reading' = Reading
    BY <1>7, ReadingSame DEF WriteLoad
  <2> QED
    BY <1>7, <2>1 DEF WriteLoad, Goto, PcValues, ReadSteps, WriteSteps, ReaderCount
<1>8. ASSUME NEW t \in Threads, WriteMark(t) PROVE LockInv'
  <2>1. Reading' = Reading
    BY <1>8, ReadingSame DEF WriteMark, Cas
  <2> QED
    BY <1>8, <2>1 DEF WriteMark, Cas, Goto, PcValues, ReadSteps, WriteSteps
<1>9. ASSUME NEW t \in Threads, TryWrite(t) PROVE LockInv'
  <2>1. Reading' = Reading
    BY <1>9, ReadingSame DEF TryWrite
  <2>2. Cardinality(Reading) = 0
    BY <1>9 DEF TryWrite
  <2>3. Reading' = {}
    BY <2>1, <2>2, FS_EmptySet
  <2> QED
    BY <1>9, <2>3 DEF TryWrite, Goto, PcValues, ReadSteps, WriteSteps
<1>10. ASSUME NEW t \in Threads, DropWriteGuard(t) PROVE LockInv'
  <2>1. Reading' = Reading
    BY <1>10, ReadingSame DEF DropWriteGuard
  <2>2. Cardinality(Reading') = 0
    BY <1>10, <2>1, FS_EmptySet DEF DropWriteGuard
  <2> QED
    BY <1>10, <2>1, <2>2 DEF DropWriteGuard, Goto, PcValues, ReadSteps, WriteSteps
<1>11. CASE UNCHANGED vars
  <2>1. Reading' = Reading
    BY <1>11 DEF vars, Reading
  <2> QED
    BY <1>11, <2>1 DEF vars
<1> QED
  BY <1>1, <1>2, <1>3, <1>4, <1>5, <1>6, <1>7, <1>8, <1>9, <1>10, <1>11 DEF Next

LEMMA LockInvariant == Spec => []LockInv
<1> QED
  BY InitLock, NextLock, PTL DEF Spec

\* The word is always EXCLUSIVE or a reader count with or without the pending
\* bit, for every number of threads.
THEOREM TypeCorrect == Spec => []TypeOK
<1>1. LockInv => TypeOK
  BY PendingBit, ReadingCard, ThreadsAssumption, FS_CardinalityType
     DEF LockInv, TypeOK, Holders, EXCLUSIVE
<1> QED
  BY <1>1, LockInvariant, PTL

\* A WriteGuard excludes every other guard, for every number of threads: what
\* push_active, set_base_ckpt and the draft's drain rely on when they mutate
\* shared memory through &self.
THEOREM Exclusive == Spec => []MutualExclusion
<1>1. LockInv => MutualExclusion
  BY DEF LockInv, MutualExclusion, Reading
<1> QED
  BY <1>1, LockInvariant, PTL

\* The pending bit always belongs to a thread inside write(): no release path
\* leaves it behind to block the readers.
THEOREM PendingOwned == Spec => []PendingHasWriter
<1>1. LockInv => PendingHasWriter
  BY DEF LockInv
<1> QED
  BY <1>1, LockInvariant, PTL

=============================================================================
