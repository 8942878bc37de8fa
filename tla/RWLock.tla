------------------------------- MODULE RWLock -------------------------------
(***************************************************************************)
(* AtomicRWLock (core/src/io/utils/rw_lock.rs): the spin lock in shared    *)
(* memory that fences the timeline state and the cache partitions.  One    *)
(* i32 word holds everything: -1 is write-locked, bit 30 says that a       *)
(* writer is waiting, the low 30 bits count the readers.                   *)
(*                                                                         *)
(* Every atomic operation on the word is one step, so a thread can be      *)
(* overtaken between the load of the word and the compare-and-swap that    *)
(* relies on it.  `seen[t]` is the local variable `s` of read and write.   *)
(***************************************************************************)
EXTENDS Integers, FiniteSets

CONSTANTS
  Threads,   \* backends and Tokio threads that share the lock
  WeakCas    \* TRUE: compare_exchange_weak may fail although the word matches

EXCLUSIVE      == -1
WRITER_PENDING == 1073741824     \* bit 30

\* The reader count has 30 bits: it never runs into the pending bit.
ASSUME ThreadsAssumption ==
  /\ IsFiniteSet(Threads)
  /\ Cardinality(Threads) < WRITER_PENDING
  /\ WeakCas \in BOOLEAN

VARIABLES
  state,     \* the atomic word
  pc,        \* where each thread is in read, write, try_write or a guard
  seen       \* the word as the thread last loaded it

vars == <<state, pc, seen>>

ReadSteps  == {"read_load", "read_cas"}
WriteSteps == {"write_fast", "write_load", "write_mark", "write_take"}
PcValues   == {"idle", "reading", "writing"} \cup ReadSteps \cup WriteSteps

Reading == {t \in Threads : pc[t] = "reading"}

\* s & WRITER_PENDING and s & READER_MASK, for a word that is not EXCLUSIVE.
IsPending(s)   == s >= WRITER_PENDING
ReaderCount(s) == IF IsPending(s) THEN s - WRITER_PENDING ELSE s

Goto(t, l) == pc' = [pc EXCEPT ![t] = l]

\* compare_exchange: `ok` names the next location on success, `no` on failure.
Cas(t, old, new, ok, no) ==
  \/ /\ state = old
     /\ state' = new
     /\ Goto(t, ok)
  \/ /\ state # old \/ WeakCas
     /\ Goto(t, no)
     /\ UNCHANGED state

Init ==
  /\ state = 0
  /\ pc = [t \in Threads |-> "idle"]
  /\ seen = [t \in Threads |-> 0]

-----------------------------------------------------------------------------
(* read() and the drop of its guard *)

Read(t) ==
  /\ pc[t] = "idle"
  /\ Goto(t, "read_load")
  /\ UNCHANGED <<state, seen>>

\* Mutant: readers ignore the pending bit.
ReadLoadIgnoringPending(t) ==
  /\ pc[t] = "read_load"
  /\ seen' = [seen EXCEPT ![t] = state]
  /\ Goto(t, IF state >= 0 THEN "read_cas" ELSE "read_load")
  /\ UNCHANGED state

\* Load the word; spin unless it is neither write-locked nor pending.
ReadLoad(t) ==
  /\ pc[t] = "read_load"
  /\ seen' = [seen EXCEPT ![t] = state]
  /\ Goto(t, IF state >= 0 /\ ~IsPending(state) THEN "read_cas" ELSE "read_load")
  /\ UNCHANGED state

\* Mutant: a plain store of s + 1 in place of the compare-and-swap.
ReadCasByStore(t) ==
  /\ pc[t] = "read_cas"
  /\ state' = seen[t] + 1
  /\ Goto(t, "reading")
  /\ UNCHANGED seen

ReadCas(t) ==
  /\ pc[t] = "read_cas"
  /\ Cas(t, seen[t], seen[t] + 1, "reading", "read_load")
  /\ UNCHANGED seen

\* Mutant: a guard dropped twice.
DropReadGuardTwice(t) ==
  /\ pc[t] = "reading"
  /\ state' = state - 2
  /\ Goto(t, "idle")
  /\ UNCHANGED seen

DropReadGuard(t) ==
  /\ pc[t] = "reading"
  /\ state' = state - 1
  /\ Goto(t, "idle")
  /\ UNCHANGED seen

-----------------------------------------------------------------------------
(* write(), try_write() and the drop of their guard *)

Write(t) ==
  /\ pc[t] = "idle"
  /\ Goto(t, "write_fast")
  /\ UNCHANGED <<state, seen>>

\* Fast path: unlocked -> exclusive.
WriteFast(t) ==
  /\ pc[t] = "write_fast"
  /\ Cas(t, 0, EXCLUSIVE, "writing", "write_load")
  /\ UNCHANGED seen

\* Load the word and branch on it: spin, announce the writer, or take over
\* from the last reader.
WriteLoad(t) ==
  /\ pc[t] = "write_load"
  /\ seen' = [seen EXCEPT ![t] = state]
  /\ Goto(t, IF state = EXCLUSIVE THEN "write_fast"
             ELSE IF ~IsPending(state) THEN "write_mark"
             ELSE IF ReaderCount(state) = 0 THEN "write_take" ELSE "write_fast")
  /\ UNCHANGED state

\* Set WRITER_PENDING; the result of the exchange is ignored.
WriteMark(t) ==
  /\ pc[t] = "write_mark"
  /\ Cas(t, seen[t], seen[t] + WRITER_PENDING, "write_fast", "write_fast")
  /\ UNCHANGED seen

\* All readers have drained: pending -> exclusive.
WriteTake(t) ==
  /\ pc[t] = "write_take"
  /\ Cas(t, WRITER_PENDING, EXCLUSIVE, "writing", "write_fast")
  /\ UNCHANGED seen

\* try_write: one strong exchange, success or None.
TryWrite(t) ==
  /\ pc[t] = "idle"
  /\ state = 0
  /\ state' = EXCLUSIVE
  /\ Goto(t, "writing")
  /\ UNCHANGED seen

\* Mutant: the release keeps the pending bit of whoever waits.
DropWriteGuardKeepingPending(t) ==
  /\ pc[t] = "writing"
  /\ state' = WRITER_PENDING
  /\ Goto(t, "idle")
  /\ UNCHANGED seen

DropWriteGuard(t) ==
  /\ pc[t] = "writing"
  /\ state' = 0
  /\ Goto(t, "idle")
  /\ UNCHANGED seen

-----------------------------------------------------------------------------
Next ==
  \E t \in Threads :
    \/ Read(t) \/ ReadLoad(t) \/ ReadCas(t) \/ DropReadGuard(t)
    \/ Write(t) \/ WriteFast(t) \/ WriteLoad(t) \/ WriteMark(t) \/ WriteTake(t)
    \/ TryWrite(t) \/ DropWriteGuard(t)

Spec == Init /\ [][Next]_vars

(***************************************************************************)
(* Fairness.  A thread inside read or write keeps being scheduled and a    *)
(* guard is eventually dropped (the code holds it across bounded work).    *)
(* The strong assumptions are about the retry loop of write: an exchange   *)
(* that finds the word as expected again and again does not fail for ever, *)
(* neither spuriously nor because a reader came or went since the load.    *)
(* Nobody is obliged to ask for the lock.                                  *)
(***************************************************************************)
Fairness ==
  \A t \in Threads :
    /\ WF_vars(\/ ReadLoad(t) \/ ReadCas(t) \/ DropReadGuard(t)
               \/ WriteFast(t) \/ WriteLoad(t) \/ WriteMark(t) \/ WriteTake(t)
               \/ DropWriteGuard(t))
    /\ SF_vars((WriteMark(t) \/ WriteTake(t)) /\ state' # state)

FairSpec == Spec /\ Fairness

-----------------------------------------------------------------------------
(* Properties *)

\* The word is EXCLUSIVE or a reader count with or without the pending bit: no
\* release or exchange ever makes it anything else (-2, a count that ran into
\* bit 30), which read() and write() would misread for ever.
TypeOK ==
  /\ \/ state = EXCLUSIVE
     \/ state \in 0..Cardinality(Threads)
     \/ state - WRITER_PENDING \in 0..Cardinality(Threads)
  /\ pc \in [Threads -> PcValues]
  /\ seen \in [Threads -> Int]

\* WriteGuard is exclusive: while a thread holds it no other thread holds a
\* ReadGuard or a WriteGuard.  push_active and drain cast &self to &mut on
\* the strength of this.
MutualExclusion ==
  \A t, u \in Threads :
    pc[t] = "writing" /\ t # u => pc[u] \notin {"reading", "writing"}

\* The pending bit is never left behind: whenever it is set some thread is
\* still inside write(), so readers that spin on it wait for somebody.
PendingHasWriter ==
  state >= 0 /\ IsPending(state) => \E t \in Threads : pc[t] \in WriteSteps

\* "eliminating writer starvation under sustained read traffic": when threads
\* wait in write(), one of them or a try_write gets the lock, however often the
\* others read.
WriterEnters ==
  (\E t \in Threads : pc[t] \in WriteSteps) ~> (\E t \in Threads : pc[t] = "writing")
=============================================================================
