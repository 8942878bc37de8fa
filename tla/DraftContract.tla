---------------------------- MODULE DraftContract ----------------------------
(***************************************************************************)
(* What the store expects of the draft buffer: a set of chunk tags and a   *)
(* map from relation forks to their last metadata, which only grow until a *)
(* drain hands out exactly their contents.  Only a spill that fails to     *)
(* reach its file may forget something.                                    *)
(***************************************************************************)
EXTENDS Naturals

CONSTANTS
  Chunks,
  Forks,
  Versions   \* metadata is a version number, 0 for none

VARIABLES
  contents,  \* the frame recorded since the last drain
  drained,   \* the frame a drain has returned, empty again once it is taken
  failures   \* spills that failed

EmptyFrame == [chunks |-> {}, relforks |-> [f \in Forks |-> 0]]

Init ==
  /\ contents = EmptyFrame
  /\ drained = EmptyFrame
  /\ failures = 0

RecordChunk(t) ==
  /\ contents' = [contents EXCEPT !.chunks = @ \cup {t}]
  /\ UNCHANGED <<drained, failures>>

RecordRelfork(f, v) ==
  /\ v > contents.relforks[f]
  /\ contents' = [contents EXCEPT !.relforks[f] = v]
  /\ UNCHANGED <<drained, failures>>

Drain ==
  /\ drained' = contents
  /\ contents' = EmptyFrame
  /\ UNCHANGED failures

Commit ==
  /\ drained' = EmptyFrame
  /\ UNCHANGED <<contents, failures>>

\* A frame is lost: what it held is gone, or an earlier version is back.
Lose ==
  /\ failures' = failures + 1
  /\ contents'.chunks \subseteq contents.chunks
  /\ \A f \in Forks : contents'.relforks[f] <= contents.relforks[f]
  /\ UNCHANGED drained

Next ==
  \/ \E t \in Chunks : RecordChunk(t)
  \/ \E f \in Forks, v \in Versions : RecordRelfork(f, v)
  \/ Drain
  \/ Commit
  \/ Lose

Spec == Init /\ [][Next]_<<contents, drained, failures>>
=============================================================================
