------------------------------- MODULE MCDraft -------------------------------
(* Model-checking instances of Draft.                                      *)
EXTENDS Draft, TLC

CONSTANTS t1, t2, t3, b1, b2, f1, f2

\* Two chunks that share a shard, and one in the next.
MCChunks   == {t1, t2, t3}
MCShardOf  == (t1 :> 0) @@ (t2 :> 0) @@ (t3 :> 1)
MCForks    == {f1, f2}
MCBackends == {b1, b2}

DraftSymmetry ==
  Permutations({t1, t2}) \cup Permutations(Forks) \cup Permutations(Backends)
=============================================================================
