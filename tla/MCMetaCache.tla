----------------------------- MODULE MCMetaCache -----------------------------
(* Model-checking instances of MetaCache.                                  *)
EXTENDS MetaCache, TLC

CONSTANTS b1, b2, ck, r1, r2

MCBackends == {b1, b2}
MCRelforks == {r1, r2}
\* Both relations, and the empty slots, in one bucket.
MCBucketOf == [t \in MCRelforks \cup {NoTag} |-> 0]
Symmetry   == Permutations(MCBackends) \cup Permutations(MCRelforks)
=============================================================================
