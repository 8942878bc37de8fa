--------------------------- MODULE MCTimelineStore ---------------------------
(* Model-checking instances of TimelineStore.                              *)
EXTENDS TimelineStore, TLC

CONSTANTS t1, t2, b1, b2

OneChunk  == {t1}
TwoChunks == {t1, t2}
OneBackend  == {b1}
TwoBackends == {b1, b2}

StoreSymmetry == Permutations(Chunks) \cup Permutations(Backends)
=============================================================================
