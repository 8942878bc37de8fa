----------------------------- MODULE MCChunkCache -----------------------------
(* Model-checking instances of ChunkCache.                                 *)
EXTENDS ChunkCache, TLC

CONSTANTS t1, t2, b1, b2, ck

MCChunks   == {t1, t2}
MCBackends == {b1, b2}
MCFlushers == {ck, b2}
MCBlocks   == {1, 2}

\* The backend that syncs also reads what both patch.
MCReads == {<<b2, t1>>}

\* Both backends patch their own block of t1; one writes t2 as a whole.
MCPatches == {<<b1, t1, {1}>>, <<b2, t1, {2}>>, <<b1, t2, {1, 2}>>}

\* The checkpointer flushes everything; beside it a backend syncs t1's fork.
MCFlushes == {<<ck, {t1, t2}>>, <<b2, {t1}>>}

\* t2's fork may be truncated.
MCTruncations == {{t2}}

\* Every tag in a bucket of its own.
MCBuckets == (t1 :> 0) @@ (t2 :> 1) @@ (NoTag :> 2)
=============================================================================
