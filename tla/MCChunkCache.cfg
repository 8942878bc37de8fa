SPECIFICATION Spec
CONSTANTS
  t1 = t1
  t2 = t2
  b1 = b1
  b2 = b2
  ck = ck
  NoTag = NoTag
  Backends <- MCBackends
  Chunks <- MCChunks
  Flushers <- MCFlushers
  Blocks <- MCBlocks
  BucketOf <- MCBuckets
  Reads <- MCReads
  Patches <- MCPatches
  Flushes <- MCFlushes
  Truncations <- MCTruncations
  NumSlots = 2
  MaxWrites = 2
  MaxFailures = 1
  MaxTruncates = 1
INVARIANTS TypeOK Coherent ReadsRight FlushCovers
