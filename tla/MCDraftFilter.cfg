SPECIFICATION Spec
CONSTANTS
  t1 = t1
  t2 = t2
  t3 = t3
  b1 = b1
  b2 = b2
  f1 = f1
  f2 = f2
  Free = Free
  Backends <- MCBackends
  Chunks <- MCChunks
  Forks <- MCForks
  ShardOf <- MCShardOf
  NumShards = 2
  ShardCap = 1
  RelforkCap = 1
  MaxRecords = 1
  MaxFailures = 0
SYMMETRY DraftSymmetry
INVARIANTS NoFalseNegative
