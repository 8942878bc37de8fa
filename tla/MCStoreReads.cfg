SPECIFICATION Spec
CONSTANTS
  t1 = t1
  t2 = t2
  b1 = b1
  b2 = b2
  Chunks <- TwoChunks
  Backends <- TwoBackends
  WindowSize = 1
  SegRange = 2
  MaxLsn = 3
  MaxWrites = 2
  MaxFailures = 0
  Basebackups = FALSE
SYMMETRY StoreSymmetry
INVARIANTS TypeOK ReadLatest ReadRegular NoIntervalLost
