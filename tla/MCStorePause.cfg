SPECIFICATION FairSpec
CONSTANTS
  t1 = t1
  t2 = t2
  b1 = b1
  b2 = b2
  Chunks <- OneChunk
  Backends <- OneBackend
  WindowSize = 1
  SegRange = 2
  MaxLsn = 2
  MaxWrites = 1
  MaxFailures = 1
  Basebackups = TRUE
PROPERTIES PauseEnds
