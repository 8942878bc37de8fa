SPECIFICATION Spec
CONSTANTS
  t1 = t1
  t2 = t2
  b1 = b1
  b2 = b2
  Chunks <- OneChunk
  Backends <- OneBackend
  WindowSize = 1
  SegRange = 1
  MaxLsn = 3
  MaxWrites = 2
  MaxFailures = 0
  Basebackups = TRUE
INVARIANTS ReadLatest NoIntervalLost BackupAnchored
