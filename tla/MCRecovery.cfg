SPECIFICATION Spec
CONSTANTS
  c1 = c1
  c2 = c2
  Chunks <- OneChunk
  InitdbChunks <- NoChunks
  Relforks <- OneRelfork
  WindowSize = 1
  SegRange = 2
  IndexCap = 0
  MaxRecords = 2
  MaxCheckpoints = 2
  MaxRecovers = 1
  MaxEvents = 3
CHECK_DEADLOCK FALSE
INVARIANTS TypeOK Latest AnchorsIntact PgdataKept
