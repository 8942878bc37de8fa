SPECIFICATION Spec
CONSTANTS
  c1 = c1
  c2 = c2
  Chunks <- OneChunk
  InitdbChunks <- OneChunk
  Relforks <- NoChunks
  WindowSize = 3
  SegRange = 1
  IndexCap = 0
  MaxRecords = 1
  MaxCheckpoints = 3
  MaxRecovers = 0
  MaxEvents = 2
CHECK_DEADLOCK FALSE
INVARIANT WindowCurrent
