SPECIFICATION Spec
CONSTANTS
  SegSize = 2
  ChunkBytes = 1
  SegsPerLogId = 2
  MaxLsn = 7
  StartLsn = 0
  MaxFaults = 0
  MaxCheckpoints = 0
INVARIANTS ConfirmedArchived
