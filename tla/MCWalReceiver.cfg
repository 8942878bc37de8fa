SPECIFICATION FairSpec
CONSTANTS
  SegSize = 3
  ChunkBytes = 2
  SegsPerLogId = 256
  MaxLsn = 5
  StartLsn = 1
  MaxFaults = 2
  MaxCheckpoints = 1
INVARIANTS TypeOK ConfirmedArchived SealedWhole TailArchived TailWindow
PROPERTIES Confirmed
