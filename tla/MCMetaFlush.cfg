SPECIFICATION Spec
CONSTANTS
  b1 = b1
  b2 = b2
  r1 = r1
  r2 = r2
  ck = ck
  NoTag = NoTag
  Checkpointer = ck
  Backends <- MCBackends
  Relforks <- MCRelforks
  BucketOf <- MCBucketOf
  NumSlots = 2
  MaxWrites = 2
  MaxEvents = 2
SYMMETRY Symmetry
INVARIANTS CheckpointComplete
