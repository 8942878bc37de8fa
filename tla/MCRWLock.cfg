SPECIFICATION FairSpec
CONSTANTS
  t1 = t1
  t2 = t2
  t3 = t3
  Threads <- Threads3
  WeakCas = TRUE
INVARIANTS TypeOK MutualExclusion PendingHasWriter
PROPERTIES WriterEnters
