SPECIFICATION FairSpec
CONSTANTS
  b1 = b1
  b2 = b2
  Nobody = Nobody
  Backends <- MCBackends
  QueueSize = 2
  ChannelSize = 1
  MaxRequests = 3
  Invalid = {2}
  MaxStops = 1
  MaxAttaches = 1
INVARIANTS TypeOK AnswersRight DispatchedOnce BufferOwned
PROPERTIES Answered
