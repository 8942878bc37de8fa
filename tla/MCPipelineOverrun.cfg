SPECIFICATION FairSpec
CONSTANTS
  b1 = b1
  b2 = b2
  Nobody = Nobody
  Backends <- MCBackends
  QueueSize = 1
  ChannelSize = 1
  MaxRequests = 2
  Invalid = {}
  MaxStops = 0
  MaxAttaches = 0
PROPERTIES Backpressure
