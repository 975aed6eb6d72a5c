\* Numbers unique on the channel; the peer may answer late.
SPECIFICATION Spec
CONSTANTS
  SeqMax = 3
  Timeout = 3
  Interval = 2
  Resends = FALSE
  PeerCounts = FALSE
  MaxRequests = 2
  MaxPushes = 1
PROPERTIES
  GivenIsUnasked
