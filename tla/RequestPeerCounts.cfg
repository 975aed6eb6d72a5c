\* Each end numbers what it sends by getNextSeq.
SPECIFICATION Spec
CONSTANTS
  SeqMax = 3
  Timeout = 3
  Interval = 2
  Resends = FALSE
  PeerCounts = TRUE
  MaxRequests = 2
  MaxPushes = 1
INVARIANTS
  OkIsItsAnswer
