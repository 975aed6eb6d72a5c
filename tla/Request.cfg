\* Numbers unique on the channel; the number wraps with the third request.
SPECIFICATION FairSpec
CONSTANTS
  SeqMax = 3
  Timeout = 3
  Interval = 2
  Resends = FALSE
  PeerCounts = FALSE
  MaxRequests = 3
  MaxPushes = 1
INVARIANTS
  TypeOK
  CalledOnce
  WaitingIsPending
  PendingWaits
  OkIsItsAnswer
  NeverEarly
  NeverLate
PROPERTIES
  ImplementsRequestReply
  EveryRequestEnds
