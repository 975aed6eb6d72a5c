\* A line that loses and damages packets, and answers in time while it does not; four
\* blocks; cancels and local failures.
SPECIFICATION FairSpec
CONSTANTS
  TimeDivide = 1
  TimeMax = 1
  ErrorMax = 1
  Blocks = 4
  SohSize = 2
  StxSize = 4
  CanNumber = 2
  FileSize = 9
  Spaced = FALSE
  Prompt = TRUE
  LocalFaults = TRUE
  Cancels = TRUE
  MaxRuns = 1
  MaxFaults = 3
INVARIANTS
  TypeOK
  TxHandle
  RxHandle
  NoStraySlot
  RxToldOnce
  TxToldAtMostOnce
  RxWithinSize
  LossKeepsOrder
  InPlace
PROPERTIES
  TxSilentAfterEnd
  TxEnds
  RxEnds
CHECK_DEADLOCK FALSE
