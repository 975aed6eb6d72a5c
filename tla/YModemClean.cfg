\* A line that answers in time and damages nothing; three blocks, so that the
\* block number wraps, the last of them filled up; local failures and a second
\* transfer on either side.
SPECIFICATION FairSpec
CONSTANTS
  TimeDivide = 2
  TimeMax = 2
  ErrorMax = 2
  Blocks = 3
  SohSize = 2
  StxSize = 4
  CanNumber = 2
  FileSize = 9
  Spaced = FALSE
  Prompt = TRUE
  LocalFaults = TRUE
  Cancels = FALSE
  MaxRuns = 2
  MaxFaults = 0
INVARIANTS
  Agreement
  TakeTurns
PROPERTIES
  ImplementsFileTransfer
  HeaderLeadsToFinish
CHECK_DEADLOCK FALSE
