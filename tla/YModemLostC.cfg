\* One packet is lost.
SPECIFICATION Spec
CONSTANTS
  TimeDivide = 1
  TimeMax = 1
  ErrorMax = 2
  Blocks = 3
  SohSize = 2
  StxSize = 4
  CanNumber = 2
  FileSize = 5
  Spaced = FALSE
  Prompt = TRUE
  LocalFaults = FALSE
  Cancels = FALSE
  MaxRuns = 1
  MaxFaults = 1
INVARIANTS
  RxFinishMeansComplete
CHECK_DEADLOCK FALSE
