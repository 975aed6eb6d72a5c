\* A line that delivers everything in order but as late as it likes.
SPECIFICATION Spec
CONSTANTS
  TimeDivide = 1
  TimeMax = 1
  ErrorMax = 2
  Blocks = 3
  SohSize = 2
  StxSize = 4
  CanNumber = 2
  FileSize = 9
  Spaced = FALSE
  Prompt = FALSE
  LocalFaults = TRUE
  Cancels = TRUE
  MaxRuns = 1
  MaxFaults = 0
INVARIANTS
  FileIsPrefix
  RxFinishMeansComplete
  InStep
CHECK_DEADLOCK FALSE
