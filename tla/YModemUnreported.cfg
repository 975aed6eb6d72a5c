\* The receiving user cancels; the sending side runs into its time limit.
SPECIFICATION Spec
CONSTANTS
  TimeDivide = 1
  TimeMax = 1
  ErrorMax = 2
  Blocks = 3
  SohSize = 2
  StxSize = 4
  CanNumber = 2
  FileSize = 5
  Spaced = FALSE
  Prompt = TRUE
  LocalFaults = FALSE
  Cancels = TRUE
  MaxRuns = 1
  MaxFaults = 0
INVARIANTS
  EndIsReported
CHECK_DEADLOCK FALSE
