\* popall swaps while pushqueueAndNotify holds the lock.
SPECIFICATION Spec
CONSTANTS
  Types = 1
  BigEndian = TRUE
  MaxGot = 2
  StreamEnd = 10
  LeastPiece = 2
  Races = TRUE
  MaxCloses = 0
  MaxFrames = 2
  MaxBody = 1
  CleanCuts = TRUE
INVARIANTS
  NothingLost
CHECK_DEADLOCK FALSE
