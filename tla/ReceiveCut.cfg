\* One parser, two frames, pieces cut anywhere.
SPECIFICATION Spec
CONSTANTS
  Types = 1
  BigEndian = TRUE
  MaxGot = 3
  StreamEnd = 10
  LeastPiece = 1
  Races = FALSE
  MaxCloses = 0
  MaxFrames = 2
  MaxBody = 1
  CleanCuts = FALSE
INVARIANTS
  ModelsAreFrames
CHECK_DEADLOCK FALSE
