\* Two parsers, two frames, pieces of every clean cut; closed once.
SPECIFICATION FairSpec
CONSTANTS
  Types = 2
  BigEndian = TRUE
  MaxGot = 2
  StreamEnd = 10
  LeastPiece = 2
  Races = FALSE
  MaxCloses = 1
  MaxFrames = 2
  MaxBody = 1
  CleanCuts = TRUE
INVARIANTS
  TypeOK
  NothingLost
  CallbackFirst
  NothingLeft
PROPERTIES
  SilentAfterClose
  ImplementsFrameDelivery
  CloseReturns
  EveryFrameIsHandedOver
CHECK_DEADLOCK FALSE
