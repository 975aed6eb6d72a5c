\* Three items, packets of three and four bytes, cut everywhere; a byte is lost.
SPECIFICATION FairSpec
CONSTANTS
  SohLength = 3
  StxLength = 4
  MaxItems = 3
  MaxLost = 1
INVARIANTS
  TypeOK
PROPERTIES
  ImplementsItemLine
  EveryItemIsRead
CHECK_DEADLOCK FALSE
