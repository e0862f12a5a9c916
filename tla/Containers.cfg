CONSTANTS
  MaxInt = 15
  FileSizes = {0, 6, 9}
  LargeSizes = {1, 3, 14, 15, 16}
  Grown = 3
SPECIFICATION FairSpec
INVARIANTS
  TypeOK
  WalksStayInside
  DimensionsAreOfOneVideoTrack
  NothingIsReadAfterBoth
PROPERTIES
  WalksMoveForward
  ParsingEnds
CHECK_DEADLOCK FALSE
