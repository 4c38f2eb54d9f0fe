SPECIFICATION FairSpec
CONSTANTS
  Size = 2
  MaxWrite = 1
  MayFail = FALSE
PROPERTIES
  ReadReturns
  DestructorEnds
CHECK_DEADLOCK FALSE
