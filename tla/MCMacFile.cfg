SPECIFICATION FairSpec
CONSTANTS
  Start <- MCStart
  Zero = 0
  Byte = 9
  InSize = 4
  OutSize = 2
  fBlockSize = 2
  MaxLength = 5
  MayFail = TRUE
INVARIANT TypeOK
PROPERTIES
  ImplementsFile
  SyncReportsLoss
  CallsReturn
