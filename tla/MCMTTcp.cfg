SPECIFICATION Spec
CONSTANTS
  Size = 4
  MaxWrite = 3
  MayFail = TRUE
INVARIANTS
  TypeOK
  TransfersAlive
  SleeperWaits
CHECK_DEADLOCK FALSE
