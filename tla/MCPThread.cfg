SPECIFICATION FairSpec
CONSTANTS
  Threads = {t1, t2, t3}
  Nobody = nobody
  MaxHolds = 2
INVARIANTS
  TypeOK
  HolderInFront
  OwnerAwake
  WaiterReachable
PROPERTIES
  LockReturns
  ImplementsMonitor
