SPECIFICATION Spec
CONSTANTS
  Main = main
  Threads = {t1, t2}
  Nobody = nobody
  RoundRobin = FALSE
INVARIANTS
  TypeOK
  CountsAgree
  WakeupNotLost
  MainSleepsUnwoken
