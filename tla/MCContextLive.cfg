SPECIFICATION FairSpec
CONSTANTS
  Main = main
  Threads = {t1}
  Nobody = nobody
  RoundRobin = TRUE
PROPERTY WaitsEnd
