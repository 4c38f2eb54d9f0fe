CONSTANTS
  Console = con
  Consoles = 1
  NoSocket = nil
  Garbage = garbage
  Sockets = {con, a, b}
  Threads = {t1, t2, t3}
  SIZE = 3
  BufferSize = 2
  Lengths = {1, 3}
SPECIFICATION Spec
SYMMETRY Symmetry
INVARIANTS TypeOK RefsAgree PeersMutual SleeperWaits
CHECK_DEADLOCK FALSE
