SPECIFICATION SelectSpec
CONSTANTS
  Console = con
  Consoles = 1
  NoSocket = nil
  Garbage = garbage
  Sockets = {con, a}
  Contexts = {t1, t2}
  SIZE = 2
  MaxLeft = 1
INVARIANTS
  SelectTypeOK
  QueuedWhileWaiting
  SelectorWaits
PROPERTY SleepUndisturbed
SYMMETRY Symmetry
CHECK_DEADLOCK FALSE
