SPECIFICATION Spec
CONSTANTS
  Contexts = {main, t1}
  Main = main
  Process = process
  Signals = {1, 2, 3}
  Sent = {1, 2}
  Alarm = 1
  CantBlock = {3}
  CantChange = {3}
  DefaultIsIgnore = {2}
  Actions <- MCActions
  Masks <- MCMasks
  MaxPosts = 2
  MaxCalls = 2
CHECK_DEADLOCK FALSE
INVARIANTS
  TypeOK
  TakenOncePerPost
  SignalKept
  MaskKept
  WokenForSignal
