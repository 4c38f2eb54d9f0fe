SPECIFICATION UdpSpec
CONSTANTS
  InSize = 4
  OutSize = 3
  HeaderSize = 2
  P = p
  Q = q
  Datagrams <- SomeDatagrams
  Partners = {p}
  NoPeer = NoPeer
INVARIANTS
  DatagramsKept
  SleeperWaits
CHECK_DEADLOCK FALSE
