------------------------------ MODULE MCMTUdp ------------------------------
(***************************************************************************)
(* The instance of GUSIMTUdp that TLC checks: an empty datagram and one of *)
(* one byte from two peers, the first of which the socket is connected to  *)
(* at times, and one that is too large for the buffers.                    *)
(***************************************************************************)
EXTENDS GUSIMTUdp

CONSTANTS P, Q

SomeDatagrams ==
  {[peer |-> P, len |-> 0], [peer |-> Q, len |-> 1], [peer |-> Q, len |-> 3]}
=============================================================================
