---------------------------- MODULE MCRingBuffer ----------------------------
(***************************************************************************)
(* The instance of GUSIRingBuffer that TLC checks.                         *)
(***************************************************************************)
EXTENDS GUSIRingBufferStream
=============================================================================
