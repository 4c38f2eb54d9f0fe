------------------------ MODULE GUSIRingBufferStream ------------------------
(***************************************************************************)
(* A GUSIRingBuffer implements a ByteStream: the queue is what is valid in *)
(* the buffers of the chain, the object itself first.                      *)
(***************************************************************************)
EXTENDS GUSIRingBuffer, SequencesExt

InFlight ==
  FlattenSeq([g \in 1 .. newest |->
                IF g \in live THEN Contents(ring[g], mem[g]) ELSE <<>>])

Stream == INSTANCE ByteStream WITH Byte <- Bytes, queue <- InFlight, out <- out

(***************************************************************************)
(* Every behaviour of the buffer, with its skipped ends, its half-filled   *)
(* and abandoned blocks and its changes of memory, is one of a stream.     *)
(***************************************************************************)
ImplementsStream == Stream!Spec
=============================================================================
