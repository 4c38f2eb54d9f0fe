----------------------------- MODULE ByteStream -----------------------------
(***************************************************************************)
(* What a GUSIRingBuffer promises its two parties: a stream.  The bytes    *)
(* come out in the order they went in, none lost, none twice.  queue holds *)
(* the bytes under way and out those that the last step delivered.         *)
(***************************************************************************)
EXTENDS Naturals, SequencesExt

CONSTANT Byte

VARIABLES queue, out

vars == <<queue, out>>

Init == queue = <<>> /\ out = <<>>

Put == /\ queue' \in Seq(Byte)
       /\ IsPrefix(queue, queue')
       /\ out' = <<>>

Get == \E n \in 0 .. Len(queue) :
         /\ out' = SubSeq(queue, 1, n)
         /\ queue' = SubSeq(queue, n + 1, Len(queue))

Next == Put \/ Get

Spec == Init /\ [][Next]_vars
=============================================================================
