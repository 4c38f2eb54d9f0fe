----------------------------- MODULE PosixFile -----------------------------
(***************************************************************************)
(* What an open file promises: a sequence of bytes and a position.  Once   *)
(* the program has been cheated of the position, or data that it has       *)
(* written could not be stored (lost), nothing is promised any more.       *)
(***************************************************************************)
EXTENDS Naturals, Sequences

CONSTANT Zero   \* the byte that fills the room beyond the end of the file

VARIABLES content, offset,
          data,   \* the bytes a read delivers
          lost
vars == <<content, offset, data, lost>>

\* s, written over f from position at on.
Overlay(f, at, s) == SubSeq(f, 1, at) \o s \o SubSeq(f, at + Len(s) + 1, Len(f))

Read ==
  /\ offset < Len(content)
  /\ \E to \in offset + 1 .. Len(content) :
       /\ data' = SubSeq(content, offset + 1, to)
       /\ offset' = to
  /\ UNCHANGED <<content, lost>>

\* All or part of what a write is given.
Write(bytes) ==
  /\ offset <= Len(content)
  /\ content' = Overlay(content, offset, bytes)
  /\ offset' = offset + Len(bytes)
  /\ UNCHANGED <<data, lost>>

\* A write beyond the end of the file first fills the room in between.
Extend ==
  /\ offset > Len(content)
  /\ \E n \in 1 .. offset - Len(content) :
       content' = content \o [i \in 1 .. n |-> Zero]
  /\ UNCHANGED <<offset, data, lost>>

\* A new position is one that can be relied on again.
Lseek ==
  /\ offset' \in Nat /\ lost' \in {lost, FALSE}
  /\ UNCHANGED <<content, data>>

\* ftruncate, which takes the position along.
Truncate ==
  /\ \E n \in 0 .. Len(content) : content' = SubSeq(content, 1, n) /\ offset' = n
  /\ lost' \in {lost, FALSE}
  /\ UNCHANGED data

\* The next call begins.
Forget == data' = <<>> /\ UNCHANGED <<content, offset, lost>>

Lose == lost'

Init(start) == content = start /\ offset = 0 /\ data = <<>> /\ lost = FALSE

Next(Bytes) ==
  \/ Read \/ Extend \/ Lseek \/ Truncate \/ Forget \/ Lose
  \/ \E b \in Bytes : Write(b)
=============================================================================
