------------------------------ MODULE GUSIRing ------------------------------
(***************************************************************************)
(* The pointer arithmetic of one GUSIRingBuffer (GUSIBuffer.cpp).          *)
(*                                                                         *)
(* A ring is a record of the fields of the class; addresses are offsets    *)
(* from fBuffer, so fBuffer is 0 and fEnd is size.  The operators below    *)
(* are the bodies of the member functions, each as a function from the     *)
(* ring before the call to the ring after it, or to the length it returns. *)
(* The chain of rings that SwitchBuffer builds, the bytes, and the two     *)
(* parties that use a buffer are in module GUSIRingBuffer.                 *)
(***************************************************************************)
EXTENDS Integers

(***************************************************************************)
(* spare counts the bytes at the end of the buffer that fProduce skipped   *)
(* and fConsume still has to skip; inUse is set between ProduceBuffer and  *)
(* the ValidBuffer that answers it.                                        *)
(***************************************************************************)
Ring == [size : Nat, consume : Nat, produce : Nat,
         free : Nat, valid : Nat, spare : Nat, inUse : BOOLEAN]

NewRing(bufsiz) ==
  [size |-> bufsiz, consume |-> 0, produce |-> 0,
   free |-> bufsiz, valid |-> 0, spare |-> 0, inUse |-> FALSE]

Smaller(a, b) == IF a < b THEN a ELSE b

Distance(r, from, to) == IF from > to THEN (r.size - from) + to ELSE to - from

-----------------------------------------------------------------------------

\* An empty ring starts again at fBuffer, so that its free space is one block.
Rewind(r) ==
  IF r.valid = 0
  THEN [r EXCEPT !.produce = 0, !.consume = 0, !.spare = 0, !.free = r.size]
  ELSE r

\* Free space wraps, most of it is at the start, and the end is too short for
\* this request: the "silly window".
SkipsEnd(r, len) ==
  LET streak == r.size - r.produce
  IN  streak < r.free /\ streak < r.free \div 2 /\ streak < len

\* Mutant: the skipped bytes are not remembered.
SkipEndForgettingSpare(r, len) ==
  IF SkipsEnd(r, len)
  THEN [r EXCEPT !.produce = 0, !.free = r.free - (r.size - r.produce)]
  ELSE r

SkipEnd(r, len) ==
  IF SkipsEnd(r, len)
  THEN [r EXCEPT !.spare = r.size - r.produce,
                 !.produce = 0,
                 !.free = r.free - (r.size - r.produce)]
  ELSE r

\* The ring a ProduceBuffer(len) leaves, and the length it returns.
Granting(r, len) == [SkipEnd(Rewind(r), len) EXCEPT !.inUse = TRUE]

\* Mutant: the room up to fEnd counts, but not whether it is free.
GrantLengthIgnoringFree(r, len) ==
  LET s == Granting(r, len)
  IN  Smaller(len, s.size - s.produce)

GrantLength(r, len) ==
  LET s == Granting(r, len)
  IN  Smaller(len, Smaller(s.size - s.produce, s.free))

\* ValidBuffer: the next len bytes after fProduce hold data.
Validated(r, len) ==
  [r EXCEPT !.inUse = FALSE,
            !.valid = @ + len,
            !.free = @ - len,
            !.produce = IF @ + len = r.size THEN 0 ELSE @ + len]

\* ConsumeBuffer: how many of len bytes are valid and contiguous.
LoanLength(r, len) ==
  Smaller(len, Smaller(r.size - r.consume - r.spare, r.valid))

\* Mutant: the skipped end is not given back to the producer.
FreedKeepingSpare(r, len) ==
  IF r.consume + len = r.size - r.spare
  THEN [r EXCEPT !.valid = @ - len, !.free = @ + len, !.consume = 0, !.spare = 0]
  ELSE [r EXCEPT !.valid = @ - len, !.free = @ + len, !.consume = @ + len]

\* FreeBuffer: the next len bytes after fConsume are no longer needed.
Freed(r, len) ==
  IF r.consume + len = r.size - r.spare
  THEN [r EXCEPT !.valid = @ - len,
                 !.free = @ + len + r.spare,
                 !.consume = 0,
                 !.spare = 0]
  ELSE [r EXCEPT !.valid = @ - len, !.free = @ + len, !.consume = @ + len]

-----------------------------------------------------------------------------

\* The address of the i-th valid byte, counted from 0 at fConsume.
ByteAddress(r, i) ==
  IF r.consume + i < r.size - r.spare
  THEN r.consume + i
  ELSE r.consume + i - (r.size - r.spare)

\* The valid bytes of ring r over memory m, oldest first.
Contents(r, m) == [i \in 1 .. r.valid |-> m[ByteAddress(r, i - 1)]]

ValidAddresses(r) == {ByteAddress(r, i) : i \in 0 .. r.valid - 1}

(***************************************************************************)
(* GUSIRingBuffer::Invariant(), which every member function asserts on its *)
(* way out: the pointers are inside the buffer, every byte is free, valid  *)
(* or spare, and the two distances between the pointers agree with the     *)
(* counts.  A buffer of size 0 has no byte to point at, and fails it.      *)
(***************************************************************************)
RingInvariant(r) ==
  /\ r.produce < r.size
  /\ r.consume < r.size
  /\ r.free + r.valid + r.spare = r.size
  /\ Distance(r, r.consume, r.produce) = (r.valid + r.spare) % r.size
  /\ Distance(r, r.produce, r.consume) = r.free % r.size

=============================================================================
