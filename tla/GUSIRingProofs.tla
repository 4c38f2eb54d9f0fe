--------------------------- MODULE GUSIRingProofs ---------------------------
(***************************************************************************)
(* Facts about the pointer arithmetic of module GUSIRing, for buffers of   *)
(* every size and requests of every length.                                *)
(*                                                                         *)
(* The code's Invariant() is not inductive: it does not say where the      *)
(* spare bytes are.  Shape says it in linear arithmetic over the values of *)
(* the fields, and each operator preserves it.  The facts about numbers    *)
(* come first, then what they say of a ring.                               *)
(***************************************************************************)
EXTENDS GUSIRing, TLAPS

\* Nothing is skipped: the valid bytes run from fConsume to fProduce, around
\* the end or not.
Plain(size, consume, produce, valid, spare) ==
  /\ spare = 0
  /\ produce = consume + valid \/ produce = consume + valid - size

\* The last spare bytes are skipped: fProduce went back to the start, and
\* fConsume is still in front of the skipped bytes.
Skipping(size, consume, produce, valid, spare) ==
  /\ spare > 0
  /\ produce <= consume
  /\ consume + spare < size
  /\ valid = size - spare - consume + produce

Shape(size, consume, produce, free, valid, spare) ==
  /\ size = 0 => /\ produce = 0 /\ consume = 0
                 /\ free = 0 /\ valid = 0 /\ spare = 0
  /\ size > 0 => /\ produce < size /\ consume < size
                 /\ free + valid + spare = size
                 /\ \/ Plain(size, consume, produce, valid, spare)
                    \/ Skipping(size, consume, produce, valid, spare)

RingShape(r) ==
  Shape(r.size, r.consume, r.produce, r.free, r.valid, r.spare)

-----------------------------------------------------------------------------
LEMMA ModuloFacts ==
  /\ \A n \in Nat, m \in Nat : n < m => n % m = n
  /\ \A m \in Nat : m > 0 => m % m = 0
OBVIOUS

\* The distances that Invariant() computes.
LEMMA ShapeDistance ==
  ASSUME NEW size \in Nat, NEW consume \in Nat, NEW produce \in Nat,
         NEW free \in Nat, NEW valid \in Nat, NEW spare \in Nat,
         Shape(size, consume, produce, free, valid, spare),
         size > 0
  PROVE  /\ free % size
              = IF produce > consume THEN size - produce + consume
                                     ELSE consume - produce
         /\ (valid + spare) % size
              = IF consume > produce THEN size - consume + produce
                                     ELSE produce - consume
<1>1. /\ free % size = IF free = size THEN 0 ELSE free
      /\ (valid + spare) % size = IF free = 0 THEN 0 ELSE valid + spare
  <2>1. free <= size /\ valid + spare \in Nat /\ valid + spare <= size
    BY DEF Shape
  <2>2. valid + spare = size <=> free = 0
    BY DEF Shape
  <2>3. free < size => free % size = free
    BY ModuloFacts
  <2>4. valid + spare < size => (valid + spare) % size = valid + spare
    BY <2>1, ModuloFacts
  <2>5. size % size = 0
    BY ModuloFacts
  <2>6. QED
    BY <2>1, <2>2, <2>3, <2>4, <2>5
<1>2. /\ (IF free = size THEN 0 ELSE free)
            = IF produce > consume THEN size - produce + consume
                                   ELSE consume - produce
      /\ (IF free = 0 THEN 0 ELSE valid + spare)
            = IF consume > produce THEN size - consume + produce
                                   ELSE produce - consume
  BY DEF Shape, Plain, Skipping
<1>3. QED
  BY <1>1, <1>2

LEMMA ShapeSkip ==
  ASSUME NEW size \in Nat, NEW consume \in Nat, NEW produce \in Nat,
         NEW free \in Nat, NEW valid \in Nat, NEW spare \in Nat,
         Shape(size, consume, produce, free, valid, spare),
         valid > 0, size - produce < free
  PROVE  /\ spare = 0 /\ produce = consume + valid
         /\ Shape(size, consume, 0, free - (size - produce), valid,
                  size - produce)
<1>1. /\ size > 0 /\ free + valid + spare = size
      /\ produce < size /\ consume < size
      /\ spare = 0 /\ produce = consume + valid
  BY DEF Shape, Plain, Skipping
<1>2. Skipping(size, consume, 0, valid, size - produce)
  BY <1>1 DEF Skipping
<1>3. QED
  BY <1>1, <1>2 DEF Shape

LEMMA ShapeValidated ==
  ASSUME NEW size \in Nat, NEW consume \in Nat, NEW produce \in Nat,
         NEW free \in Nat, NEW valid \in Nat, NEW spare \in Nat,
         Shape(size, consume, produce, free, valid, spare),
         NEW n \in Nat, n <= free, produce + n <= size
  PROVE  Shape(size, consume,
               IF produce + n = size THEN 0 ELSE produce + n,
               free - n, valid + n, spare)
BY DEF Shape, Plain, Skipping

LEMMA ShapeFreed ==
  ASSUME NEW size \in Nat, NEW consume \in Nat, NEW produce \in Nat,
         NEW free \in Nat, NEW valid \in Nat, NEW spare \in Nat,
         Shape(size, consume, produce, free, valid, spare),
         NEW n \in Nat, n <= valid, consume + n <= size - spare
  PROVE  /\ consume + n = size - spare
              => Shape(size, 0, produce, free + n + spare, valid - n, 0)
         /\ consume + n # size - spare
              => Shape(size, consume + n, produce, free + n, valid - n, spare)
BY DEF Shape, Plain, Skipping

\* The bytes behind the first n are somewhere else.
LEMMA ShapeLeaves ==
  ASSUME NEW size \in Nat, NEW consume \in Nat, NEW produce \in Nat,
         NEW free \in Nat, NEW valid \in Nat, NEW spare \in Nat,
         Shape(size, consume, produce, free, valid, spare),
         NEW n \in Nat, n <= valid, consume + n <= size - spare,
         NEW i \in Nat, i < valid - n
  PROVE  /\ consume + (n + i) - (size - spare) < consume
         /\ i < size
         /\ size > 0 /\ consume < size /\ valid <= size - spare
BY DEF Shape, Plain, Skipping

\* The valid bytes, and none of the free ones at fProduce.
LEMMA ShapeDisjoint ==
  ASSUME NEW size \in Nat, NEW consume \in Nat, NEW produce \in Nat,
         NEW free \in Nat, NEW valid \in Nat, NEW spare \in Nat,
         Shape(size, consume, produce, free, valid, spare),
         NEW n \in Nat, n <= free, produce + n <= size,
         NEW i \in Nat, i < valid
  PROVE  /\ consume + i < size - spare
              => ~(produce <= consume + i /\ consume + i < produce + n)
         /\ ~(consume + i < size - spare)
              => LET a == consume + i - (size - spare)
                 IN  ~(produce <= a /\ a < produce + n)
BY DEF Shape, Plain, Skipping

-----------------------------------------------------------------------------
(***************************************************************************)
(* What a ring is made of.                                                 *)
(***************************************************************************)
LEMMA RingFields ==
  ASSUME NEW r \in Ring
  PROVE  /\ r.size \in Nat /\ r.consume \in Nat /\ r.produce \in Nat
         /\ r.free \in Nat /\ r.valid \in Nat /\ r.spare \in Nat
         /\ r.inUse \in BOOLEAN
BY DEF Ring

(***************************************************************************)
(* The shape implies what GUSIRingBuffer::Invariant() evaluates, where     *)
(* there is any memory.                                                    *)
(***************************************************************************)
LEMMA ShapeImpliesInvariant ==
  ASSUME NEW r \in Ring, RingShape(r), r.size > 0
  PROVE  RingInvariant(r)
<1>0. /\ r.size \in Nat /\ r.consume \in Nat /\ r.produce \in Nat
      /\ r.free \in Nat /\ r.valid \in Nat /\ r.spare \in Nat
  BY RingFields
<1>1. Shape(r.size, r.consume, r.produce, r.free, r.valid, r.spare)
  BY DEF RingShape
<1>2. /\ Distance(r, r.produce, r.consume) = r.free % r.size
      /\ Distance(r, r.consume, r.produce) = (r.valid + r.spare) % r.size
  <2>1. PICK n \in Nat, c \in Nat, p \in Nat, f \in Nat, v \in Nat, s \in Nat :
           /\ n = r.size /\ c = r.consume /\ p = r.produce
           /\ f = r.free /\ v = r.valid /\ s = r.spare
    BY <1>0
  <2>2. Shape(n, c, p, f, v, s) /\ n > 0
    BY <1>1, <2>1
  <2>3. /\ f % n = IF p > c THEN n - p + c ELSE c - p
        /\ (v + s) % n = IF c > p THEN n - c + p ELSE p - c
    BY <2>2, ShapeDistance
  <2>4. QED
    BY <1>0, <2>1, <2>3 DEF Distance
<1>3. QED
  BY <1>0, <1>1, <1>2 DEF Shape, RingInvariant

LEMMA NewRingShape ==
  ASSUME NEW n \in Nat
  PROVE  /\ NewRing(n) \in Ring
         /\ RingShape(NewRing(n))
         /\ NewRing(n).size = n
BY DEF NewRing, Ring, RingShape, Shape, Plain

LEMMA RewindShape ==
  ASSUME NEW r \in Ring, RingShape(r)
  PROVE  /\ Rewind(r) \in Ring
         /\ RingShape(Rewind(r))
         /\ Rewind(r).size = r.size
         /\ Rewind(r).valid = r.valid
         /\ Rewind(r).valid = 0 => Rewind(r).produce = 0
         /\ r.valid > 0 => Rewind(r) = r
<1> DEFINE w == Rewind(r)
<1>0. r.size \in Nat
  BY RingFields
<1>1. CASE r.valid = 0
  <2>1. w = [r EXCEPT !.produce = 0, !.consume = 0, !.spare = 0, !.free = r.size]
    BY <1>1 DEF Rewind
  <2>2. w \in Ring
    <3> HIDE DEF w
    <3> QED
      BY <1>0, <2>1 DEF Ring
  <2>3. /\ w.size = r.size /\ w.free = r.size /\ w.valid = 0
        /\ w.spare = 0 /\ w.consume = 0 /\ w.produce = 0
    BY <1>1, <2>1 DEF Ring
  <2>4. RingShape(w)
    <3>1. Shape(r.size, 0, 0, r.size, 0, 0)
      BY RingFields DEF Shape, Plain
    <3>2. QED
      BY <2>3, <3>1 DEF RingShape
  <2>5. QED
    BY <1>1, <2>2, <2>3, <2>4
<1>2. CASE r.valid # 0
  BY <1>2 DEF Rewind
<1>3. QED
  BY <1>1, <1>2

LEMMA SkipEndShape ==
  ASSUME NEW r \in Ring, RingShape(r), r.valid = 0 => r.produce = 0,
         NEW len \in Nat
  PROVE  /\ SkipEnd(r, len) \in Ring
         /\ RingShape(SkipEnd(r, len))
         /\ SkipEnd(r, len).size = r.size
         /\ SkipEnd(r, len).valid = r.valid
         /\ SkipEnd(r, len).consume = r.consume
         /\ \A k \in 0 .. r.valid :
              r.consume + k <= r.size - r.spare
                => r.consume + k <= r.size - SkipEnd(r, len).spare
<1>0. /\ r.size \in Nat /\ r.consume \in Nat /\ r.produce \in Nat
      /\ r.free \in Nat /\ r.valid \in Nat /\ r.spare \in Nat
  BY RingFields
<1>1. CASE SkipsEnd(r, len)
  <2> DEFINE s == SkipEnd(r, len)
             streak == r.size - r.produce
  <2>1. Shape(r.size, r.consume, r.produce, r.free, r.valid, r.spare)
    BY DEF RingShape
  <2>2. streak < r.free
    BY <1>1 DEF SkipsEnd
  <2>3. r.valid > 0 /\ r.produce < r.size
    BY <1>0, <2>1, <2>2 DEF Shape
  <2>4. /\ r.spare = 0 /\ r.produce = r.consume + r.valid
        /\ Shape(r.size, r.consume, 0, r.free - streak, r.valid, streak)
    BY <1>0, <2>1, <2>2, <2>3, ShapeSkip
  <2>5. s = [r EXCEPT !.spare = streak, !.produce = 0, !.free = r.free - streak]
    BY <1>1 DEF SkipEnd
  <2>6. streak \in Nat /\ r.free - streak \in Nat
    BY <1>0, <2>2, <2>3
  <2>7. s \in Ring
    <3>1. \A a \in Nat, b \in Nat :
            [r EXCEPT !.spare = a, !.produce = 0, !.free = b] \in Ring
      BY DEF Ring
    <3> HIDE DEF s, streak
    <3>2. QED
      BY <2>5, <2>6, <3>1
  <2>8. /\ s.size = r.size /\ s.consume = r.consume /\ s.valid = r.valid
        /\ s.produce = 0 /\ s.spare = streak /\ s.free = r.free - streak
    BY <2>5 DEF Ring
  <2> HIDE DEF s
  <2>9. RingShape(s)
    BY <2>4, <2>8 DEF RingShape
  <2>10. \A k \in 0 .. r.valid :
           r.consume + k <= r.size - r.spare => r.consume + k <= r.size - s.spare
    BY <1>0, <2>4, <2>8
  <2>11. QED
    BY <2>7, <2>8, <2>9, <2>10 DEF s
<1>2. CASE ~SkipsEnd(r, len)
  BY <1>2 DEF SkipEnd
<1>3. QED
  BY <1>1, <1>2

(***************************************************************************)
(* ProduceBuffer hands out a block that is inside the buffer and free, and *)
(* does not disturb a block of valid bytes that the consumer holds.        *)
(***************************************************************************)
LEMMA GrantingShape ==
  ASSUME NEW r \in Ring, RingShape(r), NEW len \in Nat
  PROVE  /\ Granting(r, len) \in Ring
         /\ RingShape(Granting(r, len))
         /\ Granting(r, len).size = r.size
         /\ Granting(r, len).valid = r.valid
         /\ Granting(r, len).inUse
         /\ GrantLength(r, len) \in 0 .. len
         /\ GrantLength(r, len) <= Granting(r, len).free
         /\ Granting(r, len).produce + GrantLength(r, len) <= r.size
         /\ r.valid > 0 =>
              /\ Granting(r, len).consume = r.consume
              /\ \A k \in 0 .. r.valid :
                   r.consume + k <= r.size - r.spare
                     => r.consume + k <= r.size - Granting(r, len).spare
<1> DEFINE w == Rewind(r)
           s == SkipEnd(w, len)
           t == Granting(r, len)
<1>0. r.valid \in Nat
  BY RingFields
<1>1. /\ w \in Ring /\ RingShape(w) /\ w.size = r.size /\ w.valid = r.valid
      /\ w.valid = 0 => w.produce = 0
      /\ r.valid > 0 => w = r
  BY RewindShape
<1>2. /\ s \in Ring /\ RingShape(s)
      /\ s.size = w.size /\ s.valid = w.valid /\ s.consume = w.consume
      /\ \A k \in 0 .. w.valid :
           w.consume + k <= w.size - w.spare => w.consume + k <= w.size - s.spare
  <2> HIDE DEF w
  <2> QED
    BY <1>1, SkipEndShape
<1>3. t = [s EXCEPT !.inUse = TRUE]
  BY DEF Granting
<1>4. /\ t \in Ring /\ t.inUse
      /\ t.size = s.size /\ t.valid = s.valid /\ t.consume = s.consume
      /\ t.produce = s.produce /\ t.free = s.free /\ t.spare = s.spare
  <2> HIDE DEF s
  <2> QED
    BY <1>2, <1>3 DEF Ring
<1>5. RingShape(t)
  BY <1>2, <1>4 DEF RingShape
<1>6. /\ GrantLength(r, len) \in 0 .. len
      /\ GrantLength(r, len) <= t.free
      /\ t.produce + GrantLength(r, len) <= t.size
  <2>1. t.produce <= t.size /\ t.produce \in Nat /\ t.size \in Nat /\ t.free \in Nat
    <3> HIDE DEF t
    <3> QED
      BY <1>4, <1>5, RingFields DEF RingShape, Shape
  <2>2. GrantLength(r, len) = Smaller(len, Smaller(t.size - t.produce, t.free))
    BY DEF GrantLength
  <2> HIDE DEF t
  <2>3. QED
    BY <2>1, <2>2 DEF Smaller
<1> HIDE DEF w, s
<1>7. QED
  BY <1>0, <1>1, <1>2, <1>4, <1>5, <1>6

(***************************************************************************)
(* ValidBuffer keeps the shape if its two assertions hold, and leaves the  *)
(* consumer's side alone.                                                  *)
(***************************************************************************)
LEMMA ValidatedShape ==
  ASSUME NEW r \in Ring, RingShape(r), NEW n \in Nat,
         n <= r.free, r.produce + n <= r.size
  PROVE  /\ Validated(r, n) \in Ring
         /\ RingShape(Validated(r, n))
         /\ Validated(r, n).size = r.size
         /\ Validated(r, n).consume = r.consume
         /\ Validated(r, n).spare = r.spare
         /\ Validated(r, n).valid = r.valid + n
<1> DEFINE v == Validated(r, n)
           p == IF r.produce + n = r.size THEN 0 ELSE r.produce + n
<1>0. /\ r.size \in Nat /\ r.consume \in Nat /\ r.produce \in Nat
      /\ r.free \in Nat /\ r.valid \in Nat /\ r.spare \in Nat
  BY RingFields
<1>1. v = [r EXCEPT !.inUse = FALSE, !.valid = r.valid + n,
                    !.free = r.free - n, !.produce = p]
  BY DEF Validated
<1>2. r.valid + n \in Nat /\ r.free - n \in Nat /\ p \in Nat
  BY <1>0
<1>3. Shape(r.size, r.consume, p, r.free - n, r.valid + n, r.spare)
  BY <1>0, ShapeValidated DEF RingShape
<1> HIDE DEF v, p
<1>4. /\ v \in Ring
      /\ v.size = r.size /\ v.consume = r.consume /\ v.spare = r.spare
      /\ v.valid = r.valid + n /\ v.free = r.free - n /\ v.produce = p
  BY <1>1, <1>2 DEF Ring
<1>5. RingShape(v)
  BY <1>3, <1>4 DEF RingShape
<1>6. QED
  BY <1>4, <1>5 DEF v

(***************************************************************************)
(* FreeBuffer keeps the shape if it is given a block that ConsumeBuffer    *)
(* could have returned, and never takes from the producer.                 *)
(***************************************************************************)
LEMMA FreedShape ==
  ASSUME NEW r \in Ring, RingShape(r), NEW n \in Nat,
         n <= r.valid, r.consume + n <= r.size - r.spare
  PROVE  /\ Freed(r, n) \in Ring
         /\ RingShape(Freed(r, n))
         /\ Freed(r, n).size = r.size
         /\ Freed(r, n).inUse = r.inUse
         /\ Freed(r, n).produce = r.produce
         /\ Freed(r, n).free >= r.free
         /\ Freed(r, n).valid = r.valid - n
<1> DEFINE f == Freed(r, n)
<1>0. /\ r.size \in Nat /\ r.consume \in Nat /\ r.produce \in Nat
      /\ r.free \in Nat /\ r.valid \in Nat /\ r.spare \in Nat
  BY RingFields
<1>1. CASE r.consume + n = r.size - r.spare
  <2>1. f = [r EXCEPT !.valid = r.valid - n, !.free = r.free + n + r.spare,
                      !.consume = 0, !.spare = 0]
    BY <1>1 DEF Freed
  <2>2. Shape(r.size, 0, r.produce, r.free + n + r.spare, r.valid - n, 0)
    BY <1>0, <1>1, ShapeFreed DEF RingShape
  <2> HIDE DEF f
  <2>3. f \in Ring
    <3>1. r.valid - n \in Nat /\ r.free + n + r.spare \in Nat /\ r.consume + n \in Nat
      BY <1>0
    <3>2. QED
      BY <2>1, <3>1 DEF Ring
  <2>4. /\ f.size = r.size /\ f.produce = r.produce /\ f.inUse = r.inUse
        /\ f.valid = r.valid - n /\ f.free = r.free + n + r.spare
        /\ f.consume = 0 /\ f.spare = 0
    BY <2>1 DEF Ring
  <2>5. RingShape(f) /\ f.free >= r.free
    BY <1>0, <2>2, <2>4 DEF RingShape
  <2>6. QED
    BY <2>3, <2>4, <2>5 DEF f
<1>2. CASE r.consume + n # r.size - r.spare
  <2>1. f = [r EXCEPT !.valid = r.valid - n, !.free = r.free + n,
                      !.consume = r.consume + n]
    BY <1>2 DEF Freed
  <2>2. Shape(r.size, r.consume + n, r.produce, r.free + n, r.valid - n, r.spare)
    BY <1>0, <1>2, ShapeFreed DEF RingShape
  <2> HIDE DEF f
  <2>3. f \in Ring
    <3>1. r.valid - n \in Nat /\ r.free + n \in Nat /\ r.consume + n \in Nat
      BY <1>0
    <3>2. QED
      BY <2>1, <3>1 DEF Ring
  <2>4. /\ f.size = r.size /\ f.produce = r.produce /\ f.inUse = r.inUse
        /\ f.valid = r.valid - n /\ f.free = r.free + n
        /\ f.consume = r.consume + n /\ f.spare = r.spare
    BY <2>1 DEF Ring
  <2>5. RingShape(f) /\ f.free >= r.free
    BY <1>0, <2>2, <2>4 DEF RingShape
  <2>6. QED
    BY <2>3, <2>4, <2>5 DEF f
<1>3. QED
  BY <1>1, <1>2

LEMMA LoanLengthBounds ==
  ASSUME NEW r \in Ring, RingShape(r), NEW len \in Nat
  PROVE  /\ LoanLength(r, len) \in 0 .. len
         /\ LoanLength(r, len) <= r.valid
         /\ r.consume + LoanLength(r, len) <= r.size - r.spare
<1>1. /\ r.size \in Nat /\ r.consume \in Nat /\ r.produce \in Nat
      /\ r.free \in Nat /\ r.valid \in Nat /\ r.spare \in Nat
  BY RingFields
<1>2. r.consume + r.spare <= r.size
  BY <1>1 DEF RingShape, Shape, Plain, Skipping
<1>3. QED
  BY <1>1, <1>2 DEF LoanLength, Smaller

(***************************************************************************)
(* A block at fProduce that ValidBuffer would accept holds no valid byte.  *)
(***************************************************************************)
LEMMA FreeBlockIsDisjoint ==
  ASSUME NEW r \in Ring, RingShape(r), NEW n \in Nat,
         n <= r.free, r.produce + n <= r.size
  PROVE  (r.produce .. r.produce + n - 1) \cap ValidAddresses(r) = {}
<1>0. /\ r.size \in Nat /\ r.consume \in Nat /\ r.produce \in Nat
      /\ r.free \in Nat /\ r.valid \in Nat /\ r.spare \in Nat
  BY RingFields
<1>1. SUFFICES ASSUME NEW i \in 0 .. r.valid - 1,
                      ByteAddress(r, i) \in r.produce .. r.produce + n - 1
               PROVE  FALSE
  BY DEF ValidAddresses
<1>2. i \in Nat /\ i < r.valid
  BY <1>0
<1>3. /\ r.consume + i < r.size - r.spare
            => ~(r.produce <= r.consume + i /\ r.consume + i < r.produce + n)
      /\ ~(r.consume + i < r.size - r.spare)
            => LET a == r.consume + i - (r.size - r.spare)
               IN  ~(r.produce <= a /\ a < r.produce + n)
  BY <1>0, <1>2, ShapeDisjoint DEF RingShape
<1>4. QED
  BY <1>0, <1>1, <1>2, <1>3 DEF ByteAddress

-----------------------------------------------------------------------------
(***************************************************************************)
(* Where the bytes are.                                                    *)
(***************************************************************************)
\* Every byte is in the memory.
LEMMA AddressInside ==
  ASSUME NEW r \in Ring, RingShape(r), NEW i \in Nat, i < r.valid
  PROVE  ByteAddress(r, i) \in 0 .. r.size - 1
<1>0. /\ r.size \in Nat /\ r.consume \in Nat /\ r.produce \in Nat
      /\ r.free \in Nat /\ r.valid \in Nat /\ r.spare \in Nat
  BY RingFields
<1>1. Shape(r.size, r.consume, r.produce, r.free, r.valid, r.spare)
  BY DEF RingShape
<1>2. r.size > 0 /\ r.consume < r.size /\ r.free + r.valid + r.spare = r.size
  BY <1>0, <1>1 DEF Shape
<1>3. QED
  BY <1>0, <1>2 DEF ByteAddress

\* The bytes of a free block go where the valid bytes end.
LEMMA AddressStored ==
  ASSUME NEW r \in Ring, RingShape(r), NEW n \in Nat,
         n <= r.free, r.produce + n <= r.size, NEW j \in Nat, j < n
  PROVE  /\ ByteAddress(r, r.valid + j) = r.produce + j
         /\ r.produce + j \in 0 .. r.size - 1
         /\ r.produce + j \in r.produce .. r.produce + n - 1
<1>0. /\ r.size \in Nat /\ r.consume \in Nat /\ r.produce \in Nat
      /\ r.free \in Nat /\ r.valid \in Nat /\ r.spare \in Nat
  BY RingFields
<1>1. Shape(r.size, r.consume, r.produce, r.free, r.valid, r.spare)
  BY DEF RingShape
<1>2. IF r.consume + (r.valid + j) < r.size - r.spare
      THEN r.consume + (r.valid + j) = r.produce + j
      ELSE r.consume + (r.valid + j) - (r.size - r.spare) = r.produce + j
  <2>1. \/ Plain(r.size, r.consume, r.produce, r.valid, r.spare)
        \/ Skipping(r.size, r.consume, r.produce, r.valid, r.spare)
    BY <1>0, <1>1 DEF Shape
  <2>2. QED
    BY <1>0, <2>1 DEF Plain, Skipping
<1>3. ByteAddress(r, r.valid + j) = r.produce + j
  BY <1>2 DEF ByteAddress
<1>4. QED
  BY <1>0, <1>3

\* A skipped end moves no byte.
LEMMA AddressGranted ==
  ASSUME NEW r \in Ring, RingShape(r), NEW len \in Nat, NEW i \in Nat, i < r.valid
  PROVE  ByteAddress(Granting(r, len), i) = ByteAddress(r, i)
<1> DEFINE s == Granting(r, len)
<1>0. /\ r.size \in Nat /\ r.consume \in Nat /\ r.produce \in Nat
      /\ r.free \in Nat /\ r.valid \in Nat /\ r.spare \in Nat
  BY RingFields
<1>1. r.valid > 0
  BY <1>0
<1>2. Rewind(r) = r
  BY <1>0, <1>1 DEF Rewind
<1>7. s.size = r.size
  BY GrantingShape
<1>3. s = [SkipEnd(r, len) EXCEPT !.inUse = TRUE]
  BY <1>2 DEF Granting
<1>4. CASE SkipsEnd(r, len)
  <2>1. r.size - r.produce < r.free
    BY <1>4 DEF SkipsEnd
  <2>2. Shape(r.size, r.consume, r.produce, r.free, r.valid, r.spare)
    BY DEF RingShape
  <2>3. r.spare = 0 /\ r.produce = r.consume + r.valid
    BY <1>0, <1>1, <2>1, <2>2 DEF Shape, Plain, Skipping
  <2>4. s.consume = r.consume /\ s.spare = r.size - r.produce
    BY <1>3, <1>4 DEF SkipEnd, Ring
  <2>5. r.produce <= r.size
    BY <1>0, <1>1, <2>2 DEF Shape
  <2> HIDE DEF s
  <2>6. r.consume + i < r.size - r.spare /\ s.consume + i < s.size - s.spare
    BY <1>0, <1>7, <2>3, <2>4, <2>5
  <2>7. ByteAddress(s, i) = ByteAddress(r, i)
    BY <2>4, <2>6 DEF ByteAddress
  <2>8. QED
    BY <2>7 DEF s
<1>5. CASE ~SkipsEnd(r, len)
  <2>1. s.consume = r.consume /\ s.spare = r.spare
    BY <1>3, <1>5 DEF SkipEnd, Ring
  <2> HIDE DEF s
  <2>2. ByteAddress(s, i) = ByteAddress(r, i)
    BY <1>7, <2>1 DEF ByteAddress
  <2>3. QED
    BY <2>2 DEF s
<1>6. QED
  BY <1>4, <1>5

\* What is freed leaves the other bytes in place.
LEMMA AddressFreed ==
  ASSUME NEW r \in Ring, RingShape(r), NEW n \in Nat,
         n <= r.valid, r.consume + n <= r.size - r.spare,
         NEW i \in Nat, i < r.valid - n
  PROVE  /\ ByteAddress(Freed(r, n), i) = ByteAddress(r, n + i)
         /\ ByteAddress(r, n + i) \notin r.consume .. r.consume + n - 1
<1> DEFINE s == Freed(r, n)
<1>0. /\ r.size \in Nat /\ r.consume \in Nat /\ r.produce \in Nat
      /\ r.free \in Nat /\ r.valid \in Nat /\ r.spare \in Nat
  BY RingFields
<1>1. Shape(r.size, r.consume, r.produce, r.free, r.valid, r.spare)
  BY DEF RingShape
<1>2. /\ r.consume + (n + i) - (r.size - r.spare) < r.consume
      /\ i < r.size
  BY <1>0, <1>1, ShapeLeaves
<1>3. s.size = r.size
  BY FreedShape
<1>4. CASE r.consume + n = r.size - r.spare
  <2>1. s.consume = 0 /\ s.spare = 0
    BY <1>4 DEF Freed, Ring
  <2> HIDE DEF s
  <2>2. ByteAddress(s, i) = i
    BY <1>0, <1>2, <1>3, <2>1 DEF ByteAddress
  <2>3. ByteAddress(r, n + i) = i
    BY <1>0, <1>4 DEF ByteAddress
  <2>4. i < r.consume
    BY <1>0, <1>2, <1>4
  <2>5. QED
    BY <1>0, <2>2, <2>3, <2>4 DEF s
<1>5. CASE r.consume + n # r.size - r.spare
  <2>1. s.consume = r.consume + n /\ s.spare = r.spare
    BY <1>5 DEF Freed, Ring
  <2> HIDE DEF s
  <2>2. r.consume + n + i = r.consume + (n + i)
    BY <1>0
  <2>3. ByteAddress(s, i) = ByteAddress(r, n + i)
    <3>1. s.consume + i = r.consume + (n + i) /\ s.size - s.spare = r.size - r.spare
      BY <1>3, <2>1, <2>2
    <3> HIDE DEF s
    <3>2. /\ s.consume + i < s.size - s.spare <=> r.consume + (n + i) < r.size - r.spare
          /\ s.consume + i - (s.size - s.spare)
               = r.consume + (n + i) - (r.size - r.spare)
      BY <1>0, <1>3, <2>1
    <3>3. QED
      BY <3>1, <3>2 DEF ByteAddress
  <2>4. ByteAddress(r, n + i) = r.consume + (n + i) \/ ByteAddress(r, n + i) < r.consume
    BY <1>0, <1>2 DEF ByteAddress
  <2>5. ByteAddress(r, n + i) \notin r.consume .. r.consume + n - 1
    BY <1>0, <2>4
  <2>6. QED
    BY <2>3, <2>5 DEF s
<1>6. QED
  BY <1>4, <1>5
=============================================================================
