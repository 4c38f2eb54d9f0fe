-------------------------- MODULE GUSIBufferProofs --------------------------
(***************************************************************************)
(* The ring buffer, for any buffer sizes, request lengths and numbers of   *)
(* changes of memory, and the MacTCP datagram socket, which keeps its      *)
(* datagrams in two of them.                                               *)
(***************************************************************************)
EXTENDS GUSIRingBufferStream, GUSIMTUdp, GUSIRingProofs, SequenceTheorems,
        WellFoundedInduction

(***************************************************************************)
(* The inductive invariant.  GrantHeld and LoanHeld say more than the      *)
(* properties they imply: a granted buffer is marked as in use, which is   *)
(* what keeps it on the chain, and the kind of buffer decides which of the *)
(* blocks and calls can be outstanding at all.                             *)
(***************************************************************************)
Shapes == \A g \in 1 .. newest : RingShape(ring[g])

GrantHeld ==
  grant # NoBlock =>
    /\ side = "input" /\ grant.gen \in live
    /\ ring[grant.gen].inUse
    /\ grant.off = ring[grant.gen].produce
    /\ grant.off + grant.len <= ring[grant.gen].size
    /\ grant.len <= ring[grant.gen].free

LoanHeld ==
  loan # NoBlock =>
    /\ side # "pipe" /\ loan.gen \in live
    /\ \A h \in live : loan.gen <= h
    /\ loan.off = ring[loan.gen].consume
    /\ loan.len \in 1 .. ring[loan.gen].valid
    /\ loan.off + loan.len <= ring[loan.gen].size - ring[loan.gen].spare

CallsMatchSide ==
  /\ Producing => side \in {"output", "pipe"}
  /\ Consuming => side \in {"input", "pipe"}
  /\ Consuming => loan = NoBlock

IInv == TypeOK /\ Shapes /\ GrantHeld /\ LoanHeld /\ CallsMatchSide

-----------------------------------------------------------------------------
(***************************************************************************)
(* The chain.                                                              *)
(***************************************************************************)
LEMMA LeastExists ==
  ASSUME NEW L, L \subseteq Nat, L # {}
  PROVE  \E g \in L : \A h \in L : g <= h
<1>1. \E g \in L : \A h \in L : ~ (<<h, g>> \in OpToRel(<, Nat))
  BY NatLessThanWellFounded, WFMin
<1>2. PICK g \in L : \A h \in L : ~ (<<h, g>> \in OpToRel(<, Nat))
  BY <1>1
<1>3. \A h \in L : g <= h
  <2>1. SUFFICES ASSUME NEW h \in L, ~(g <= h) PROVE FALSE
    OBVIOUS
  <2>2. <<h, g>> \in OpToRel(<, Nat)
    BY <2>1 DEF OpToRel
  <2>3. QED
    BY <1>2, <2>2
<1>4. QED
  BY <1>3

LEMMA TopIsLeast ==
  ASSUME NEW L, L \subseteq Nat, L # {}
  PROVE  Top(L) \in L /\ \A h \in L : Top(L) <= h
BY LeastExists, Zenon DEF Top

LEMMA TopIs ==
  ASSUME NEW L, L \subseteq Nat, NEW g \in L, \A h \in L : g <= h
  PROVE  Top(L) = g
<1>1. Top(L) \in L /\ \A h \in L : Top(L) <= h
  BY TopIsLeast
<1>2. Top(L) \in Nat /\ g \in Nat /\ Top(L) <= g /\ g <= Top(L)
  BY <1>1
<1>3. QED
  BY <1>2

\* What obsoleting buffers cannot remove.
LEMMA DrainedKeeps ==
  ASSUME NEW rings, NEW L, L \subseteq 1 .. newest, newest \in Nat, newest \in L,
         NEW b \in L
  PROVE  /\ Drained(rings, L, b) \subseteq L
         /\ newest \in Drained(rings, L, b)
         /\ \A g \in L : g < b \/ rings[g].inUse \/ rings[g].valid > 0
                           => g \in Drained(rings, L, b)
<1>1. b \in Nat /\ b <= newest /\ \A g \in L : g \in Nat /\ g <= newest
  OBVIOUS
<1>2. Drained(rings, L, b) \subseteq L
  BY DEF Drained
<1>3. newest \in Drained(rings, L, b)
  BY <1>1 DEF Drained
<1>4. ASSUME NEW g \in L, g < b \/ rings[g].inUse \/ rings[g].valid > 0
      PROVE  g \in Drained(rings, L, b)
  <2>1. CASE g < b
    BY <2>1 DEF Drained
  <2>2. CASE ~(g < b)
    <3>1. b <= g /\ g <= g /\ (rings[g].inUse \/ rings[g].valid > 0)
      BY <1>1, <1>4, <2>2
    <3>2. QED
      BY <3>1 DEF Drained
  <2>3. QED
    BY <2>1, <2>2
<1>5. QED
  BY <1>2, <1>3, <1>4

-----------------------------------------------------------------------------
(***************************************************************************)
(* Memory.                                                                 *)
(***************************************************************************)
LEMMA StampsAreBytes ==
  ASSUME sent \in Bytes
  PROVE  \A i \in Nat \ {0} : (sent + i - 1) % Period \in Bytes
<1>1. Period \in Nat \ {0} /\ Bytes = 0 .. Period - 1
  BY BoundsAssumption DEF Bytes
<1>2. ASSUME NEW k \in Nat PROVE k % Period \in Bytes
  BY ONLY <1>1, k \in Nat
<1>3. ASSUME NEW i \in Nat \ {0} PROVE (sent + i - 1) % Period \in Bytes
  <2>1. sent + i - 1 \in Nat
    BY <1>1
  <2>2. QED
    BY ONLY <1>2, <2>1
<1>4. QED
  BY <1>3

LEMMA StampsType ==
  ASSUME sent \in Bytes, NEW n \in Nat
  PROVE  Stamps(n) \in Seq(Bytes)
<1>1. \A i \in 1 .. n : (sent + i - 1) % Period \in Bytes
  BY StampsAreBytes
<1>2. QED
  BY <1>1 DEF Stamps

LEMMA SentType ==
  ASSUME sent \in Bytes, NEW n \in Nat
  PROVE  (sent + n) % Period \in Bytes
BY BoundsAssumption DEF Bytes

LEMMA StoredType ==
  ASSUME NEW n \in Nat, NEW m \in [0 .. n - 1 -> Bytes \cup {Junk}],
         NEW off \in Nat, NEW bytes \in Seq(Bytes)
  PROVE  Stored(m, off, bytes) \in [0 .. n - 1 -> Bytes \cup {Junk}]
<1>1. \A a \in 0 .. n - 1 :
        a \in off .. off + Len(bytes) - 1 => bytes[a - off + 1] \in Bytes
  OBVIOUS
<1>2. QED
  BY <1>1 DEF Stored

LEMMA ErasedType ==
  ASSUME NEW n \in Nat, NEW m \in [0 .. n - 1 -> Bytes \cup {Junk}],
         NEW off \in Nat, NEW k \in Nat
  PROVE  Erased(m, off, k) \in [0 .. n - 1 -> Bytes \cup {Junk}]
BY DEF Erased

LEMMA BlockInSeq ==
  ASSUME NEW n \in Nat, NEW m \in [0 .. n - 1 -> Bytes \cup {Junk}],
         NEW off \in Nat, NEW k \in Nat, off + k <= n
  PROVE  Block(m, off, k) \in Seq(Bytes \cup {Junk})
<1>1. \A i \in 1 .. k : m[off + i - 1] \in Bytes \cup {Junk}
  OBVIOUS
<1>2. QED
  BY <1>1 DEF Block
-----------------------------------------------------------------------------
(***************************************************************************)
(* What the invariant says of one generation.                              *)
(***************************************************************************)
LEMMA Generations ==
  ASSUME IInv
  PROVE  /\ newest \in Nat /\ newest \in 1 .. newest
         /\ live \subseteq 1 .. newest /\ live \subseteq Nat /\ newest \in live
         /\ \A g \in 1 .. newest : ring[g] \in Ring /\ RingShape(ring[g])
         /\ Top(live) \in live /\ \A h \in live : Top(live) <= h
<1>1. /\ newest \in Nat /\ newest \in 1 .. newest
      /\ live \subseteq 1 .. newest /\ live \subseteq Nat /\ newest \in live
  BY BoundsAssumption DEF IInv, TypeOK
<1>2. \A g \in 1 .. newest : ring[g] \in Ring /\ RingShape(ring[g])
  BY DEF IInv, TypeOK, Shapes
<1>3. QED
  BY <1>1, <1>2, TopIsLeast

MemoryOK(m) ==
  /\ DOMAIN m = 1 .. newest
  /\ \A g \in 1 .. newest :
       m[g] \in [0 .. ring[g].size - 1 -> Bytes \cup {Junk}]

\* Writing to the memory of one generation keeps the types.
LEMMA OneMemoryChanges ==
  ASSUME IInv, NEW g \in 1 .. newest,
         NEW m \in [0 .. ring[g].size - 1 -> Bytes \cup {Junk}]
  PROVE  MemoryOK([mem EXCEPT ![g] = m])
BY DEF IInv, TypeOK, MemoryOK

\* Changing the fields of one generation, but not its size, keeps the types.
LEMMA OneRingChanges ==
  ASSUME IInv, NEW g \in 1 .. newest,
         NEW r \in Ring, RingShape(r), r.size = ring[g].size,
         MemoryOK(mem'), newest' = newest, ring' = [ring EXCEPT ![g] = r]
  PROVE  /\ newest' \in 1 .. MaxGenerations
         /\ ring' \in [1 .. newest' -> Ring]
         /\ DOMAIN mem' = 1 .. newest'
         /\ \A h \in 1 .. newest' :
              mem'[h] \in [0 .. ring'[h].size - 1 -> Bytes \cup {Junk}]
         /\ Shapes'
         /\ ring'[g] = r /\ \A h \in 1 .. newest : h # g => ring'[h] = ring[h]
<1>1. /\ newest \in 1 .. MaxGenerations /\ ring \in [1 .. newest -> Ring]
      /\ \A h \in 1 .. newest : RingShape(ring[h])
  BY DEF IInv, TypeOK, Shapes
<1>2. ring'[g] = r /\ \A h \in 1 .. newest : h # g => ring'[h] = ring[h]
  BY <1>1
<1>3. \A h \in 1 .. newest : ring'[h].size = ring[h].size
  BY <1>2
<1>4. Shapes'
  BY <1>1, <1>2 DEF Shapes
<1>5. ring' \in [1 .. newest -> Ring]
  BY <1>1
<1>6. QED
  BY <1>1, <1>2, <1>3, <1>4, <1>5 DEF MemoryOK

\* A block on loan survives what the producer does to the chain.
LEMMA LoanKept ==
  ASSUME IInv, loan' = loan, side' = side, live' \subseteq live,
         \A g \in live : ring[g].valid > 0 => g \in live',
         \A g \in live : ring[g].valid > 0 =>
            /\ ring'[g].size = ring[g].size
            /\ ring'[g].consume = ring[g].consume
            /\ ring'[g].valid \in Nat /\ ring'[g].valid >= ring[g].valid
            /\ \A k \in 0 .. ring[g].valid :
                 ring[g].consume + k <= ring[g].size - ring[g].spare
                   => ring[g].consume + k <= ring[g].size - ring'[g].spare
  PROVE  LoanHeld'
<1>1. SUFFICES ASSUME loan # NoBlock PROVE LoanHeld'
  BY DEF LoanHeld
<1>2. /\ side # "pipe" /\ loan.gen \in live
      /\ \A h \in live : loan.gen <= h
      /\ loan.off = ring[loan.gen].consume
      /\ loan.len \in 1 .. ring[loan.gen].valid
      /\ loan.off + loan.len <= ring[loan.gen].size - ring[loan.gen].spare
  BY <1>1 DEF IInv, LoanHeld
<1>3. ring[loan.gen].valid \in Nat
  BY <1>2, Generations, RingFields
<1>4. ring[loan.gen].valid > 0 /\ loan.len \in 0 .. ring[loan.gen].valid
  BY <1>2, <1>3
<1>5. /\ loan.gen \in live'
      /\ ring'[loan.gen].size = ring[loan.gen].size
      /\ ring'[loan.gen].consume = ring[loan.gen].consume
      /\ ring'[loan.gen].valid \in Nat
      /\ ring'[loan.gen].valid >= ring[loan.gen].valid
      /\ loan.off + loan.len <= ring[loan.gen].size - ring'[loan.gen].spare
  BY <1>2, <1>4
<1>6. loan.len \in 1 .. ring'[loan.gen].valid
  BY <1>2, <1>3, <1>5
<1>7. QED
  BY <1>2, <1>5, <1>6 DEF LoanHeld

\* A granted block survives what the consumer does to the chain.
LEMMA GrantKept ==
  ASSUME IInv, grant' = grant, side' = side,
         \A g \in live : ring[g].inUse =>
            /\ g \in live' /\ ring'[g].inUse
            /\ ring'[g].size = ring[g].size
            /\ ring'[g].produce = ring[g].produce
            /\ ring'[g].free \in Nat /\ ring'[g].free >= ring[g].free
  PROVE  GrantHeld'
<1>1. SUFFICES ASSUME grant # NoBlock PROVE GrantHeld'
  BY DEF GrantHeld
<1>2. /\ side = "input" /\ grant.gen \in live /\ ring[grant.gen].inUse
      /\ grant.off = ring[grant.gen].produce
      /\ grant.off + grant.len <= ring[grant.gen].size
      /\ grant.len <= ring[grant.gen].free /\ grant.len \in Nat
  BY <1>1 DEF IInv, GrantHeld, TypeOK, BlockType
<1>3. ring[grant.gen].free \in Nat
  BY <1>2, Generations, RingFields
<1>4. QED
  BY <1>2, <1>3 DEF GrantHeld

LEMMA NothingOut == <<>> \in Seq(Bytes \cup {Junk})
OBVIOUS

-----------------------------------------------------------------------------
(***************************************************************************)
(* One lemma per action.                                                   *)
(***************************************************************************)
LEMMA ProduceBufferInv ==
  ASSUME IInv, NEW len \in Nat, ProduceBuffer(len)
  PROVE  IInv'
<1> DEFINE r == Granting(ring[newest], len)
           n == GrantLength(ring[newest], len)
<1>1. /\ newest \in Nat /\ newest \in 1 .. newest
      /\ live \subseteq 1 .. newest /\ newest \in live
      /\ ring[newest] \in Ring /\ RingShape(ring[newest])
      /\ ring \in [1 .. newest -> Ring]
  BY Generations DEF IInv, TypeOK
<1>2. /\ r \in Ring /\ RingShape(r) /\ r.size = ring[newest].size /\ r.inUse
      /\ r.valid = ring[newest].valid
      /\ n \in 0 .. len /\ n <= r.free /\ r.produce + n <= r.size
      /\ ring[newest].valid > 0 =>
           /\ r.consume = ring[newest].consume
           /\ \A k \in 0 .. ring[newest].valid :
                ring[newest].consume + k <= ring[newest].size - ring[newest].spare
                  => ring[newest].consume + k <= ring[newest].size - r.spare
  BY <1>1, GrantingShape
<1>3. /\ side = "input" /\ newest' = newest /\ mem' = mem
      /\ ring' = [ring EXCEPT ![newest] = r]
      /\ grant' = [gen |-> newest, off |-> r.produce, len |-> n]
      /\ live' = Pruned(live) /\ out' = <<>>
      /\ UNCHANGED <<side, locked, loan, rest, want, sent>>
  BY DEF ProduceBuffer
<1> HIDE DEF r, n
<1>4. live' \subseteq live /\ newest \in live'
  BY <1>1, <1>3 DEF Pruned
<1>5. TypeOK' /\ Shapes'
  <2>1. MemoryOK(mem')
    BY <1>3 DEF IInv, TypeOK, MemoryOK
  <2>2. /\ newest' \in 1 .. MaxGenerations /\ ring' \in [1 .. newest' -> Ring]
        /\ DOMAIN mem' = 1 .. newest'
        /\ \A h \in 1 .. newest' :
             mem'[h] \in [0 .. ring'[h].size - 1 -> Bytes \cup {Junk}]
        /\ Shapes'
    BY <1>1, <1>2, <1>3, <2>1, OneRingChanges
  <2>3. grant' \in BlockType
    BY <1>1, <1>2, <1>3, RingFields DEF BlockType
  <2>4. live' \subseteq 1 .. newest' /\ newest' \in live'
    BY <1>1, <1>3, <1>4
  <2>5. /\ side' = side /\ locked' = locked /\ loan' = loan
        /\ rest' = rest /\ want' = want /\ sent' = sent /\ out' = <<>>
    BY <1>3
  <2>6. QED
    BY <2>2, <2>3, <2>4, <2>5, NothingOut DEF IInv, TypeOK
<1>6. GrantHeld'
  BY <1>1, <1>2, <1>3, <1>4 DEF GrantHeld
<1>7. LoanHeld'
  <2>1. \A g \in live : ring[g].valid > 0 => g \in live'
    BY <1>3 DEF Pruned
  <2>2. \A g \in live : g # newest => ring'[g] = ring[g]
    BY <1>1, <1>3
  <2>3. ring'[newest] = r
    BY <1>1, <1>3
  <2>4. \A g \in live : ring[g] \in Ring
    BY <1>1
  <2>5. ASSUME NEW g \in live, ring[g].valid > 0
        PROVE  /\ ring'[g].size = ring[g].size
               /\ ring'[g].consume = ring[g].consume
               /\ ring'[g].valid \in Nat /\ ring'[g].valid >= ring[g].valid
               /\ \A k \in 0 .. ring[g].valid :
                    ring[g].consume + k <= ring[g].size - ring[g].spare
                      => ring[g].consume + k <= ring[g].size - ring'[g].spare
    <3>1. ring[g].valid \in Nat
      BY <2>4, RingFields
    <3>2. CASE g = newest
      BY <1>2, <2>3, <2>5, <3>1, <3>2
    <3>3. CASE g # newest
      BY <2>2, <3>1, <3>3
    <3>4. QED
      BY <3>2, <3>3
  <2>6. QED
    BY <1>3, <1>4, <2>1, <2>5, LoanKept
<1>8. CallsMatchSide'
  BY <1>3 DEF IInv, CallsMatchSide, Producing, Consuming
<1>9. QED
  BY <1>5, <1>6, <1>7, <1>8 DEF IInv

LEMMA ValidBufferInv ==
  ASSUME IInv, NEW n \in 0 .. grant.len, ValidBuffer(n)
  PROVE  IInv'
<1> DEFINE b == grant.gen
           r == Validated(ring[b], n)
           rings == [ring EXCEPT ![b] = r]
           m == Stored(mem[b], grant.off, Stamps(n))
<1>1. /\ newest \in Nat /\ newest \in live
      /\ live \subseteq 1 .. newest /\ live \subseteq Nat
      /\ ring \in [1 .. newest -> Ring]
  BY Generations DEF IInv, TypeOK
<1>2. /\ grant # NoBlock /\ b \in live /\ grant.off = ring[b].produce
      /\ grant.off + grant.len <= ring[b].size /\ grant.len <= ring[b].free
      /\ grant.off \in Nat /\ grant.len \in Nat
  BY DEF ValidBuffer, IInv, GrantHeld, TypeOK, BlockType
<1>3. /\ newest' = newest /\ ring' = rings /\ live' = Drained(rings, live, b)
      /\ mem' = [mem EXCEPT ![b] = m] /\ sent' = (sent + n) % Period
      /\ grant' = NoBlock /\ out' = <<>>
      /\ side' = side /\ locked' = locked /\ loan' = loan
      /\ rest' = rest /\ want' = want
  BY <1>2 DEF ValidBuffer
<1>4. ring[b] \in Ring /\ RingShape(ring[b]) /\ b \in 1 .. newest
  BY <1>1, <1>2, Generations
<1>5. n \in Nat /\ n <= ring[b].free /\ ring[b].produce + n <= ring[b].size
  BY <1>2, <1>4, RingFields
<1>6. /\ r \in Ring /\ RingShape(r) /\ r.size = ring[b].size
      /\ r.consume = ring[b].consume /\ r.spare = ring[b].spare
      /\ r.valid = ring[b].valid + n
  BY <1>4, <1>5, ValidatedShape
<1>7. live' \subseteq live /\ newest \in live'
      /\ \A g \in live : g < b \/ rings[g].inUse \/ rings[g].valid > 0 => g \in live'
  <2> HIDE DEF rings
  <2> QED
    BY <1>1, <1>2, <1>3, DrainedKeeps
<1>8. m \in [0 .. ring[b].size - 1 -> Bytes \cup {Junk}]
  <2>1. mem[b] \in [0 .. ring[b].size - 1 -> Bytes \cup {Junk}]
    BY <1>4 DEF IInv, TypeOK
  <2>2. Stamps(n) \in Seq(Bytes)
    BY <1>5, StampsType DEF IInv, TypeOK
  <2>3. ring[b].size \in Nat
    BY <1>4, RingFields
  <2>4. QED
    BY <1>2, <2>1, <2>2, <2>3, StoredType
<1> HIDE DEF r, m
<1>9. MemoryOK(mem')
  BY <1>3, <1>4, <1>8, OneMemoryChanges
<1>10. /\ newest' \in 1 .. MaxGenerations /\ ring' \in [1 .. newest' -> Ring]
       /\ DOMAIN mem' = 1 .. newest'
       /\ \A h \in 1 .. newest' :
            mem'[h] \in [0 .. ring'[h].size - 1 -> Bytes \cup {Junk}]
       /\ Shapes'
       /\ ring'[b] = r /\ \A h \in 1 .. newest : h # b => ring'[h] = ring[h]
  <2>1. ring' = [ring EXCEPT ![b] = r]
    BY <1>3
  <2> HIDE DEF b
  <2>2. QED
    BY <1>3, <1>4, <1>6, <1>9, <2>1, OneRingChanges
<1>11. TypeOK'
  <2>1. sent' \in Bytes
    BY <1>3, <1>5, SentType DEF IInv, TypeOK
  <2>2. live' \subseteq 1 .. newest' /\ newest' \in live'
    BY <1>1, <1>3, <1>7
  <2>3. grant' \in BlockType
    BY <1>3 DEF NoBlock, BlockType
  <2>4. QED
    BY <1>3, <1>10, <2>1, <2>2, <2>3, NothingOut DEF IInv, TypeOK
<1>12. GrantHeld'
  BY <1>3 DEF GrantHeld
<1>13. LoanHeld'
  <2>1. ASSUME NEW g \in live, ring[g].valid > 0
        PROVE  /\ g \in live'
               /\ ring'[g].size = ring[g].size
               /\ ring'[g].consume = ring[g].consume
               /\ ring'[g].valid \in Nat /\ ring'[g].valid >= ring[g].valid
               /\ \A k \in 0 .. ring[g].valid :
                    ring[g].consume + k <= ring[g].size - ring[g].spare
                      => ring[g].consume + k <= ring[g].size - ring'[g].spare
    <3>1. ring[g].valid \in Nat
      BY <1>1, RingFields
    <3>2. CASE g = b
      <4>1. ring'[g] = r
        BY <1>10, <3>2
      <4>2. r.valid \in Nat /\ r.valid >= ring[g].valid /\ r.valid > 0
        BY <1>5, <1>6, <2>1, <3>1, <3>2
      <4>3. QED
        BY <1>3, <1>6, <1>7, <3>2, <4>1, <4>2
    <3>3. CASE g # b
      <4>1. ring'[g] = ring[g]
        BY <1>1, <1>10, <3>3
      <4>2. g \in live'
        BY <1>3, <1>7, <2>1, <4>1
      <4>3. QED
        BY <3>1, <4>1, <4>2
    <3>4. QED
      BY <3>2, <3>3
  <2>2. QED
    BY <1>3, <1>7, <2>1, LoanKept
<1>14. CallsMatchSide'
  BY <1>3 DEF IInv, CallsMatchSide, Producing, Consuming
<1>15. QED
  BY <1>10, <1>11, <1>12, <1>13, <1>14 DEF IInv

LEMMA AbandonGrantInv ==
  ASSUME IInv, AbandonGrant
  PROVE  IInv'
<1>1. /\ grant' = NoBlock /\ out' = <<>>
      /\ side' = side /\ newest' = newest /\ ring' = ring /\ mem' = mem
      /\ live' = live /\ locked' = locked /\ loan' = loan
      /\ rest' = rest /\ want' = want /\ sent' = sent
  BY DEF AbandonGrant
<1>2. NoBlock \in BlockType
  BY DEF NoBlock, BlockType
<1>3. TypeOK' /\ Shapes'
  BY <1>1, <1>2, NothingOut DEF IInv, TypeOK, Shapes
<1>4. GrantHeld' /\ LoanHeld' /\ CallsMatchSide'
  BY <1>1 DEF IInv, GrantHeld, LoanHeld, CallsMatchSide, Producing, Consuming
<1>5. QED
  BY <1>3, <1>4 DEF IInv

LEMMA ConsumeBufferInv ==
  ASSUME IInv, NEW len \in Nat, ConsumeBuffer(len)
  PROVE  IInv'
<1> DEFINE L == Drained(ring, live, Top(live))
           t == Top(L)
           n == LoanLength(ring[t], len)
<1>1. /\ newest \in Nat /\ newest \in live
      /\ live \subseteq 1 .. newest /\ live \subseteq Nat
      /\ Top(live) \in live /\ \A h \in live : Top(live) <= h
  BY Generations
<1>2. /\ live' = L /\ n > 0 /\ side # "pipe"
      /\ loan' = [gen |-> t, off |-> ring[t].consume, len |-> n]
      /\ out' = <<>> /\ side' = side /\ newest' = newest /\ ring' = ring
      /\ mem' = mem /\ locked' = locked /\ grant' = grant
      /\ rest' = rest /\ want' = want /\ sent' = sent
  BY DEF ConsumeBuffer, MayConsume
<1>3. /\ L \subseteq live /\ newest \in L
      /\ \A g \in live : ring[g].inUse => g \in L
  BY <1>1, DrainedKeeps
<1> HIDE DEF L
<1>4. t \in L /\ \A h \in L : t <= h
  BY <1>1, <1>3, TopIsLeast
<1> HIDE DEF t
<1>5. ring[t] \in Ring /\ RingShape(ring[t])
  BY <1>1, <1>3, <1>4, Generations
<1>6. /\ n \in 0 .. len /\ n <= ring[t].valid
      /\ ring[t].consume + n <= ring[t].size - ring[t].spare
  BY <1>5, LoanLengthBounds
<1> HIDE DEF n
<1>7. TypeOK' /\ Shapes'
  <2>1. loan' \in BlockType
    <3>1. t \in Nat
      BY <1>1, <1>3, <1>4
    <3>2. ring[t].consume \in Nat
      BY <1>5, RingFields
    <3>3. n \in Nat
      BY <1>6
    <3>4. QED
      BY <1>2, <3>1, <3>2, <3>3 DEF BlockType
  <2>2. live' \subseteq 1 .. newest' /\ newest' \in live'
    BY <1>1, <1>2, <1>3
  <2>3. QED
    BY <1>2, <2>1, <2>2, NothingOut DEF IInv, TypeOK, Shapes
<1>8. GrantHeld'
  <2>1. \A g \in live : ring[g].free \in Nat
    BY <1>1, Generations, RingFields
  <2>2. QED
    BY <1>2, <1>3, <2>1, GrantKept
<1>9. LoanHeld'
  <2>1. n \in 1 .. ring[t].valid
    BY <1>2, <1>5, <1>6, RingFields
  <2>2. QED
    BY <1>2, <1>4, <1>6, <2>1 DEF LoanHeld
<1>10. CallsMatchSide'
  BY <1>2 DEF ConsumeBuffer, MayConsume, IInv, CallsMatchSide, Producing, Consuming
<1>11. QED
  BY <1>7, <1>8, <1>9, <1>10 DEF IInv

(***************************************************************************)
(* FreeBuffer, called by interrupt code or in an iteration of Consume, on  *)
(* a block that ConsumeBuffer would return.                                *)
(***************************************************************************)
LEMMA FreeTopInv ==
  ASSUME IInv, NEW n \in Nat, NEW t, t = Top(live),
         n <= ring[t].valid, ring[t].consume + n <= ring[t].size - ring[t].spare,
         newest' = newest, side' = side, grant' = grant, sent' = sent,
         ring' = [ring EXCEPT ![t] = Freed(@, n)],
         live' = Drained(ring', live, t),
         mem' = [mem EXCEPT ![t] = Erased(@, ring[t].consume, n)]
  PROVE  /\ newest' \in 1 .. MaxGenerations /\ ring' \in [1 .. newest' -> Ring]
         /\ DOMAIN mem' = 1 .. newest'
         /\ \A h \in 1 .. newest' :
              mem'[h] \in [0 .. ring'[h].size - 1 -> Bytes \cup {Junk}]
         /\ Shapes'
         /\ live' \subseteq 1 .. newest' /\ newest' \in live'
         /\ GrantHeld'
         /\ Block(mem[t], ring[t].consume, n) \in Seq(Bytes \cup {Junk})
<1> DEFINE r == Freed(ring[t], n)
           m == Erased(mem[t], ring[t].consume, n)
<1>1. /\ newest \in Nat /\ newest \in live
      /\ live \subseteq 1 .. newest /\ live \subseteq Nat
      /\ t \in live /\ \A h \in live : t <= h
      /\ ring[t] \in Ring /\ RingShape(ring[t]) /\ t \in 1 .. newest
  BY Generations
<1>2. /\ r \in Ring /\ RingShape(r) /\ r.size = ring[t].size
      /\ r.inUse = ring[t].inUse /\ r.produce = ring[t].produce
      /\ r.free >= ring[t].free
  BY <1>1, FreedShape
<1>3. /\ mem[t] \in [0 .. ring[t].size - 1 -> Bytes \cup {Junk}]
      /\ ring[t].size \in Nat /\ ring[t].consume \in Nat /\ ring[t].spare \in Nat
  BY <1>1, RingFields DEF IInv, TypeOK
<1>4. m \in [0 .. ring[t].size - 1 -> Bytes \cup {Junk}]
  BY <1>3, ErasedType
<1>5. ring' = [ring EXCEPT ![t] = r] /\ mem' = [mem EXCEPT ![t] = m]
  OBVIOUS
<1> HIDE DEF r, m
<1>6. MemoryOK(mem')
  <2>1. MemoryOK([mem EXCEPT ![t] = m])
    BY <1>1, <1>4, OneMemoryChanges
  <2>2. QED
    BY <1>5, <2>1
<1>7. /\ newest' \in 1 .. MaxGenerations /\ ring' \in [1 .. newest' -> Ring]
      /\ DOMAIN mem' = 1 .. newest'
      /\ \A h \in 1 .. newest' :
           mem'[h] \in [0 .. ring'[h].size - 1 -> Bytes \cup {Junk}]
      /\ Shapes'
      /\ ring'[t] = r /\ \A h \in 1 .. newest : h # t => ring'[h] = ring[h]
  BY <1>1, <1>2, <1>5, <1>6, OneRingChanges
<1>8. /\ live' \subseteq live /\ newest \in live'
      /\ \A g \in live : ring'[g].inUse => g \in live'
  BY <1>1, DrainedKeeps
<1>9. GrantHeld'
  <2>1. ASSUME NEW g \in live, ring[g].inUse
        PROVE  /\ g \in live' /\ ring'[g].inUse
               /\ ring'[g].size = ring[g].size
               /\ ring'[g].produce = ring[g].produce
               /\ ring'[g].free \in Nat /\ ring'[g].free >= ring[g].free
    <3>1. ring[g] \in Ring /\ ring[g].free \in Nat /\ r.free \in Nat
      BY <1>1, <1>2, Generations, RingFields
    <3>2. CASE g = t
      BY <1>2, <1>7, <1>8, <2>1, <3>1, <3>2
    <3>3. CASE g # t
      <4>1. ring'[g] = ring[g]
        BY <1>1, <1>7, <3>3
      <4>2. ring'[g].inUse /\ g \in live'
        BY <1>8, <2>1, <4>1
      <4>3. QED
        BY <3>1, <4>1, <4>2
    <3>4. QED
      BY <3>2, <3>3
  <2>2. QED
    BY <2>1, GrantKept
<1>10. Block(mem[t], ring[t].consume, n) \in Seq(Bytes \cup {Junk})
  <2>1. ring[t].consume + n <= ring[t].size
    BY <1>3
  <2>2. QED
    BY <1>3, <2>1, BlockInSeq
<1>11. QED
  BY <1>1, <1>7, <1>8, <1>9, <1>10

LEMMA FreeBufferInv ==
  ASSUME IInv, FreeBuffer
  PROVE  IInv'
<1> DEFINE t == Top(live)
<1>1. /\ loan # NoBlock /\ loan' = NoBlock
      /\ ring' = [ring EXCEPT ![t] = Freed(@, loan.len)]
      /\ live' = Drained(ring', live, t)
      /\ out' = Block(mem[loan.gen], loan.off, loan.len)
      /\ mem' = [mem EXCEPT ![loan.gen] = Erased(@, loan.off, loan.len)]
      /\ side' = side /\ newest' = newest /\ locked' = locked /\ grant' = grant
      /\ rest' = rest /\ want' = want /\ sent' = sent
  BY DEF FreeBuffer
<1>2. /\ loan.gen \in live /\ \A h \in live : loan.gen <= h
      /\ loan.off = ring[loan.gen].consume
      /\ loan.len \in 1 .. ring[loan.gen].valid
      /\ loan.off + loan.len <= ring[loan.gen].size - ring[loan.gen].spare
      /\ loan.len \in Nat
  BY <1>1 DEF IInv, LoanHeld, TypeOK, BlockType
<1>3. t = loan.gen
  BY <1>2, Generations, TopIs
<1>4. loan.len <= ring[t].valid
  BY <1>2, <1>3, Generations, RingFields
<1>5. /\ newest' \in 1 .. MaxGenerations /\ ring' \in [1 .. newest' -> Ring]
      /\ DOMAIN mem' = 1 .. newest'
      /\ \A h \in 1 .. newest' :
           mem'[h] \in [0 .. ring'[h].size - 1 -> Bytes \cup {Junk}]
      /\ Shapes'
      /\ live' \subseteq 1 .. newest' /\ newest' \in live'
      /\ GrantHeld'
      /\ Block(mem[t], ring[t].consume, loan.len) \in Seq(Bytes \cup {Junk})
  <2>1. t = Top(live)
    OBVIOUS
  <2> HIDE DEF t
  <2>2. QED
    BY <1>1, <1>2, <1>3, <1>4, <2>1, FreeTopInv
<1> HIDE DEF t
<1>6. TypeOK'
  <2>1. NoBlock \in BlockType
    BY DEF NoBlock, BlockType
  <2>2. out' \in Seq(Bytes \cup {Junk})
    BY <1>1, <1>2, <1>3, <1>5
  <2>3. QED
    BY <1>1, <1>5, <2>1, <2>2 DEF IInv, TypeOK
<1>7. LoanHeld' /\ CallsMatchSide'
  BY <1>1 DEF IInv, LoanHeld, CallsMatchSide, Producing, Consuming
<1>8. QED
  BY <1>5, <1>6, <1>7 DEF IInv

LEMMA BeginProduceInv ==
  ASSUME IInv, NEW n \in Nat, BeginProduce(n)
  PROVE  IInv'
<1>1. /\ side \in {"output", "pipe"} /\ ~Consuming
      /\ rest' = n /\ locked' = locked + 1 /\ out' = <<>>
      /\ side' = side /\ newest' = newest /\ ring' = ring /\ mem' = mem
      /\ live' = live /\ grant' = grant /\ loan' = loan
      /\ want' = want /\ sent' = sent
  BY DEF BeginProduce
<1>2. TypeOK' /\ Shapes'
  BY <1>1, NothingOut DEF IInv, TypeOK, Shapes
<1>3. GrantHeld' /\ LoanHeld' /\ CallsMatchSide'
  BY <1>1 DEF IInv, GrantHeld, LoanHeld, CallsMatchSide, Producing, Consuming
<1>4. QED
  BY <1>2, <1>3 DEF IInv

LEMMA ProduceStepInv ==
  ASSUME IInv, ProduceStep
  PROVE  IInv'
<1> DEFINE r == Granting(ring[newest], rest)
           part == GrantLength(ring[newest], rest)
           v == Validated(r, part)
           m == Stored(mem[newest], r.produce, Stamps(part))
<1>1. /\ newest \in Nat /\ newest \in 1 .. newest
      /\ live \subseteq 1 .. newest /\ newest \in live
      /\ ring[newest] \in Ring /\ RingShape(ring[newest])
  BY Generations
<1>2. /\ rest > 0 /\ ring' = [ring EXCEPT ![newest] = v]
      /\ mem' = [mem EXCEPT ![newest] = m]
      /\ rest' = rest - part /\ sent' = (sent + part) % Period
      /\ live' = Pruned(live) /\ out' = <<>>
      /\ side' = side /\ newest' = newest /\ locked' = locked
      /\ grant' = grant /\ loan' = loan /\ want' = want
  BY DEF ProduceStep
<1>3. rest \in Nat /\ side # "input" /\ grant = NoBlock
  BY <1>2 DEF IInv, TypeOK, NotRunning, CallsMatchSide, Producing, GrantHeld
<1>4. /\ r \in Ring /\ RingShape(r) /\ r.size = ring[newest].size
      /\ r.valid = ring[newest].valid
      /\ part \in 0 .. rest /\ part <= r.free /\ r.produce + part <= r.size
      /\ ring[newest].valid > 0 =>
           /\ r.consume = ring[newest].consume
           /\ \A k \in 0 .. ring[newest].valid :
                ring[newest].consume + k <= ring[newest].size - ring[newest].spare
                  => ring[newest].consume + k <= ring[newest].size - r.spare
  BY <1>1, <1>3, GrantingShape
<1> HIDE DEF r, part
<1>5. part \in Nat
  BY <1>3, <1>4
<1>6. /\ v \in Ring /\ RingShape(v) /\ v.size = r.size
      /\ v.consume = r.consume /\ v.spare = r.spare /\ v.valid = r.valid + part
  BY <1>4, <1>5, ValidatedShape
<1>7. m \in [0 .. ring[newest].size - 1 -> Bytes \cup {Junk}]
  <2>1. mem[newest] \in [0 .. ring[newest].size - 1 -> Bytes \cup {Junk}]
    BY <1>1 DEF IInv, TypeOK
  <2>2. Stamps(part) \in Seq(Bytes)
    BY <1>5, StampsType DEF IInv, TypeOK
  <2>3. ring[newest].size \in Nat /\ r.produce \in Nat
    BY <1>1, <1>4, RingFields
  <2>4. QED
    BY <2>1, <2>2, <2>3, StoredType
<1> HIDE DEF v, m
<1>8. MemoryOK(mem')
  <2>1. MemoryOK([mem EXCEPT ![newest] = m])
    BY <1>1, <1>7, OneMemoryChanges
  <2>2. QED
    BY <1>2, <2>1
<1>9. /\ newest' \in 1 .. MaxGenerations /\ ring' \in [1 .. newest' -> Ring]
      /\ DOMAIN mem' = 1 .. newest'
      /\ \A h \in 1 .. newest' :
           mem'[h] \in [0 .. ring'[h].size - 1 -> Bytes \cup {Junk}]
      /\ Shapes'
      /\ ring'[newest] = v
      /\ \A h \in 1 .. newest : h # newest => ring'[h] = ring[h]
  BY <1>1, <1>2, <1>4, <1>6, <1>8, OneRingChanges
<1>10. /\ live' \subseteq live /\ newest \in live'
       /\ \A g \in live : ring[g].valid > 0 => g \in live'
  BY <1>1, <1>2 DEF Pruned
<1>11. TypeOK'
  <2>1. sent' \in Bytes
    BY <1>2, <1>5, SentType DEF IInv, TypeOK
  <2>2. live' \subseteq 1 .. newest' /\ newest' \in live'
    BY <1>1, <1>2, <1>10
  <2>3. rest' \in Nat
    BY <1>2, <1>3, <1>4
  <2>4. QED
    BY <1>2, <1>9, <2>1, <2>2, <2>3, NothingOut DEF IInv, TypeOK
<1>12. GrantHeld'
  BY <1>2, <1>3 DEF GrantHeld
<1>13. LoanHeld'
  <2>1. ASSUME NEW g \in live, ring[g].valid > 0
        PROVE  /\ ring'[g].size = ring[g].size
               /\ ring'[g].consume = ring[g].consume
               /\ ring'[g].valid \in Nat /\ ring'[g].valid >= ring[g].valid
               /\ \A k \in 0 .. ring[g].valid :
                    ring[g].consume + k <= ring[g].size - ring[g].spare
                      => ring[g].consume + k <= ring[g].size - ring'[g].spare
    <3>1. ring[g].valid \in Nat
      BY <1>1, Generations, RingFields
    <3>2. CASE g = newest
      BY <1>4, <1>5, <1>6, <1>9, <2>1, <3>1, <3>2
    <3>3. CASE g # newest
      <4>1. ring'[g] = ring[g]
        BY <1>1, <1>9, <3>3
      <4>2. QED
        BY <3>1, <4>1
    <3>4. QED
      BY <3>2, <3>3
  <2>2. QED
    BY <1>2, <1>10, <2>1, LoanKept
<1>14. CallsMatchSide'
  <2>1. Producing
    BY <1>3 DEF Producing, NotRunning
  <2>2. QED
    BY <1>2, <2>1 DEF IInv, CallsMatchSide, Consuming
<1>15. QED
  BY <1>9, <1>11, <1>12, <1>13, <1>14 DEF IInv

LEMMA EndProduceInv ==
  ASSUME IInv, EndProduce
  PROVE  IInv'
<1>1. /\ rest' = NotRunning /\ locked' = locked - 1 /\ out' = <<>>
      /\ side' = side /\ newest' = newest /\ ring' = ring /\ mem' = mem
      /\ live' = live /\ grant' = grant /\ loan' = loan
      /\ want' = want /\ sent' = sent
  BY DEF EndProduce
<1>2. TypeOK' /\ Shapes'
  <2>1. locked' \in Int
    BY <1>1 DEF IInv, TypeOK
  <2>2. QED
    BY <1>1, <2>1, NothingOut DEF IInv, TypeOK, Shapes
<1>3. GrantHeld' /\ LoanHeld' /\ CallsMatchSide'
  BY <1>1 DEF IInv, GrantHeld, LoanHeld, CallsMatchSide, Producing, Consuming
<1>4. QED
  BY <1>2, <1>3 DEF IInv

LEMMA BeginConsumeInv ==
  ASSUME IInv, NEW n \in Nat, BeginConsume(n)
  PROVE  IInv'
<1>1. /\ side \in {"input", "pipe"} /\ (side = "input" => loan = NoBlock)
      /\ want' = n /\ locked' = locked + 1 /\ out' = <<>>
      /\ side' = side /\ newest' = newest /\ ring' = ring /\ mem' = mem
      /\ live' = live /\ grant' = grant /\ loan' = loan
      /\ rest' = rest /\ sent' = sent
  BY DEF BeginConsume
<1>2. TypeOK' /\ Shapes'
  BY <1>1, NothingOut DEF IInv, TypeOK, Shapes
<1>3. GrantHeld' /\ LoanHeld' /\ CallsMatchSide'
  BY <1>1 DEF IInv, GrantHeld, LoanHeld, CallsMatchSide, Producing, Consuming
<1>4. QED
  BY <1>2, <1>3 DEF IInv

LEMMA ConsumeStepInv ==
  ASSUME IInv, ConsumeStep
  PROVE  IInv'
<1> DEFINE t == Top(live)
           part == LoanLength(ring[t], want)
<1>1. /\ want > 0 /\ ring' = [ring EXCEPT ![t] = Freed(@, part)]
      /\ live' = Drained(ring', live, t)
      /\ out' = Block(mem[t], ring[t].consume, part)
      /\ mem' = [mem EXCEPT ![t] = Erased(@, ring[t].consume, part)]
      /\ want' = want - part
      /\ side' = side /\ newest' = newest /\ locked' = locked
      /\ grant' = grant /\ loan' = loan /\ rest' = rest /\ sent' = sent
  BY DEF ConsumeStep
<1>2. want \in Nat /\ Consuming
  BY <1>1 DEF IInv, TypeOK, NotRunning, Consuming
<1>3. loan = NoBlock
  BY <1>2 DEF IInv, CallsMatchSide
<1>4. ring[t] \in Ring /\ RingShape(ring[t])
  BY Generations
<1>5. /\ part \in 0 .. want /\ part <= ring[t].valid
      /\ ring[t].consume + part <= ring[t].size - ring[t].spare
  BY <1>2, <1>4, LoanLengthBounds
<1>6. part \in Nat /\ want - part \in Nat
  BY <1>2, <1>5
<1> HIDE DEF part
<1>7. /\ newest' \in 1 .. MaxGenerations /\ ring' \in [1 .. newest' -> Ring]
      /\ DOMAIN mem' = 1 .. newest'
      /\ \A h \in 1 .. newest' :
           mem'[h] \in [0 .. ring'[h].size - 1 -> Bytes \cup {Junk}]
      /\ Shapes'
      /\ live' \subseteq 1 .. newest' /\ newest' \in live'
      /\ GrantHeld'
      /\ Block(mem[t], ring[t].consume, part) \in Seq(Bytes \cup {Junk})
  <2>1. t = Top(live)
    OBVIOUS
  <2> HIDE DEF t
  <2>2. QED
    BY <1>1, <1>5, <1>6, <2>1, FreeTopInv
<1> HIDE DEF t
<1>8. TypeOK'
  BY <1>1, <1>6, <1>7 DEF IInv, TypeOK
<1>9. LoanHeld' /\ CallsMatchSide'
  BY <1>1, <1>2, <1>3 DEF IInv, LoanHeld, CallsMatchSide, Producing, Consuming
<1>10. QED
  BY <1>7, <1>8, <1>9 DEF IInv

LEMMA EndConsumeInv ==
  ASSUME IInv, EndConsume
  PROVE  IInv'
<1>1. /\ want' = NotRunning /\ locked' = locked - 1 /\ out' = <<>>
      /\ side' = side /\ newest' = newest /\ ring' = ring /\ mem' = mem
      /\ live' = live /\ grant' = grant /\ loan' = loan
      /\ rest' = rest /\ sent' = sent
  BY DEF EndConsume
<1>2. TypeOK' /\ Shapes'
  BY <1>1, NothingOut DEF IInv, TypeOK, Shapes
<1>3. GrantHeld' /\ LoanHeld' /\ CallsMatchSide'
  BY <1>1 DEF IInv, GrantHeld, LoanHeld, CallsMatchSide, Producing, Consuming
<1>4. QED
  BY <1>2, <1>3 DEF IInv

LEMMA SwitchSameSizeInv ==
  ASSUME IInv, NEW n \in Sizes, SwitchSameSize(n)
  PROVE  IInv'
<1>1. /\ locked' = (IF Top(live) = newest THEN locked + 1 ELSE locked)
      /\ out' = <<>>
      /\ side' = side /\ newest' = newest /\ ring' = ring /\ mem' = mem
      /\ live' = live /\ grant' = grant /\ loan' = loan
      /\ rest' = rest /\ want' = want /\ sent' = sent
  BY DEF SwitchSameSize
<1>2. locked' \in Int
  BY <1>1 DEF IInv, TypeOK
<1>3. TypeOK' /\ Shapes'
  BY <1>1, <1>2, NothingOut DEF IInv, TypeOK, Shapes
<1>4. GrantHeld' /\ LoanHeld' /\ CallsMatchSide'
  BY <1>1 DEF IInv, GrantHeld, LoanHeld, CallsMatchSide, Producing, Consuming
<1>5. QED
  BY <1>3, <1>4 DEF IInv

\* A new generation is well-formed, and disturbs no other.
LEMMA AddGenerationInv ==
  ASSUME IInv, NEW n \in Nat, AddGeneration(n)
  PROVE  /\ newest' = newest + 1 /\ newest' \in 1 .. MaxGenerations
         /\ ring' \in [1 .. newest' -> Ring]
         /\ DOMAIN mem' = 1 .. newest'
         /\ \A h \in 1 .. newest' :
              mem'[h] \in [0 .. ring'[h].size - 1 -> Bytes \cup {Junk}]
         /\ Shapes'
         /\ \A g \in live : ring'[g] = ring[g]
<1>1. /\ newest \in Nat /\ newest >= 1 /\ newest \in 1 .. MaxGenerations
      /\ ring \in [1 .. newest -> Ring] /\ live \subseteq 1 .. newest
      /\ \A h \in 1 .. newest :
           /\ mem[h] \in [0 .. ring[h].size - 1 -> Bytes \cup {Junk}]
           /\ RingShape(ring[h])
  BY BoundsAssumption DEF IInv, TypeOK, Shapes
<1>2. /\ newest < MaxGenerations /\ newest' = newest + 1
      /\ ring' = [g \in 1 .. newest + 1 |->
                    IF g = newest + 1 THEN NewRing(n) ELSE ring[g]]
      /\ mem' = [g \in 1 .. newest + 1 |->
                   IF g = newest + 1 THEN FreshMemory(n) ELSE mem[g]]
  BY DEF AddGeneration
<1>3. NewRing(n) \in Ring /\ RingShape(NewRing(n)) /\ NewRing(n).size = n
  BY NewRingShape
<1>4. FreshMemory(n) \in [0 .. n - 1 -> Bytes \cup {Junk}]
  BY DEF FreshMemory
<1>5. newest' \in 1 .. MaxGenerations
  BY <1>1, <1>2, BoundsAssumption
<1>6. ASSUME NEW h \in 1 .. newest'
      PROVE  /\ ring'[h] \in Ring /\ RingShape(ring'[h])
             /\ mem'[h] \in [0 .. ring'[h].size - 1 -> Bytes \cup {Junk}]
  <2>1. CASE h = newest + 1
    <3>1. ring'[h] = NewRing(n) /\ mem'[h] = FreshMemory(n)
      BY <1>1, <1>2, <2>1
    <3>2. QED
      BY <1>3, <1>4, <3>1
  <2>2. CASE h # newest + 1
    <3>1. h \in 1 .. newest
      BY <1>1, <1>2, <2>2
    <3>2. ring'[h] = ring[h] /\ mem'[h] = mem[h]
      BY <1>1, <1>2, <2>2
    <3>3. QED
      BY <1>1, <3>1, <3>2
  <2>3. QED
    BY <2>1, <2>2
<1>7. ring' \in [1 .. newest' -> Ring] /\ DOMAIN mem' = 1 .. newest'
  BY <1>2, <1>6
<1>8. \A g \in live : ring'[g] = ring[g]
  BY <1>1, <1>2
<1>9. QED
  BY <1>2, <1>5, <1>6, <1>7, <1>8 DEF Shapes

LEMMA SwitchInPlaceInv ==
  ASSUME IInv, NEW n \in Sizes, SwitchInPlace(n)
  PROVE  IInv'
<1>1. /\ ~ring[newest].inUse /\ ring[newest].valid = 0 /\ AddGeneration(n)
      /\ live' = (live \ {newest}) \cup {newest + 1}
      /\ locked' = (IF Top(live) = newest THEN -1 ELSE locked)
      /\ out' = <<>> /\ side' = side /\ grant' = grant /\ loan' = loan
      /\ rest' = rest /\ want' = want /\ sent' = sent
  BY DEF SwitchInPlace
<1>2. n \in Nat
  BY SizesAssumption
<1>3. /\ newest \in Nat /\ newest \in live
      /\ live \subseteq 1 .. newest /\ live \subseteq Nat
  BY Generations
<1>4. /\ newest' = newest + 1 /\ newest' \in 1 .. MaxGenerations
      /\ ring' \in [1 .. newest' -> Ring]
      /\ DOMAIN mem' = 1 .. newest'
      /\ \A h \in 1 .. newest' :
           mem'[h] \in [0 .. ring'[h].size - 1 -> Bytes \cup {Junk}]
      /\ Shapes'
      /\ \A g \in live : ring'[g] = ring[g]
  BY <1>1, <1>2, AddGenerationInv
<1>5. TypeOK'
  <2>1. live' \subseteq 1 .. newest' /\ newest' \in live'
    <3>1. newest + 1 \in 1 .. newest + 1 /\ \A g \in live : g \in 1 .. newest + 1
      BY <1>3
    <3>2. QED
      BY <1>1, <1>4, <3>1
  <2>2. locked' \in Int
    BY <1>1 DEF IInv, TypeOK
  <2>3. QED
    BY <1>1, <1>4, <2>1, <2>2, NothingOut DEF IInv, TypeOK
<1>6. GrantHeld'
  <2>1. \A g \in live : ring[g].free \in Nat
    BY Generations, RingFields
  <2>2. QED
    BY <1>1, <1>4, <2>1, GrantKept
<1>7. LoanHeld'
  <2>1. SUFFICES ASSUME loan # NoBlock PROVE LoanHeld'
    BY <1>1 DEF LoanHeld
  <2>2. /\ side # "pipe" /\ loan.gen \in live
        /\ \A h \in live : loan.gen <= h
        /\ loan.off = ring[loan.gen].consume
        /\ loan.len \in 1 .. ring[loan.gen].valid
        /\ loan.off + loan.len <= ring[loan.gen].size - ring[loan.gen].spare
    BY <2>1 DEF IInv, LoanHeld
  <2>3. loan.gen # newest
    BY <1>1, <2>2
  <2>4. loan.gen \in live' /\ \A h \in live' : loan.gen <= h
    <3>1. loan.gen \in Nat /\ loan.gen <= newest
      BY <1>3, <2>2
    <3>2. loan.gen <= newest + 1
      BY <1>3, <3>1
    <3>3. QED
      BY <1>1, <2>2, <2>3, <3>2
  <2>5. QED
    BY <1>1, <1>4, <2>2, <2>4 DEF LoanHeld
<1>8. CallsMatchSide'
  BY <1>1 DEF IInv, CallsMatchSide, Producing, Consuming
<1>9. QED
  BY <1>4, <1>5, <1>6, <1>7, <1>8 DEF IInv

LEMMA SwitchToNewInv ==
  ASSUME IInv, NEW n \in Sizes, SwitchToNew(n)
  PROVE  IInv'
<1>1. /\ AddGeneration(n) /\ live' = live \cup {newest + 1}
      /\ out' = <<>> /\ side' = side /\ locked' = locked
      /\ grant' = grant /\ loan' = loan
      /\ rest' = rest /\ want' = want /\ sent' = sent
  BY DEF SwitchToNew
<1>2. n \in Nat
  BY SizesAssumption
<1>3. /\ newest \in Nat /\ newest \in live
      /\ live \subseteq 1 .. newest /\ live \subseteq Nat
  BY Generations
<1>4. /\ newest' = newest + 1 /\ newest' \in 1 .. MaxGenerations
      /\ ring' \in [1 .. newest' -> Ring]
      /\ DOMAIN mem' = 1 .. newest'
      /\ \A h \in 1 .. newest' :
           mem'[h] \in [0 .. ring'[h].size - 1 -> Bytes \cup {Junk}]
      /\ Shapes'
      /\ \A g \in live : ring'[g] = ring[g]
  BY <1>1, <1>2, AddGenerationInv
<1>5. TypeOK'
  <2>1. live' \subseteq 1 .. newest' /\ newest' \in live'
    <3>1. newest + 1 \in 1 .. newest + 1 /\ \A g \in live : g \in 1 .. newest + 1
      BY <1>3
    <3>2. QED
      BY <1>1, <1>4, <3>1
  <2>2. QED
    BY <1>1, <1>4, <2>1, NothingOut DEF IInv, TypeOK
<1>6. GrantHeld'
  <2>1. \A g \in live : ring[g].free \in Nat
    BY Generations, RingFields
  <2>2. QED
    BY <1>1, <1>4, <2>1, GrantKept
<1>7. LoanHeld'
  <2>1. SUFFICES ASSUME loan # NoBlock PROVE LoanHeld'
    BY <1>1 DEF LoanHeld
  <2>2. /\ side # "pipe" /\ loan.gen \in live
        /\ \A h \in live : loan.gen <= h
        /\ loan.off = ring[loan.gen].consume
        /\ loan.len \in 1 .. ring[loan.gen].valid
        /\ loan.off + loan.len <= ring[loan.gen].size - ring[loan.gen].spare
    BY <2>1 DEF IInv, LoanHeld
  <2>3. loan.gen <= newest + 1
    <3>1. loan.gen \in Nat /\ loan.gen <= newest
      BY <1>3, <2>2
    <3>2. QED
      BY <1>3, <3>1
  <2>4. loan.gen \in live' /\ \A h \in live' : loan.gen <= h
    BY <1>1, <2>2, <2>3
  <2>5. QED
    BY <1>1, <1>4, <2>2, <2>4 DEF LoanHeld
<1>8. CallsMatchSide'
  BY <1>1 DEF IInv, CallsMatchSide, Producing, Consuming
<1>9. QED
  BY <1>4, <1>5, <1>6, <1>7, <1>8 DEF IInv

-----------------------------------------------------------------------------
LEMMA InitInv == Init => IInv
<1> SUFFICES ASSUME Init PROVE IInv
  OBVIOUS
<1>1. PICK n \in Sizes \ {0} : /\ ring = [g \in 1 .. 1 |-> NewRing(n)]
                         /\ mem = [g \in 1 .. 1 |-> FreshMemory(n)]
  BY DEF Init
<1>2. /\ n \in Nat /\ NewRing(n) \in Ring /\ RingShape(NewRing(n))
      /\ NewRing(n).size = n
      /\ FreshMemory(n) \in [0 .. n - 1 -> Bytes \cup {Junk}]
  BY SizesAssumption, NewRingShape DEF FreshMemory
<1>3. /\ side \in {"input", "output", "pipe"} /\ newest = 1 /\ live = {1}
      /\ locked = 0 /\ grant = NoBlock /\ loan = NoBlock
      /\ rest = NotRunning /\ want = NotRunning /\ sent = 0 /\ out = <<>>
  BY DEF Init
<1>4. newest \in 1 .. MaxGenerations /\ sent \in Bytes
  BY <1>3, BoundsAssumption DEF Bytes
<1>5. NoBlock \in BlockType
  BY DEF NoBlock, BlockType
<1>6. \A g \in 1 .. newest : ring[g] = NewRing(n) /\ mem[g] = FreshMemory(n)
  BY <1>1, <1>3
<1>7. ring \in [1 .. newest -> Ring] /\ DOMAIN mem = 1 .. newest
  BY <1>1, <1>2, <1>3
<1>8. \A g \in 1 .. newest :
        mem[g] \in [0 .. ring[g].size - 1 -> Bytes \cup {Junk}]
  BY <1>2, <1>6
<1>9. TypeOK
  BY <1>3, <1>4, <1>5, <1>7, <1>8, NothingOut DEF TypeOK
<1>10. Shapes /\ GrantHeld /\ LoanHeld /\ CallsMatchSide
  BY <1>2, <1>3, <1>6
     DEF Shapes, GrantHeld, LoanHeld, CallsMatchSide, Producing, Consuming
<1>11. QED
  BY <1>9, <1>10 DEF IInv

LEMMA NextInv == IInv /\ [Next]_vars => IInv'
<1> SUFFICES ASSUME IInv, [Next]_vars PROVE IInv'
  OBVIOUS
<1>1. CASE InterruptNext
  <2>1. ASSUME NEW len \in 1 .. Free, ProduceBuffer(len) PROVE IInv'
    BY <2>1, ProduceBufferInv
  <2>2. ASSUME NEW n \in 0 .. grant.len, ValidBuffer(n) PROVE IInv'
    BY <2>2, ValidBufferInv
  <2>3. CASE AbandonGrant
    BY <2>3, AbandonGrantInv
  <2>4. ASSUME NEW len \in 1 .. Valid, ConsumeBuffer(len) PROVE IInv'
    BY <2>4, ConsumeBufferInv
  <2>5. CASE FreeBuffer
    BY <2>5, FreeBufferInv
  <2>6. QED
    BY <1>1, <2>1, <2>2, <2>3, <2>4, <2>5 DEF InterruptNext
<1>2. CASE ThreadNext
  <2>1. ASSUME NEW n \in 1 .. MaxRequest, BeginProduce(n) PROVE IInv'
    BY <2>1, BeginProduceInv
  <2>2. ASSUME NEW n \in 1 .. MaxRequest, BeginConsume(n) PROVE IInv'
    BY <2>2, BeginConsumeInv
  <2>3. CASE ProduceStep
    BY <2>3, ProduceStepInv
  <2>4. CASE EndProduce
    BY <2>4, EndProduceInv
  <2>5. CASE ConsumeStep
    BY <2>5, ConsumeStepInv
  <2>6. CASE EndConsume
    BY <2>6, EndConsumeInv
  <2>7. ASSUME NEW n \in Sizes, SwitchSameSize(n) PROVE IInv'
    BY <2>7, SwitchSameSizeInv
  <2>8. ASSUME NEW n \in Sizes, SwitchInPlace(n) PROVE IInv'
    BY <2>8, SwitchInPlaceInv
  <2>9. ASSUME NEW n \in Sizes, SwitchToNew(n) PROVE IInv'
    BY <2>9, SwitchToNewInv
  <2>10. QED
    BY <1>2, <2>1, <2>2, <2>3, <2>4, <2>5, <2>6, <2>7, <2>8, <2>9 DEF ThreadNext
<1>3. CASE UNCHANGED vars
  <2>1. /\ side' = side /\ newest' = newest /\ ring' = ring /\ mem' = mem
        /\ live' = live /\ locked' = locked /\ grant' = grant /\ loan' = loan
        /\ rest' = rest /\ want' = want /\ sent' = sent /\ out' = out
    BY <1>3 DEF vars
  <2>2. QED
    BY <2>1 DEF IInv, TypeOK, Shapes, GrantHeld, LoanHeld, CallsMatchSide,
                Producing, Consuming
<1>4. QED
  BY <1>1, <1>2, <1>3 DEF Next

LEMMA Invariance == Spec => []IInv
BY InitInv, NextInv, PTL DEF Spec

-----------------------------------------------------------------------------
(***************************************************************************)
(* Every field of the buffer keeps its type.                               *)
(***************************************************************************)
THEOREM TypeCorrect == Spec => []TypeOK
<1>1. IInv => TypeOK
  BY DEF IInv
<1>2. QED
  BY Invariance, <1>1, PTL

(***************************************************************************)
(* The assertion that ends every member function of GUSIRingBuffer never   *)
(* fails of a buffer that has any memory, for any sizes and any schedule   *)
(* of the two parties.                                                     *)
(***************************************************************************)
THEOREM AssertionsHold == Spec => []RingsConsistent
<1>1. IInv => RingsConsistent
  BY Generations, ShapeImpliesInvariant DEF RingsConsistent
<1>2. QED
  BY Invariance, <1>1, PTL

(***************************************************************************)
(* The block that an asynchronous receive fills stays free, in place and   *)
(* alive until ValidBuffer or the timeout, whatever the thread consumes or *)
(* switches meanwhile.                                                     *)
(***************************************************************************)
THEOREM GrantSafe == Spec => []GrantStaysFree
<1>1. IInv => GrantStaysFree
  <2>1. SUFFICES ASSUME IInv, grant # NoBlock PROVE GrantStaysFree
    BY DEF GrantStaysFree
  <2> DEFINE r == ring[grant.gen]
  <2>2. /\ grant.gen \in live /\ grant.off = r.produce
        /\ grant.off + grant.len <= r.size /\ grant.len <= r.free
        /\ grant.len \in Nat
    BY <2>1 DEF IInv, GrantHeld, TypeOK, BlockType
  <2>3. r \in Ring /\ RingShape(r)
    BY <2>1, <2>2, Generations
  <2>4. (r.produce .. r.produce + grant.len - 1) \cap ValidAddresses(r) = {}
    BY <2>2, <2>3, FreeBlockIsDisjoint
  <2>5. QED
    BY <2>2, <2>4 DEF GrantStaysFree
<1>2. QED
  BY Invariance, <1>1, PTL

(***************************************************************************)
(* The block that an asynchronous send reads is, until FreeBuffer, the     *)
(* first block of valid bytes of the buffer that FreeBuffer will take it   *)
(* from.                                                                   *)
(***************************************************************************)
THEOREM LoanSafe == Spec => []LoanStaysValid
<1>1. IInv => LoanStaysValid
  <2>1. SUFFICES ASSUME IInv, loan # NoBlock PROVE LoanStaysValid
    BY DEF LoanStaysValid
  <2>2. /\ loan.gen \in live /\ \A h \in live : loan.gen <= h
        /\ loan.off = ring[loan.gen].consume
        /\ loan.len \in 1 .. ring[loan.gen].valid
        /\ loan.off + loan.len <= ring[loan.gen].size - ring[loan.gen].spare
    BY <2>1 DEF IInv, LoanHeld
  <2>3. Top(live) = loan.gen
    BY <2>1, <2>2, Generations, TopIs
  <2>4. QED
    BY <2>2, <2>3 DEF LoanStaysValid
<1>2. QED
  BY Invariance, <1>1, PTL

-----------------------------------------------------------------------------
(***************************************************************************)
(* The MacTCP datagram socket: nobody sleeps on it without a reason.       *)
(*                                                                         *)
(* The argument is about control alone.  A buffer is changed behind the    *)
(* back of a sleeping thread by the completion routines only, which run at *)
(* once, or in the Release of a thread that had locked the buffer.  What   *)
(* is left to show is that the deferred Send is no such routine: while it  *)
(* waits there is nothing to write.                                        *)
(***************************************************************************)
SockFields ==
  {"fState", "fPeerAddr", "fReadShutdown", "fWriteShutdown", "fAsyncError",
   "sendPB", "sendResult", "wds", "recvPB", "recvResult", "packet",
   "output", "outLocked", "outDeferred", "input", "inLocked", "inDeferred",
   "stored", "lost", "cut", "wake", "shut"}

\* What is deferred can run, and a socket without a stream has no calls.
SoundSocket(s) ==
  /\ DOMAIN s = SockFields
  /\ s.outDeferred \in {"none", "Send", "SendDone"}
  /\ s.inDeferred \in {"none", "RecvDone"}
  /\ s.recvResult \in Results
  /\ s.inDeferred = "RecvDone" /\ s.recvResult = "noErr" =>
       s.recvPB \in {"hasRead", "hasReturned"}
  /\ s.fState = "Unbound" => s.recvPB = "none" /\ s.inDeferred = "none"

Resting == {"idle", "wait", "gone"}
HoldsInput == {"data", "peek"}
HoldsOutput == {"locked", "halfway", "stored"}

\* Only one thread is in the middle of a call, and the locks are in its hands.
OneRuns ==
  /\ DOMAIN pc = Threads
  /\ \A t \in Threads : pc[t] \in Resting \/ running = t

LocksHeld ==
  /\ sock.inLocked => pc["receiver"] \in HoldsInput
  /\ sock.outLocked => \/ pc["sender"] \in HoldsOutput
                       \/ pc["closer"] \in {"shutting", "lastShutting"}

\* Send waits when there is nothing to write, but for what is just being stored.
NothingToWrite ==
  sock.outDeferred = "Send" =>
    ~(sock.output.ring.valid > 0) \/ pc["sender"] \in HoldsOutput

StreamFirst ==
  sock.fState = "Unbound" => pc["receiver"] = "idle" /\ pc["sender"] = "idle"

ReceiverWaits ==
  pc["receiver"] = "wait" /\ "receiver" \notin fWakeup =>
    MustRead \/ "read" \in sock.shut \/ sock.recvPB = "return"

SenderWaits ==
  pc["sender"] = "wait" /\ "sender" \notin fWakeup =>
    MustWrite \/ "write" \in sock.shut

UdpInv ==
  /\ SoundSocket(sock)
  /\ DOMAIN call = {"put", "len", "got", "part"}
  /\ OneRuns
  /\ LocksHeld
  /\ NothingToWrite
  /\ StreamFirst
  /\ ReceiverWaits
  /\ SenderWaits

\* What a routine of the output side leaves alone, and what one of the input side.
InputAlone(s, n) ==
  /\ n.input = s.input /\ n.inLocked = s.inLocked /\ n.inDeferred = s.inDeferred
  /\ n.recvPB = s.recvPB /\ n.recvResult = s.recvResult
  /\ n.fReadShutdown = s.fReadShutdown /\ n.shut = s.shut

OutputAlone(s, n) ==
  /\ n.output = s.output /\ n.outLocked = s.outLocked
  /\ n.outDeferred = s.outDeferred
  /\ n.fWriteShutdown = s.fWriteShutdown /\ n.shut = s.shut
  /\ n.fState = s.fState

DeferredSend(s) == s.outDeferred = "Send" => ~(s.output.ring.valid > 0)

LEMMA WriteKeeps ==
  ASSUME NEW s, SoundSocket(s)
  PROVE  /\ SoundSocket(Write(s)) /\ InputAlone(s, Write(s))
         /\ Write(s).outDeferred = s.outDeferred
         /\ Write(s).outLocked = s.outLocked
         /\ Write(s).fWriteShutdown = s.fWriteShutdown
         /\ Write(s).fState = s.fState
BY DEF SoundSocket, SockFields, Write, InputAlone

\* Send writes, waits for something to write, or is told that there will be no more.
LEMMA SendKeeps ==
  ASSUME NEW s, SoundSocket(s), ~s.outLocked
  PROVE  /\ SoundSocket(Send(s)) /\ InputAlone(s, Send(s))
         /\ DeferredSend(Send(s))
         /\ Send(s).outLocked = s.outLocked
         /\ Send(s).fWriteShutdown = s.fWriteShutdown
         /\ Send(s).fState \in {s.fState, "Closing"}
         /\ ~(s.output.ring.valid > 0) => Send(s).output = s.output
<1> DEFINE c == [s EXCEPT !.outDeferred = "none"]
<1>1. /\ SoundSocket(c) /\ InputAlone(s, c) /\ c.outDeferred = "none"
      /\ c.outLocked = s.outLocked /\ c.fWriteShutdown = s.fWriteShutdown
      /\ c.fState = s.fState /\ c.output = s.output
  BY DEF SoundSocket, SockFields, InputAlone
<1>2. CASE s.output.ring.valid > 0
  <2>1. Send(s) = Write(c)
    BY <1>2 DEF Send
  <2> HIDE DEF c
  <2>2. QED
    BY <1>1, <1>2, <2>1, WriteKeeps DEF InputAlone, DeferredSend
<1>3. CASE ~(s.output.ring.valid > 0) /\ ~s.fWriteShutdown
  <2>1. Send(s) = [c EXCEPT !.outDeferred = "Send"]
    BY <1>3 DEF Send
  <2> HIDE DEF c
  <2>2. QED
    <3>1. SoundSocket(Send(s))
      BY <1>1, <2>1 DEF SoundSocket, SockFields
    <3>2. InputAlone(s, Send(s))
      BY <1>1, <2>1 DEF SoundSocket, SockFields, InputAlone
    <3>3. /\ Send(s).outLocked = s.outLocked /\ Send(s).output = s.output
          /\ Send(s).fWriteShutdown = s.fWriteShutdown /\ Send(s).fState = s.fState
      BY <1>1, <2>1 DEF SoundSocket, SockFields
    <3>4. DeferredSend(Send(s))
      BY <1>3, <3>3 DEF DeferredSend
    <3>5. QED
      BY <3>1, <3>2, <3>3, <3>4
<1>4. CASE ~(s.output.ring.valid > 0) /\ s.fWriteShutdown
  <2>1. Send(s) = [c EXCEPT !.fState = "Closing"]
    BY <1>4 DEF Send
  <2> HIDE DEF c
  <2>2. QED
    <3>1. SoundSocket(Send(s))
      BY <1>1, <2>1 DEF SoundSocket, SockFields
    <3>2. InputAlone(s, Send(s))
      BY <1>1, <2>1 DEF SoundSocket, SockFields, InputAlone
    <3>3. /\ Send(s).outLocked = s.outLocked /\ Send(s).output = s.output
          /\ Send(s).fWriteShutdown = s.fWriteShutdown /\ Send(s).fState = "Closing"
      BY <1>1, <2>1 DEF SoundSocket, SockFields
    <3>4. DeferredSend(Send(s))
      BY <1>4, <3>3 DEF DeferredSend
    <3>5. QED
      BY <3>1, <3>2, <3>3, <3>4
<1>5. QED
  BY <1>2, <1>3, <1>4

\* A datagram that was written, or could not be, wakes the contexts.
LEMMA SendDoneKeeps ==
  ASSUME NEW s, SoundSocket(s)
  PROVE  /\ SoundSocket(SendDone(s)) /\ InputAlone(s, SendDone(s))
         /\ ~s.outLocked => DeferredSend(SendDone(s)) /\ SendDone(s).wake
         /\ SendDone(s).outLocked = s.outLocked
         /\ SendDone(s).fState \in {s.fState, "Closing"}
         /\ s.outLocked =>
              /\ SendDone(s).output = s.output
              /\ SendDone(s).fWriteShutdown = s.fWriteShutdown
              /\ SendDone(s).outDeferred = "SendDone"
<1>1. CASE s.outLocked
  <2>1. SendDone(s) = [s EXCEPT !.outDeferred = "SendDone"]
    BY <1>1 DEF SendDone
  <2>2. SoundSocket(SendDone(s))
    BY <2>1 DEF SoundSocket, SockFields
  <2>3. InputAlone(s, SendDone(s))
    BY <2>1 DEF SoundSocket, SockFields, InputAlone
  <2>4. /\ SendDone(s).outLocked = s.outLocked /\ SendDone(s).output = s.output
        /\ SendDone(s).fWriteShutdown = s.fWriteShutdown
        /\ SendDone(s).fState = s.fState /\ SendDone(s).outDeferred = "SendDone"
    BY <2>1 DEF SoundSocket, SockFields
  <2>5. QED
    BY <1>1, <2>2, <2>3, <2>4
<1>2. CASE ~s.outLocked
  <2> DEFINE c == [s EXCEPT !.outDeferred = "none", !.sendPB = "none", !.lost = 1,
                            !.sendResult = "noErr", !.wds = NoWDS,
                            !.output = FreeFront(@, s.wds[3])]
             f == IF s.sendResult = "error"
                  THEN [c EXCEPT !.fAsyncError = TRUE, !.fWriteShutdown = TRUE,
                                 !.lost = Len(owed),
                                 !.output = FreeFront(@, @.ring.valid)]
                  ELSE c
  <2>1. /\ SoundSocket(c) /\ InputAlone(s, c) /\ c.outLocked = s.outLocked
        /\ c.fState = s.fState
    BY DEF SoundSocket, SockFields, InputAlone
  <2>2. SendDone(s) = [Send(f) EXCEPT !.wake = TRUE]
    BY <1>2 DEF SendDone
  <2> HIDE DEF c
  <2>3. /\ SoundSocket(f) /\ InputAlone(s, f) /\ f.outLocked = s.outLocked
        /\ f.fState = s.fState
    <3>1. CASE s.sendResult = "error"
      BY <2>1, <3>1 DEF SoundSocket, SockFields, InputAlone
    <3>2. CASE s.sendResult # "error"
      BY <2>1, <3>2
    <3>3. QED
      BY <3>1, <3>2
  <2> HIDE DEF f
  <2>4. /\ SoundSocket(Send(f)) /\ InputAlone(f, Send(f)) /\ DeferredSend(Send(f))
        /\ Send(f).outLocked = f.outLocked /\ Send(f).fState \in {f.fState, "Closing"}
    BY <1>2, <2>3, SendKeeps
  <2> DEFINE n == Send(f)
  <2>5. /\ SoundSocket(n) /\ InputAlone(f, n) /\ DeferredSend(n)
        /\ n.outLocked = f.outLocked /\ n.fState \in {f.fState, "Closing"}
        /\ SendDone(s) = [n EXCEPT !.wake = TRUE]
    BY <2>2, <2>4
  <2> HIDE DEF n
  <2>6. /\ SoundSocket(SendDone(s)) /\ InputAlone(n, SendDone(s))
        /\ SendDone(s).wake /\ SendDone(s).fState = n.fState
        /\ SendDone(s).outLocked = n.outLocked
    BY <2>5 DEF SoundSocket, SockFields, InputAlone
  <2>7. DeferredSend(SendDone(s))
    BY <2>5 DEF SoundSocket, SockFields, DeferredSend
  <2>8. InputAlone(s, SendDone(s))
    BY <2>3, <2>5, <2>6 DEF InputAlone
  <2>9. SendDone(s).outLocked = s.outLocked
    BY <2>3, <2>5, <2>6
  <2>10. QED
    BY <1>2, <2>3, <2>5, <2>6, <2>7, <2>8, <2>9
<1>3. QED
  BY <1>1, <1>2

LEMMA RecvKeeps ==
  ASSUME NEW s, SoundSocket(s), s.inDeferred = "none", s.fState # "Unbound"
  PROVE  /\ SoundSocket(Recv(s)) /\ OutputAlone(s, Recv(s))
         /\ Recv(s).inLocked = s.inLocked
BY DEF SoundSocket, SockFields, Recv, OutputAlone, Results

\* A datagram is stored on the way to returning its memory.
LEMMA AcceptKeeps ==
  ASSUME NEW s, SoundSocket(s), s.inDeferred = "none", s.fState # "Unbound",
         s.recvPB = "hasRead"
  PROVE  /\ SoundSocket(Accept(s)) /\ OutputAlone(s, Accept(s))
         /\ Accept(s).inLocked = s.inLocked
         /\ \/ Accept(s).recvPB = "return"
            \/ Accept(s).input = s.input /\ Accept(s).fReadShutdown = s.fReadShutdown
<1> DEFINE d == s.packet
           needed == d.len + HeaderSize
           b == Produce(Produce(s.input, Header(d)), Body(d))
           r == BfrReturn(s)
<1>1. /\ SoundSocket(r) /\ OutputAlone(s, r) /\ r.inLocked = s.inLocked
      /\ r.recvPB = "return"
  BY DEF SoundSocket, SockFields, BfrReturn, OutputAlone
<1>2. CASE Accept(s) = r
  BY <1>1, <1>2
<1>3. CASE Accept(s) = [s EXCEPT !.inDeferred = "RecvDone"]
  BY <1>3 DEF SoundSocket, SockFields, OutputAlone
<1> DEFINE waits == [s EXCEPT !.inDeferred = "RecvDone"]
           stores == [r EXCEPT !.input = b, !.stored = <<d>>,
                       !.cut = @ \/ Len(b.bytes) < Len(s.input.bytes) + needed]
<1>4. Accept(s) = r \/ Accept(s) = waits \/ Accept(s) = stores
  <2>1. Accept(s) = CASE s.input.ring.size < needed -> r
                      [] s.input.ring.size >= needed /\ s.input.ring.free < needed -> waits
                      [] s.input.ring.free >= needed
                         /\ s.fPeerAddr \notin {NoPeer, d.peer} -> r
                      [] OTHER -> stores
    BY Zenon DEF Accept
  <2> HIDE DEF d, needed, r, waits, stores
  <2>2. QED
    BY <2>1
<1>5. CASE Accept(s) = stores
  <2> HIDE DEF d, needed, b, r
  <2>1. QED
    BY <1>1, <1>5 DEF SoundSocket, SockFields, OutputAlone
<1>6. QED
  BY <1>2, <1>3, <1>4, <1>5

\* A completed read stores a datagram on the way to returning its memory, or
\* wakes the contexts, or changes nothing that a sleeping thread looks at.
LEMMA RecvDoneKeeps ==
  ASSUME NEW s, SoundSocket(s), s.fState # "Unbound",
         s.recvResult = "noErr" => s.recvPB \in {"hasRead", "hasReturned"}
  PROVE  /\ SoundSocket(RecvDone(s)) /\ OutputAlone(s, RecvDone(s))
         /\ RecvDone(s).inLocked = s.inLocked
         /\ ~s.inLocked =>
              \/ RecvDone(s).wake
              \/ s.recvPB = "hasRead" /\ RecvDone(s).recvPB = "return"
              \/ /\ s.recvPB = "hasRead" /\ RecvDone(s).input = s.input
                 /\ RecvDone(s).fReadShutdown = s.fReadShutdown
<1>1. CASE s.inLocked
  <2>1. RecvDone(s) = [s EXCEPT !.inDeferred = "RecvDone"]
    BY <1>1 DEF RecvDone
  <2>2. QED
    BY <1>1, <2>1 DEF SoundSocket, SockFields, OutputAlone
<1>2. CASE ~s.inLocked
  <2> DEFINE c == [s EXCEPT !.inDeferred = "none"]
             ended == [c EXCEPT !.recvPB = "none", !.recvResult = "noErr",
                                !.packet = NoDatagram, !.fAsyncError = TRUE,
                                !.fReadShutdown = TRUE, !.wake = TRUE]
  <2>1. /\ SoundSocket(c) /\ OutputAlone(s, c) /\ c.inLocked = s.inLocked
        /\ c.inDeferred = "none" /\ c.fState # "Unbound"
        /\ c.recvPB = s.recvPB /\ c.recvResult = s.recvResult
        /\ c.input = s.input /\ c.fReadShutdown = s.fReadShutdown
    BY DEF SoundSocket, SockFields, OutputAlone
  <2>2. RecvDone(s) =
          CASE s.recvResult = "noErr" /\ s.recvPB = "hasRead" -> Accept(c)
            [] s.recvResult = "noErr" /\ s.recvPB = "hasReturned" ->
                 [Recv(c) EXCEPT !.wake = TRUE]
            [] s.recvResult = "timeout" -> [Recv(c) EXCEPT !.wake = TRUE]
            [] s.recvResult = "error" -> ended
    BY <1>2 DEF RecvDone
  <2>3. s.recvResult \in {"noErr", "timeout", "error"}
    BY DEF SoundSocket, Results
  <2> HIDE DEF c, ended
  <2>4. CASE RecvDone(s) = Accept(c) /\ s.recvPB = "hasRead"
    BY <2>1, <2>4, AcceptKeeps DEF OutputAlone
  <2>5. CASE RecvDone(s) = [Recv(c) EXCEPT !.wake = TRUE]
    <3> DEFINE n == Recv(c)
    <3>1. /\ SoundSocket(n) /\ OutputAlone(c, n) /\ n.inLocked = c.inLocked
          /\ RecvDone(s) = [n EXCEPT !.wake = TRUE]
      BY <2>1, <2>5, RecvKeeps
    <3> HIDE DEF n
    <3>2. QED
      BY <2>1, <3>1 DEF SoundSocket, SockFields, OutputAlone
  <2>6. CASE RecvDone(s) = ended
    BY <2>1, <2>6 DEF ended, SoundSocket, SockFields, OutputAlone, Results
  <2>7. QED
    BY <2>2, <2>3, <2>4, <2>5, <2>6
<1>3. QED
  BY <1>1, <1>2

LEMMA ReleaseInputKeeps ==
  ASSUME NEW s, SoundSocket(s)
  PROVE  /\ SoundSocket(ReleaseInput(s)) /\ OutputAlone(s, ReleaseInput(s))
         /\ ~ReleaseInput(s).inLocked
<1> DEFINE c == [s EXCEPT !.inLocked = FALSE]
<1>1. /\ SoundSocket(c) /\ OutputAlone(s, c) /\ ~c.inLocked
      /\ c.inDeferred = s.inDeferred /\ c.recvPB = s.recvPB
      /\ c.recvResult = s.recvResult
  BY DEF SoundSocket, SockFields, OutputAlone
<1>2. ReleaseInput(s) = IF s.inDeferred = "RecvDone" THEN RecvDone(c) ELSE c
  BY DEF ReleaseInput
<1> HIDE DEF c
<1>3. CASE s.inDeferred = "RecvDone"
  <2>1. c.fState # "Unbound"
    BY <1>1, <1>3 DEF SoundSocket
  <2>2. c.recvResult = "noErr" => c.recvPB \in {"hasRead", "hasReturned"}
    BY <1>1, <1>3 DEF SoundSocket
  <2>3. /\ SoundSocket(RecvDone(c)) /\ OutputAlone(c, RecvDone(c))
        /\ RecvDone(c).inLocked = c.inLocked
    BY <1>1, <2>1, <2>2, RecvDoneKeeps
  <2>4. QED
    BY <1>1, <1>2, <1>3, <2>3 DEF OutputAlone
<1>4. CASE s.inDeferred # "RecvDone"
  BY <1>1, <1>2, <1>4
<1>5. QED
  BY <1>3, <1>4

\* Unlocking the output buffer does not make room for a sleeping sender, unless
\* it wakes him.
LEMMA ReleaseOutputKeeps ==
  ASSUME NEW s, SoundSocket(s)
  PROVE  /\ SoundSocket(ReleaseOutput(s)) /\ InputAlone(s, ReleaseOutput(s))
         /\ ~ReleaseOutput(s).outLocked
         /\ ReleaseOutput(s).fState \in {s.fState, "Closing"}
         /\ DeferredSend(ReleaseOutput(s))
         /\ DeferredSend(s) =>
              \/ ReleaseOutput(s).wake
              \/ /\ ReleaseOutput(s).output = s.output
                 /\ ReleaseOutput(s).fWriteShutdown = s.fWriteShutdown
<1> DEFINE c == [s EXCEPT !.outLocked = FALSE]
<1>1. /\ SoundSocket(c) /\ InputAlone(s, c) /\ c.outLocked = FALSE
      /\ c.outDeferred = s.outDeferred /\ c.output = s.output
      /\ c.fWriteShutdown = s.fWriteShutdown /\ c.fState = s.fState
  BY DEF SoundSocket, SockFields, InputAlone
<1>2. ReleaseOutput(s) = CASE s.outDeferred = "none"     -> c
                           [] s.outDeferred = "Send"     -> Send(c)
                           [] s.outDeferred = "SendDone" -> SendDone(c)
  BY DEF ReleaseOutput
<1> HIDE DEF c
<1>3. CASE s.outDeferred = "none"
  BY <1>1, <1>2, <1>3 DEF DeferredSend
<1>4. CASE s.outDeferred = "Send"
  <2>1. ReleaseOutput(s) = Send(c)
    BY <1>2, <1>4
  <2>2. /\ SoundSocket(Send(c)) /\ InputAlone(c, Send(c)) /\ DeferredSend(Send(c))
        /\ Send(c).outLocked = FALSE
        /\ Send(c).fWriteShutdown = c.fWriteShutdown
        /\ Send(c).fState \in {c.fState, "Closing"}
        /\ ~(c.output.ring.valid > 0) => Send(c).output = c.output
    BY <1>1, SendKeeps
  <2>3. QED
    BY <1>1, <1>4, <2>1, <2>2 DEF DeferredSend, InputAlone
<1>5. CASE s.outDeferred = "SendDone"
  <2>1. ReleaseOutput(s) = SendDone(c)
    BY <1>2, <1>5
  <2>2. /\ SoundSocket(SendDone(c)) /\ InputAlone(c, SendDone(c))
        /\ DeferredSend(SendDone(c)) /\ SendDone(c).wake
        /\ SendDone(c).outLocked = FALSE
        /\ SendDone(c).fState \in {c.fState, "Closing"}
    BY <1>1, SendDoneKeeps
  <2>3. QED
    BY <1>1, <2>1, <2>2 DEF InputAlone
<1>6. QED
  BY <1>3, <1>4, <1>5 DEF SoundSocket

LEMMA WithStreamKeeps ==
  ASSUME NEW s, SoundSocket(s), ~s.outLocked, ~s.inLocked, DeferredSend(s)
  PROVE  /\ SoundSocket(WithStream(s)) /\ DeferredSend(WithStream(s))
         /\ ~WithStream(s).outLocked /\ ~WithStream(s).inLocked
         /\ WithStream(s).fState # "Unbound"
         /\ s.fState # "Unbound" => WithStream(s) = s
<1>1. CASE s.fState # "Unbound"
  BY <1>1 DEF WithStream
<1>2. CASE s.fState = "Unbound"
  <2> DEFINE c == [s EXCEPT !.fState = "Connected"]
  <2>1. /\ SoundSocket(c) /\ c.fState = "Connected" /\ ~c.outLocked /\ ~c.inLocked
        /\ c.inDeferred = "none"
    BY <1>2 DEF SoundSocket, SockFields
  <2> HIDE DEF c
  <2> DEFINE n == Send(c)
  <2>2. /\ SoundSocket(n) /\ InputAlone(c, n) /\ DeferredSend(n)
        /\ n.outLocked = c.outLocked /\ n.fState \in {c.fState, "Closing"}
    BY <2>1, SendKeeps
  <2>3. WithStream(s) = Recv(n)
    BY <1>2 DEF WithStream, c
  <2> HIDE DEF n
  <2>4. n.inDeferred = "none" /\ n.fState # "Unbound"
    BY <2>1, <2>2 DEF InputAlone
  <2>5. SoundSocket(Recv(n)) /\ OutputAlone(n, Recv(n)) /\ Recv(n).inLocked = n.inLocked
    BY <2>2, <2>4, RecvKeeps
  <2>6. QED
    BY <1>2, <2>1, <2>2, <2>3, <2>4, <2>5 DEF OutputAlone, InputAlone, DeferredSend
<1>3. QED
  BY <1>1, <1>2

-----------------------------------------------------------------------------
(***************************************************************************)
(* The steps.                                                              *)
(***************************************************************************)
\* What Becomes takes away is not looked at.
LEMMA BecomesKeeps ==
  ASSUME NEW s, SoundSocket(s), Becomes(s)
  PROVE  /\ SoundSocket(sock') /\ InputAlone(s, sock') /\ OutputAlone(s, sock')
         /\ fWakeup \subseteq fWakeup'
         /\ s.wake => fContexts \subseteq fWakeup'
BY DEF SoundSocket, SockFields, InputAlone, OutputAlone, Becomes

LEMMA OneRunsKept ==
  ASSUME OneRuns, NEW t \in Threads, NEW from, NEW to,
         Enter(t, from, to) \/ Continue(t, from, to)
  PROVE  /\ OneRuns' /\ pc[t] = from /\ pc'[t] = to
         /\ \A u \in Threads \ {t} : pc[u] \in Resting /\ pc'[u] = pc[u]
BY DEF OneRuns, Enter, Continue, Resting, Threads, Nobody

\* A thread that sleeps on is not less awake, and sees what it saw.
SleepsOn(t) ==
  pc'[t] = "wait" => pc[t] = "wait" /\ (t \in fWakeup => t \in fWakeup')

LEMMA ReceiverUnmoved ==
  ASSUME ReceiverWaits, SleepsOn("receiver"), InputAlone(sock, sock')
  PROVE  ReceiverWaits'
BY DEF ReceiverWaits, InputAlone, MustRead, SleepsOn

LEMMA SenderUnmoved ==
  ASSUME SenderWaits, SleepsOn("sender"), sock'.output = sock.output,
         sock'.fWriteShutdown = sock.fWriteShutdown, sock'.shut = sock.shut,
         call'.put = call.put \/ pc'["sender"] # "wait"
  PROVE  SenderWaits'
BY DEF SenderWaits, MustWrite, SleepsOn

LEMMA NobodyHolds ==
  ASSUME UdpInv, running = Nobody
  PROVE  ~sock.outLocked /\ ~sock.inLocked /\ DeferredSend(sock)
BY DEF UdpInv, OneRuns, LocksHeld, NothingToWrite, DeferredSend, Resting,
       HoldsInput, HoldsOutput, Threads, Nobody

LEMMA WriteCompletesKeeps ==
  ASSUME UdpInv, NEW result, WriteCompletes(result)
  PROVE  UdpInv'
<1> DEFINE b == [sock EXCEPT !.sendPB = "written", !.sendResult = result]
           s == SendDone(b)
<1>1. /\ SoundSocket(b) /\ InputAlone(sock, b) /\ OutputAlone(sock, b)
  BY DEF UdpInv, SoundSocket, SockFields, InputAlone, OutputAlone
<1>2. Becomes(s) /\ UNCHANGED <<pc, running, call>>
  BY DEF WriteCompletes, Turns
<1> HIDE DEF b
<1>3. /\ SoundSocket(s) /\ InputAlone(b, s) /\ s.outLocked = b.outLocked
      /\ ~b.outLocked => DeferredSend(s) /\ s.wake
      /\ s.fState \in {b.fState, "Closing"}
      /\ b.outLocked => /\ s.output = b.output
                        /\ s.fWriteShutdown = b.fWriteShutdown
                        /\ s.outDeferred = "SendDone"
  BY <1>1, SendDoneKeeps
<1> HIDE DEF s
<1>4. /\ SoundSocket(sock') /\ InputAlone(s, sock') /\ OutputAlone(s, sock')
      /\ fWakeup \subseteq fWakeup'
      /\ s.wake => fContexts \subseteq fWakeup'
  BY <1>2, <1>3, BecomesKeeps
<1>5. /\ OneRuns' /\ SleepsOn("receiver") /\ SleepsOn("sender")
      /\ call' = call /\ pc' = pc
  <2>1. pc' = pc /\ running' = running /\ call' = call
    BY <1>2
  <2>2. OneRuns'
    BY <2>1 DEF UdpInv, OneRuns
  <2>3. SleepsOn("receiver") /\ SleepsOn("sender")
    BY <1>4, <2>1 DEF SleepsOn
  <2>4. QED
    BY <2>1, <2>2, <2>3
<1>6. LocksHeld' /\ StreamFirst'
  BY <1>1, <1>2, <1>3, <1>4
    DEF UdpInv, LocksHeld, StreamFirst, InputAlone, OutputAlone
<1>7. NothingToWrite'
  BY <1>3, <1>4 DEF NothingToWrite, OutputAlone, DeferredSend
<1>8. InputAlone(sock, sock')
  BY <1>1, <1>3, <1>4 DEF InputAlone
<1>9. SenderWaits'
  <2>1. CASE b.outLocked
    BY <1>1, <1>3, <1>4, <1>5, <1>8, <2>1, SenderUnmoved
      DEF UdpInv, OutputAlone, InputAlone
  <2>2. CASE ~b.outLocked
    BY <1>2, <1>3, <1>4, <2>2 DEF SenderWaits, fContexts, Threads
  <2>3. QED
    BY <2>1, <2>2
<1>10. QED
  BY <1>2, <1>4, <1>5, <1>6, <1>7, <1>8, <1>9, ReceiverUnmoved DEF UdpInv

\* MacTCP has read a datagram, or has its memory back.
LEMMA InputCompletesKeeps ==
  ASSUME UdpInv, NEW b, SoundSocket(b), OutputAlone(sock, b),
         b.input = sock.input, b.inLocked = sock.inLocked,
         b.fReadShutdown = sock.fReadShutdown, b.fState # "Unbound",
         b.recvPB \in {"hasRead", "hasReturned"},
         b.recvPB = "hasRead" => sock.recvPB = "read",
         Becomes(RecvDone(b)), UNCHANGED <<pc, running, call>>
  PROVE  UdpInv'
<1> DEFINE s == RecvDone(b)
<1>1. /\ SoundSocket(s) /\ OutputAlone(b, s) /\ s.inLocked = b.inLocked
      /\ ~b.inLocked =>
           \/ s.wake
           \/ b.recvPB = "hasRead" /\ s.recvPB = "return"
           \/ /\ b.recvPB = "hasRead" /\ s.input = b.input
              /\ s.fReadShutdown = b.fReadShutdown
  BY RecvDoneKeeps
<1>2. Becomes(s)
  OBVIOUS
<1> HIDE DEF s
<1>3. /\ SoundSocket(sock') /\ InputAlone(s, sock') /\ OutputAlone(s, sock')
      /\ fWakeup \subseteq fWakeup'
      /\ s.wake => fContexts \subseteq fWakeup'
  BY <1>1, <1>2, BecomesKeeps
<1>4. OneRuns' /\ SleepsOn("sender") /\ call' = call
  BY <1>3 DEF UdpInv, OneRuns, SleepsOn
<1>5. OutputAlone(sock, sock')
  BY <1>1, <1>3 DEF OutputAlone
<1>6. LocksHeld' /\ StreamFirst' /\ NothingToWrite'
  BY <1>1, <1>3, <1>5
    DEF UdpInv, LocksHeld, StreamFirst, NothingToWrite, InputAlone, OutputAlone
<1>7. SenderWaits'
  BY <1>4, <1>5, SenderUnmoved DEF UdpInv, OutputAlone
<1>8. ReceiverWaits'
  <2>1. SUFFICES ASSUME pc["receiver"] = "wait", "receiver" \notin fWakeup'
                 PROVE  MustRead' \/ "read" \in sock'.shut \/ sock'.recvPB = "return"
    BY DEF ReceiverWaits
  <2>2. "receiver" \notin fWakeup /\ ~s.wake
    BY <1>3, <2>1 DEF fContexts, Threads
  <2>3. ~b.inLocked
    BY <2>1 DEF UdpInv, LocksHeld, HoldsInput
  <2>4. CASE s.recvPB = "return"
    BY <1>3, <2>4 DEF InputAlone
  <2>5. CASE /\ b.recvPB = "hasRead" /\ s.input = b.input
             /\ s.fReadShutdown = b.fReadShutdown
    <3>1. MustRead \/ "read" \in sock.shut
      BY <2>1, <2>2, <2>5 DEF UdpInv, ReceiverWaits
    <3>2. QED
      BY <1>3, <1>5, <2>5, <3>1 DEF MustRead, InputAlone, OutputAlone
  <2>6. QED
    BY <1>1, <2>2, <2>3, <2>4, <2>5
<1>9. QED
  BY <1>3, <1>4, <1>6, <1>7, <1>8 DEF UdpInv

LEMMA ReadCompletesKeeps ==
  ASSUME UdpInv, NEW d, NEW result \in Results, ReadCompletes(d, result)
  PROVE  UdpInv'
<1> DEFINE b == [sock EXCEPT !.recvPB = "hasRead", !.packet = d,
                             !.recvResult = result]
<1>1. sock.recvPB = "read" /\ Becomes(RecvDone(b)) /\ UNCHANGED <<pc, running, call>>
  BY DEF ReadCompletes, Turns
<1>2. /\ SoundSocket(b) /\ OutputAlone(sock, b) /\ b.input = sock.input
      /\ b.inLocked = sock.inLocked /\ b.fReadShutdown = sock.fReadShutdown
      /\ b.recvPB = "hasRead" /\ b.fState # "Unbound"
  BY <1>1 DEF UdpInv, SoundSocket, SockFields, OutputAlone
<1> HIDE DEF b
<1>3. QED
  BY <1>1, <1>2, InputCompletesKeeps

LEMMA ReturnCompletesKeeps ==
  ASSUME UdpInv, NEW result \in Results, ReturnCompletes(result)
  PROVE  UdpInv'
<1> DEFINE b == [sock EXCEPT !.recvPB = "hasReturned", !.packet = NoDatagram,
                             !.recvResult = result]
<1>1. /\ sock.recvPB = "return" /\ Becomes(RecvDone(b))
      /\ UNCHANGED <<pc, running, call>>
  BY DEF ReturnCompletes, Turns
<1>2. /\ SoundSocket(b) /\ OutputAlone(sock, b) /\ b.input = sock.input
      /\ b.inLocked = sock.inLocked /\ b.fReadShutdown = sock.fReadShutdown
      /\ b.recvPB = "hasReturned" /\ b.fState # "Unbound"
  BY <1>1 DEF UdpInv, SoundSocket, SockFields, OutputAlone
<1> HIDE DEF b
<1>3. QED
  BY <1>1, <1>2, InputCompletesKeeps

\* select, and a connect or a sanity check that changes nothing else.
LEMMA StreamStepKeeps ==
  ASSUME UdpInv, running = Nobody, NEW s, SoundSocket(s), Becomes(s),
         ~s.outLocked, ~s.inLocked, DeferredSend(s),
         sock.fState # "Unbound" =>
           InputAlone(sock, s) /\ OutputAlone(sock, s),
         UNCHANGED <<pc, running, call>>
  PROVE  UdpInv'
<1>1. /\ SoundSocket(sock') /\ InputAlone(s, sock') /\ OutputAlone(s, sock')
      /\ fWakeup \subseteq fWakeup'
  BY BecomesKeeps
<1>2. OneRuns' /\ SleepsOn("receiver") /\ SleepsOn("sender")
  BY <1>1 DEF UdpInv, OneRuns, SleepsOn
<1>3. LocksHeld' /\ NothingToWrite'
  BY <1>1 DEF LocksHeld, NothingToWrite, DeferredSend, InputAlone, OutputAlone
<1>4. StreamFirst' /\ ReceiverWaits' /\ SenderWaits'
  <2>1. CASE sock.fState = "Unbound"
    BY <2>1 DEF UdpInv, StreamFirst, ReceiverWaits, SenderWaits
  <2>2. CASE sock.fState # "Unbound"
    <3>1. InputAlone(sock, sock') /\ OutputAlone(sock, sock')
      BY <1>1, <2>2 DEF InputAlone, OutputAlone
    <3>2. QED
      BY <1>2, <2>2, <3>1, ReceiverUnmoved, SenderUnmoved
        DEF UdpInv, StreamFirst, OutputAlone
  <2>3. QED
    BY <2>1, <2>2
<1>5. QED
  BY <1>1, <1>2, <1>3, <1>4 DEF UdpInv

LEMMA LookingKeeps ==
  ASSUME UdpInv,
         Select \/ GetAsyncError \/ \E p \in Partners \cup {NoPeer} : Connect(p)
  PROVE  UdpInv'
<1>1. ~sock.outLocked /\ ~sock.inLocked /\ DeferredSend(sock) /\ running = Nobody
  BY NobodyHolds DEF Select, GetAsyncError, Connect
<1>2. /\ SoundSocket(WithStream(sock)) /\ DeferredSend(WithStream(sock))
      /\ ~WithStream(sock).outLocked /\ ~WithStream(sock).inLocked
      /\ sock.fState # "Unbound" => WithStream(sock) = sock
  BY <1>1, WithStreamKeeps DEF UdpInv
<1>3. SoundSocket(sock) /\ InputAlone(sock, sock) /\ OutputAlone(sock, sock)
  BY DEF UdpInv, InputAlone, OutputAlone
<1>4. CASE Select
  BY <1>1, <1>2, <1>3, <1>4, StreamStepKeeps DEF Select, Turns
<1>5. CASE GetAsyncError
  <2> DEFINE s == [sock EXCEPT !.fAsyncError = FALSE]
  <2>1. /\ SoundSocket(s) /\ InputAlone(sock, s) /\ OutputAlone(sock, s)
        /\ Becomes(s) /\ UNCHANGED <<pc, running, call>>
    BY <1>3, <1>5
      DEF GetAsyncError, Turns, SoundSocket, SockFields, InputAlone, OutputAlone
  <2> HIDE DEF s
  <2>2. ~s.outLocked /\ ~s.inLocked /\ DeferredSend(s)
    BY <1>1, <2>1 DEF InputAlone, OutputAlone, DeferredSend
  <2>3. QED
    BY <1>1, <2>1, <2>2, StreamStepKeeps
<1>6. ASSUME NEW p \in Partners \cup {NoPeer}, Connect(p) PROVE UdpInv'
  <2> DEFINE b == IF p = NoPeer THEN sock ELSE WithStream(sock)
             s == [b EXCEPT !.fPeerAddr = p]
  <2>1. /\ SoundSocket(b) /\ DeferredSend(b) /\ ~b.outLocked /\ ~b.inLocked
        /\ sock.fState # "Unbound" => b = sock
    BY <1>1, <1>2, <1>3
  <2>2. Becomes(s) /\ UNCHANGED <<pc, running, call>>
    BY <1>6 DEF Connect, Turns
  <2> HIDE DEF b
  <2>3. SoundSocket(s) /\ InputAlone(b, s) /\ OutputAlone(b, s)
    BY <2>1 DEF SoundSocket, SockFields, InputAlone, OutputAlone
  <2> HIDE DEF s
  <2>4. ~s.outLocked /\ ~s.inLocked /\ DeferredSend(s)
    BY <2>1, <2>3 DEF InputAlone, OutputAlone, DeferredSend
  <2>5. sock.fState # "Unbound" => InputAlone(sock, s) /\ OutputAlone(sock, s)
    BY <2>1, <2>3
  <2>6. QED
    BY <1>1, <2>2, <2>3, <2>4, <2>5, StreamStepKeeps
<1>7. QED
  BY <1>4, <1>5, <1>6

\* recvfrom and sendto begin.
LEMMA CallBeginsKeeps ==
  ASSUME UdpInv, NEW t \in {"receiver", "sender"}, Enter(t, "idle", "test"),
         Becomes(WithStream(sock)), DOMAIN call' = DOMAIN call,
         t = "receiver" => call'.put = call.put
  PROVE  UdpInv'
<1> DEFINE s == WithStream(sock)
<1>1. ~sock.outLocked /\ ~sock.inLocked /\ DeferredSend(sock)
  BY NobodyHolds DEF Enter
<1>2. /\ SoundSocket(s) /\ DeferredSend(s) /\ ~s.outLocked /\ ~s.inLocked
      /\ s.fState # "Unbound"
      /\ sock.fState # "Unbound" => s = sock
  BY <1>1, WithStreamKeeps DEF UdpInv
<1>3. Becomes(s)
  OBVIOUS
<1> HIDE DEF s
<1>4. /\ SoundSocket(sock') /\ InputAlone(s, sock') /\ OutputAlone(s, sock')
      /\ fWakeup \subseteq fWakeup'
  BY <1>2, <1>3, BecomesKeeps
<1>5. /\ OneRuns' /\ pc[t] = "idle" /\ pc'[t] = "test"
      /\ \A u \in Threads \ {t} : pc[u] \in Resting /\ pc'[u] = pc[u]
  BY OneRunsKept DEF UdpInv, Threads
<1>6. LocksHeld' /\ NothingToWrite' /\ StreamFirst'
  BY <1>2, <1>4
    DEF LocksHeld, NothingToWrite, StreamFirst, DeferredSend, InputAlone, OutputAlone
<1>7. ReceiverWaits' /\ SenderWaits'
  <2>1. CASE sock.fState = "Unbound"
    <3>1. pc'["receiver"] # "wait" /\ pc'["sender"] # "wait"
      BY <1>5, <2>1 DEF UdpInv, StreamFirst, Threads
    <3>2. QED
      BY <3>1 DEF ReceiverWaits, SenderWaits
  <2>2. CASE sock.fState # "Unbound"
    <3>1. InputAlone(sock, sock') /\ OutputAlone(sock, sock')
      BY <1>2, <1>4, <2>2
    <3>2. SleepsOn("receiver") /\ SleepsOn("sender")
      BY <1>4, <1>5 DEF SleepsOn, Threads
    <3>3. call'.put = call.put \/ pc'["sender"] # "wait"
      BY <1>5
    <3>4. QED
      BY <3>1, <3>2, <3>3, ReceiverUnmoved, SenderUnmoved DEF UdpInv, OutputAlone
  <2>3. QED
    BY <2>1, <2>2
<1>8. QED
  BY <1>4, <1>5, <1>6, <1>7 DEF UdpInv

\* Steps that leave the socket alone: among them the test that sends a thread to
\* sleep, and its return from the sleep.
LEMMA SocketStandsKeeps ==
  ASSUME UdpInv, NEW t \in Threads, NEW from, NEW to,
         Enter(t, from, to) \/ Continue(t, from, to),
         from \notin HoldsInput \cup HoldsOutput \cup {"shutting", "lastShutting"},
         from # "idle", UNCHANGED sock,
         DOMAIN call' = DOMAIN call, t # "sender" => call'.put = call.put,
         \/ to = "wait" /\ fWakeup' = fWakeup /\ (t # "closer" => Must(t))
                        /\ call' = call
         \/ to # "wait" /\ fWakeup \ {t} \subseteq fWakeup'
  PROVE  UdpInv'
<1>1. /\ OneRuns' /\ pc[t] = from /\ pc'[t] = to
      /\ \A u \in Threads \ {t} : pc[u] \in Resting /\ pc'[u] = pc[u]
  BY OneRunsKept DEF UdpInv
<1>2. LocksHeld'
  BY <1>1 DEF UdpInv, LocksHeld, Threads, Resting, HoldsInput, HoldsOutput
<1>3. NothingToWrite'
  BY <1>1 DEF UdpInv, NothingToWrite, Threads, Resting, HoldsOutput
<1>4. StreamFirst'
  BY <1>1 DEF UdpInv, StreamFirst, Threads
<1>5. ReceiverWaits'
  <2>1. CASE t = "receiver" /\ to = "wait"
    BY <2>1 DEF ReceiverWaits, Must, MustRead
  <2>2. CASE t # "receiver" \/ to # "wait"
    <3>1. SleepsOn("receiver")
      BY <1>1, <2>2 DEF SleepsOn, Threads
    <3>2. InputAlone(sock, sock')
      BY DEF InputAlone
    <3>3. QED
      BY <3>1, <3>2, ReceiverUnmoved DEF UdpInv
  <2>3. QED
    BY <2>1, <2>2
<1>6. SenderWaits'
  <2>1. CASE t = "sender" /\ to = "wait"
    BY <2>1 DEF SenderWaits, Must, MustWrite
  <2>2. CASE t # "sender" \/ to # "wait"
    <3>1. SleepsOn("sender")
      BY <1>1, <2>2 DEF SleepsOn, Threads
    <3>2. call'.put = call.put \/ pc'["sender"] # "wait"
      BY <1>1, <2>2
    <3>3. QED
      BY <3>1, <3>2, SenderUnmoved DEF UdpInv
  <2>3. QED
    BY <2>1, <2>2
<1>7. QED
  BY <1>1, <1>2, <1>3, <1>4, <1>5, <1>6 DEF UdpInv

LEMMA ReceiverMoves ==
  ASSUME UdpInv, NEW from, NEW to, Continue("receiver", from, to),
         from # "idle", to # "wait", NEW s, SoundSocket(s), Becomes(s),
         OutputAlone(sock, s), s.inLocked => to \in HoldsInput,
         DOMAIN call' = DOMAIN call, call'.put = call.put
  PROVE  UdpInv'
<1>1. /\ SoundSocket(sock') /\ InputAlone(s, sock') /\ OutputAlone(s, sock')
      /\ fWakeup \subseteq fWakeup'
  BY BecomesKeeps
<1>2. /\ OneRuns' /\ pc["receiver"] = from /\ pc'["receiver"] = to
      /\ \A u \in {"sender", "closer"} : pc[u] \in Resting /\ pc'[u] = pc[u]
  BY OneRunsKept DEF UdpInv, Threads
<1>3. OutputAlone(sock, sock')
  BY <1>1 DEF OutputAlone
<1>4. LocksHeld'
  BY <1>1, <1>2, <1>3 DEF UdpInv, LocksHeld, InputAlone, OutputAlone
<1>5. NothingToWrite' /\ StreamFirst'
  BY <1>2, <1>3 DEF UdpInv, NothingToWrite, StreamFirst, OutputAlone
<1>6. ReceiverWaits'
  BY <1>2 DEF ReceiverWaits
<1>7. SenderWaits'
  BY <1>1, <1>2, <1>3, SenderUnmoved DEF UdpInv, OutputAlone, SleepsOn
<1>8. QED
  BY <1>1, <1>2, <1>4, <1>5, <1>6, <1>7 DEF UdpInv

LEMMA SenderMoves ==
  ASSUME UdpInv, NEW from, NEW to, Continue("sender", from, to),
         from # "idle", to # "wait", NEW s, SoundSocket(s), Becomes(s),
         InputAlone(sock, s), s.fState \in {sock.fState, "Closing"},
         s.outLocked => to \in HoldsOutput,
         DeferredSend(s) \/ to \in HoldsOutput, DOMAIN call' = DOMAIN call
  PROVE  UdpInv'
<1>1. /\ SoundSocket(sock') /\ InputAlone(s, sock') /\ OutputAlone(s, sock')
      /\ fWakeup \subseteq fWakeup'
  BY BecomesKeeps
<1>2. /\ OneRuns' /\ pc["sender"] = from /\ pc'["sender"] = to
      /\ \A u \in {"receiver", "closer"} : pc[u] \in Resting /\ pc'[u] = pc[u]
  BY OneRunsKept DEF UdpInv, Threads
<1>3. InputAlone(sock, sock')
  BY <1>1 DEF InputAlone
<1>4. LocksHeld'
  BY <1>1, <1>2, <1>3 DEF UdpInv, LocksHeld, InputAlone, OutputAlone
<1>5. NothingToWrite' /\ StreamFirst'
  BY <1>1, <1>2
    DEF UdpInv, NothingToWrite, StreamFirst, DeferredSend, OutputAlone
<1>6. ReceiverWaits'
  BY <1>1, <1>2, <1>3, ReceiverUnmoved DEF UdpInv, SleepsOn
<1>7. SenderWaits'
  BY <1>2 DEF SenderWaits
<1>8. QED
  BY <1>1, <1>2, <1>4, <1>5, <1>6, <1>7 DEF UdpInv

LEMMA CloserMoves ==
  ASSUME UdpInv, NEW from, NEW to,
         Enter("closer", from, to) \/ Continue("closer", from, to),
         NEW s, SoundSocket(s), Becomes(s), s.inLocked = sock.inLocked,
         s.outLocked => to \in {"shutting", "lastShutting"}, DeferredSend(s),
         s.fState \in {sock.fState, "Closing"}, UNCHANGED call,
         ReceiverWaits', SenderWaits'
  PROVE  UdpInv'
<1>1. /\ SoundSocket(sock') /\ InputAlone(s, sock') /\ OutputAlone(s, sock')
  BY BecomesKeeps
<1>2. /\ OneRuns' /\ pc'["closer"] = to
      /\ \A u \in {"receiver", "sender"} : pc'[u] = pc[u]
  BY OneRunsKept DEF UdpInv, Threads
<1>3. LocksHeld'
  BY <1>1, <1>2 DEF UdpInv, LocksHeld, InputAlone, OutputAlone
<1>4. NothingToWrite' /\ StreamFirst'
  BY <1>1, <1>2
    DEF UdpInv, NothingToWrite, StreamFirst, DeferredSend, OutputAlone
<1>5. QED
  BY <1>1, <1>2, <1>3, <1>4 DEF UdpInv

\* The closer runs when the sender is at rest.
LEMMA CloserRuns ==
  ASSUME UdpInv, NEW from, NEW to,
         Enter("closer", from, to) \/ Continue("closer", from, to)
  PROVE  /\ DeferredSend(sock)
         /\ \A s : SoundSocket(s) /\ Becomes(s) =>
                     SleepsOn("receiver") /\ SleepsOn("sender")
<1>1. \A u \in {"receiver", "sender"} : pc[u] \in Resting /\ pc'[u] = pc[u]
  BY OneRunsKept DEF UdpInv, Threads
<1>2. DeferredSend(sock)
  BY <1>1 DEF UdpInv, NothingToWrite, DeferredSend, Resting, HoldsOutput
<1>3. QED
  BY <1>1, <1>2, BecomesKeeps DEF SleepsOn

\* Locking a buffer changes nothing but the lock.
LEMMA LockKeeps ==
  ASSUME UdpInv
  PROVE  /\ LET s == [sock EXCEPT !.inLocked = TRUE]
            IN  SoundSocket(s) /\ OutputAlone(sock, s)
         /\ LET s == [sock EXCEPT !.outLocked = TRUE]
            IN  /\ SoundSocket(s) /\ InputAlone(sock, s) /\ s.output = sock.output
                /\ s.fWriteShutdown = sock.fWriteShutdown /\ s.fState = sock.fState
                /\ s.outDeferred = sock.outDeferred
BY DEF UdpInv, SoundSocket, SockFields, InputAlone, OutputAlone

LEMMA ReceiverStepKeeps ==
  ASSUME UdpInv, \/ HeaderConsume \/ HeaderFree \/ GarbageConsume \/ NoData
                 \/ DataLock \/ DataConsume \/ PeekLock \/ PeekRelease
  PROVE  UdpInv'
<1> DEFINE locks == [sock EXCEPT !.inLocked = TRUE]
<1>1. SoundSocket(locks) /\ OutputAlone(sock, locks)
  BY LockKeeps
<1>2. DOMAIN call = {"put", "len", "got", "part"} /\ SoundSocket(sock)
  BY DEF UdpInv
<1>3. ASSUME NEW from, NEW to, Continue("receiver", from, to), from # "idle",
             to \in HoldsInput, Becomes(locks), UNCHANGED call
      PROVE  UdpInv'
  <2> HIDE DEF locks
  <2>1. QED
    BY <1>1, <1>3, ReceiverMoves DEF HoldsInput
<1>5. CASE DataLock
  BY <1>3, <1>5 DEF DataLock, Turns, HoldsInput
<1>6. CASE PeekLock
  BY <1>3, <1>6 DEF PeekLock, Turns, HoldsInput
<1>7. ASSUME NEW b, SoundSocket(b), OutputAlone(sock, b), NEW from, NEW to,
             Continue("receiver", from, to), from # "idle", to # "wait",
             Becomes(ReleaseInput(b)), DOMAIN call' = DOMAIN call,
             call'.put = call.put
      PROVE  UdpInv'
  <2> DEFINE s == ReleaseInput(b)
  <2>1. SoundSocket(s) /\ OutputAlone(b, s) /\ ~s.inLocked /\ Becomes(s)
    BY <1>7, ReleaseInputKeeps
  <2> HIDE DEF s
  <2>2. OutputAlone(sock, s)
    BY <1>7, <2>1 DEF OutputAlone
  <2>3. QED
    BY <1>7, <2>1, <2>2, ReceiverMoves
<1>4. CASE HeaderConsume
  <2>1. OutputAlone(sock, sock)
    BY DEF OutputAlone
  <2>2. /\ Continue("receiver", "ready", "header") /\ Becomes(ReleaseInput(sock))
        /\ DOMAIN call' = DOMAIN call /\ call'.put = call.put
    BY <1>2, <1>4 DEF HeaderConsume, Turns
  <2>3. QED
    BY <1>2, <1>7, <2>1, <2>2
<1>8. CASE HeaderFree
  <2> DEFINE b == [sock EXCEPT !.input = FreeFront(@, call.part)]
             read == call.got \o SubSeq(sock.input.bytes, 1, call.part)
             to == IF Len(read) < HeaderSize THEN "ready" ELSE "between"
  <2>1. SoundSocket(b) /\ OutputAlone(sock, b)
    BY <1>2 DEF SoundSocket, SockFields, OutputAlone
  <2>2. /\ Continue("receiver", "header", to) /\ Becomes(ReleaseInput(b))
        /\ call' = [call EXCEPT !.got = read, !.part = 0]
    BY <1>8 DEF HeaderFree, Turns
  <2>3. to # "wait"
    OBVIOUS
  <2> HIDE DEF b, read, to
  <2>4. DOMAIN call' = DOMAIN call /\ call'.put = call.put
    BY <1>2, <2>2
  <2>5. QED
    BY <1>7, <2>1, <2>2, <2>3, <2>4
<1>9. CASE DataConsume
  <2> DEFINE b == [sock EXCEPT !.input = Consume(@, Fits), !.cut = Fits < HeaderRead.len]
  <2>1. SoundSocket(b) /\ OutputAlone(sock, b)
    BY <1>2 DEF SoundSocket, SockFields, OutputAlone
  <2>2. /\ Continue("receiver", "data", "return") /\ Becomes(ReleaseInput(b))
        /\ DOMAIN call' = DOMAIN call /\ call'.put = call.put
    BY <1>2, <1>9 DEF DataConsume, Turns
  <2> HIDE DEF b
  <2>3. QED
    BY <1>7, <2>1, <2>2
<1>10. CASE PeekRelease
  <2>1. OutputAlone(sock, sock)
    BY DEF OutputAlone
  <2>2. /\ Continue("receiver", "peek", "idle") /\ Becomes(ReleaseInput(sock))
        /\ DOMAIN call' = DOMAIN call /\ call'.put = call.put
    BY <1>2, <1>10 DEF PeekRelease, Turns, ReceiverReturns
  <2>3. QED
    BY <1>2, <1>7, <2>1, <2>2
<1>11. CASE GarbageConsume
  <2> DEFINE s == [sock EXCEPT !.input = Consume(@, call.len),
                               !.cut = call.len > 0 /\ sock.input.ring.valid > 0]
  <2>1. SoundSocket(s) /\ OutputAlone(sock, s) /\ s.inLocked = sock.inLocked
    BY <1>2 DEF SoundSocket, SockFields, OutputAlone
  <2>2. /\ Continue("receiver", "garbage", "idle") /\ Becomes(s)
        /\ DOMAIN call' = DOMAIN call /\ call'.put = call.put
    BY <1>2, <1>11 DEF GarbageConsume, Turns, ReceiverReturns
  <2> HIDE DEF s
  <2>3. ~s.inLocked
    BY <2>1, <2>2 DEF UdpInv, LocksHeld, Continue, HoldsInput
  <2>4. QED
    BY <2>1, <2>2, <2>3, ReceiverMoves
<1>12. CASE NoData
  <2> DEFINE s == [sock EXCEPT !.cut = HeaderRead.len > 0]
  <2>1. SoundSocket(s) /\ OutputAlone(sock, s) /\ s.inLocked = sock.inLocked
    BY <1>2 DEF SoundSocket, SockFields, OutputAlone
  <2>2. /\ Continue("receiver", "between", "return") /\ Becomes(s)
        /\ DOMAIN call' = DOMAIN call /\ call'.put = call.put
    BY <1>2, <1>12 DEF NoData, Turns
  <2> HIDE DEF s
  <2>3. ~s.inLocked
    BY <2>1, <2>2 DEF UdpInv, LocksHeld, Continue, HoldsInput
  <2>4. QED
    BY <2>1, <2>2, <2>3, ReceiverMoves
<1>13. QED
  BY <1>4, <1>5, <1>6, <1>8, <1>9, <1>10, <1>11, <1>12

LEMMA SenderStepKeeps ==
  ASSUME UdpInv, SendtoLock \/ HeaderProduce \/ DataProduce \/ SendtoRelease
  PROVE  UdpInv'
<1>1. DOMAIN call = {"put", "len", "got", "part"} /\ SoundSocket(sock)
  BY DEF UdpInv
<1>2. CASE SendtoLock
  <2> DEFINE s == [sock EXCEPT !.outLocked = TRUE]
  <2>1. SoundSocket(s) /\ InputAlone(sock, s) /\ s.fState = sock.fState
    BY LockKeeps
  <2>2. /\ Continue("sender", "tested", "locked") /\ Becomes(s) /\ UNCHANGED call
    BY <1>2 DEF SendtoLock, Turns
  <2> HIDE DEF s
  <2>3. QED
    BY <2>1, <2>2, SenderMoves DEF HoldsOutput
<1>3. CASE HeaderProduce
  <2> DEFINE b == Produce(sock.output, Header(call.put))
             s == [sock EXCEPT
                     !.output = b,
                     !.cut = Len(b.bytes) < Len(sock.output.bytes) + HeaderSize]
  <2>1. SoundSocket(s) /\ InputAlone(sock, s) /\ s.fState = sock.fState
    BY <1>1 DEF SoundSocket, SockFields, InputAlone
  <2>2. Continue("sender", "locked", "halfway") /\ Becomes(s) /\ UNCHANGED call
    BY <1>3 DEF HeaderProduce, Turns
  <2> HIDE DEF s
  <2>3. QED
    BY <2>1, <2>2, SenderMoves DEF HoldsOutput
<1>4. CASE DataProduce
  <2> DEFINE b == Produce(sock.output, Body(call.put))
             s == [sock EXCEPT
                     !.output = b,
                     !.cut = Len(b.bytes) < Len(sock.output.bytes) + call.put.len]
  <2>1. SoundSocket(s) /\ InputAlone(sock, s) /\ s.fState = sock.fState
    BY <1>1 DEF SoundSocket, SockFields, InputAlone
  <2>2. Continue("sender", "halfway", "stored") /\ Becomes(s) /\ UNCHANGED call
    BY <1>4 DEF DataProduce
  <2> HIDE DEF s
  <2>3. QED
    BY <2>1, <2>2, SenderMoves DEF HoldsOutput
<1>5. CASE SendtoRelease
  <2> DEFINE s == ReleaseOutput(sock)
  <2>1. /\ SoundSocket(s) /\ InputAlone(sock, s) /\ ~s.outLocked
        /\ s.fState \in {sock.fState, "Closing"} /\ DeferredSend(s)
    BY <1>1, ReleaseOutputKeeps
  <2>2. /\ Continue("sender", "stored", "idle") /\ Becomes(s)
        /\ DOMAIN call' = DOMAIN call
    BY <1>1, <1>5 DEF SendtoRelease, Turns, SenderReturns
  <2> HIDE DEF s
  <2>3. QED
    BY <2>1, <2>2, SenderMoves
<1>6. QED
  BY <1>2, <1>3, <1>4, <1>5

\* shutdown records that it was called, which is all a sleeping thread is promised.
LEMMA ShutKeeps ==
  ASSUME UdpInv, NEW how, NEW to, Enter("closer", "idle", to), Becomes(Shut(sock, how)),
         to # "gone", UNCHANGED call
  PROVE  UdpInv'
<1> DEFINE s == Shut(sock, how)
<1>1. /\ SoundSocket(s) /\ s.inLocked = sock.inLocked /\ s.outLocked = sock.outLocked
      /\ s.fState = sock.fState /\ s.outDeferred = sock.outDeferred
      /\ s.input = sock.input /\ s.output = sock.output /\ s.recvPB = sock.recvPB
      /\ s.shut = sock.shut \cup how
      /\ s.fReadShutdown = (sock.fReadShutdown \/ "read" \in how)
      /\ s.fWriteShutdown = (sock.fWriteShutdown \/ "write" \in how)
  BY DEF UdpInv, SoundSocket, SockFields, Shut
<1>2. Becomes(s) /\ ~sock.outLocked
  BY NobodyHolds DEF Enter
<1> HIDE DEF s
<1>3. /\ SoundSocket(sock') /\ InputAlone(s, sock') /\ OutputAlone(s, sock')
  BY <1>1, <1>2, BecomesKeeps
<1>4. DeferredSend(sock) /\ SleepsOn("receiver") /\ SleepsOn("sender")
  BY <1>1, <1>2, CloserRuns
<1>5. ReceiverWaits'
  BY <1>1, <1>3, <1>4 DEF UdpInv, ReceiverWaits, MustRead, InputAlone, SleepsOn
<1>6. SenderWaits'
  BY <1>1, <1>3, <1>4 DEF UdpInv, SenderWaits, MustWrite, OutputAlone, SleepsOn
<1>7. DeferredSend(s)
  BY <1>1, <1>4 DEF DeferredSend
<1>8. QED
  BY <1>1, <1>2, <1>5, <1>6, <1>7, CloserMoves

LEMMA CloserStepKeeps ==
  ASSUME UdpInv,
         \/ \E how \in SUBSET {"read", "write"} : Shutdown(how)
         \/ Destroy \/ ShutdownLock \/ ShutdownRelease
  PROVE  UdpInv'
<1>1. SoundSocket(sock)
  BY DEF UdpInv
<1>2. CASE \E how \in SUBSET {"read", "write"} : Shutdown(how)
  BY <1>2, ShutKeeps DEF Shutdown, Turns
<1>3. CASE Destroy
  <2>1. CASE sock.fState = "Connected"
    BY <1>3, <2>1, ShutKeeps DEF Destroy, Turns
  <2>2. CASE sock.fState # "Connected"
    <3>1. /\ Enter("closer", "idle", "gone") /\ Becomes(sock) /\ UNCHANGED call
      BY <1>3, <2>2 DEF Destroy, Turns
    <3>2. /\ ~sock.outLocked /\ DeferredSend(sock)
          /\ SleepsOn("receiver") /\ SleepsOn("sender")
      BY <1>1, <3>1, CloserRuns, NobodyHolds DEF Enter
    <3>3. InputAlone(sock, sock') /\ OutputAlone(sock, sock')
      BY <1>1, <3>1, BecomesKeeps
    <3>4. ReceiverWaits' /\ SenderWaits'
      BY <3>1, <3>2, <3>3, ReceiverUnmoved, SenderUnmoved DEF UdpInv, OutputAlone
    <3>5. QED
      BY <1>1, <3>1, <3>2, <3>4, CloserMoves
  <2>3. QED
    BY <2>1, <2>2
<1>4. CASE ShutdownLock
  <2> DEFINE s == [sock EXCEPT !.outLocked = TRUE]
  <2>1. /\ SoundSocket(s) /\ InputAlone(sock, s) /\ s.output = sock.output
        /\ s.fWriteShutdown = sock.fWriteShutdown /\ s.fState = sock.fState
        /\ s.outDeferred = sock.outDeferred
    BY LockKeeps
  <2>2. PICK from, to : /\ Continue("closer", from, to)
                        /\ to \in {"shutting", "lastShutting"}
    BY <1>4 DEF ShutdownLock
  <2>3. Becomes(s) /\ UNCHANGED call
    BY <1>4 DEF ShutdownLock, Turns
  <2> HIDE DEF s
  <2>4. DeferredSend(sock) /\ SleepsOn("receiver") /\ SleepsOn("sender")
    BY <2>1, <2>2, <2>3, CloserRuns
  <2>5. InputAlone(s, sock') /\ OutputAlone(s, sock')
    BY <2>1, <2>3, BecomesKeeps
  <2>6. ReceiverWaits'
    BY <2>1, <2>4, <2>5, ReceiverUnmoved DEF UdpInv, InputAlone
  <2>7. SenderWaits'
    BY <2>1, <2>3, <2>4, <2>5, SenderUnmoved DEF UdpInv, InputAlone, OutputAlone
  <2>8. DeferredSend(s) /\ s.inLocked = sock.inLocked
    BY <2>1, <2>4 DEF DeferredSend, InputAlone
  <2>9. QED
    BY <2>1, <2>2, <2>3, <2>6, <2>7, <2>8, CloserMoves
<1>5. CASE ShutdownRelease
  <2> DEFINE s == ReleaseOutput(sock)
  <2>1. PICK from, to : Continue("closer", from, to)
    BY <1>5 DEF ShutdownRelease
  <2>2. Becomes(s) /\ UNCHANGED call
    BY <1>5 DEF ShutdownRelease, Turns
  <2>3. /\ SoundSocket(s) /\ InputAlone(sock, s) /\ ~s.outLocked
        /\ s.fState \in {sock.fState, "Closing"} /\ DeferredSend(s)
        /\ DeferredSend(sock) =>
             \/ s.wake
             \/ /\ s.output = sock.output
                /\ s.fWriteShutdown = sock.fWriteShutdown
    BY <1>1, ReleaseOutputKeeps
  <2> HIDE DEF s
  <2>4. DeferredSend(sock) /\ SleepsOn("receiver") /\ SleepsOn("sender")
    BY <2>1, <2>2, <2>3, CloserRuns
  <2>5. /\ InputAlone(s, sock') /\ OutputAlone(s, sock')
        /\ s.wake => fContexts \subseteq fWakeup'
    BY <2>2, <2>3, BecomesKeeps
  <2>6. ReceiverWaits'
    <3>1. InputAlone(sock, sock')
      BY <2>3, <2>5 DEF InputAlone
    <3>2. QED
      BY <2>4, <3>1, ReceiverUnmoved DEF UdpInv
  <2>7. SenderWaits'
    <3>1. CASE s.wake
      BY <2>4, <2>5, <3>1 DEF SenderWaits, SleepsOn, fContexts, Threads
    <3>2. CASE s.output = sock.output /\ s.fWriteShutdown = sock.fWriteShutdown
      BY <2>2, <2>3, <2>4, <2>5, <3>2, SenderUnmoved
        DEF UdpInv, InputAlone, OutputAlone
    <3>3. QED
      BY <2>3, <2>4, <3>1, <3>2
  <2>8. s.inLocked = sock.inLocked
    BY <2>3 DEF InputAlone
  <2>9. QED
    BY <2>1, <2>2, <2>3, <2>6, <2>7, <2>8, CloserMoves
<1>6. QED
  BY <1>2, <1>3, <1>4, <1>5

LEMMA BeginsKeeps ==
  ASSUME UdpInv,
         (\E n \in Lengths : Recvfrom(n)) \/ (\E d \in Datagrams : Sendto(d))
  PROVE  UdpInv'
<1>1. DOMAIN call = {"put", "len", "got", "part"}
  BY DEF UdpInv
<1>2. ASSUME NEW n \in Lengths, Recvfrom(n) PROVE UdpInv'
  <2>1. /\ Enter("receiver", "idle", "test") /\ Becomes(WithStream(sock))
        /\ DOMAIN call' = DOMAIN call /\ call'.put = call.put
    BY <1>1, <1>2 DEF Recvfrom, Turns
  <2>2. QED
    BY <2>1, CallBeginsKeeps
<1>3. ASSUME NEW d \in Datagrams, Sendto(d) PROVE UdpInv'
  <2>1. /\ Enter("sender", "idle", "test") /\ Becomes(WithStream(sock))
        /\ DOMAIN call' = DOMAIN call
    BY <1>1, <1>3 DEF Sendto, Turns
  <2>2. QED
    BY <2>1, CallBeginsKeeps
<1>4. QED
  BY <1>2, <1>3

LEMMA StandingKeeps ==
  ASSUME UdpInv,
         \/ \E t \in Threads : TestFirst(t) \/ TestAgain(t)
         \/ \E t \in Threads : YieldReturns(t) \/ YieldInterrupted(t)
         \/ \E n \in Lengths : NoHeader(n)
         \/ Return \/ SendtoTest \/ SendtoShutdown \/ DestroyTest
  PROVE  UdpInv'
<1>1. DOMAIN call = {"put", "len", "got", "part"}
  BY DEF UdpInv
<1> DEFINE Held == HoldsInput \cup HoldsOutput \cup {"shutting", "lastShutting"}
<1>2. /\ "test" \notin Held /\ "loop" \notin Held /\ "wait" \notin Held
      /\ "ready" \notin Held /\ "return" \notin Held
  BY DEF HoldsInput, HoldsOutput
<1>3. /\ DOMAIN ReceiverReturns = DOMAIN call /\ ReceiverReturns.put = call.put
      /\ DOMAIN SenderReturns = DOMAIN call
  BY <1>1 DEF ReceiverReturns, SenderReturns
<1> HIDE DEF Held
<1>4. ASSUME NEW t \in Threads, TestFirst(t) PROVE UdpInv'
  <2>1. PICK to \in {"loop", "ready"} : Continue(t, "test", to)
    BY <1>4 DEF TestFirst
  <2>2. QED
    BY <1>2, <1>4, <2>1, SocketStandsKeeps DEF TestFirst, Held
<1>5. ASSUME NEW t \in Threads, TestAgain(t) PROVE UdpInv'
  <2>1. UNCHANGED <<sock, fWakeup, call>> /\ t # "closer"
    BY <1>5 DEF TestAgain
  <2>2. CASE Must(t)
    <3>1. Continue(t, "loop", "wait")
      BY <1>5, <2>2 DEF TestAgain
    <3>2. QED
      BY <1>2, <2>1, <2>2, <3>1, SocketStandsKeeps DEF Held
  <2>3. CASE ~Must(t)
    <3>1. Continue(t, "loop", "ready")
      BY <1>5, <2>3 DEF TestAgain
    <3>2. QED
      BY <1>2, <2>1, <3>1, SocketStandsKeeps DEF Held
  <2>4. QED
    BY <2>2, <2>3
<1>6. ASSUME NEW t \in Threads, YieldReturns(t) PROVE UdpInv'
  BY <1>2, <1>6, SocketStandsKeeps DEF YieldReturns, Held
<1>7. ASSUME NEW t \in Threads, YieldInterrupted(t) PROVE UdpInv'
  <2>1. /\ Enter(t, "wait", "idle") /\ fWakeup' = fWakeup \ {t} /\ UNCHANGED sock
        /\ t # "closer" /\ call' \in {ReceiverReturns, SenderReturns}
        /\ t = "receiver" => call' = ReceiverReturns
    BY <1>7 DEF YieldInterrupted
  <2>2. DOMAIN call' = DOMAIN call /\ (t # "sender" => call'.put = call.put)
    BY <1>3, <2>1 DEF Threads
  <2>3. QED
    BY <1>2, <2>1, <2>2, SocketStandsKeeps DEF Held
<1>8. ASSUME NEW n \in Lengths, NoHeader(n) PROVE UdpInv'
  <2>1. /\ Continue("receiver", "ready", "garbage") /\ UNCHANGED <<sock, fWakeup>>
        /\ DOMAIN call' = DOMAIN call /\ call'.put = call.put
    BY <1>1, <1>8 DEF NoHeader
  <2>2. QED
    BY <1>2, <2>1, SocketStandsKeeps DEF Held, Threads
<1>9. CASE Return
  BY <1>2, <1>3, <1>9, SocketStandsKeeps DEF Return, Held, Threads
<1>10. CASE SendtoShutdown
  BY <1>2, <1>3, <1>10, SocketStandsKeeps DEF SendtoShutdown, Held, Threads
<1>11. CASE DestroyTest
  <2>1. UNCHANGED <<sock, fWakeup, call>>
    BY <1>11 DEF DestroyTest
  <2>2. PICK to \in {"gone", "wait"} : Continue("closer", "loop", to)
    BY <1>11 DEF DestroyTest
  <2>3. QED
    BY <1>2, <2>1, <2>2, SocketStandsKeeps DEF Held, Threads
<1>12. CASE SendtoTest
  <2>1. /\ Continue("sender", "ready", "tested") /\ UNCHANGED <<sock, fWakeup>>
        /\ DOMAIN call' = DOMAIN call
    BY <1>1, <1>12 DEF SendtoTest
  <2>2. QED
    BY <1>2, <2>1, SocketStandsKeeps DEF Held, Threads
<1>13. QED
  BY <1>4, <1>5, <1>6, <1>7, <1>8, <1>9, <1>10, <1>11, <1>12

LEMMA UdpInitial ==
  ASSUME UdpInit
  PROVE  UdpInv
<1>1. SoundSocket(sock) /\ sock.fState = "Unbound"
      /\ sock.inLocked = FALSE /\ sock.outLocked = FALSE /\ sock.outDeferred = "none"
  BY DEF UdpInit, NewSocket, SoundSocket, SockFields, Results
<1>2. DOMAIN call = {"put", "len", "got", "part"}
  BY DEF UdpInit, NoCall
<1>3. /\ OneRuns /\ pc["receiver"] = "idle" /\ pc["sender"] = "idle"
  BY DEF UdpInit, OneRuns, Resting, Threads
<1>4. QED
  BY <1>1, <1>2, <1>3
    DEF UdpInv, LocksHeld, NothingToWrite, StreamFirst, ReceiverWaits, SenderWaits

LEMMA UdpStep ==
  ASSUME UdpInv, [UdpNext]_udpVars
  PROVE  UdpInv'
<1>1. CASE UNCHANGED udpVars
  BY <1>1 DEF udpVars, UdpInv, SoundSocket, OneRuns, LocksHeld, NothingToWrite,
              StreamFirst, ReceiverWaits, SenderWaits, MustRead, MustWrite
<1>2. CASE Interrupts
  <2>1. CASE \E result \in {"noErr", "error"} : WriteCompletes(result)
    BY <2>1, WriteCompletesKeeps
  <2>2. CASE \E result \in {"noErr", "error"} : ReturnCompletes(result)
    BY <2>2, ReturnCompletesKeeps DEF Results
  <2>3. CASE \E d \in Datagrams : ReadCompletes(d, "noErr")
    BY <2>3, ReadCompletesKeeps DEF Results
  <2>4. CASE \E result \in Results \ {"noErr"} : ReadCompletes(NoDatagram, result)
    BY <2>4, ReadCompletesKeeps
  <2>5. QED
    BY <1>2, <2>1, <2>2, <2>3, <2>4 DEF Interrupts
<1>3. CASE ThreadCode
  BY <1>3, ReceiverStepKeeps, SenderStepKeeps, CloserStepKeeps, StandingKeeps
    DEF ThreadCode
<1>4. CASE Calls
  <2>1. CASE \E how \in {{"read"}, {"write"}, {"read", "write"}} : Shutdown(how)
    <3>1. \E how \in SUBSET {"read", "write"} : Shutdown(how)
      BY <2>1
    <3>2. QED
      BY <3>1, CloserStepKeeps
  <2>2. QED
    BY <1>4, <2>1, LookingKeeps, BeginsKeeps, StandingKeeps, CloserStepKeeps DEF Calls
<1>5. QED
  BY <1>1, <1>2, <1>3, <1>4 DEF UdpNext

\* A thread that sleeps in recvfrom or sendto (GUSIMTUdp.nw:504, 566) and has not
\* been woken has something to wait for, whatever the completion routines do, at
\* once or deferred to a Release; only shutdown() may end a wait in silence.
THEOREM SleepersWait == UdpSpec => []SleeperWaits
<1>1. UdpInit => UdpInv
  BY UdpInitial
<1>2. UdpInv /\ [UdpNext]_udpVars => UdpInv'
  BY UdpStep
<1>3. UdpInv => SleeperWaits
  BY DEF UdpInv, ReceiverWaits, SenderWaits, SleeperWaits
<1>4. QED
  BY <1>1, <1>2, <1>3, PTL DEF UdpSpec

-----------------------------------------------------------------------------
(***************************************************************************)
(* What is in the buffers, as datagrams.  Induction is over the natural    *)
(* numbers, by a set of them that is closed under successor.               *)
(***************************************************************************)
LEMMA SetInduction ==
  ASSUME NEW S \in SUBSET Nat, 0 \in S, \A n \in S : n + 1 \in S
  PROVE  S = Nat
<1>1. SUFFICES ASSUME Nat \ S # {} PROVE FALSE
  OBVIOUS
<1>2. PICK m \in Nat \ S : \A n \in Nat \ S : ~ (<<n, m>> \in OpToRel(<, Nat))
  BY <1>1, NatLessThanWellFounded, WFMin
<1>3. \A n \in Nat \ S : ~(n < m)
  BY <1>2 DEF OpToRel
<1>4. m # 0 /\ m - 1 \in Nat /\ m - 1 < m
  <2>1. m \in Nat /\ m # 0
    OBVIOUS
  <2>2. QED
    BY <2>1
<1>5. m - 1 \in S
  BY <1>3, <1>4
<1>6. m - 1 + 1 = m
  BY <1>4
<1>7. QED
  BY <1>2, <1>5, <1>6

Peers == Partners \cup {NoPeer} \cup {d.peer : d \in Datagrams}
Messages == [peer : Peers, len : Nat]
Octets == Messages \X Nat

Packed(d) == Header(d) \o Body(d)

LEMMA SizesFacts ==
  /\ InSize \in Nat /\ OutSize \in Nat /\ HeaderSize \in Nat /\ HeaderSize > 0
  /\ Datagrams \subseteq Messages
  /\ \A n \in Lengths : n \in Nat
<1>1. Datagrams \subseteq Messages
  BY DatagramsAssumption DEF Messages, Peers
<1>2. QED
  BY <1>1, UdpSizesAssumption, DatagramsAssumption DEF Lengths

LEMMA FunctionIsSeq ==
  ASSUME NEW S, NEW n \in Nat, NEW f \in [1 .. n -> S]
  PROVE  f \in Seq(S) /\ Len(f) = n
<1>1. f \in Seq(S)
  BY SeqDef
<1>2. Len(f) \in Nat /\ DOMAIN f = 1 .. Len(f) /\ DOMAIN f = 1 .. n
  BY <1>1, LenProperties
<1> DEFINE m == Len(f)
<1> HIDE DEF m
<1>3. m \in Nat /\ 1 .. m = 1 .. n
  BY <1>2 DEF m
<1>4. m = n
  <2>1. CASE m < n
    <3>1. n \in 1 .. n /\ n \notin 1 .. m
      BY <1>3, <2>1
    <3>2. QED
      BY <1>3, <3>1
  <2>2. CASE n < m
    <3>1. m \in 1 .. m /\ m \notin 1 .. n
      BY <1>3, <2>2
    <3>2. QED
      BY <1>3, <3>1
  <2>3. QED
    BY <1>3, <2>1, <2>2
<1>5. QED
  BY <1>1, <1>4 DEF m

LEMMA PackedBytes ==
  ASSUME NEW d \in Messages
  PROVE  /\ Header(d) \in Seq(Octets) /\ Len(Header(d)) = HeaderSize
         /\ Body(d) \in Seq(Octets) /\ Len(Body(d)) = d.len
         /\ Packed(d) \in Seq(Octets) /\ Len(Packed(d)) = HeaderSize + d.len
         /\ Packed(d)[1][1] = d
<1>1. d.len \in Nat /\ HeaderSize \in Nat /\ HeaderSize > 0
  BY SizesFacts DEF Messages
<1>2. Header(d) \in [1 .. HeaderSize -> Octets] /\ Body(d) \in [1 .. d.len -> Octets]
  BY <1>1 DEF Header, Body, Octets
<1>3. /\ Header(d) \in Seq(Octets) /\ Len(Header(d)) = HeaderSize
      /\ Body(d) \in Seq(Octets) /\ Len(Body(d)) = d.len
  BY <1>1, <1>2, FunctionIsSeq
<1>4. /\ Packed(d) \in Seq(Octets) /\ Len(Packed(d)) = HeaderSize + d.len
      /\ 1 \in 1 .. Len(Header(d)) + Len(Body(d)) /\ 1 <= Len(Header(d))
      /\ Packed(d)[1] = Header(d)[1]
  <2> DEFINE h == Header(d)
             b == Body(d)
  <2>1. h \in Seq(Octets) /\ b \in Seq(Octets) /\ Len(h) = HeaderSize /\ Len(b) = d.len
    BY <1>3
  <2>2. Packed(d) = h \o b
    BY DEF Packed
  <2> HIDE DEF h, b
  <2>3. /\ h \o b \in Seq(Octets) /\ Len(h \o b) = Len(h) + Len(b)
        /\ \A i \in 1 .. Len(h) + Len(b) :
             (h \o b)[i] = IF i <= Len(h) THEN h[i] ELSE b[i - Len(h)]
    BY <2>1, ConcatProperties
  <2>4. 1 \in 1 .. Len(h) + Len(b) /\ 1 <= Len(h)
    BY <1>1, <2>1
  <2>5. (h \o b)[1] = h[1]
    BY <2>3, <2>4
  <2>6. QED
    BY <2>1, <2>2, <2>3, <2>4, <2>5 DEF h, b
<1>5. Header(d)[1] = <<d, 1>>
  BY <1>1 DEF Header
<1>6. QED
  BY <1>3, <1>4, <1>5

\* f[i] is the bytes of the first i datagrams of q.
Joins(f, q, n) ==
  /\ f \in [1 .. n -> Seq(Octets)]
  /\ \A i \in 1 .. n : f[i] = IF i = 1 THEN Packed(q[1]) ELSE f[i - 1] \o Packed(q[i])

\* ConcatAssociative, with the sequences quantified.
LEMMA SeqAssociates ==
  ASSUME NEW S
  PROVE  \A x, y, z \in Seq(S) : (x \o y) \o z = x \o (y \o z)
BY ConcatAssociative

LEMMA JoinExists ==
  ASSUME NEW q \in Seq(Messages)
  PROVE  \E f : Joins(f, q, Len(q))
<1> DEFINE S == {n \in Nat : n <= Len(q) => \E f : Joins(f, q, n)}
<1>1. Len(q) \in Nat
  BY LenProperties
<1>2. 0 \in S
  <2>1. Joins(<<>>, q, 0)
    BY DEF Joins
  <2>2. QED
    BY <2>1
<1>3. ASSUME NEW n \in S PROVE n + 1 \in S
  <2>1. SUFFICES ASSUME n + 1 <= Len(q) PROVE \E g : Joins(g, q, n + 1)
    OBVIOUS
  <2>2. PICK f : Joins(f, q, n)
    BY <1>1, <2>1
  <2>3. n \in Nat /\ n + 1 \in 1 .. Len(q) /\ n + 1 \in Nat
    BY <1>1, <2>1
  <2>4. Packed(q[n + 1]) \in Seq(Octets)
    BY <2>3, ElementOfSeq, PackedBytes
  <2> DEFINE e == IF n = 0 THEN Packed(q[1]) ELSE f[n] \o Packed(q[n + 1])
             g == [i \in 1 .. n + 1 |-> IF i = n + 1 THEN e ELSE f[i]]
  <2>5. e \in Seq(Octets)
    BY <2>2, <2>3, <2>4, ConcatProperties DEF Joins
  <2>6. g \in [1 .. n + 1 -> Seq(Octets)]
    <3> HIDE DEF e
    <3>1. \A i \in 1 .. n + 1 : i # n + 1 => i \in 1 .. n
      BY <2>3
    <3>2. QED
      BY <2>2, <2>5, <3>1 DEF Joins
  <2>7. ASSUME NEW i \in 1 .. n + 1
        PROVE  g[i] = IF i = 1 THEN Packed(q[1]) ELSE g[i - 1] \o Packed(q[i])
    <3>1. CASE i = n + 1
      <4>1. g[i] = e
        BY <3>1
      <4>2. CASE n = 0
        BY <3>1, <4>1, <4>2
      <4>3. CASE n # 0
        <5>1. i # 1 /\ i - 1 = n /\ n \in 1 .. n + 1 /\ n # n + 1
          BY <2>3, <3>1, <4>3
        <5>2. g[i - 1] = f[n]
          BY <5>1
        <5>3. QED
          BY <3>1, <4>1, <4>3, <5>1, <5>2
      <4>4. QED
        BY <4>2, <4>3
    <3>2. CASE i # n + 1
      <4>1. i \in 1 .. n /\ (i # 1 => i - 1 \in 1 .. n + 1 /\ i - 1 # n + 1)
        BY <2>3, <3>2
      <4>2. g[i] = f[i] /\ (i # 1 => g[i - 1] = f[i - 1])
        BY <4>1
      <4>3. QED
        BY <2>2, <4>1, <4>2 DEF Joins
    <3>3. QED
      BY <3>1, <3>2
  <2> HIDE DEF g
  <2>8. Joins(g, q, n + 1)
    BY <2>6, <2>7 DEF Joins
  <2>9. QED
    BY <2>8
<1>4. S = Nat
  BY <1>2, <1>3, SetInduction
<1>5. QED
  BY <1>1, <1>4

LEMMA JoinUnique ==
  ASSUME NEW q, NEW n \in Nat, NEW f, Joins(f, q, n), NEW g,
         \A i \in 1 .. n :
           g[i] = IF i = 1 THEN Packed(q[i]) ELSE g[i - 1] \o Packed(q[i])
  PROVE  \A i \in 1 .. n : g[i] = f[i]
<1> DEFINE S == {k \in Nat : k \in 1 .. n => g[k] = f[k]}
<1>1. ASSUME NEW k \in Nat, k \in 1 .. n => g[k] = f[k], k + 1 \in 1 .. n
      PROVE  g[k + 1] = f[k + 1]
  <2> DEFINE i == k + 1
  <2>1. /\ i \in 1 .. n /\ i - 1 = k
        /\ i # 1 => k \in 1 .. n
    BY <1>1
  <2> HIDE DEF i
  <2>2. f[i] = IF i = 1 THEN Packed(q[1]) ELSE f[i - 1] \o Packed(q[i])
    BY <2>1 DEF Joins
  <2>3. g[i] = IF i = 1 THEN Packed(q[i]) ELSE g[i - 1] \o Packed(q[i])
    BY <2>1
  <2>4. g[i] = f[i]
    BY <1>1, <2>1, <2>2, <2>3
  <2>5. QED
    BY <2>4 DEF i
<1>2. 0 \in S /\ \A k \in S : k + 1 \in S
  BY <1>1
<1> HIDE DEF S
<1>3. S \in SUBSET Nat
  BY DEF S
<1>4. S = Nat
  BY <1>2, <1>3, SetInduction
<1>5. QED
  BY <1>4 DEF S

LEMMA StoredIsJoined ==
  ASSUME NEW q \in Seq(Messages), q # <<>>, NEW f, Joins(f, q, Len(q))
  PROVE  StoredBytes(q) = f[Len(q)]
<1> DEFINE n == Len(q)
           P == [i \in DOMAIN q |-> Header(q[i]) \o Body(q[i])]
           g == CHOOSE g : g = [i \in 1 .. n |-> IF i = 1 THEN P[i] ELSE g[i - 1] \o P[i]]
<1>1. n \in Nat /\ n # 0 /\ DOMAIN q = 1 .. n
  BY LenProperties, EmptySeq
<1>2. P \in [1 .. n -> Seq(Octets)]
  BY <1>1, ElementOfSeq, PackedBytes DEF Packed
<1>3. Len(P) = n
  BY <1>1, <1>2, FunctionIsSeq
<1>4. StoredBytes(q) = g[n]
  BY <1>1, <1>3 DEF StoredBytes, FlattenSeq
<1>5. \A i \in 1 .. n : P[i] = Packed(q[i])
  BY <1>1 DEF Packed
<1> HIDE DEF P, n
<1>6. f = [i \in 1 .. n |-> IF i = 1 THEN P[i] ELSE f[i - 1] \o P[i]]
  <2>1. f \in [1 .. n -> Seq(Octets)]
    BY DEF Joins, n
  <2>2. \A i \in 1 .. n : f[i] = IF i = 1 THEN P[i] ELSE f[i - 1] \o P[i]
    <3>1. ASSUME NEW i \in 1 .. n
          PROVE  f[i] = IF i = 1 THEN Packed(q[1]) ELSE f[i - 1] \o Packed(q[i])
      BY DEF Joins, n
    <3>2. QED
      BY <1>5, <3>1
  <2>3. QED
    BY <2>1, <2>2
<1>7. g = [i \in 1 .. n |-> IF i = 1 THEN P[i] ELSE g[i - 1] \o P[i]]
  BY <1>6
<1> HIDE DEF g
<1>8. \A i \in 1 .. n :
        g[i] = IF i = 1 THEN Packed(q[i]) ELSE g[i - 1] \o Packed(q[i])
  <2>1. ASSUME NEW i \in 1 .. n
        PROVE  g[i] = IF i = 1 THEN P[i] ELSE g[i - 1] \o P[i]
    BY ONLY <1>7, i \in 1 .. n, Zenon
  <2>2. QED
    BY <1>5, <2>1
<1>9. \A i \in 1 .. n : g[i] = f[i]
  BY <1>1, <1>8, JoinUnique DEF n
<1>10. n \in 1 .. n
  BY <1>1
<1>11. QED
  BY <1>4, <1>9, <1>10 DEF n

\* The bytes of no datagram, of one more, and of one and those that follow it.
LEMMA StoredNothing == StoredBytes(<<>>) = <<>>
BY DEF StoredBytes, FlattenSeq

LEMMA StoredLast ==
  ASSUME NEW q \in Seq(Messages), NEW d \in Messages
  PROVE  /\ StoredBytes(q) \in Seq(Octets)
         /\ StoredBytes(Append(q, d)) = StoredBytes(q) \o Packed(d)
<1> DEFINE n == Len(q)
           r == Append(q, d)
<1>1. /\ n \in Nat /\ r \in Seq(Messages) /\ r # <<>> /\ Len(r) = n + 1
      /\ \A i \in 1 .. n : r[i] = q[i]
      /\ r[n + 1] = d
  BY LenProperties, AppendProperties
<1>2. PICK f : Joins(f, r, n + 1)
  BY <1>1, JoinExists
<1>3. StoredBytes(r) = f[n + 1]
  BY <1>1, <1>2, StoredIsJoined
<1>4. Packed(d) \in Seq(Octets)
  BY PackedBytes
<1> HIDE DEF r
<1>5. CASE q = <<>>
  <2>1. n = 0
    BY <1>5, EmptySeq
  <2>2. f[1] = Packed(r[1])
    BY <1>2, <2>1 DEF Joins
  <2>3. StoredBytes(r) = Packed(d)
    BY <1>1, <1>3, <2>1, <2>2
  <2>4. StoredBytes(q) = <<>> /\ <<>> \in Seq(Octets)
    BY <1>5, StoredNothing, EmptySeq
  <2>5. QED
    BY <1>4, <2>3, <2>4, ConcatEmptySeq DEF r
<1>6. CASE q # <<>>
  <2>1. n # 0
    BY <1>6, EmptySeq
  <2> DEFINE g == [i \in 1 .. n |-> f[i]]
  <2>2. \A i \in 1 .. n : /\ i \in 1 .. n + 1 /\ (i # 1 => i - 1 \in 1 .. n)
                          /\ f[i] \in Seq(Octets)
    <3>1. \A i \in 1 .. n : i \in 1 .. n + 1 /\ (i # 1 => i - 1 \in 1 .. n)
      BY <1>1
    <3>2. f \in [1 .. n + 1 -> Seq(Octets)]
      BY <1>2 DEF Joins
    <3>3. QED
      BY <3>1, <3>2
  <2>3. g \in [1 .. n -> Seq(Octets)]
    BY <2>2
  <2>4. ASSUME NEW i \in 1 .. n
        PROVE  g[i] = IF i = 1 THEN Packed(q[1]) ELSE g[i - 1] \o Packed(q[i])
    <3>1. f[i] = IF i = 1 THEN Packed(r[1]) ELSE f[i - 1] \o Packed(r[i])
      BY <1>2, <2>2 DEF Joins
    <3>2. 1 \in 1 .. n /\ g[i] = f[i] /\ (i # 1 => g[i - 1] = f[i - 1])
      BY <1>1, <2>1, <2>2
    <3>3. QED
      BY <1>1, <3>1, <3>2
  <2>5. Joins(g, q, n)
    <3> HIDE DEF g
    <3>1. QED
      BY <2>3, <2>4 DEF Joins
  <2>6. n \in 1 .. n /\ g[n] = f[n] /\ n + 1 \in 1 .. n + 1 /\ n + 1 # 1
        /\ n + 1 - 1 = n
    BY <1>1, <2>1
  <2>7. StoredBytes(q) = f[n]
    <3> HIDE DEF g
    <3>1. QED
      BY <1>6, <2>5, <2>6, StoredIsJoined
  <2>8. f[n + 1] = f[n] \o Packed(d)
    <3> DEFINE i == n + 1
    <3>1. i \in 1 .. i /\ i # 1 /\ i - 1 = n /\ r[i] = d /\ Joins(f, r, i)
      BY <1>1, <1>2, <2>6
    <3> HIDE DEF i, n, g
    <3>2. f[i] = f[i - 1] \o Packed(r[i])
      BY <3>1 DEF Joins
    <3>3. f[i] = f[n] \o Packed(d)
      BY <3>1, <3>2
    <3>4. QED
      BY <3>3 DEF i
  <2>9. QED
    BY <1>3, <2>2, <2>6, <2>7, <2>8 DEF r
<1>7. QED
  BY <1>5, <1>6

LEMMA StoredFirst ==
  ASSUME NEW q \in Seq(Messages), q # <<>>
  PROVE  /\ Head(q) \in Messages /\ Tail(q) \in Seq(Messages)
         /\ StoredBytes(Tail(q)) \in Seq(Octets)
         /\ StoredBytes(q) = Packed(Head(q)) \o StoredBytes(Tail(q))
<1> DEFINE t == Tail(q)
           h == Head(q)
           n == Len(t)
           p == Packed(h)
<1>1. /\ h \in Messages /\ t \in Seq(Messages) /\ n = Len(q) - 1
      /\ \A i \in 1 .. n : t[i] = q[i + 1]
  BY HeadTailProperties
<1>2. h = q[1]
  OBVIOUS
<1>3. n \in Nat /\ Len(q) = n + 1
  BY <1>1, LenProperties
<1>4. p \in Seq(Octets)
  BY <1>1, PackedBytes
<1>5. CASE t = <<>>
  <2>1. n = 0
    BY <1>5, EmptySeq
  <2> HIDE DEF t, h, n, p
  <2>2. Len(q) = 1
    BY <1>3, <2>1
  <2>3. PICK f : Joins(f, q, Len(q))
    BY JoinExists
  <2>4. f[1] = Packed(q[1]) /\ StoredBytes(q) = f[1]
    BY <2>2, <2>3, StoredIsJoined DEF Joins
  <2>5. StoredBytes(t) = <<>> /\ <<>> \in Seq(Octets)
    BY <1>5, StoredNothing, EmptySeq
  <2>6. StoredBytes(q) = p \o <<>>
    BY <1>2, <1>4, <2>4, ConcatEmptySeq DEF p
  <2>7. QED
    BY <1>1, <2>5, <2>6 DEF t, h, p
<1>6. CASE t # <<>>
  <2>1. n # 0
    BY <1>1, <1>6, EmptySeq
  <2>2. PICK f : Joins(f, t, n)
    BY <1>1, JoinExists
  <2>3. StoredBytes(t) = f[n]
    BY <1>1, <1>6, <2>2, StoredIsJoined
  <2> DEFINE g == [i \in 1 .. n + 1 |-> IF i = 1 THEN p ELSE p \o f[i - 1]]
  <2> HIDE DEF t, h, n, p
  <2>4. f \in [1 .. n -> Seq(Octets)]
    BY <2>2 DEF Joins
  <2>5. g \in [1 .. n + 1 -> Seq(Octets)]
    <3>1. ASSUME NEW i \in 1 .. n + 1, i # 1 PROVE p \o f[i - 1] \in Seq(Octets)
      <4>1. i - 1 \in 1 .. n
        BY <1>3, <3>1
      <4>2. f[i - 1] \in Seq(Octets)
        BY <2>4, <4>1
      <4>3. QED
        BY <1>4, <4>2, ConcatProperties
    <3>2. QED
      BY <1>4, <3>1
  <2>6. ASSUME NEW i \in 1 .. n + 1
        PROVE  g[i] = IF i = 1 THEN Packed(q[1]) ELSE g[i - 1] \o Packed(q[i])
    <3>1. CASE i = 1
      BY <1>2, <3>1 DEF p
    <3>2. CASE i # 1
      <4> DEFINE j == i - 1
      <4>1. j \in 1 .. n /\ j + 1 = i /\ j \in 1 .. n + 1
        BY <1>3, <3>2
      <4>2. g[i] = p \o f[j]
        BY <3>2
      <4> HIDE DEF j
      <4>3. t[j] = q[i] /\ Packed(t[j]) \in Seq(Octets)
        <5>1. t[j] \in Messages
          BY <1>1, <4>1, ElementOfSeq DEF n
        <5>2. QED
          BY <1>1, <4>1, <5>1, PackedBytes
      <4>4. f[j] = IF j = 1 THEN Packed(t[1]) ELSE f[j - 1] \o Packed(t[j])
        BY <2>2, <4>1 DEF Joins
      <4>5. g[j] = IF j = 1 THEN p ELSE p \o f[j - 1]
        BY <4>1
      <4>6. CASE j = 1
        BY <3>2, <4>2, <4>3, <4>4, <4>5, <4>6 DEF j
      <4>7. CASE j # 1
        <5>1. f[j - 1] \in Seq(Octets)
          BY <1>3, <2>4, <4>1, <4>7
        <5>2. (p \o f[j - 1]) \o Packed(t[j]) = p \o (f[j - 1] \o Packed(t[j]))
          <6>1. \A x, y \in Seq(Octets) : (p \o x) \o y = p \o (x \o y)
            BY <1>4, ConcatAssociative
          <6>2. Packed(t[j]) \in Seq(Octets)
            BY <4>3
          <6>3. QED
            BY <5>1, <6>1, <6>2
        <5>3. g[i] = g[j] \o Packed(q[i])
          BY <4>2, <4>3, <4>4, <4>5, <4>7, <5>2
        <5>4. QED
          BY <3>2, <5>3 DEF j
      <4>8. QED
        BY <4>6, <4>7
    <3>3. QED
      BY <3>1, <3>2
  <2>7. \A i \in 1 .. n + 1 : i # 1 => g[i] = p \o f[i - 1]
    OBVIOUS
  <2> HIDE DEF g
  <2>8. Joins(g, q, n + 1)
    BY <2>5, <2>6 DEF Joins
  <2>9. StoredBytes(q) = g[n + 1]
    BY <1>3, <2>8, StoredIsJoined
  <2>10. n + 1 \in 1 .. n + 1 /\ n + 1 # 1 /\ n + 1 - 1 = n /\ n \in 1 .. n
    BY <1>3, <2>1
  <2>11. f[n] \in Seq(Octets)
    BY <2>4, <2>10
  <2>12. g[n + 1] = p \o f[n]
    <3>1. ASSUME NEW i \in 1 .. n + 1, i = n + 1 PROVE g[i] = p \o f[n]
      <4>1. i # 1 /\ i - 1 = n
        BY <2>10, <3>1
      <4>2. g[i] = p \o f[i - 1]
        BY <2>7, <4>1
      <4>3. QED
        BY <4>1, <4>2
    <3>2. QED
      BY <2>10, <3>1
  <2>13. QED
    BY <1>1, <2>3, <2>9, <2>11, <2>12 DEF t, h, p
<1>7. QED
  BY <1>5, <1>6

\* Parts of a sequence.
LEMMA Taken ==
  ASSUME NEW S, NEW s \in Seq(S), NEW k \in 0 .. Len(s)
  PROVE  /\ SubSeq(s, 1, k) \in Seq(S) /\ Len(SubSeq(s, 1, k)) = k
         /\ SubSeq(s, k + 1, Len(s)) \in Seq(S)
         /\ Len(SubSeq(s, k + 1, Len(s))) = Len(s) - k
         /\ \A i \in 1 .. k : SubSeq(s, 1, k)[i] = s[i]
         /\ \A i \in 1 .. Len(s) - k : SubSeq(s, k + 1, Len(s))[i] = s[k + i]
<1> DEFINE n == Len(s)
<1>1. n \in Nat /\ k \in Nat /\ k <= n /\ \A i \in 1 .. n : s[i] \in S
  BY LenProperties, ElementOfSeq
<1> HIDE DEF n
<1>2. /\ \A i \in 1 .. k : s[i] \in S
      /\ \A i \in k + 1 .. n : s[i] \in S
  BY <1>1
<1>3. /\ SubSeq(s, 1, k) \in Seq(S)
      /\ Len(SubSeq(s, 1, k)) = IF 1 <= k THEN k - 1 + 1 ELSE 0
      /\ \A i \in 1 .. k - 1 + 1 : SubSeq(s, 1, k)[i] = s[1 + i - 1]
  BY <1>1, <1>2, SubSeqProperties
<1>4. /\ SubSeq(s, k + 1, n) \in Seq(S)
      /\ Len(SubSeq(s, k + 1, n)) = IF k + 1 <= n THEN n - (k + 1) + 1 ELSE 0
      /\ \A i \in 1 .. n - (k + 1) + 1 : SubSeq(s, k + 1, n)[i] = s[k + 1 + i - 1]
  BY <1>1, <1>2, SubSeqProperties
<1>5. Len(SubSeq(s, 1, k)) = k /\ Len(SubSeq(s, k + 1, n)) = n - k
  BY <1>1, <1>3, <1>4
<1>6. ASSUME NEW i \in 1 .. k PROVE SubSeq(s, 1, k)[i] = s[i]
  <2>1. i \in 1 .. k - 1 + 1 /\ 1 + i - 1 = i
    BY <1>1
  <2>2. QED
    BY <1>3, <2>1
<1>7. ASSUME NEW i \in 1 .. n - k PROVE SubSeq(s, k + 1, n)[i] = s[k + i]
  <2>1. i \in 1 .. n - (k + 1) + 1 /\ k + 1 + i - 1 = k + i
    BY <1>1
  <2>2. QED
    BY <1>4, <2>1
<1>8. QED
  BY <1>3, <1>4, <1>5, <1>6, <1>7 DEF n

LEMMA Splits ==
  ASSUME NEW S, NEW s \in Seq(S), NEW t \in Seq(S)
  PROVE  /\ s \o t \in Seq(S) /\ Len(s) \in Nat /\ Len(t) \in Nat
         /\ Len(s \o t) = Len(s) + Len(t)
         /\ SubSeq(s \o t, 1, Len(s)) = s
         /\ SubSeq(s \o t, Len(s) + 1, Len(s \o t)) = t
<1> DEFINE u == s \o t
           k == Len(s)
           m == Len(t)
<1>1. k \in Nat /\ m \in Nat
  BY LenProperties
<1>2. /\ u \in Seq(S) /\ Len(u) = k + m
      /\ \A i \in 1 .. k + m : u[i] = IF i <= k THEN s[i] ELSE t[i - k]
  BY ConcatProperties
<1> HIDE DEF u
<1>3. k \in 0 .. Len(u) /\ Len(u) - k = m
  BY <1>1, <1>2
<1>4. /\ SubSeq(u, 1, k) \in Seq(S) /\ Len(SubSeq(u, 1, k)) = k
      /\ SubSeq(u, k + 1, Len(u)) \in Seq(S)
      /\ Len(SubSeq(u, k + 1, Len(u))) = m
      /\ \A i \in 1 .. k : SubSeq(u, 1, k)[i] = u[i]
      /\ \A i \in 1 .. m : SubSeq(u, k + 1, Len(u))[i] = u[k + i]
  <2>1. /\ SubSeq(u, 1, k) \in Seq(S) /\ Len(SubSeq(u, 1, k)) = k
        /\ SubSeq(u, k + 1, Len(u)) \in Seq(S)
        /\ Len(SubSeq(u, k + 1, Len(u))) = Len(u) - k
        /\ \A i \in 1 .. k : SubSeq(u, 1, k)[i] = u[i]
        /\ \A i \in 1 .. Len(u) - k : SubSeq(u, k + 1, Len(u))[i] = u[k + i]
    BY <1>2, <1>3, Taken
  <2>2. QED
    BY <1>3, <2>1
<1>5. \A i \in 1 .. k : u[i] = s[i]
  <2>1. ASSUME NEW i \in 1 .. k PROVE u[i] = s[i]
    <3>1. i \in 1 .. k + m /\ i <= k
      BY <1>1
    <3>2. QED
      BY <1>2, <3>1
  <2>2. QED
    BY <2>1
<1>6. \A i \in 1 .. m : u[k + i] = t[i]
  <2>1. ASSUME NEW i \in 1 .. m PROVE u[k + i] = t[i]
    <3> DEFINE j == k + i
    <3>1. j \in 1 .. k + m /\ ~(j <= k) /\ j - k = i
      BY <1>1
    <3> HIDE DEF j
    <3>2. u[j] = t[i]
      BY <1>2, <3>1
    <3>3. QED
      BY <3>2 DEF j
  <2>2. QED
    BY <2>1
<1> DEFINE f == SubSeq(u, 1, k)
           l == SubSeq(u, k + 1, Len(u))
<1>7. /\ f \in Seq(S) /\ Len(f) = k /\ \A i \in 1 .. k : f[i] = s[i]
      /\ l \in Seq(S) /\ Len(l) = m /\ \A i \in 1 .. m : l[i] = t[i]
  BY <1>4, <1>5, <1>6
<1> HIDE DEF f, l
<1>8. f = s /\ l = t
  BY <1>7, SeqEqual
<1>9. QED
  BY <1>1, <1>2, <1>8 DEF f, l, u

LEMMA WholeTaken ==
  ASSUME NEW S, NEW s \in Seq(S)
  PROVE  /\ SubSeq(s, 1, 0) = <<>>
         /\ SubSeq(s, 1, Len(s)) = s
         /\ SubSeq(s, Len(s) + 1, Len(s)) = <<>>
<1>1. Len(s) \in Nat
  BY LenProperties
<1>2. SubSeq(s, 1, Len(s)) = s
  BY SubSeqFull
<1>3. SubSeq(s, 1, 0) = <<>>
  BY SubSeqEmpty
<1> DEFINE n == Len(s)
<1> HIDE DEF n
<1>4. SubSeq(s, n + 1, n) = <<>>
  <2>1. n \in Int /\ n + 1 \in Int /\ n < n + 1
    BY <1>1 DEF n
  <2>2. QED
    BY <2>1, SubSeqEmpty
<1>5. QED
  BY <1>2, <1>3, <1>4 DEF n

-----------------------------------------------------------------------------
(***************************************************************************)
(* What Produce, Consume and FreeBuffer do to a buffer: bytes go in behind *)
(* and come out in front, as many as the ring has counted.                 *)
(***************************************************************************)
GoodBuffer(b) ==
  /\ b.ring \in Ring /\ RingShape(b.ring)
  /\ b.bytes \in Seq(Octets) /\ Len(b.bytes) = b.ring.valid

\* A block of k valid bytes in front that is contiguous.
OnePiece(r, k) == k <= r.valid /\ r.consume + k <= r.size - r.spare

\* Any ring has a block of no bytes.
LEMMA NoPiece ==
  ASSUME NEW r \in Ring, RingShape(r)
  PROVE  OnePiece(r, 0)
<1>1. /\ r.size \in Nat /\ r.consume \in Nat /\ r.produce \in Nat
      /\ r.free \in Nat /\ r.valid \in Nat /\ r.spare \in Nat
  BY RingFields
<1>2. r.consume + r.spare <= r.size
  BY <1>1 DEF RingShape, Shape, Plain, Skipping
<1>3. QED
  BY <1>1, <1>2 DEF OnePiece

\* A ProduceBuffer with its ValidBuffer.
LEMMA GrantKeeps ==
  ASSUME NEW r \in Ring, RingShape(r), NEW n \in Nat
  PROVE  LET v == Validated(Granting(r, n), GrantLength(r, n))
         IN  /\ v \in Ring /\ RingShape(v)
             /\ \E k \in 0 .. n : v.valid = r.valid + k
             /\ \A k \in Nat : OnePiece(r, k) => OnePiece(v, k)
<1> DEFINE g == Granting(r, n)
           m == GrantLength(r, n)
           v == Validated(g, m)
<1>1. /\ g \in Ring /\ RingShape(g) /\ g.size = r.size /\ g.valid = r.valid
      /\ m \in 0 .. n /\ m <= g.free /\ g.produce + m <= r.size
      /\ r.valid > 0 =>
           /\ g.consume = r.consume
           /\ \A k \in 0 .. r.valid :
                r.consume + k <= r.size - r.spare => r.consume + k <= r.size - g.spare
  BY GrantingShape
<1> HIDE DEF g, m
<1>2. m \in Nat /\ g.produce + m <= g.size
  BY <1>1
<1>3. /\ v \in Ring /\ RingShape(v) /\ v.size = g.size /\ v.consume = g.consume
      /\ v.spare = g.spare /\ v.valid = g.valid + m
  BY <1>1, <1>2, ValidatedShape
<1> HIDE DEF v
<1>4. r.valid \in Nat
  BY RingFields
<1>5. ASSUME NEW k \in Nat, OnePiece(r, k) PROVE OnePiece(v, k)
  <2>1. CASE k = 0
    BY <1>3, <2>1, NoPiece
  <2>2. CASE k > 0
    <3>1. k <= r.valid /\ r.consume + k <= r.size - r.spare
      BY <1>5 DEF OnePiece
    <3>2. r.valid > 0 /\ k \in 0 .. r.valid
      BY <1>4, <2>2, <3>1
    <3>3. g.consume = r.consume /\ r.consume + k <= r.size - g.spare
      BY <1>1, <3>1, <3>2
    <3>4. k <= v.valid
      BY <1>1, <1>2, <1>3, <1>4, <3>1
    <3>5. v.consume + k <= v.size - v.spare
      BY <1>1, <1>3, <3>3
    <3>6. QED
      BY <3>4, <3>5 DEF OnePiece
  <2>3. QED
    BY <2>1, <2>2
<1>6. QED
  BY <1>1, <1>3, <1>5 DEF v, g, m

LEMMA RoundKeeps ==
  ASSUME NEW r \in Ring, RingShape(r), NEW n \in Nat
  PROVE  /\ ProduceRound(r, n) \in Ring /\ RingShape(ProduceRound(r, n))
         /\ \E k \in 0 .. n : ProduceRound(r, n).valid = r.valid + k
         /\ \A k \in Nat : OnePiece(r, k) => OnePiece(ProduceRound(r, n), k)
<1> DEFINE v == Validated(Granting(r, n), GrantLength(r, n))
<1>1. /\ v \in Ring /\ RingShape(v)
      /\ \E k \in 0 .. n : v.valid = r.valid + k
      /\ \A k \in Nat : OnePiece(r, k) => OnePiece(v, k)
  BY GrantKeeps
<1>2. ProduceRound(r, n) = v \/ ProduceRound(r, n) = r
  BY DEF ProduceRound
<1> HIDE DEF v
<1>3. \E k \in 0 .. n : r.valid = r.valid + k
  <2>1. r.valid \in Nat
    BY RingFields
  <2>2. 0 \in 0 .. n /\ r.valid = r.valid + 0
    BY <2>1
  <2>3. QED
    BY <2>2
<1>4. QED
  BY <1>1, <1>2, <1>3

\* What a Produce stores when its first round leaves a sound ring.
LEMMA ProduceStores ==
  ASSUME NEW b, b.ring.valid \in Nat, b.bytes \in Seq(Octets),
         Len(b.bytes) = b.ring.valid, NEW data \in Seq(Octets), NEW first \in Ring,
         first = ProduceRound(b.ring, Len(data)), RingShape(first),
         \E k \in 0 .. Len(data) : first.valid = b.ring.valid + k
  PROVE  /\ GoodBuffer(Produce(b, data))
         /\ Len(Produce(b, data).bytes) \in Nat
         /\ Len(Produce(b, data).bytes) <= Len(b.bytes) + Len(data)
         /\ ~(Len(Produce(b, data).bytes) < Len(b.bytes) + Len(data)) =>
              Produce(b, data).bytes = b.bytes \o data
         /\ \A k \in Nat : OnePiece(first, k) => OnePiece(Produce(b, data).ring, k)
<1> DEFINE n == Len(data)
           r == b.ring
           remains == n - (first.valid - r.valid)
           last == ProduceRound(first, remains)
           p == Produce(b, data)
<1>1. /\ r.valid \in Nat /\ b.bytes \in Seq(Octets) /\ Len(b.bytes) = r.valid
      /\ n \in Nat
  BY LenProperties
<1>2. p = [ring |-> last, bytes |-> b.bytes \o SubSeq(data, 1, last.valid - r.valid)]
  BY DEF Produce
<1>3. \E k \in 0 .. n : first.valid = r.valid + k
  OBVIOUS
<1> HIDE DEF p, r, n
<1>4. remains \in Nat /\ first.valid + remains = r.valid + n
  <2>1. PICK k \in 0 .. n : first.valid = r.valid + k
    BY <1>3
  <2>2. r.valid \in Nat /\ n \in Nat
    BY <1>1
  <2>3. QED
    BY ONLY <2>1, <2>2
<1> HIDE DEF remains
<1>5. /\ last \in Ring /\ RingShape(last)
      /\ \E k \in 0 .. remains : last.valid = first.valid + k
      /\ \A k \in Nat : OnePiece(first, k) => OnePiece(last, k)
  BY <1>4, RoundKeeps
<1> HIDE DEF last
<1>6. \E k \in 0 .. n : last.valid = r.valid + k
  <2>1. PICK j \in 0 .. n : first.valid = r.valid + j
    BY <1>3
  <2>2. PICK k \in 0 .. remains : last.valid = first.valid + k
    BY <1>5
  <2>3. j + k \in 0 .. n /\ last.valid = r.valid + (j + k)
    BY <1>1, <1>4, <2>1, <2>2
  <2>4. QED
    BY <2>3
<1>8. PICK k \in 0 .. n : last.valid = r.valid + k
  BY <1>6
<1>9. last.valid - r.valid = k
  BY <1>1, <1>8
<1>10. SubSeq(data, 1, k) \in Seq(Octets) /\ Len(SubSeq(data, 1, k)) = k
  BY Taken DEF n
<1>11. /\ p.ring = last /\ p.bytes = b.bytes \o SubSeq(data, 1, k)
  BY <1>2, <1>9
<1>12. p.bytes \in Seq(Octets) /\ Len(p.bytes) = r.valid + k
  <2> DEFINE t == SubSeq(data, 1, k)
             u == b.bytes
  <2>1. t \in Seq(Octets) /\ Len(t) = k /\ u \in Seq(Octets) /\ Len(u) = r.valid
    BY <1>1, <1>10
  <2>2. p.bytes = u \o t
    BY <1>11
  <2> HIDE DEF t, u
  <2>3. u \o t \in Seq(Octets) /\ Len(u \o t) = Len(u) + Len(t)
    BY <2>1, ConcatProperties
  <2>4. QED
    BY <2>1, <2>2, <2>3
<1>13. GoodBuffer(p)
  BY <1>5, <1>8, <1>11, <1>12 DEF GoodBuffer
<1>14. ASSUME ~(Len(p.bytes) < Len(b.bytes) + n) PROVE p.bytes = b.bytes \o data
  <2>1. k = n
    BY <1>1, <1>12, <1>14
  <2>2. SubSeq(data, 1, n) = data
    BY SubSeqFull DEF n
  <2>3. QED
    BY <1>11, <2>1, <2>2
<1>15. Len(p.bytes) \in Nat /\ Len(p.bytes) <= Len(b.bytes) + n
  BY <1>1, <1>12
<1>16. \A j \in Nat : OnePiece(first, j) => OnePiece(p.ring, j)
  BY <1>5, <1>11
<1>17. QED
  BY <1>13, <1>14, <1>15, <1>16 DEF p, n

LEMMA ProduceKeeps ==
  ASSUME NEW b, GoodBuffer(b), NEW data \in Seq(Octets)
  PROVE  /\ GoodBuffer(Produce(b, data))
         /\ Len(Produce(b, data).bytes) \in Nat
         /\ Len(Produce(b, data).bytes) <= Len(b.bytes) + Len(data)
         /\ ~(Len(Produce(b, data).bytes) < Len(b.bytes) + Len(data)) =>
              Produce(b, data).bytes = b.bytes \o data
         /\ \A k \in Nat : OnePiece(b.ring, k) => OnePiece(Produce(b, data).ring, k)
<1> DEFINE first == ProduceRound(b.ring, Len(data))
<1>1. /\ b.ring \in Ring /\ RingShape(b.ring) /\ b.ring.valid \in Nat
      /\ b.bytes \in Seq(Octets) /\ Len(b.bytes) = b.ring.valid /\ Len(data) \in Nat
  BY LenProperties, RingFields DEF GoodBuffer
<1>2. /\ first \in Ring /\ RingShape(first)
      /\ \E k \in 0 .. Len(data) : first.valid = b.ring.valid + k
      /\ \A k \in Nat : OnePiece(b.ring, k) => OnePiece(first, k)
  BY <1>1, RoundKeeps
<1>3. first = ProduceRound(b.ring, Len(data))
  OBVIOUS
<1> HIDE DEF first
<1>4. QED
  BY <1>1, <1>2, <1>3, ProduceStores

\* The buffer whose contents were thrown away, of which only the counts of
\* valid bytes can be relied on: the first ProduceBuffer makes it sound again.
LEMMA ProduceAnew ==
  ASSUME NEW b, b.ring \in Ring, b.ring.valid = 0, b.bytes = <<>>,
         NEW data \in Seq(Octets), Len(data) > 0,
         ~(Len(Produce(b, data).bytes) < Len(b.bytes) + Len(data))
  PROVE  GoodBuffer(Produce(b, data)) /\ Produce(b, data).bytes = b.bytes \o data
<1> DEFINE n == Len(data)
           r == b.ring
           w == Rewind(r)
           first == ProduceRound(r, n)
<1>1. /\ n \in Nat /\ <<>> \in Seq(Octets) /\ Len(b.bytes) = 0
      /\ r.size \in Nat /\ r.valid = 0
  BY LenProperties, EmptySeq, RingFields
<1>2. w = [r EXCEPT !.produce = 0, !.consume = 0, !.spare = 0, !.free = r.size]
  BY DEF Rewind
<1>3. /\ w \in Ring /\ RingShape(w) /\ w.valid = 0
  <2>1. w \in Ring
    <3> HIDE DEF w, r
    <3>1. r \in Ring
      BY DEF r
    <3>2. QED
      BY <1>1, <1>2, <3>1 DEF Ring
  <2>2. /\ w.size = r.size /\ w.consume = 0 /\ w.produce = 0 /\ w.free = r.size
        /\ w.valid = 0 /\ w.spare = 0
    BY <1>2 DEF Ring
  <2>3. Shape(r.size, 0, 0, r.size, 0, 0)
    BY <1>1 DEF Shape, Plain
  <2>4. QED
    BY <2>1, <2>2, <2>3 DEF RingShape
<1>4. Rewind(w) = w
  BY <1>2, <1>3 DEF Rewind, Ring
<1>5. Granting(r, n) = Granting(w, n) /\ GrantLength(r, n) = GrantLength(w, n)
  BY <1>4 DEF Granting, GrantLength
<1>6. CASE r.free > 0
  <2> DEFINE v == Validated(Granting(w, n), GrantLength(w, n))
  <2>1. first = v
    BY <1>5, <1>6 DEF ProduceRound
  <2>2. /\ v \in Ring /\ RingShape(v) /\ \E k \in 0 .. n : v.valid = w.valid + k
    <3> HIDE DEF w
    <3>1. QED
      BY <1>1, <1>3, GrantKeeps
  <2> HIDE DEF v
  <2>3. \E k \in 0 .. n : first.valid = r.valid + k
    BY <1>1, <1>3, <2>1, <2>2
  <2>4. first \in Ring /\ RingShape(first)
    BY <2>1, <2>2
  <2>5. first = ProduceRound(b.ring, Len(data))
    OBVIOUS
  <2> HIDE DEF first
  <2>6. b.ring.valid \in Nat /\ b.bytes \in Seq(Octets) /\ Len(b.bytes) = b.ring.valid
    BY <1>1
  <2>7. \E k \in 0 .. Len(data) : first.valid = b.ring.valid + k
    BY <2>3
  <2> HIDE DEF r, w, n
  <2>8. /\ GoodBuffer(Produce(b, data))
        /\ ~(Len(Produce(b, data).bytes) < Len(b.bytes) + Len(data)) =>
             Produce(b, data).bytes = b.bytes \o data
    BY <2>4, <2>5, <2>6, <2>7, ProduceStores
  <2>9. QED
    BY <2>8
<1>7. CASE ~(r.free > 0)
  <2>1. \A k : ProduceRound(r, k) = r
    BY <1>7 DEF ProduceRound
  <2>2. Produce(b, data).bytes = b.bytes \o SubSeq(data, 1, r.valid - r.valid)
    BY <2>1 DEF Produce
  <2>3. SubSeq(data, 1, 0) = <<>> /\ <<>> \o <<>> = <<>>
    BY WholeTaken, ConcatEmptySeq, <1>1
  <2>4. Produce(b, data).bytes = <<>>
    BY <1>1, <2>2, <2>3
  <2>5. QED
    BY <1>1, <2>4
<1>8. QED
  BY <1>6, <1>7

LEMMA FreeFrontKeeps ==
  ASSUME NEW b, GoodBuffer(b), NEW n \in Nat, OnePiece(b.ring, n)
  PROVE  /\ GoodBuffer(FreeFront(b, n))
         /\ FreeFront(b, n).bytes = SubSeq(b.bytes, n + 1, Len(b.bytes))
<1> DEFINE f == FreeFront(b, n)
           r == b.ring
           s == b.bytes
<1>1. /\ r \in Ring /\ RingShape(r) /\ s \in Seq(Octets) /\ Len(s) = r.valid
      /\ r.valid \in Nat /\ n <= r.valid /\ r.consume + n <= r.size - r.spare
  BY RingFields DEF GoodBuffer, OnePiece
<1>2. f.ring = Freed(r, n) /\ f.bytes = SubSeq(s, n + 1, Len(s))
  BY DEF FreeFront
<1> HIDE DEF f, r, s
<1>3. Freed(r, n) \in Ring /\ RingShape(Freed(r, n)) /\ Freed(r, n).valid = r.valid - n
  BY <1>1, FreedShape
<1>4. n \in 0 .. Len(s)
  BY <1>1
<1>5. SubSeq(s, n + 1, Len(s)) \in Seq(Octets)
      /\ Len(SubSeq(s, n + 1, Len(s))) = Len(s) - n
  BY <1>1, <1>4, Taken
<1>6. GoodBuffer(f)
  BY <1>1, <1>2, <1>3, <1>5 DEF GoodBuffer
<1>7. QED
  BY <1>2, <1>6 DEF f, s

\* A round takes a block: all that is wanted, or all there is, or what comes
\* before the ring begins again.
LEMMA ConsumeRoundKeeps ==
  ASSUME NEW r \in Ring, RingShape(r), NEW n \in Nat
  PROVE  LET c == ConsumeRound(r, n)
         IN  /\ c \in Ring /\ RingShape(c) /\ c.size = r.size
             /\ \E k \in 0 .. n :
                  /\ c.valid = r.valid - k /\ k <= r.valid
                  /\ k = n \/ k = r.valid \/ (c.consume = 0 /\ c.spare = 0)
                  /\ r.consume = 0 /\ r.spare = 0 => k = n \/ k = r.valid
<1> DEFINE k == LoanLength(r, n)
           f == Freed(r, k)
           c == ConsumeRound(r, n)
<1>1. /\ r.size \in Nat /\ r.consume \in Nat /\ r.produce \in Nat
      /\ r.free \in Nat /\ r.valid \in Nat /\ r.spare \in Nat
  BY RingFields
<1>2. k = Smaller(n, Smaller(r.size - r.consume - r.spare, r.valid))
  BY DEF LoanLength
<1>3. k \in 0 .. n /\ k <= r.valid /\ r.consume + k <= r.size - r.spare
  BY LoanLengthBounds
<1>4. c = IF n > 0 /\ r.valid > 0 THEN f ELSE r
  BY DEF ConsumeRound
<1> HIDE DEF k, c
<1>5. CASE n > 0 /\ r.valid > 0
  <2>1. /\ f \in Ring /\ RingShape(f) /\ f.valid = r.valid - k /\ f.size = r.size
    BY <1>3, FreedShape
  <2>2. k = n \/ k = r.valid \/ (f.consume = 0 /\ f.spare = 0)
    <3>1. SUFFICES ASSUME k # n, k # r.valid PROVE f.consume = 0 /\ f.spare = 0
      OBVIOUS
    <3>2. r.consume + k = r.size - r.spare
      BY <1>1, <1>2, <3>1 DEF Smaller
    <3>3. QED
      BY <1>1, <3>2 DEF Freed, Ring
  <2>3. r.consume = 0 /\ r.spare = 0 => k = n \/ k = r.valid
    <3>1. r.valid <= r.size
      BY <1>1 DEF RingShape, Shape
    <3>2. QED
      BY <1>1, <1>2, <3>1 DEF Smaller
  <2> HIDE DEF f
  <2>4. QED
    BY <1>3, <1>4, <1>5, <2>1, <2>2, <2>3 DEF c
<1>6. CASE ~(n > 0 /\ r.valid > 0)
  <2>1. c = r
    BY <1>4, <1>6
  <2>2. 0 \in 0 .. n /\ r.valid = r.valid - 0 /\ 0 <= r.valid /\ (0 = n \/ 0 = r.valid)
    BY <1>1, <1>6
  <2>3. QED
    BY <2>1, <2>2 DEF c
<1>7. QED
  BY <1>5, <1>6

LEMMA ConsumeKeeps ==
  ASSUME NEW b, GoodBuffer(b), NEW n \in Nat
  PROVE  /\ GoodBuffer(Consume(b, n))
         /\ Consume(b, n).bytes
              = SubSeq(b.bytes, Smaller(n, b.ring.valid) + 1, Len(b.bytes))
<1> DEFINE r == b.ring
           s == b.bytes
           one == ConsumeRound(r, n)
           remains == n - (r.valid - one.valid)
           two == ConsumeRound(one, remains)
           c == Consume(b, n)
           m == Smaller(n, r.valid)
<1>1. /\ r \in Ring /\ RingShape(r) /\ s \in Seq(Octets) /\ Len(s) = r.valid
      /\ r.valid \in Nat
  BY RingFields DEF GoodBuffer
<1>2. c = [ring |-> two, bytes |-> SubSeq(s, r.valid - two.valid + 1, Len(s))]
  BY DEF Consume
<1> HIDE DEF c, r, s
<1>3. /\ one \in Ring /\ RingShape(one)
      /\ \E k \in 0 .. n :
           /\ one.valid = r.valid - k /\ k <= r.valid
           /\ k = n \/ k = r.valid \/ (one.consume = 0 /\ one.spare = 0)
           /\ r.consume = 0 /\ r.spare = 0 => k = n \/ k = r.valid
  BY <1>1, ConsumeRoundKeeps
<1> HIDE DEF one
<1>4. PICK j \in 0 .. n :
        /\ one.valid = r.valid - j /\ j <= r.valid
        /\ j = n \/ j = r.valid \/ (one.consume = 0 /\ one.spare = 0)
  BY <1>3
<1>5. remains = n - j /\ remains \in Nat /\ one.valid \in Nat
  BY <1>1, <1>4
<1> HIDE DEF remains
<1>6. /\ two \in Ring /\ RingShape(two)
      /\ \E k \in 0 .. remains :
           /\ two.valid = one.valid - k /\ k <= one.valid
           /\ k = remains \/ k = one.valid \/ (two.consume = 0 /\ two.spare = 0)
           /\ one.consume = 0 /\ one.spare = 0 => k = remains \/ k = one.valid
  BY <1>3, <1>5, ConsumeRoundKeeps
<1> HIDE DEF two
<1>7. PICK k \in 0 .. remains :
        /\ two.valid = one.valid - k /\ k <= one.valid
        /\ one.consume = 0 /\ one.spare = 0 => k = remains \/ k = one.valid
  BY <1>6
<1>8. j + k = m /\ two.valid = r.valid - m
  <2>1. /\ n \in Nat /\ j \in 0 .. n /\ k \in 0 .. (n - j) /\ r.valid \in Nat
        /\ j <= r.valid /\ k <= r.valid - j
        /\ j = n \/ j = r.valid \/ k = n - j \/ k = r.valid - j
        /\ two.valid = r.valid - j - k
    BY <1>1, <1>4, <1>5, <1>7
  <2>2. j + k = m
    BY <2>1 DEF m, Smaller
  <2>3. QED
    BY <2>1, <2>2
<1>9. m \in 0 .. Len(s) /\ r.valid - two.valid = m
  <2>1. m \in 0 .. r.valid
    BY <1>1 DEF m, Smaller
  <2>2. QED
    BY <1>1, <1>8, <2>1
<1> HIDE DEF m
<1>10. c.ring = two /\ c.bytes = SubSeq(s, m + 1, Len(s))
  BY <1>2, <1>9
<1>11. /\ SubSeq(s, m + 1, Len(s)) \in Seq(Octets)
       /\ Len(SubSeq(s, m + 1, Len(s))) = Len(s) - m
  BY <1>1, <1>9, Taken
<1>12. GoodBuffer(c)
  BY <1>1, <1>6, <1>8, <1>10, <1>11 DEF GoodBuffer
<1>13. QED
  BY <1>10, <1>12 DEF c, m, r, s

-----------------------------------------------------------------------------
(***************************************************************************)
(* The input buffer.  q are the datagrams that were accepted and not yet   *)
(* returned, place is where the receiver is, and c its call.               *)
(***************************************************************************)
BytesOf(q, place) ==
  CASE place \in {"between", "data"} -> Body(Head(q)) \o StoredBytes(Tail(q))
    [] place = "return"              -> StoredBytes(Tail(q))
    [] OTHER                         -> StoredBytes(q)

\* The receiver has taken the header of one.
TakesOne == {"between", "data", "return"}

\* What it has read of a header, and the buffer no longer holds.
Had(place, c) == IF place \in TakesOne THEN <<>> ELSE c.got

\* A header is read in parts, and each is a block that stays where it is.
HeaderKept(r, place, c) ==
  /\ place \in {"ready", "header"} => Len(c.got) < HeaderSize
  /\ place = "header" => /\ c.part \in Nat /\ Len(c.got) + c.part <= HeaderSize
                         /\ OnePiece(r, c.part)
  /\ place \notin TakesOne \cup {"ready", "header"} => c.got = <<>>

InputKept(s, q, place, c) ==
  /\ GoodBuffer(s.input)
  /\ s.recvPB = "hasRead" /\ s.recvResult = "noErr" => s.packet \in Datagrams
  /\ q \in Seq(Messages) /\ c.got \in Seq(Octets)
  /\ place \in TakesOne => q # <<>>
  /\ place \in {"between", "data"} => c.got = Header(Head(q))
  /\ place = "return" => c.got = Body(Head(q))
  /\ HeaderKept(s.input.ring, place, c)
  /\ Had(place, c) \o s.input.bytes = BytesOf(q, place)

\* What a routine of one side leaves alone of the other's.
RecvSame(s, n) ==
  /\ n.input = s.input /\ n.recvPB = s.recvPB /\ n.recvResult = s.recvResult
  /\ n.packet = s.packet /\ n.stored = s.stored /\ n.fPeerAddr = s.fPeerAddr

SendSame(s, n) ==
  /\ n.output = s.output /\ n.outLocked = s.outLocked
  /\ n.outDeferred = s.outDeferred /\ n.sendPB = s.sendPB /\ n.wds = s.wds
  /\ n.fWriteShutdown = s.fWriteShutdown /\ n.fState = s.fState
  /\ n.lost = s.lost /\ n.fPeerAddr = s.fPeerAddr

LEMMA StoredAreBytes ==
  ASSUME NEW q \in Seq(Messages)
  PROVE  StoredBytes(q) \in Seq(Octets)
<1>1. CASE q = <<>>
  BY <1>1, StoredNothing, EmptySeq
<1>2. CASE q # <<>>
  <2>1. /\ Head(q) \in Messages /\ StoredBytes(Tail(q)) \in Seq(Octets)
        /\ StoredBytes(q) = Packed(Head(q)) \o StoredBytes(Tail(q))
    BY <1>2, StoredFirst
  <2>2. Packed(Head(q)) \in Seq(Octets)
    BY <2>1, PackedBytes
  <2>3. QED
    BY <2>1, <2>2, ConcatProperties
<1>3. QED
  BY <1>1, <1>2

\* One more at the end changes nothing in front.
LEMMA OneMore ==
  ASSUME NEW q \in Seq(Messages), NEW d \in Messages, NEW place,
         place \in TakesOne => q # <<>>
  PROVE  /\ q \o <<d>> \in Seq(Messages) /\ q \o <<d>> # <<>>
         /\ q # <<>> => Head(q \o <<d>>) = Head(q)
         /\ BytesOf(q, place) \in Seq(Octets)
         /\ BytesOf(q \o <<d>>, place) = BytesOf(q, place) \o Packed(d)
<1> DEFINE r == Append(q, d)
           p == Packed(d)
<1>1. /\ q \o <<d>> = r /\ r \in Seq(Messages) /\ r # <<>>
  BY AppendIsConcat, AppendProperties
<1>2. q # <<>> => Head(r) = Head(q) /\ Tail(r) = Append(Tail(q), d)
  BY HeadTailAppend
<1> HIDE DEF r
<1>3. p \in Seq(Octets)
  BY PackedBytes
<1>4. StoredBytes(q) \in Seq(Octets) /\ StoredBytes(r) = StoredBytes(q) \o p
  BY StoredAreBytes, StoredLast DEF r
<1> HIDE DEF p
<1>5. CASE place \in {"between", "data", "return"}
  <2> DEFINE t == Tail(q)
             b == Body(Head(q))
  <2>1. q # <<>>
    BY <1>5 DEF TakesOne
  <2>2. Head(q) \in Messages /\ t \in Seq(Messages)
    BY <2>1, StoredFirst
  <2>3. b \in Seq(Octets)
    BY <2>2, PackedBytes
  <2>4. /\ StoredBytes(t) \in Seq(Octets)
        /\ StoredBytes(Append(t, d)) = StoredBytes(t) \o p
    BY <2>2, StoredAreBytes, StoredLast DEF p
  <2>5. Tail(r) = Append(t, d) /\ Body(Head(r)) = b
    BY <1>2, <2>1
  <2> HIDE DEF t, b
  <2>6. StoredBytes(Tail(r)) = StoredBytes(t) \o p
    BY <2>4, <2>5
  <2>7. CASE place = "return"
    <3>1. BytesOf(q, place) = StoredBytes(t) /\ BytesOf(r, place) = StoredBytes(Tail(r))
      BY <2>7 DEF BytesOf, t
    <3>2. QED
      BY <1>1, <1>2, <2>4, <2>6, <3>1 DEF p
  <2>8. CASE place \in {"between", "data"}
    <3>1. /\ BytesOf(q, place) = b \o StoredBytes(t)
          /\ BytesOf(r, place) = b \o StoredBytes(Tail(r))
      BY <2>5, <2>8 DEF BytesOf, t, b
    <3>2. b \o (StoredBytes(t) \o p) = (b \o StoredBytes(t)) \o p
      <4> DEFINE u == StoredBytes(t)
      <4>1. u \in Seq(Octets)
        BY <2>4
      <4> HIDE DEF u
      <4>2. b \o (u \o p) = (b \o u) \o p
        BY <1>3, <2>3, <4>1, SeqAssociates
      <4>3. QED
        BY <4>2 DEF u
    <3>3. b \o StoredBytes(t) \in Seq(Octets)
      BY <2>3, <2>4, ConcatProperties
    <3>4. QED
      BY <1>1, <1>2, <2>6, <3>1, <3>2, <3>3 DEF p
  <2>9. QED
    BY <1>5, <2>7, <2>8
<1>6. CASE place \notin {"between", "data", "return"}
  <2>1. BytesOf(q, place) = StoredBytes(q) /\ BytesOf(r, place) = StoredBytes(r)
    BY <1>6 DEF BytesOf
  <2>2. QED
    BY <1>1, <1>2, <1>4, <2>1 DEF p
<1>7. QED
  BY <1>5, <1>6

\* A datagram that is stored whole is the last one in the buffer.
LEMMA StoresWhole ==
  ASSUME NEW b, GoodBuffer(b), NEW d \in Messages
  PROVE  LET p == Produce(Produce(b, Header(d)), Body(d))
         IN  /\ GoodBuffer(p)
             /\ ~(Len(p.bytes) < Len(b.bytes) + (d.len + HeaderSize)) =>
                  p.bytes = b.bytes \o Packed(d)
             /\ \A k \in Nat : OnePiece(b.ring, k) => OnePiece(p.ring, k)
<1> DEFINE h == Header(d)
           y == Body(d)
           one == Produce(b, h)
           p == Produce(one, y)
<1>1. /\ h \in Seq(Octets) /\ y \in Seq(Octets) /\ Len(h) = HeaderSize /\ Len(y) = d.len
      /\ HeaderSize \in Nat /\ d.len \in Nat
  BY PackedBytes, SizesFacts DEF Messages
<1>2. Packed(d) = h \o y
  BY DEF Packed
<1> HIDE DEF h, y
<1>3. /\ GoodBuffer(one) /\ Len(one.bytes) \in Nat
      /\ Len(one.bytes) <= Len(b.bytes) + Len(h)
      /\ ~(Len(one.bytes) < Len(b.bytes) + Len(h)) => one.bytes = b.bytes \o h
      /\ \A k \in Nat : OnePiece(b.ring, k) => OnePiece(one.ring, k)
  BY <1>1, ProduceKeeps
<1> HIDE DEF one
<1>4. /\ GoodBuffer(p) /\ Len(p.bytes) \in Nat
      /\ Len(p.bytes) <= Len(one.bytes) + Len(y)
      /\ ~(Len(p.bytes) < Len(one.bytes) + Len(y)) => p.bytes = one.bytes \o y
      /\ \A k \in Nat : OnePiece(one.ring, k) => OnePiece(p.ring, k)
  BY <1>1, <1>3, ProduceKeeps
<1> HIDE DEF p
<1>5. b.bytes \in Seq(Octets) /\ Len(b.bytes) \in Nat
  BY LenProperties DEF GoodBuffer
<1>6. ASSUME ~(Len(p.bytes) < Len(b.bytes) + (d.len + HeaderSize))
      PROVE  p.bytes = b.bytes \o Packed(d)
  <2>1. /\ ~(Len(one.bytes) < Len(b.bytes) + Len(h))
        /\ ~(Len(p.bytes) < Len(one.bytes) + Len(y))
    <3> DEFINE all  == Len(p.bytes)
               some == Len(one.bytes)
               none == Len(b.bytes)
    <3>1. /\ all \in Nat /\ some \in Nat /\ none \in Nat
          /\ HeaderSize \in Nat /\ d.len \in Nat
          /\ some <= none + HeaderSize /\ all <= some + d.len
          /\ ~(all < none + (d.len + HeaderSize))
      BY <1>1, <1>3, <1>4, <1>5, <1>6
    <3> HIDE DEF all, some, none
    <3>2. ~(some < none + HeaderSize) /\ ~(all < some + d.len)
      BY ONLY <3>1
    <3>3. QED
      BY <1>1, <3>2 DEF all, some, none
  <2>2. p.bytes = (b.bytes \o h) \o y
    BY <1>3, <1>4, <2>1
  <2>3. (b.bytes \o h) \o y = b.bytes \o (h \o y)
    <3> DEFINE u == b.bytes
    <3>1. u \in Seq(Octets)
      BY <1>5
    <3> HIDE DEF u
    <3>2. (u \o h) \o y = u \o (h \o y)
      BY <1>1, <3>1, SeqAssociates
    <3>3. QED
      BY <3>2 DEF u
  <2>4. QED
    BY <1>2, <2>2, <2>3
<1>7. \A k \in Nat : OnePiece(b.ring, k) => OnePiece(p.ring, k)
  BY <1>3, <1>4
<1>8. QED
  BY <1>4, <1>6, <1>7 DEF p, one, h, y

LEMMA AcceptStores ==
  ASSUME NEW s, SoundSocket(s), NEW q, NEW place, NEW c, InputKept(s, q, place, c),
         s.recvPB = "hasRead", s.recvResult = "noErr", s.stored = <<>>
  PROVE  /\ Accept(s).cut \/ InputKept(Accept(s), q \o Accept(s).stored, place, c)
         /\ SendSame(s, Accept(s))
<1> DEFINE d == s.packet
           needed == d.len + HeaderSize
           b == Produce(Produce(s.input, Header(d)), Body(d))
           r == BfrReturn(s)
           waits == [s EXCEPT !.inDeferred = "RecvDone"]
           stores == [r EXCEPT !.input = b, !.stored = <<d>>,
                       !.cut = @ \/ Len(b.bytes) < Len(s.input.bytes) + needed]
           a == Accept(s)
<1>1. d \in Messages /\ q \in Seq(Messages) /\ GoodBuffer(s.input)
  BY SizesFacts DEF InputKept
<1>2. q \o <<>> = q
  BY <1>1, ConcatEmptySeq
<1>3. a = r \/ a = waits \/ a = stores
  <2>1. a = CASE s.input.ring.size < needed -> r
              [] s.input.ring.size >= needed /\ s.input.ring.free < needed -> waits
              [] s.input.ring.free >= needed /\ s.fPeerAddr \notin {NoPeer, d.peer} -> r
              [] OTHER -> stores
    BY Zenon DEF Accept
  <2> HIDE DEF a, d, needed, r, waits, stores
  <2>2. QED
    BY <2>1
<1> HIDE DEF a
<1>4. /\ SendSame(s, r) /\ r.recvPB = "return" /\ r.input = s.input /\ r.stored = s.stored
      /\ DOMAIN r = SockFields
  BY DEF SoundSocket, SockFields, BfrReturn, SendSame
<1> HIDE DEF r
<1>5. CASE a = r
  <2>1. InputKept(r, q, place, c)
    BY <1>4 DEF InputKept
  <2>2. QED
    BY <1>2, <1>4, <1>5, <2>1 DEF a
<1>6. CASE a = waits
  <2>1. RecvSame(s, waits) /\ SendSame(s, waits)
    BY DEF SoundSocket, SockFields, SendSame, RecvSame
  <2> HIDE DEF waits
  <2>2. InputKept(waits, q, place, c) /\ waits.stored = <<>>
    BY <2>1 DEF InputKept, RecvSame
  <2>3. QED
    BY <1>2, <1>6, <2>1, <2>2 DEF a
<1>7. CASE a = stores
  <2>1. /\ GoodBuffer(b)
        /\ ~(Len(b.bytes) < Len(s.input.bytes) + needed) =>
             b.bytes = s.input.bytes \o Packed(d)
        /\ \A k \in Nat : OnePiece(s.input.ring, k) => OnePiece(b.ring, k)
    BY <1>1, StoresWhole
  <2> HIDE DEF b, needed
  <2>2. /\ SendSame(s, stores) /\ stores.input = b /\ stores.stored = <<d>>
        /\ stores.recvPB = "return"
        /\ ~stores.cut => ~(Len(b.bytes) < Len(s.input.bytes) + needed)
    BY <1>4 DEF SockFields, SendSame
  <2> HIDE DEF stores, d
  <2>3. SUFFICES ASSUME ~stores.cut PROVE InputKept(stores, q \o <<d>>, place, c)
    BY <1>7, <2>2 DEF a
  <2>4. Had(place, c) \o b.bytes = BytesOf(q, place) \o Packed(d)
    <3> DEFINE u == Had(place, c)
               v == s.input.bytes
               w == Packed(d)
    <3>1. u \in Seq(Octets)
      BY EmptySeq DEF InputKept, Had
    <3>2. v \in Seq(Octets) /\ w \in Seq(Octets)
      BY <1>1, PackedBytes DEF GoodBuffer
    <3>3. u \o v = BytesOf(q, place) /\ b.bytes = v \o w
      BY <2>1, <2>2, <2>3 DEF InputKept
    <3> HIDE DEF u, v, w
    <3>4. (u \o v) \o w = u \o (v \o w)
      BY <3>1, <3>2, SeqAssociates
    <3>5. QED
      BY <3>3, <3>4 DEF u, w
  <2>5. /\ q \o <<d>> \in Seq(Messages) /\ q \o <<d>> # <<>>
        /\ q # <<>> => Head(q \o <<d>>) = Head(q)
        /\ BytesOf(q \o <<d>>, place) = BytesOf(q, place) \o Packed(d)
    BY <1>1, OneMore DEF InputKept
  <2> DEFINE e == q \o <<d>>
  <2>6. /\ e \in Seq(Messages) /\ e # <<>> /\ (q # <<>> => Head(e) = Head(q))
        /\ Had(place, c) \o b.bytes = BytesOf(e, place)
    BY <2>4, <2>5
  <2> HIDE DEF e
  <2>7. HeaderKept(b.ring, place, c)
    BY <2>1 DEF InputKept, HeaderKept
  <2>8. InputKept(stores, e, place, c)
    BY <2>1, <2>2, <2>6, <2>7 DEF InputKept, TakesOne
  <2>9. QED
    BY <2>8 DEF e
<1>8. QED
  BY <1>3, <1>5, <1>6, <1>7

LEMMA SameInput ==
  ASSUME NEW s, NEW n, RecvSame(s, n), NEW q, NEW place, NEW c, InputKept(s, q, place, c)
  PROVE  InputKept(n, q, place, c)
BY DEF InputKept, RecvSame

\* Nothing is stored, and nothing has been read.
LEMMA SameBytes ==
  ASSUME NEW s, NEW n, n.input = s.input, n.recvPB # "hasRead",
         NEW q, NEW place, NEW c, InputKept(s, q, place, c)
  PROVE  InputKept(n, q, place, c)
BY DEF InputKept

LEMMA RecvDoneStores ==
  ASSUME NEW s, SoundSocket(s), s.fState # "Unbound",
         s.recvResult = "noErr" => s.recvPB \in {"hasRead", "hasReturned"},
         NEW q, NEW place, NEW c, InputKept(s, q, place, c), s.stored = <<>>
  PROVE  /\ RecvDone(s).cut \/ InputKept(RecvDone(s), q \o RecvDone(s).stored, place, c)
         /\ SendSame(s, RecvDone(s))
<1>1. q \o <<>> = q
  BY ConcatEmptySeq DEF InputKept
<1>2. CASE s.inLocked
  <2> DEFINE n == RecvDone(s)
  <2>1. n = [s EXCEPT !.inDeferred = "RecvDone"]
    BY <1>2 DEF RecvDone
  <2> HIDE DEF n
  <2>2. RecvSame(s, n) /\ SendSame(s, n)
    BY <2>1 DEF SoundSocket, SockFields, SendSame, RecvSame
  <2>3. InputKept(n, q, place, c) /\ n.stored = <<>>
    BY <2>2, SameInput DEF RecvSame
  <2>4. QED
    BY <1>1, <2>2, <2>3 DEF n
<1>3. CASE ~s.inLocked
  <2> DEFINE b == [s EXCEPT !.inDeferred = "none"]
             ended == [b EXCEPT !.recvPB = "none", !.recvResult = "noErr",
                                !.packet = NoDatagram, !.fAsyncError = TRUE,
                                !.fReadShutdown = TRUE, !.wake = TRUE]
             again == [Recv(b) EXCEPT !.wake = TRUE]
             n == RecvDone(s)
  <2>1. SoundSocket(b) /\ RecvSame(s, b) /\ SendSame(s, b)
    BY DEF SoundSocket, SockFields, SendSame, RecvSame
  <2>2. InputKept(b, q, place, c) /\ b.stored = <<>>
        /\ b.recvPB = s.recvPB /\ b.recvResult = s.recvResult
    <3> HIDE DEF b
    <3>1. QED
      BY <2>1, SameInput DEF RecvSame
  <2>3. n = CASE s.recvResult = "noErr" /\ s.recvPB = "hasRead" -> Accept(b)
              [] s.recvResult = "noErr" /\ s.recvPB = "hasReturned" -> again
              [] s.recvResult = "timeout" -> again
              [] s.recvResult = "error" -> ended
    BY <1>3 DEF RecvDone
  <2>4. s.recvResult \in {"noErr", "timeout", "error"}
    BY DEF SoundSocket, Results
  <2> HIDE DEF b, n, ended, again
  <2>5. \/ n = Accept(b) /\ s.recvResult = "noErr" /\ s.recvPB = "hasRead"
        \/ n = again \/ n = ended
    BY <2>3, <2>4
  <2>6. CASE n = Accept(b) /\ s.recvResult = "noErr" /\ s.recvPB = "hasRead"
    <3>1. /\ Accept(b).cut \/ InputKept(Accept(b), q \o Accept(b).stored, place, c)
          /\ SendSame(b, Accept(b))
      BY <2>1, <2>2, <2>6, AcceptStores
    <3>2. SendSame(s, n)
      BY <2>1, <2>6, <3>1 DEF SendSame
    <3>3. QED
      BY <2>6, <3>1, <3>2 DEF n
  <2>7. CASE n = again
    <3> DEFINE r == Recv(b)
    <3>1. /\ DOMAIN r = SockFields /\ SendSame(b, r) /\ r.input = b.input
          /\ r.recvPB = "read" /\ r.stored = b.stored
      BY <2>1 DEF SoundSocket, SockFields, SendSame, Recv
    <3>2. n = [r EXCEPT !.wake = TRUE]
      BY <2>7 DEF again
    <3> HIDE DEF r
    <3>3. /\ SendSame(b, n) /\ n.input = b.input /\ n.recvPB = "read"
          /\ n.stored = <<>>
      BY <2>2, <3>1, <3>2 DEF SockFields, SendSame
    <3>4. InputKept(n, q, place, c)
      BY <2>2, <3>3, SameBytes
    <3>5. SendSame(s, n)
      BY <2>1, <3>3 DEF SendSame
    <3>6. QED
      BY <1>1, <3>3, <3>4, <3>5 DEF n
  <2>8. CASE n = ended
    <3>1. /\ SendSame(b, n) /\ n.input = b.input /\ n.recvPB = "none"
          /\ n.stored = <<>>
      BY <2>1, <2>2, <2>8 DEF ended, SoundSocket, SockFields, SendSame
    <3>2. InputKept(n, q, place, c)
      BY <2>2, <3>1, SameBytes
    <3>3. SendSame(s, n)
      BY <2>1, <3>1 DEF SendSame
    <3>4. QED
      BY <1>1, <3>1, <3>2, <3>3 DEF n
  <2>9. QED
    BY <2>5, <2>6, <2>7, <2>8
<1>4. QED
  BY <1>2, <1>3

LEMMA ReleaseInputStores ==
  ASSUME NEW s, SoundSocket(s), NEW q, NEW place, NEW c,
         InputKept(s, q, place, c), s.stored = <<>>
  PROVE  /\ \/ ReleaseInput(s).cut
            \/ InputKept(ReleaseInput(s), q \o ReleaseInput(s).stored, place, c)
         /\ SendSame(s, ReleaseInput(s))
<1> DEFINE b == [s EXCEPT !.inLocked = FALSE]
<1>1. /\ SoundSocket(b) /\ RecvSame(s, b) /\ SendSame(s, b)
      /\ b.inDeferred = s.inDeferred /\ b.fState = s.fState
  BY DEF SoundSocket, SockFields, SendSame, RecvSame
<1>2. ReleaseInput(s) = IF s.inDeferred = "RecvDone" THEN RecvDone(b) ELSE b
  BY DEF ReleaseInput
<1> HIDE DEF b
<1>3. InputKept(b, q, place, c) /\ b.stored = <<>>
  BY <1>1, SameInput DEF RecvSame
<1>4. CASE s.inDeferred = "RecvDone"
  <2>1. b.fState # "Unbound"
    BY <1>1, <1>4 DEF SoundSocket
  <2>2. b.recvResult = "noErr" => b.recvPB \in {"hasRead", "hasReturned"}
    BY <1>1, <1>4 DEF SoundSocket
  <2>3. /\ RecvDone(b).cut \/ InputKept(RecvDone(b), q \o RecvDone(b).stored, place, c)
        /\ SendSame(b, RecvDone(b))
    BY <1>1, <1>3, <2>1, <2>2, RecvDoneStores
  <2>4. QED
    BY <1>1, <1>2, <1>4, <2>3 DEF SendSame
<1>5. CASE s.inDeferred # "RecvDone"
  <2>1. ReleaseInput(s) = b
    BY <1>2, <1>5
  <2>2. q \o <<>> = q
    BY ConcatEmptySeq DEF InputKept
  <2>3. QED
    BY <1>1, <1>3, <2>1, <2>2
<1>6. QED
  BY <1>4, <1>5

-----------------------------------------------------------------------------
(***************************************************************************)
(* The output buffer.  o are the datagrams that were stored and not yet    *)
(* written, place is where the sender is, and put what it stores.  While a *)
(* datagram is written its header is gone, and its data is one block.      *)
(***************************************************************************)
Half(place, put) == IF place = "halfway" THEN Header(put) ELSE <<>>

Taking(s) == IF s.sendPB = "none" THEN "idle" ELSE "between"

WritesFirst(s, o) ==
  /\ o # <<>>
  /\ s.wds = <<Head(o).peer, Body(Head(o)), Head(o).len>>
  /\ OnePiece(s.output.ring, Head(o).len)

Sends(s, o, place, put) ==
  /\ GoodBuffer(s.output)
  /\ s.outDeferred = "Send" => s.sendPB = "none"
  /\ s.outDeferred = "SendDone" => s.sendPB = "written"
  /\ s.fState = "Unbound" => s.sendPB = "none" /\ s.outDeferred = "none"
  /\ s.output.bytes = BytesOf(o, Taking(s)) \o Half(place, put)
  /\ s.sendPB # "none" => WritesFirst(s, o)

\* After an error, which throws away what is in the buffer, and may leave it
\* with positions outside of its memory.  Only a sendto that has made its last
\* test uses it again, and the ring then begins anew.
GivenUp(s, o, place) ==
  /\ s.fWriteShutdown /\ s.fState # "Unbound"
  /\ s.sendPB = "none" /\ s.outDeferred = "none"
  /\ s.output.ring \in Ring /\ s.output.ring.valid = 0
  /\ s.output.bytes = <<>> /\ o = <<>>
  /\ place \notin {"halfway", "stored"}

\* A socket that writes nothing waits for something to write.
Busy(s) == s.sendPB = "none" /\ s.fState = "Connected" => s.outDeferred = "Send"

OutputKept(s, o, place, put) ==
  /\ Busy(s)
  /\ o \in Seq(Messages)
  /\ place # "idle" => put \in Messages
  /\ place \in HoldsOutput => s.outLocked
  /\ Sends(s, o, place, put) \/ GivenUp(s, o, place)

LEMMA OctetFacts ==
  \A u, v \in Seq(Octets) :
    /\ u \o v \in Seq(Octets) /\ Len(u) \in Nat /\ Len(v) \in Nat
    /\ Len(u \o v) = Len(u) + Len(v)
    /\ SubSeq(u \o v, 1, Len(u)) = u
    /\ SubSeq(u \o v, Len(u) + 1, Len(u \o v)) = v
BY Splits

LEMMA OctetsAssociate ==
  \A u, v, w \in Seq(Octets) : (u \o v) \o w = u \o (v \o w)
BY ConcatAssociative

LEMMA SameOutput ==
  ASSUME NEW s, NEW n, SendSame(s, n), NEW o, NEW place, NEW put,
         OutputKept(s, o, place, put)
  PROVE  OutputKept(n, o, place, put)
<1>1. Sends(s, o, place, put) => Sends(n, o, place, put)
  <2>1. Taking(n) = Taking(s) /\ (WritesFirst(s, o) => WritesFirst(n, o))
    BY DEF Taking, SendSame, WritesFirst
  <2>2. QED
    BY <2>1 DEF Sends, SendSame
<1>2. GivenUp(s, o, place) => GivenUp(n, o, place)
  BY DEF GivenUp, SendSame
<1>3. QED
  BY <1>1, <1>2 DEF OutputKept, SendSame, Busy

\* Reading a header takes it from the buffer and says what comes next.
LEMMA HeaderTaken ==
  ASSUME NEW f, GoodBuffer(f), NEW q \in Seq(Messages), q # <<>>,
         f.bytes = StoredBytes(q)
  PROVE  /\ Head(f.bytes)[1] = Head(q)
         /\ GoodBuffer(Consume(f, HeaderSize))
         /\ Consume(f, HeaderSize).bytes = BytesOf(q, "between")
<1> DEFINE x == f.bytes
           b == Consume(f, HeaderSize)
           h == Head(q)
           g == Header(h)
           y == Body(h)
           t == StoredBytes(Tail(q))
           p == Packed(h)
<1>1. x \in Seq(Octets) /\ Len(x) = f.ring.valid
  BY DEF GoodBuffer
<1>2. /\ h \in Messages /\ Tail(q) \in Seq(Messages) /\ t \in Seq(Octets)
      /\ x = p \o t
  BY StoredFirst
<1>3. /\ g \in Seq(Octets) /\ Len(g) = HeaderSize
      /\ y \in Seq(Octets) /\ p \in Seq(Octets) /\ Len(p) = HeaderSize + h.len
      /\ p[1][1] = h /\ HeaderSize \in Nat /\ HeaderSize > 0 /\ h.len \in Nat
  BY <1>2, PackedBytes, SizesFacts DEF Messages
<1>4. p = g \o y
  BY DEF Packed
<1> HIDE DEF h, g, y, t, p, x
<1>5. Head(x)[1] = h
  <2>1. Head(x) = x[1]
    OBVIOUS
  <2>2. /\ \A i \in 1 .. Len(p) + Len(t) :
             (p \o t)[i] = IF i <= Len(p) THEN p[i] ELSE t[i - Len(p)]
        /\ Len(t) \in Nat
    BY <1>2, <1>3, ConcatProperties, LenProperties
  <2>3. 1 \in 1 .. Len(p) + Len(t) /\ 1 <= Len(p)
    BY <1>3, <2>2
  <2>4. (p \o t)[1] = p[1]
    BY <2>2, <2>3
  <2>5. QED
    BY <1>2, <1>3, <2>1, <2>4
<1> DEFINE z == y \o t
<1>6. z \in Seq(Octets) /\ x = g \o z
  <2>1. g \in Seq(Octets) /\ y \in Seq(Octets) /\ t \in Seq(Octets)
    BY <1>2, <1>3
  <2>2. (g \o y) \o t = g \o (y \o t)
    BY <2>1, OctetsAssociate
  <2>3. y \o t \in Seq(Octets)
    BY <2>1, OctetFacts
  <2>4. QED
    BY <1>2, <1>4, <2>2, <2>3
<1> HIDE DEF z
<1>7. /\ SubSeq(x, HeaderSize + 1, Len(x)) = z /\ Len(x) = HeaderSize + Len(z)
      /\ Len(z) \in Nat
  <2>1. /\ SubSeq(g \o z, Len(g) + 1, Len(g \o z)) = z
        /\ Len(g \o z) = Len(g) + Len(z) /\ Len(z) \in Nat
    BY <1>3, <1>6, OctetFacts
  <2>2. Len(g) = HeaderSize /\ x = g \o z
    BY <1>3, <1>6
  <2>3. QED
    BY <2>1, <2>2
<1>8. Smaller(HeaderSize, f.ring.valid) = HeaderSize
  <2>1. HeaderSize <= f.ring.valid /\ HeaderSize \in Nat /\ f.ring.valid \in Nat
    BY <1>1, <1>3, <1>7
  <2>2. QED
    BY <2>1 DEF Smaller
<1>9. /\ GoodBuffer(b)
      /\ b.bytes = SubSeq(f.bytes, Smaller(HeaderSize, f.ring.valid) + 1, Len(f.bytes))
  BY <1>3, ConsumeKeeps DEF b
<1>10. b.bytes = z
  BY <1>7, <1>8, <1>9 DEF x
<1>11. QED
  BY <1>5, <1>9, <1>10 DEF x, b, h, z, y, t, BytesOf

\* Its data is next.
LEMMA DataComesNext ==
  ASSUME NEW q \in Seq(Messages), q # <<>>, NEW x, x = BytesOf(q, "between")
  PROVE  /\ Head(q).len \in Nat /\ Head(q).len <= Len(x)
         /\ SubSeq(x, 1, Head(q).len) = Body(Head(q))
         /\ SubSeq(x, Head(q).len + 1, Len(x)) = StoredBytes(Tail(q))
         /\ Body(Head(q)) \in Seq(Octets) /\ x \in Seq(Octets) /\ Tail(q) \in Seq(Messages)
<1> DEFINE h == Head(q)
           y == Body(h)
           t == StoredBytes(Tail(q))
<1>1. h \in Messages /\ Tail(q) \in Seq(Messages) /\ t \in Seq(Octets)
  BY StoredFirst
<1>2. y \in Seq(Octets) /\ Len(y) = h.len /\ h.len \in Nat
  BY <1>1, PackedBytes DEF Messages
<1>3. x = y \o t
  BY DEF BytesOf
<1> HIDE DEF h, y, t
<1>4. /\ SubSeq(y \o t, 1, Len(y)) = y
      /\ SubSeq(y \o t, Len(y) + 1, Len(y \o t)) = t
      /\ Len(y \o t) = Len(y) + Len(t) /\ Len(t) \in Nat
      /\ y \o t \in Seq(Octets)
  BY <1>1, <1>2, OctetFacts
<1>5. h.len <= Len(x)
  BY <1>2, <1>3, <1>4
<1>6. QED
  BY <1>1, <1>2, <1>3, <1>4, <1>5 DEF h, y, t

LEMMA WriteTakes ==
  ASSUME NEW s, SoundSocket(s), NEW o \in Seq(Messages), GoodBuffer(s.output),
         s.output.ring.valid > 0, s.output.bytes = StoredBytes(o)
  PROVE  /\ \/ Write(s).cut
            \/ /\ GoodBuffer(Write(s).output) /\ WritesFirst(Write(s), o)
               /\ Write(s).output.bytes = BytesOf(o, "between")
         /\ Write(s).sendPB = "write" /\ Write(s).outDeferred = s.outDeferred
         /\ Write(s).outLocked = s.outLocked /\ Write(s).fState = s.fState
         /\ Write(s).lost = s.lost /\ RecvSame(s, Write(s))
<1> DEFINE h == Head(o)
           header == Head(s.output.bytes)[1]
           b == Consume(s.output, HeaderSize)
           first == LoanLength(b.ring, header.len)
           second == LoanLength(b.ring, header.len - first)
           w == <<header.peer, SubSeq(b.bytes, 1, first) \o SubSeq(b.bytes, 1, second),
                  first>>
           n == Write(s)
<1>1. n = [s EXCEPT !.output = b, !.sendPB = "write", !.wds = w,
                    !.cut = @ \/ first < header.len]
  BY DEF Write
<1> HIDE DEF b, w, n, first, header
<1>2. /\ n.sendPB = "write" /\ n.outDeferred = s.outDeferred
      /\ n.outLocked = s.outLocked /\ n.fState = s.fState
      /\ n.lost = s.lost /\ RecvSame(s, n)
      /\ n.output = b /\ n.wds = w /\ (~n.cut => ~(first < header.len))
  BY <1>1 DEF SoundSocket, SockFields, RecvSame
<1>3. SUFFICES ASSUME ~n.cut
               PROVE  /\ GoodBuffer(n.output) /\ WritesFirst(n, o)
                      /\ n.output.bytes = BytesOf(o, "between")
  BY <1>2 DEF n
<1>4. o # <<>>
  <2>1. Len(s.output.bytes) # 0
    BY DEF GoodBuffer
  <2>2. StoredBytes(<<>>) = <<>> /\ Len(<<>>) = 0
    BY StoredNothing, EmptySeq
  <2>3. QED
    BY <2>1, <2>2
<1>5. header = h /\ GoodBuffer(b) /\ b.bytes = BytesOf(o, "between")
  BY <1>4, HeaderTaken DEF header, b
<1> DEFINE z == b.bytes
<1>6. /\ h.len \in Nat /\ SubSeq(z, 1, h.len) = Body(h)
      /\ Body(h) \in Seq(Octets) /\ z \in Seq(Octets)
  BY <1>4, <1>5, DataComesNext
<1> HIDE DEF h
<1>7. /\ first \in 0 .. h.len /\ first <= b.ring.valid
      /\ b.ring.consume + first <= b.ring.size - b.ring.spare
  BY <1>5, <1>6, LoanLengthBounds DEF GoodBuffer, first
<1>8. first = h.len
  BY <1>2, <1>3, <1>5, <1>6, <1>7
<1>9. OnePiece(b.ring, h.len)
  BY <1>7, <1>8 DEF OnePiece
<1>10. second = 0
  <2>1. header.len - first = 0
    BY <1>5, <1>6, <1>8
  <2>2. LoanLength(b.ring, 0) \in 0 .. 0
    BY <1>5, LoanLengthBounds DEF GoodBuffer
  <2>3. QED
    BY <2>1, <2>2
<1> HIDE DEF second, z
<1>11. w = <<h.peer, Body(h), h.len>>
  <2>1. SubSeq(z, 1, 0) = <<>> /\ Body(h) \o <<>> = Body(h)
    BY <1>6, WholeTaken, ConcatEmptySeq
  <2>2. w = <<h.peer, SubSeq(z, 1, h.len) \o SubSeq(z, 1, 0), h.len>>
    BY <1>5, <1>8, <1>10 DEF w, z
  <2>3. QED
    BY <1>6, <2>1, <2>2
<1>12. WritesFirst(n, o)
  BY <1>2, <1>4, <1>9, <1>11 DEF WritesFirst, h
<1>13. QED
  BY <1>2, <1>5, <1>12

\* A sender that has a place in the buffer keeps it locked.
LEMMA SendSends ==
  ASSUME NEW s, SoundSocket(s), s.sendPB = "none", s.fState # "Unbound",
         NEW o \in Seq(Messages), NEW place, NEW put, Sends(s, o, place, put),
         place \in HoldsOutput => s.outLocked
  PROVE  /\ Send(s).cut \/ Sends(Send(s), o, place, put)
         /\ Busy(Send(s))
         /\ Send(s).outLocked = s.outLocked /\ Send(s).lost = s.lost
         /\ RecvSame(s, Send(s))
<1> DEFINE c == [s EXCEPT !.outDeferred = "none"]
           n == Send(s)
<1>1. /\ SoundSocket(c) /\ RecvSame(s, c) /\ c.outDeferred = "none"
      /\ c.outLocked = s.outLocked /\ c.fWriteShutdown = s.fWriteShutdown
      /\ c.fState = s.fState /\ c.output = s.output /\ c.lost = s.lost
      /\ c.sendPB = s.sendPB /\ c.wds = s.wds
  BY DEF SoundSocket, SockFields, RecvSame
<1>2. n = CASE s.output.ring.valid > 0 /\ ~s.outLocked -> Write(c)
            [] ~(s.output.ring.valid > 0 /\ ~s.outLocked) /\ ~s.fWriteShutdown ->
                 [c EXCEPT !.outDeferred = "Send"]
            [] OTHER -> [c EXCEPT !.fState = "Closing"]
  BY DEF Send
<1> HIDE DEF c, n
<1>3. CASE s.output.ring.valid > 0 /\ ~s.outLocked
  <2>1. n = Write(c)
    BY <1>2, <1>3
  <2>2. place \notin HoldsOutput
    BY <1>3
  <2>3. Half(place, put) = <<>>
    BY <2>2 DEF Half, HoldsOutput
  <2>4. GoodBuffer(c.output) /\ c.output.ring.valid > 0 /\ c.output.bytes = StoredBytes(o)
    <3>1. s.output.bytes = StoredBytes(o) \o <<>>
      BY <2>3 DEF Sends, Taking, BytesOf
    <3>2. StoredBytes(o) \in Seq(Octets)
      BY StoredAreBytes
    <3>3. StoredBytes(o) \o <<>> = StoredBytes(o)
      BY <3>2, ConcatEmptySeq
    <3>4. QED
      BY <1>1, <1>3, <3>1, <3>3 DEF Sends
  <2>5. /\ \/ n.cut
           \/ /\ GoodBuffer(n.output) /\ WritesFirst(n, o)
              /\ n.output.bytes = BytesOf(o, "between")
        /\ n.sendPB = "write" /\ n.outDeferred = c.outDeferred
        /\ n.outLocked = c.outLocked /\ n.fState = c.fState
        /\ n.lost = c.lost /\ RecvSame(c, n)
    BY <1>1, <2>1, <2>4, WriteTakes
  <2>6. n.cut \/ Sends(n, o, place, put)
    <3>1. SUFFICES ASSUME ~n.cut PROVE Sends(n, o, place, put)
      OBVIOUS
    <3>2. n.output.bytes = BytesOf(o, Taking(n)) /\ n.output.bytes \in Seq(Octets)
      BY <2>5, <3>1 DEF Taking, GoodBuffer
    <3>3. n.output.bytes \o <<>> = n.output.bytes
      BY <3>2, ConcatEmptySeq
    <3>4. QED
      BY <1>1, <2>3, <2>5, <3>1, <3>2, <3>3 DEF Sends
  <2>7. QED
    BY <1>1, <1>3, <2>5, <2>6 DEF RecvSame, Busy, n
<1>4. CASE ~(s.output.ring.valid > 0 /\ ~s.outLocked) /\ ~s.fWriteShutdown
  <2>1. n = [c EXCEPT !.outDeferred = "Send"]
    BY <1>2, <1>4
  <2>2. /\ RecvSame(c, n) /\ n.outDeferred = "Send"
        /\ n.outLocked = c.outLocked /\ n.fState = c.fState /\ n.output = c.output
        /\ n.sendPB = c.sendPB /\ n.wds = c.wds /\ n.lost = c.lost
    BY <1>1, <2>1 DEF SoundSocket, SockFields, RecvSame
  <2>3. Taking(n) = Taking(s)
    BY <1>1, <2>2 DEF Taking
  <2>4. Sends(n, o, place, put)
    BY <1>1, <2>2, <2>3 DEF Sends
  <2>5. QED
    BY <1>1, <1>4, <2>2, <2>4 DEF RecvSame, Busy, n
<1>5. CASE ~(s.output.ring.valid > 0 /\ ~s.outLocked) /\ s.fWriteShutdown
  <2>1. n = [c EXCEPT !.fState = "Closing"]
    BY <1>2, <1>5
  <2>2. /\ RecvSame(c, n) /\ n.outDeferred = "none"
        /\ n.outLocked = c.outLocked /\ n.fState = "Closing" /\ n.output = c.output
        /\ n.sendPB = c.sendPB /\ n.wds = c.wds /\ n.lost = c.lost
        /\ n.fWriteShutdown = c.fWriteShutdown
    BY <1>1, <2>1 DEF SoundSocket, SockFields, RecvSame
  <2>3. Taking(n) = Taking(s)
    BY <1>1, <2>2 DEF Taking
  <2>4. Sends(n, o, place, put)
    BY <1>1, <2>2, <2>3 DEF Sends
  <2>5. QED
    BY <1>1, <1>5, <2>2, <2>4 DEF RecvSame, Busy, n
<1>6. QED
  BY <1>3, <1>4, <1>5

\* The datagram that was written leaves the buffer.
LEMMA FirstFreed ==
  ASSUME NEW b, GoodBuffer(b), NEW o \in Seq(Messages), o # <<>>,
         b.bytes = BytesOf(o, "between"), OnePiece(b.ring, Head(o).len)
  PROVE  /\ GoodBuffer(FreeFront(b, Head(o).len))
         /\ FreeFront(b, Head(o).len).bytes = StoredBytes(Tail(o))
         /\ Tail(o) \in Seq(Messages)
<1> DEFINE n == Head(o).len
<1>1. /\ n \in Nat /\ Tail(o) \in Seq(Messages)
      /\ SubSeq(b.bytes, n + 1, Len(b.bytes)) = StoredBytes(Tail(o))
  BY DataComesNext
<1>2. /\ GoodBuffer(FreeFront(b, n))
      /\ FreeFront(b, n).bytes = SubSeq(b.bytes, n + 1, Len(b.bytes))
  BY <1>1, FreeFrontKeeps
<1>3. QED
  BY <1>1, <1>2

LEMMA LaterOwed ==
  ASSUME NEW o \in Seq(Messages)
  PROVE  /\ SubSeq(o, 0 + 1, Len(o)) = o
         /\ o # <<>> => SubSeq(o, 1 + 1, Len(o)) = Tail(o)
         /\ SubSeq(o, Len(o) + 1, Len(o)) = <<>>
<1>1. 0 + 1 = 1 /\ 1 + 1 = 2
  OBVIOUS
<1>2. SubSeq(o, 1, Len(o)) = o /\ SubSeq(o, Len(o) + 1, Len(o)) = <<>>
  BY WholeTaken
<1>3. o # <<>> => SubSeq(o, 2, Len(o)) = Tail(o)
  BY TailIsSubSeq
<1>4. QED
  BY <1>1, <1>2, <1>3

\* What throwing everything away leaves of a ring.
LEMMA AllFreed ==
  ASSUME NEW r \in Ring
  PROVE  Freed(r, r.valid) \in Ring
<1> DEFINE v == r.valid
           f == r.free + v
           c == r.consume + v
<1>1. /\ r.size \in Nat /\ r.consume \in Nat /\ r.produce \in Nat
      /\ r.free \in Nat /\ v \in Nat /\ r.spare \in Nat
  BY RingFields
<1>2. v - v = 0 /\ f \in Nat /\ f + r.spare \in Nat /\ c \in Nat
  BY <1>1
<1>3. Freed(r, v) = IF c = r.size - r.spare
                    THEN [r EXCEPT !.valid = v - v, !.free = f + r.spare,
                                   !.consume = 0, !.spare = 0]
                    ELSE [r EXCEPT !.valid = v - v, !.free = f, !.consume = c]
  BY DEF Freed
<1> HIDE DEF v, f, c
<1> DEFINE one == [r EXCEPT !.valid = 0]
           two == [one EXCEPT !.consume = c]
           three == [one EXCEPT !.consume = 0]
<1>4. one \in Ring
  BY DEF Ring
<1>5. two \in Ring /\ three \in Ring
  <2> HIDE DEF one
  <2>1. QED
    BY <1>2, <1>4 DEF Ring
<1>6. [r EXCEPT !.valid = 0, !.free = f, !.consume = c] \in Ring
  <2>1. [r EXCEPT !.valid = 0, !.free = f, !.consume = c] = [two EXCEPT !.free = f]
    BY DEF Ring
  <2> HIDE DEF two
  <2>2. [two EXCEPT !.free = f] \in Ring
    BY <1>2, <1>5 DEF Ring
  <2>3. QED
    BY <2>1, <2>2
<1>7. [r EXCEPT !.valid = 0, !.free = f + r.spare, !.consume = 0, !.spare = 0] \in Ring
  <2> DEFINE four == [three EXCEPT !.spare = 0]
             g == f + r.spare
  <2>1. [r EXCEPT !.valid = 0, !.free = g, !.consume = 0, !.spare = 0]
          = [four EXCEPT !.free = g]
    BY DEF Ring
  <2> HIDE DEF three
  <2>2. four \in Ring
    BY <1>5 DEF Ring
  <2> HIDE DEF four
  <2>3. g \in Nat
    BY <1>2
  <2> HIDE DEF g
  <2>4. [four EXCEPT !.free = g] \in Ring
    BY <2>2, <2>3 DEF Ring
  <2>5. QED
    BY <2>1, <2>4 DEF g
<1>8. QED
  BY <1>2, <1>3, <1>6, <1>7 DEF v

LEMMA SendDoneSends ==
  ASSUME NEW s, SoundSocket(s), s.sendPB = "written", s.lost = 0,
         NEW place, NEW put, OutputKept(s, owed, place, put)
  PROVE  /\ \/ SendDone(s).cut
            \/ OutputKept(SendDone(s), SubSeq(owed, SendDone(s).lost + 1, Len(owed)),
                          place, put)
         /\ RecvSame(s, SendDone(s))
<1> DEFINE n == SendDone(s)
           o == owed
<1> HIDE DEF o
<1>1. /\ o \in Seq(Messages) /\ (place # "idle" => put \in Messages)
      /\ (place \in HoldsOutput => s.outLocked)
      /\ Sends(s, o, place, put)
      /\ s.fState # "Unbound"
  BY DEF OutputKept, GivenUp, Sends, o
<1>2. CASE s.outLocked
  <2>1. n = [s EXCEPT !.outDeferred = "SendDone"]
    BY <1>2 DEF SendDone
  <2> HIDE DEF n
  <2>2. /\ RecvSame(s, n) /\ n.outDeferred = "SendDone" /\ n.outLocked = s.outLocked
        /\ n.sendPB = s.sendPB /\ n.wds = s.wds /\ n.output = s.output
        /\ n.fState = s.fState /\ n.lost = 0
    BY <2>1 DEF SoundSocket, SockFields, RecvSame
  <2>3. Taking(n) = Taking(s) /\ (WritesFirst(s, o) => WritesFirst(n, o))
    BY <2>2 DEF Taking, WritesFirst
  <2>4. Sends(n, o, place, put)
    BY <1>1, <2>2, <2>3 DEF Sends
  <2>5. OutputKept(n, o, place, put)
    BY <1>1, <2>2, <2>4 DEF OutputKept, Busy
  <2>6. SubSeq(o, n.lost + 1, Len(o)) = o
    BY <1>1, <2>2, LaterOwed
  <2>7. QED
    BY <2>2, <2>5, <2>6 DEF n, o
<1>3. CASE ~s.outLocked
  <2> DEFINE h == Head(o)
             free == FreeFront(s.output, h.len)
             c == [s EXCEPT !.outDeferred = "none", !.sendPB = "none", !.lost = 1,
                            !.sendResult = "noErr", !.wds = NoWDS,
                            !.output = free]
             f == [c EXCEPT !.fAsyncError = TRUE, !.fWriteShutdown = TRUE,
                            !.lost = Len(o),
                            !.output = FreeFront(free, free.ring.valid)]
  <2>1. place \notin HoldsOutput /\ Half(place, put) = <<>>
    BY <1>1, <1>3 DEF Half, HoldsOutput
  <2>2. /\ o # <<>> /\ s.wds = <<h.peer, Body(h), h.len>> /\ OnePiece(s.output.ring, h.len)
        /\ GoodBuffer(s.output)
        /\ s.output.bytes = BytesOf(o, "between") \o <<>>
    BY <1>1, <2>1 DEF Sends, WritesFirst, Taking
  <2>3. s.output.bytes = BytesOf(o, "between")
    <3>1. BytesOf(o, "between") \in Seq(Octets)
      <4>1. /\ Body(Head(o)) \in Seq(Octets) /\ StoredBytes(Tail(o)) \in Seq(Octets)
        BY <1>1, <2>2, StoredFirst, PackedBytes
      <4>2. Body(Head(o)) \o StoredBytes(Tail(o)) \in Seq(Octets)
        BY <4>1, OctetFacts
      <4>3. QED
        BY <4>2 DEF BytesOf
    <3>2. QED
      BY <2>2, <3>1, ConcatEmptySeq
  <2>4. GoodBuffer(free) /\ free.bytes = StoredBytes(Tail(o)) /\ Tail(o) \in Seq(Messages)
    BY <1>1, <2>2, <2>3, FirstFreed
  <2>5. s.wds[3] = h.len
    BY <2>2
  <2>6. n = [Send(IF s.sendResult = "error" THEN f ELSE c) EXCEPT !.wake = TRUE]
    BY <1>3, <2>5 DEF SendDone, o
  <2> HIDE DEF h, free, n
  <2>7. /\ SoundSocket(c) /\ RecvSame(s, c) /\ c.outDeferred = "none"
        /\ c.sendPB = "none" /\ c.lost = 1 /\ c.output = free
        /\ c.outLocked = s.outLocked /\ c.fState = s.fState
    BY DEF SoundSocket, SockFields, RecvSame
  <2>8. CASE s.sendResult # "error"
    <3> DEFINE m == Send(c)
               t == Tail(o)
    <3>1. n = [m EXCEPT !.wake = TRUE]
      BY <2>6, <2>8
    <3> HIDE DEF c, m
    <3>2. t \in Seq(Messages) /\ StoredBytes(t) \in Seq(Octets)
      BY <2>4, StoredAreBytes
    <3> HIDE DEF t
    <3>3. Sends(c, t, place, put)
      <4>1. Taking(c) = "idle"
        BY <2>7 DEF Taking
      <4>2. c.output.bytes = BytesOf(t, Taking(c)) \o <<>>
        BY <2>4, <2>7, <3>2, <4>1, ConcatEmptySeq DEF BytesOf, t
      <4>3. QED
        BY <2>1, <2>4, <2>7, <4>2 DEF Sends
    <3>4. /\ m.cut \/ Sends(m, t, place, put)
          /\ Busy(m) /\ m.outLocked = c.outLocked /\ m.lost = c.lost /\ RecvSame(c, m)
      BY <1>1, <2>1, <2>7, <3>2, <3>3, SendSends DEF m
    <3>5. SoundSocket(m)
      BY <1>3, <2>7, SendKeeps DEF m
    <3>6. SendSame(m, n) /\ RecvSame(m, n) /\ n.cut = m.cut /\ n.lost = 1
      BY <2>7, <3>1, <3>4, <3>5 DEF SoundSocket, SockFields, SendSame, RecvSame
    <3>7. m.cut \/ OutputKept(m, t, place, put)
      BY <1>1, <2>1, <3>2, <3>4 DEF OutputKept
    <3>8. n.cut \/ OutputKept(n, t, place, put)
      BY <3>6, <3>7, SameOutput
    <3>9. SubSeq(o, n.lost + 1, Len(o)) = t
      BY <1>1, <2>2, <3>6, LaterOwed DEF t
    <3>10. RecvSame(s, n)
      BY <2>7, <3>4, <3>6 DEF RecvSame
    <3>11. QED
      BY <3>8, <3>9, <3>10 DEF n, o
  <2>9. CASE s.sendResult = "error"
    <3> DEFINE last == FreeFront(free, free.ring.valid)
    <3>1. last.bytes = <<>> /\ last.ring \in Ring /\ last.ring.valid = 0
      <4>1. /\ free.ring \in Ring /\ free.bytes \in Seq(Octets)
            /\ Len(free.bytes) = free.ring.valid
        BY <2>4 DEF GoodBuffer
      <4>2. last.ring = Freed(free.ring, free.ring.valid)
            /\ last.bytes = SubSeq(free.bytes, free.ring.valid + 1, Len(free.bytes))
        BY DEF FreeFront
      <4> HIDE DEF last
      <4>3. last.bytes = <<>>
        BY <4>1, <4>2, WholeTaken
      <4>4. Freed(free.ring, free.ring.valid).valid = 0
        BY <4>1 DEF Freed, Ring
      <4>5. last.ring.valid = 0
        BY <4>2, <4>4
      <4>6. last.ring \in Ring
        BY <4>1, <4>2, AllFreed
      <4>7. QED
        BY <4>3, <4>5, <4>6
    <3> HIDE DEF last
    <3>2. /\ SoundSocket(f) /\ RecvSame(c, f) /\ f.output = last /\ f.lost = Len(o)
          /\ f.outLocked = c.outLocked /\ f.sendPB = "none" /\ f.fWriteShutdown
      <4>1. SoundSocket(f)
        BY <2>7 DEF SoundSocket, SockFields
      <4>2. RecvSame(c, f)
        BY <2>7 DEF SoundSocket, SockFields, RecvSame
      <4>3. f.output = last /\ f.lost = Len(o)
        BY <2>7 DEF SoundSocket, SockFields, last
      <4>4. f.outLocked = c.outLocked /\ f.sendPB = "none" /\ f.fWriteShutdown
        BY <2>7 DEF SoundSocket, SockFields
      <4>5. QED
        BY <4>1, <4>2, <4>3, <4>4
    <3>3. n = [Send(f) EXCEPT !.wake = TRUE]
      BY <2>6, <2>9
    <3> HIDE DEF f, c
    <3>4. Send(f) = [[f EXCEPT !.outDeferred = "none"] EXCEPT !.fState = "Closing"]
      BY <3>1, <3>2 DEF Send
    <3>5. /\ RecvSame(f, n) /\ n.output = last /\ n.lost = Len(o)
          /\ n.sendPB = "none" /\ n.fWriteShutdown /\ n.outDeferred = "none"
          /\ n.fState = "Closing"
      BY <3>2, <3>3, <3>4 DEF SoundSocket, SockFields, RecvSame
    <3>6. SubSeq(o, n.lost + 1, Len(o)) = <<>> /\ <<>> \in Seq(Messages)
      BY <1>1, <3>5, LaterOwed, EmptySeq
    <3>7. OutputKept(n, <<>>, place, put)
      BY <1>1, <2>1, <3>1, <3>5, <3>6 DEF OutputKept, GivenUp, Busy, HoldsOutput
    <3>8. RecvSame(s, n)
      BY <2>7, <3>2, <3>5 DEF RecvSame
    <3>9. QED
      BY <3>6, <3>7, <3>8 DEF n, o
  <2>10. QED
    BY <2>8, <2>9
<1>4. QED
  BY <1>2, <1>3

\* Unlocking the output buffer lets what was deferred write.
LEMMA ReleaseOutputSends ==
  ASSUME NEW s, SoundSocket(s), s.lost = 0, NEW place, NEW put,
         place \notin HoldsOutput, OutputKept(s, owed, place, put)
  PROVE  /\ \/ ReleaseOutput(s).cut
            \/ OutputKept(ReleaseOutput(s),
                          SubSeq(owed, ReleaseOutput(s).lost + 1, Len(owed)), place, put)
         /\ RecvSame(s, ReleaseOutput(s))
<1> DEFINE b == [s EXCEPT !.outLocked = FALSE]
           n == ReleaseOutput(s)
           o == owed
<1> HIDE DEF o
<1>1. /\ SoundSocket(b) /\ RecvSame(s, b) /\ b.outDeferred = s.outDeferred
      /\ b.output = s.output /\ b.sendPB = s.sendPB /\ b.wds = s.wds
      /\ b.fWriteShutdown = s.fWriteShutdown /\ b.fState = s.fState /\ b.lost = 0
      /\ s.outDeferred \in {"none", "Send", "SendDone"}
  BY DEF SoundSocket, SockFields, RecvSame
<1>2. n = CASE s.outDeferred = "none"     -> b
            [] s.outDeferred = "Send"     -> Send(b)
            [] s.outDeferred = "SendDone" -> SendDone(b)
  BY DEF ReleaseOutput
<1> HIDE DEF b, n
<1>3. Taking(b) = Taking(s) /\ (WritesFirst(s, o) => WritesFirst(b, o))
  BY <1>1 DEF Taking, WritesFirst
<1>4. /\ o \in Seq(Messages) /\ (place # "idle" => put \in Messages)
      /\ Sends(s, o, place, put) \/ GivenUp(s, o, place)
  BY DEF OutputKept, o
<1>5. Sends(s, o, place, put) => Sends(b, o, place, put)
  BY <1>1, <1>3 DEF Sends
<1>6. OutputKept(b, o, place, put)
  <2>1. GivenUp(s, o, place) => GivenUp(b, o, place)
    BY <1>1 DEF GivenUp
  <2>2. Busy(b)
    BY <1>1 DEF OutputKept, Busy
  <2>3. QED
    BY <1>4, <1>5, <2>1, <2>2 DEF OutputKept
<1>7. CASE s.outDeferred = "none"
  <2>1. n = b
    BY <1>2, <1>7
  <2>2. SubSeq(o, 0 + 1, Len(o)) = o
    BY <1>4, LaterOwed
  <2>3. QED
    BY <1>1, <1>6, <2>1, <2>2 DEF n, o
<1>8. CASE s.outDeferred = "Send"
  <2>1. n = Send(b)
    BY <1>2, <1>8
  <2>2. Sends(b, o, place, put) /\ b.sendPB = "none" /\ b.fState # "Unbound"
    BY <1>1, <1>4, <1>5, <1>8 DEF Sends, GivenUp
  <2>3. /\ n.cut \/ Sends(n, o, place, put)
        /\ Busy(n) /\ n.lost = b.lost /\ RecvSame(b, n)
    BY <1>1, <1>4, <2>1, <2>2, SendSends
  <2>4. n.cut \/ OutputKept(n, o, place, put)
    BY <1>4, <2>3 DEF OutputKept
  <2>5. SubSeq(o, n.lost + 1, Len(o)) = o
    BY <1>1, <1>4, <2>3, LaterOwed
  <2>6. RecvSame(s, n)
    BY <1>1, <2>3 DEF RecvSame
  <2>7. QED
    BY <2>4, <2>5, <2>6 DEF n, o
<1>9. CASE s.outDeferred = "SendDone"
  <2>1. n = SendDone(b)
    BY <1>2, <1>9
  <2>2. b.sendPB = "written"
    BY <1>1, <1>4, <1>9 DEF Sends, GivenUp
  <2>3. OutputKept(b, owed, place, put)
    BY <1>6 DEF o
  <2>4. /\ \/ n.cut
           \/ OutputKept(n, SubSeq(owed, n.lost + 1, Len(owed)), place, put)
        /\ RecvSame(b, n)
    BY <1>1, <2>1, <2>2, <2>3, SendDoneSends
  <2>5. RecvSame(s, n)
    BY <1>1, <2>4 DEF RecvSame
  <2>6. QED
    BY <2>4, <2>5 DEF n
<1>10. QED
  BY <1>1, <1>7, <1>8, <1>9

\* The stream that a call creates has nothing to write or to store yet.
LEMMA StreamStarts ==
  ASSUME NEW s, SoundSocket(s), ~s.outLocked, s.lost = 0, s.stored = <<>>,
         NEW q, NEW place, NEW c, InputKept(s, q, place, c),
         NEW o, NEW spot, NEW put, OutputKept(s, o, spot, put)
  PROVE  /\ \/ WithStream(s).cut
            \/ /\ InputKept(WithStream(s), q, place, c)
               /\ OutputKept(WithStream(s), o, spot, put)
         /\ WithStream(s).lost = 0 /\ WithStream(s).stored = <<>>
         /\ WithStream(s).fPeerAddr = s.fPeerAddr
         /\ SoundSocket(WithStream(s))
<1> DEFINE n == WithStream(s)
<1>1. CASE s.fState # "Unbound"
  BY <1>1 DEF WithStream
<1>2. CASE s.fState = "Unbound"
  <2> DEFINE b == [s EXCEPT !.fState = "Connected"]
             m == Send(b)
  <2>1. n = Recv(m)
    BY <1>2 DEF WithStream
  <2>2. /\ SoundSocket(b) /\ RecvSame(s, b) /\ b.outLocked = s.outLocked
        /\ b.output = s.output /\ b.sendPB = s.sendPB /\ b.wds = s.wds
        /\ b.outDeferred = s.outDeferred /\ b.fState = "Connected" /\ b.lost = 0
        /\ b.inDeferred = "none"
    BY <1>2 DEF SoundSocket, SockFields, RecvSame
  <2> HIDE DEF n, m, b
  <2>3. /\ Sends(s, o, spot, put) /\ o \in Seq(Messages)
        /\ (spot # "idle" => put \in Messages) /\ (spot \in HoldsOutput => s.outLocked)
    BY <1>2 DEF OutputKept, GivenUp
  <2>4. Taking(b) = Taking(s) /\ (WritesFirst(s, o) => WritesFirst(b, o))
    BY <2>2 DEF Taking, WritesFirst
  <2>5. Sends(b, o, spot, put) /\ b.sendPB = "none"
    BY <1>2, <2>2, <2>3, <2>4 DEF Sends
  <2>6. /\ m.cut \/ Sends(m, o, spot, put)
        /\ Busy(m) /\ m.outLocked = b.outLocked /\ m.lost = b.lost /\ RecvSame(b, m)
    BY <2>2, <2>3, <2>5, SendSends DEF m
  <2>7. SoundSocket(m) /\ InputAlone(b, m) /\ m.fState \in {b.fState, "Closing"}
    BY <2>2, SendKeeps DEF m
  <2>8. SoundSocket(n)
    BY <2>1, <2>2, <2>7, RecvKeeps DEF InputAlone
  <2>9. /\ SendSame(m, n) /\ n.input = m.input /\ n.recvPB = "read"
        /\ n.cut = m.cut /\ n.stored = m.stored
    BY <2>1, <2>7 DEF SoundSocket, SockFields, SendSame, Recv
  <2>10. n.cut \/ OutputKept(n, o, spot, put)
    <3>1. m.cut \/ OutputKept(m, o, spot, put)
      BY <2>2, <2>3, <2>6 DEF OutputKept
    <3>2. QED
      BY <2>9, <3>1, SameOutput
  <2>11. n.input = s.input /\ n.stored = <<>> /\ n.fPeerAddr = s.fPeerAddr /\ n.lost = 0
    BY <2>2, <2>6, <2>9 DEF RecvSame, SendSame
  <2>12. InputKept(n, q, place, c)
    BY <2>9, <2>11, SameBytes
  <2>13. QED
    BY <2>8, <2>10, <2>11, <2>12 DEF n
<1>3. QED
  BY <1>1, <1>2

-----------------------------------------------------------------------------
(***************************************************************************)
(* What holds while no datagram has come apart.                            *)
(***************************************************************************)
DataInv ==
  /\ sock.stored = <<>> /\ sock.lost = 0
  /\ sock.fPeerAddr \in Partners \cup {NoPeer}
  /\ call.len \in Nat
  /\ InputKept(sock, due, pc["receiver"], call)
  /\ OutputKept(sock, owed, pc["sender"], call.put)

KeptInv == cut \/ DataInv

\* What Becomes takes away is not looked at.
LEMMA BecomesData ==
  ASSUME NEW s, SoundSocket(s), Becomes(s), s.fPeerAddr \in Partners \cup {NoPeer},
         call'.len \in Nat,
         \/ s.cut
         \/ /\ InputKept(s, due', pc'["receiver"], call')
            /\ OutputKept(s, owed', pc'["sender"], call'.put)
  PROVE  KeptInv'
<1> DEFINE n == sock'
<1>1. cut' = (cut \/ s.cut)
  BY DEF Becomes
<1>2. CASE s.cut
  BY <1>1, <1>2 DEF KeptInv
<1>3. CASE ~s.cut
  <2>1. n = [s EXCEPT !.stored = <<>>, !.lost = 0, !.cut = FALSE, !.wake = FALSE]
    BY DEF Becomes
  <2>2. /\ n.stored = <<>> /\ n.lost = 0 /\ n.fPeerAddr = s.fPeerAddr
        /\ n.input = s.input /\ n.recvPB = s.recvPB /\ n.recvResult = s.recvResult
        /\ n.packet = s.packet
        /\ n.output = s.output /\ n.outLocked = s.outLocked
        /\ n.outDeferred = s.outDeferred /\ n.sendPB = s.sendPB /\ n.wds = s.wds
        /\ n.fWriteShutdown = s.fWriteShutdown /\ n.fState = s.fState
    BY <2>1 DEF SoundSocket, SockFields
  <2> HIDE DEF n
  <2>3. InputKept(n, due', pc'["receiver"], call')
    BY <1>3, <2>2 DEF InputKept
  <2> DEFINE o == owed'
             place == pc'["sender"]
             put == call'.put
  <2>4. OutputKept(s, o, place, put)
    BY <1>3
  <2> HIDE DEF o, place, put
  <2>5. Taking(n) = Taking(s) /\ (WritesFirst(s, o) => WritesFirst(n, o))
    BY <2>2 DEF Taking, WritesFirst
  <2>6. Sends(s, o, place, put) => Sends(n, o, place, put)
    BY <2>2, <2>5 DEF Sends
  <2>7. GivenUp(s, o, place) => GivenUp(n, o, place)
    BY <2>2 DEF GivenUp
  <2>8. OutputKept(n, o, place, put)
    BY <2>2, <2>4, <2>6, <2>7 DEF OutputKept, Busy
  <2>9. DataInv'
    BY <2>2, <2>3, <2>8 DEF DataInv, n, o, place, put
  <2>10. QED
    BY <2>9 DEF KeptInv
<1>4. QED
  BY <1>2, <1>3

\* Where the receiver has nothing in its hands, its call does not matter.
LEMMA InputElsewhere ==
  ASSUME NEW s, NEW q, NEW from, from \notin TakesOne, NEW c, c.got = <<>>,
         InputKept(s, q, from, c),
         NEW to, to \notin TakesOne, to # "header", NEW e, e.got = <<>>
  PROVE  InputKept(s, q, to, e)
<1>1. Had(from, c) = <<>> /\ Had(to, e) = <<>> /\ BytesOf(q, from) = BytesOf(q, to)
  BY DEF Had, BytesOf, TakesOne
<1>2. <<>> \in Seq(Octets) /\ Len(<<>>) = 0 /\ HeaderSize > 0
  BY EmptySeq, SizesFacts
<1>3. HeaderKept(s.input.ring, to, e)
  BY <1>2 DEF HeaderKept
<1>4. QED
  BY <1>1, <1>2, <1>3 DEF InputKept, TakesOne

LEMMA OutputElsewhere ==
  ASSUME NEW s, NEW o, NEW from, from # "halfway", NEW put, OutputKept(s, o, from, put),
         NEW to, to \notin HoldsOutput, NEW new, to # "idle" => new \in Messages
  PROVE  OutputKept(s, o, to, new)
<1>1. Half(from, put) = <<>> /\ Half(to, new) = <<>>
  BY DEF Half, HoldsOutput
<1>2. Sends(s, o, from, put) => Sends(s, o, to, new)
  BY <1>1 DEF Sends
<1>3. GivenUp(s, o, from) => GivenUp(s, o, to)
  BY DEF GivenUp, HoldsOutput
<1>4. QED
  BY <1>2, <1>3 DEF OutputKept

\* What moves when nothing was stored, and when nothing was written.
LEMMA NothingMoves ==
  ASSUME DataInv, NEW s, Moves(s)
  PROVE  /\ s.stored = <<>> => due' = due
         /\ s.lost = 0 => owed' = owed
<1>1. due \in Seq(Messages) /\ owed \in Seq(Messages)
  BY DEF DataInv, InputKept, OutputKept
<1>2. due \o <<>> = due /\ SubSeq(owed, 0 + 1, Len(owed)) = owed
  BY <1>1, ConcatEmptySeq, LaterOwed
<1>3. QED
  BY <1>2 DEF Moves

\* A step of the input side, and one of the output side.
LEMMA InputTurns ==
  ASSUME DataInv, NEW s, SoundSocket(s), SendSame(sock, s), Turns(s),
         s.cut \/ InputKept(s, due \o s.stored, pc'["receiver"], call'),
         pc'["sender"] = pc["sender"], call'.put = call.put, call'.len \in Nat
  PROVE  KeptInv'
<1>1. s.lost = 0 /\ s.fPeerAddr \in Partners \cup {NoPeer}
  BY DEF DataInv, SendSame
<1>2. due' = due \o s.stored /\ owed' = owed /\ Becomes(s)
  BY <1>1, NothingMoves DEF Turns, Moves
<1>3. OutputKept(s, owed, pc["sender"], call.put)
  BY SameOutput DEF DataInv
<1>4. QED
  BY <1>1, <1>2, <1>3, BecomesData

LEMMA OutputTurns ==
  ASSUME DataInv, NEW s, SoundSocket(s), RecvSame(sock, s), Becomes(s), due' = due,
         s.cut \/ OutputKept(s, owed', pc'["sender"], call'.put),
         pc'["receiver"] = pc["receiver"],
         call'.part = call.part, call'.len = call.len, call'.got = call.got
  PROVE  KeptInv'
<1>1. s.fPeerAddr \in Partners \cup {NoPeer} /\ call'.len \in Nat
  BY DEF DataInv, RecvSame
<1>2. InputKept(s, due, pc["receiver"], call)
  BY SameInput DEF DataInv
<1>3. InputKept(s, due', pc'["receiver"], call')
  BY <1>2 DEF InputKept, Had, HeaderKept
<1>4. QED
  BY <1>1, <1>3, BecomesData

\* The socket stands still.
LEMMA SocketStands ==
  ASSUME DataInv, UNCHANGED <<sock, owed, cut>>, call'.len \in Nat,
         InputKept(sock, due', pc'["receiver"], call'),
         OutputKept(sock, owed, pc'["sender"], call'.put)
  PROVE  KeptInv'
BY DEF DataInv, KeptInv

-----------------------------------------------------------------------------
(***************************************************************************)
(* The steps.                                                              *)
(***************************************************************************)
LEMMA WriteCompletesData ==
  ASSUME UdpInv, DataInv, NEW result, WriteCompletes(result)
  PROVE  KeptInv'
<1> DEFINE b == [sock EXCEPT !.sendPB = "written", !.sendResult = result]
           s == SendDone(b)
           place == pc["sender"]
           put == call.put
<1>1. /\ SoundSocket(b) /\ RecvSame(sock, b) /\ b.sendPB = "written" /\ b.lost = 0
      /\ b.output = sock.output /\ b.wds = sock.wds /\ b.outLocked = sock.outLocked
      /\ b.outDeferred = sock.outDeferred /\ b.fState = sock.fState
  BY DEF UdpInv, DataInv, SoundSocket, SockFields, RecvSame
<1>2. Turns(s) /\ pc' = pc /\ call' = call /\ sock.sendPB = "write"
  BY DEF WriteCompletes
<1> HIDE DEF b
<1>3. OutputKept(sock, owed, place, put)
  BY DEF DataInv
<1> HIDE DEF place, put
<1>4. OutputKept(b, owed, place, put)
  <2>1. Sends(sock, owed, place, put)
    BY <1>2, <1>3 DEF OutputKept, GivenUp
  <2>2. Taking(b) = Taking(sock) /\ (WritesFirst(sock, owed) => WritesFirst(b, owed))
    BY <1>1, <1>2 DEF Taking, WritesFirst
  <2>3. Sends(b, owed, place, put)
    BY <1>1, <1>2, <2>1, <2>2 DEF Sends
  <2>4. QED
    BY <1>1, <1>3, <2>3 DEF OutputKept, Busy
<1>5. /\ s.cut \/ OutputKept(s, SubSeq(owed, s.lost + 1, Len(owed)), place, put)
      /\ RecvSame(b, s)
  BY <1>1, <1>4, SendDoneSends
<1>6. SoundSocket(s)
  BY <1>1, SendDoneKeeps
<1> HIDE DEF s
<1>7. RecvSame(sock, s) /\ s.stored = <<>>
  BY <1>1, <1>5 DEF RecvSame, DataInv
<1>8. Becomes(s) /\ due' = due /\ owed' = SubSeq(owed, s.lost + 1, Len(owed))
  BY <1>2, <1>7, NothingMoves DEF Turns, Moves
<1>9. QED
  BY <1>2, <1>5, <1>6, <1>7, <1>8, OutputTurns DEF place, put

LEMMA InputCompletesData ==
  ASSUME UdpInv, DataInv, NEW b, SoundSocket(b), SendSame(sock, b),
         b.input = sock.input, b.stored = <<>>, b.fState # "Unbound",
         b.recvPB \in {"hasRead", "hasReturned"},
         b.recvPB = "hasRead" /\ b.recvResult = "noErr" => b.packet \in Datagrams,
         Turns(RecvDone(b)), UNCHANGED <<pc, running, call>>
  PROVE  KeptInv'
<1> DEFINE s == RecvDone(b)
<1>1. InputKept(sock, due, pc["receiver"], call)
  BY DEF DataInv
<1>2. InputKept(b, due, pc["receiver"], call)
  BY <1>1 DEF InputKept
<1>3. /\ s.cut \/ InputKept(s, due \o s.stored, pc["receiver"], call)
      /\ SendSame(b, s)
  BY <1>2, RecvDoneStores
<1>4. SoundSocket(s)
  BY RecvDoneKeeps
<1> HIDE DEF s
<1>5. SendSame(sock, s)
  BY <1>3 DEF SendSame
<1>6. call'.len \in Nat /\ Turns(s)
  BY DEF DataInv, s
<1>7. QED
  BY <1>3, <1>4, <1>5, <1>6, InputTurns

LEMMA ReadCompletesData ==
  ASSUME UdpInv, DataInv, NEW d, NEW result \in Results,
         result = "noErr" => d \in Datagrams, ReadCompletes(d, result)
  PROVE  KeptInv'
<1> DEFINE b == [sock EXCEPT !.recvPB = "hasRead", !.packet = d, !.recvResult = result]
<1>1. /\ SoundSocket(b) /\ SendSame(sock, b) /\ b.input = sock.input /\ b.stored = <<>>
      /\ b.recvPB = "hasRead" /\ b.recvResult = result /\ b.packet = d
      /\ b.fState # "Unbound"
  BY DEF UdpInv, DataInv, SoundSocket, SockFields, SendSame, ReadCompletes
<1>2. Turns(RecvDone(b)) /\ UNCHANGED <<pc, running, call>>
  BY DEF ReadCompletes
<1> HIDE DEF b
<1>3. QED
  BY <1>1, <1>2, InputCompletesData

LEMMA ReturnCompletesData ==
  ASSUME UdpInv, DataInv, NEW result \in Results, ReturnCompletes(result)
  PROVE  KeptInv'
<1> DEFINE b == [sock EXCEPT !.recvPB = "hasReturned", !.packet = NoDatagram,
                             !.recvResult = result]
<1>1. /\ SoundSocket(b) /\ SendSame(sock, b) /\ b.input = sock.input /\ b.stored = <<>>
      /\ b.recvPB = "hasReturned" /\ b.fState # "Unbound"
  BY DEF UdpInv, DataInv, SoundSocket, SockFields, SendSame, ReturnCompletes
<1>2. Turns(RecvDone(b)) /\ UNCHANGED <<pc, running, call>>
  BY DEF ReturnCompletes
<1> HIDE DEF b
<1>3. QED
  BY <1>1, <1>2, InputCompletesData

\* A call that creates the stream, and goes on.
LEMMA StreamData ==
  ASSUME UdpInv, DataInv, running = Nobody
  PROVE  LET n == WithStream(sock)
         IN  /\ \/ n.cut
                \/ /\ InputKept(n, due, pc["receiver"], call)
                   /\ OutputKept(n, owed, pc["sender"], call.put)
             /\ n.lost = 0 /\ n.stored = <<>> /\ n.fPeerAddr = sock.fPeerAddr
             /\ SoundSocket(n)
<1>1. ~sock.outLocked
  BY NobodyHolds
<1>2. /\ sock.lost = 0 /\ sock.stored = <<>> /\ SoundSocket(sock)
      /\ InputKept(sock, due, pc["receiver"], call)
      /\ OutputKept(sock, owed, pc["sender"], call.put)
  BY DEF DataInv, UdpInv
<1>3. QED
  BY <1>1, <1>2, StreamStarts

LEMMA OtherPeer ==
  ASSUME NEW s, SoundSocket(s), NEW p
  PROVE  LET n == [s EXCEPT !.fPeerAddr = p]
         IN  /\ SoundSocket(n) /\ n.stored = s.stored /\ n.lost = s.lost
             /\ n.cut = s.cut /\ n.fPeerAddr = p
             /\ \A q, place, c : InputKept(s, q, place, c) => InputKept(n, q, place, c)
             /\ \A o, place, put :
                  OutputKept(s, o, place, put) => OutputKept(n, o, place, put)
<1> DEFINE n == [s EXCEPT !.fPeerAddr = p]
<1>1. /\ SoundSocket(n) /\ n.stored = s.stored /\ n.lost = s.lost
      /\ n.cut = s.cut /\ n.fPeerAddr = p
      /\ n.input = s.input /\ n.recvPB = s.recvPB /\ n.recvResult = s.recvResult
      /\ n.packet = s.packet
      /\ n.output = s.output /\ n.outLocked = s.outLocked
      /\ n.outDeferred = s.outDeferred /\ n.sendPB = s.sendPB /\ n.wds = s.wds
      /\ n.fWriteShutdown = s.fWriteShutdown /\ n.fState = s.fState
  BY DEF SoundSocket, SockFields
<1> HIDE DEF n
<1>2. ASSUME NEW q, NEW place, NEW c, InputKept(s, q, place, c)
      PROVE  InputKept(n, q, place, c)
  BY <1>1, <1>2 DEF InputKept
<1>3. ASSUME NEW o, NEW place, NEW put, OutputKept(s, o, place, put)
      PROVE  OutputKept(n, o, place, put)
  <2>1. Taking(n) = Taking(s) /\ (WritesFirst(s, o) => WritesFirst(n, o))
    BY <1>1 DEF Taking, WritesFirst
  <2>2. Sends(s, o, place, put) => Sends(n, o, place, put)
    BY <1>1, <2>1 DEF Sends
  <2>3. GivenUp(s, o, place) => GivenUp(n, o, place)
    BY <1>1 DEF GivenUp
  <2>4. QED
    BY <1>1, <1>3, <2>2, <2>3 DEF OutputKept, Busy
<1>4. QED
  BY <1>1, <1>2, <1>3 DEF n

LEMMA LookingData ==
  ASSUME UdpInv, DataInv,
         Select \/ GetAsyncError \/ \E p \in Partners \cup {NoPeer} : Connect(p)
  PROVE  KeptInv'
<1>1. running = Nobody /\ UNCHANGED <<pc, call>>
  BY DEF Select, GetAsyncError, Connect
<1> DEFINE n == WithStream(sock)
<1>2. /\ \/ n.cut
         \/ /\ InputKept(n, due, pc["receiver"], call)
            /\ OutputKept(n, owed, pc["sender"], call.put)
      /\ n.lost = 0 /\ n.stored = <<>> /\ SoundSocket(n)
      /\ n.fPeerAddr \in Partners \cup {NoPeer}
  BY <1>1, StreamData DEF DataInv
<1>3. /\ sock.lost = 0 /\ sock.stored = <<>> /\ SoundSocket(sock)
      /\ sock.fPeerAddr \in Partners \cup {NoPeer}
      /\ InputKept(sock, due, pc["receiver"], call)
      /\ OutputKept(sock, owed, pc["sender"], call.put)
      /\ call.len \in Nat
  BY DEF DataInv, UdpInv
<1> HIDE DEF n
<1>4. ASSUME NEW s, SoundSocket(s), Turns(s), s.lost = 0, s.stored = <<>>,
             s.fPeerAddr \in Partners \cup {NoPeer},
             \/ s.cut
             \/ /\ InputKept(s, due, pc["receiver"], call)
                /\ OutputKept(s, owed, pc["sender"], call.put)
      PROVE  KeptInv'
  <2>1. due' = due /\ owed' = owed /\ Becomes(s)
    BY <1>4, NothingMoves DEF Turns
  <2>2. QED
    BY <1>1, <1>3, <1>4, <2>1, BecomesData
<1>5. CASE Select
  BY <1>2, <1>4, <1>5 DEF Select, n
<1>6. CASE GetAsyncError
  <2> DEFINE s == [sock EXCEPT !.fAsyncError = FALSE]
  <2>1. SoundSocket(s) /\ RecvSame(sock, s) /\ SendSame(sock, s)
    BY <1>3 DEF SoundSocket, SockFields, RecvSame, SendSame
  <2>2. Turns(s)
    BY <1>6 DEF GetAsyncError
  <2> HIDE DEF s
  <2>3. /\ InputKept(s, due, pc["receiver"], call)
        /\ OutputKept(s, owed, pc["sender"], call.put)
    BY <1>3, <2>1, SameInput, SameOutput
  <2>4. QED
    BY <1>3, <1>4, <2>1, <2>2, <2>3 DEF RecvSame, SendSame
<1>7. CASE \E p \in Partners \cup {NoPeer} : Connect(p)
  <2>1. PICK p \in Partners \cup {NoPeer} : Connect(p)
    BY <1>7
  <2> DEFINE from == IF p = NoPeer THEN sock ELSE n
             s == [from EXCEPT !.fPeerAddr = p]
  <2>2. Turns(s)
    BY <2>1 DEF Connect, n
  <2>3. /\ SoundSocket(from) /\ from.lost = 0 /\ from.stored = <<>>
        /\ \/ from.cut
           \/ /\ InputKept(from, due, pc["receiver"], call)
              /\ OutputKept(from, owed, pc["sender"], call.put)
    BY <1>2, <1>3
  <2> HIDE DEF from
  <2>4. /\ SoundSocket(s) /\ s.stored = <<>> /\ s.lost = 0 /\ s.fPeerAddr = p
        /\ \/ s.cut
           \/ /\ InputKept(s, due, pc["receiver"], call)
              /\ OutputKept(s, owed, pc["sender"], call.put)
    BY <2>3, OtherPeer
  <2> HIDE DEF s
  <2>5. QED
    BY <1>4, <2>2, <2>4
<1>8. QED
  BY <1>5, <1>6, <1>7

LEMMA BeginsData ==
  ASSUME UdpInv, DataInv,
         (\E n \in Lengths : Recvfrom(n)) \/ (\E d \in Datagrams : Sendto(d))
  PROVE  KeptInv'
<1> DEFINE s == WithStream(sock)
<1>1. running = Nobody /\ Turns(s)
  BY DEF Recvfrom, Sendto, Enter
<1>2. /\ \/ s.cut
         \/ /\ InputKept(s, due, pc["receiver"], call)
            /\ OutputKept(s, owed, pc["sender"], call.put)
      /\ s.lost = 0 /\ s.stored = <<>> /\ SoundSocket(s)
      /\ s.fPeerAddr \in Partners \cup {NoPeer}
  BY <1>1, StreamData DEF DataInv
<1> HIDE DEF s
<1>3. due' = due /\ owed' = owed /\ Becomes(s)
  BY <1>1, <1>2, NothingMoves DEF Turns
<1>4. call.len \in Nat /\ DOMAIN call = {"put", "len", "got", "part"}
      /\ DOMAIN pc = Threads
  BY DEF DataInv, UdpInv, OneRuns
<1>5. CASE \E n \in Lengths : Recvfrom(n)
  <2>1. PICK n \in Lengths : Recvfrom(n)
    BY <1>5
  <2>2. /\ pc["receiver"] = "idle" /\ pc'["receiver"] = "test"
        /\ pc'["sender"] = pc["sender"]
        /\ call'.len \in Nat /\ call'.put = call.put /\ call'.got = call.got
    BY <1>4, <2>1, SizesFacts DEF Recvfrom, Enter, Threads
  <2>3. s.cut \/ InputKept(s, due, "test", call')
    <3>1. SUFFICES ASSUME InputKept(s, due, "idle", call)
                   PROVE  InputKept(s, due, "test", call')
      BY <1>2, <2>2
    <3>2. call.got = <<>>
      BY <3>1 DEF InputKept, HeaderKept, TakesOne
    <3>3. QED
      BY <2>2, <3>1, <3>2, InputElsewhere DEF TakesOne
  <2>4. QED
    BY <1>2, <1>3, <2>2, <2>3, BecomesData
<1>6. CASE \E d \in Datagrams : Sendto(d)
  <2>1. PICK d \in Datagrams : Sendto(d)
    BY <1>6
  <2>2. /\ pc["sender"] = "idle" /\ pc'["sender"] = "test"
        /\ pc'["receiver"] = pc["receiver"] /\ call'.len = call.len
        /\ call'.put = d /\ call'.part = call.part /\ call'.got = call.got
    BY <1>4, <2>1 DEF Sendto, Enter, Threads
  <2>3. d \in Messages
    BY SizesFacts
  <2>4. s.cut \/ OutputKept(s, owed, "test", d)
    BY <1>2, <2>2, <2>3, OutputElsewhere DEF HoldsOutput
  <2>5. s.cut \/ InputKept(s, due, pc'["receiver"], call')
    BY <1>2, <2>2 DEF InputKept, Had, HeaderKept
  <2>6. QED
    BY <1>2, <1>3, <1>4, <2>2, <2>4, <2>5, BecomesData
<1>7. QED
  BY <1>5, <1>6

-----------------------------------------------------------------------------
\* What has come apart stays so.
LEMMA CutStays ==
  ASSUME NEW s, SoundSocket(s), s.cut
  PROVE  ReleaseInput(s).cut
<1> DEFINE c == [s EXCEPT !.inLocked = FALSE]
           b == [c EXCEPT !.inDeferred = "none"]
<1>1. /\ DOMAIN c = SockFields /\ c.cut /\ c.inLocked = FALSE
      /\ DOMAIN b = SockFields /\ b.cut /\ c.recvResult \in Results
  BY DEF SoundSocket, SockFields
<1>2. s.inDeferred = "RecvDone" => c.recvPB \in {"hasRead", "hasReturned"} \/ c.recvResult # "noErr"
  BY DEF SoundSocket, SockFields
<1>3. ReleaseInput(s) = IF s.inDeferred = "RecvDone" THEN RecvDone(c) ELSE c
  BY DEF ReleaseInput
<1> DEFINE n == RecvDone(c)
<1>4. n = CASE c.recvResult = "noErr" /\ c.recvPB = "hasRead" -> Accept(b)
            [] c.recvResult = "noErr" /\ c.recvPB = "hasReturned" ->
                 [Recv(b) EXCEPT !.wake = TRUE]
            [] c.recvResult = "timeout" -> [Recv(b) EXCEPT !.wake = TRUE]
            [] c.recvResult = "error" ->
                 [b EXCEPT !.recvPB = "none", !.recvResult = "noErr",
                           !.packet = NoDatagram, !.fAsyncError = TRUE,
                           !.fReadShutdown = TRUE, !.wake = TRUE]
  BY <1>1 DEF RecvDone
<1> HIDE DEF b, c, n
<1>5. [Recv(b) EXCEPT !.wake = TRUE].cut
  BY <1>1 DEF Recv, SockFields
<1>6. [b EXCEPT !.recvPB = "none", !.recvResult = "noErr", !.packet = NoDatagram,
                !.fAsyncError = TRUE, !.fReadShutdown = TRUE, !.wake = TRUE].cut
  BY <1>1 DEF SockFields
<1>7. Accept(b).cut
  <2> DEFINE d == b.packet
             needed == d.len + HeaderSize
             p == Produce(Produce(b.input, Header(d)), Body(d))
             r == BfrReturn(b)
             waits == [b EXCEPT !.inDeferred = "RecvDone"]
             stores == [r EXCEPT !.input = p, !.stored = <<d>>,
                         !.cut = @ \/ Len(p.bytes) < Len(b.input.bytes) + needed]
             a == Accept(b)
  <2>1. a = CASE b.input.ring.size < needed -> r
              [] b.input.ring.size >= needed /\ b.input.ring.free < needed -> waits
              [] b.input.ring.free >= needed /\ b.fPeerAddr \notin {NoPeer, d.peer} -> r
              [] OTHER -> stores
    BY Zenon DEF Accept
  <2>2. r.cut /\ DOMAIN r = SockFields
    BY <1>1 DEF BfrReturn, SockFields
  <2>3. waits.cut
    BY <1>1 DEF SockFields
  <2> HIDE DEF r, p, needed, d
  <2>4. stores.cut
    BY <2>2 DEF SockFields
  <2> HIDE DEF waits, stores, a
  <2>5. a = r \/ a = waits \/ a = stores
    BY <2>1
  <2>6. QED
    BY <2>2, <2>3, <2>4, <2>5 DEF a
<1>8. s.inDeferred = "RecvDone" => n.cut
  BY <1>1, <1>2, <1>4, <1>5, <1>6, <1>7 DEF Results
<1>9. QED
  BY <1>1, <1>3, <1>8 DEF n

LEMMA ReceiverData ==
  ASSUME UdpInv, DataInv, NEW from, NEW to, Continue("receiver", from, to),
         NEW b, SoundSocket(b), SendSame(sock, b), b.stored = <<>>,
         NEW s, s = b \/ s = ReleaseInput(b), Turns(s),
         b.cut \/ InputKept(b, due, to, call'),
         call'.put = call.put, call'.len \in Nat
  PROVE  KeptInv'
<1>1. pc'["receiver"] = to /\ pc'["sender"] = pc["sender"]
  BY DEF UdpInv, OneRuns, Continue, Threads
<1>2. CASE b.cut
  <2>1. s.cut
    BY <1>2, CutStays
  <2>2. QED
    BY <2>1 DEF KeptInv, Turns, Becomes
<1>3. CASE ~b.cut /\ s = b
  <2>1. due \o <<>> = due
    BY ConcatEmptySeq DEF DataInv, InputKept
  <2>2. InputKept(s, due \o s.stored, to, call')
    BY <1>3, <2>1
  <2>3. QED
    BY <1>1, <1>3, <2>2, InputTurns
<1>4. CASE ~b.cut /\ s = ReleaseInput(b)
  <2>1. SoundSocket(s)
    BY <1>4, ReleaseInputKeeps
  <2>2. /\ s.cut \/ InputKept(s, due \o s.stored, to, call')
        /\ SendSame(b, s)
    BY <1>4, ReleaseInputStores
  <2>3. SendSame(sock, s)
    BY <2>2 DEF SendSame
  <2>4. QED
    BY <1>1, <2>1, <2>2, <2>3, InputTurns
<1>5. QED
  BY <1>2, <1>3, <1>4

\* Every datagram in a buffer has its header there.
LEMMA StoredLong ==
  ASSUME NEW q \in Seq(Messages), q # <<>>
  PROVE  Len(StoredBytes(q)) >= HeaderSize
<1> DEFINE p == Packed(Head(q))
           t == StoredBytes(Tail(q))
<1>1. Head(q) \in Messages /\ t \in Seq(Octets) /\ StoredBytes(q) = p \o t
  BY StoredFirst
<1>2. /\ p \in Seq(Octets) /\ Len(p) = HeaderSize + Head(q).len
      /\ Head(q).len \in Nat /\ HeaderSize \in Nat
  BY <1>1, PackedBytes, SizesFacts DEF Messages
<1> HIDE DEF p, t
<1>3. Len(p \o t) = Len(p) + Len(t) /\ Len(t) \in Nat
  BY <1>1, <1>2, OctetFacts
<1>4. QED
  BY <1>1, <1>2, <1>3

\* A sequence is put together again from its parts.
LEMMA PartsJoin ==
  ASSUME NEW x \in Seq(Octets), NEW k \in 0 .. Len(x)
  PROVE  SubSeq(x, 1, k) \o SubSeq(x, k + 1, Len(x)) = x
<1> DEFINE u == SubSeq(x, 1, k)
           v == SubSeq(x, k + 1, Len(x))
           n == Len(x)
<1>1. n \in Nat /\ k \in Nat /\ k <= n
  BY LenProperties
<1>2. /\ u \in Seq(Octets) /\ Len(u) = k /\ v \in Seq(Octets) /\ Len(v) = n - k
      /\ \A i \in 1 .. k : u[i] = x[i]
      /\ \A i \in 1 .. n - k : v[i] = x[k + i]
  BY Taken
<1> HIDE DEF u, v, n
<1>3. /\ u \o v \in Seq(Octets) /\ Len(u \o v) = Len(u) + Len(v)
      /\ \A i \in 1 .. Len(u) + Len(v) :
           (u \o v)[i] = IF i <= Len(u) THEN u[i] ELSE v[i - Len(u)]
  BY <1>2, ConcatProperties
<1>4. Len(u \o v) = n
  BY <1>1, <1>2, <1>3
<1>5. \A i \in 1 .. n : (u \o v)[i] = x[i]
  <2>1. ASSUME NEW i \in 1 .. n PROVE (u \o v)[i] = x[i]
    <3>1. (u \o v)[i] = IF i <= k THEN u[i] ELSE v[i - k]
      BY <1>1, <1>2, <1>3, <2>1
    <3>2. CASE i <= k
      BY <1>1, <1>2, <3>1, <3>2
    <3>3. CASE ~(i <= k)
      <4>1. i - k \in 1 .. n - k /\ k + (i - k) = i
        BY <1>1, <3>3
      <4>2. QED
        BY <1>2, <3>1, <3>3, <4>1
    <3>4. QED
      BY <3>2, <3>3
  <2>2. QED
    BY <2>1
<1>6. u \o v = x
  BY <1>3, <1>4, <1>5, SeqEqual DEF n
<1>7. QED
  BY <1>6 DEF u, v

\* What begins with the bytes of a header is the header of the first datagram.
LEMMA HeaderWhole ==
  ASSUME NEW q \in Seq(Messages), NEW read \in Seq(Octets), NEW left \in Seq(Octets),
         read \o left = StoredBytes(q), Len(read) = HeaderSize
  PROVE  /\ q # <<>> /\ Head(q) \in Messages
         /\ read = Header(Head(q)) /\ left = BytesOf(q, "between")
<1>1. q # <<>>
  <2>1. Len(read \o left) = HeaderSize + Len(left) /\ Len(left) \in Nat
    BY OctetFacts
  <2>2. HeaderSize \in Nat /\ HeaderSize > 0
    BY SizesFacts
  <2>3. StoredBytes(<<>>) = <<>> /\ Len(<<>>) = 0
    BY StoredNothing, EmptySeq
  <2>4. QED
    BY <2>1, <2>2, <2>3
<1> DEFINE h == Head(q)
           g == Header(h)
           y == Body(h)
           t == StoredBytes(Tail(q))
           z == y \o t
<1>2. h \in Messages /\ t \in Seq(Octets) /\ StoredBytes(q) = Packed(h) \o t
  BY <1>1, StoredFirst
<1>3. g \in Seq(Octets) /\ Len(g) = HeaderSize /\ y \in Seq(Octets) /\ Packed(h) = g \o y
  BY <1>2, PackedBytes DEF Packed
<1>4. BytesOf(q, "between") = z
  BY DEF BytesOf
<1> HIDE DEF h, g, y, t
<1>5. (g \o y) \o t = g \o (y \o t)
  BY <1>2, <1>3, OctetsAssociate
<1>6. z \in Seq(Octets)
  BY <1>2, <1>3, OctetFacts
<1>7. read \o left = g \o z
  BY <1>2, <1>3, <1>5
<1> HIDE DEF z
<1>8. /\ SubSeq(read \o left, 1, Len(read)) = read
      /\ SubSeq(read \o left, Len(read) + 1, Len(read \o left)) = left
  BY OctetFacts
<1>9. /\ SubSeq(g \o z, 1, Len(g)) = g
      /\ SubSeq(g \o z, Len(g) + 1, Len(g \o z)) = z
  BY <1>3, <1>6, OctetFacts
<1>10. read = g /\ left = z
  BY <1>3, <1>7, <1>8, <1>9
<1>11. QED
  BY <1>1, <1>2, <1>4, <1>10 DEF h, g

\* A header names its datagram.
LEMMA HeaderNames ==
  ASSUME NEW d \in Messages
  PROVE  Head(Header(d))[1] = d
<1>1. HeaderSize \in Nat /\ HeaderSize > 0
  BY SizesFacts
<1>2. 1 \in 1 .. HeaderSize
  BY <1>1
<1>3. Header(d)[1] = <<d, 1>>
  BY <1>2 DEF Header
<1>4. Head(Header(d)) = Header(d)[1]
  OBVIOUS
<1>5. QED
  BY <1>3, <1>4

\* A part of a header is read: of the datagram that was accepted first.
LEMMA HeaderFreeData ==
  ASSUME UdpInv, DataInv, HeaderFree
  PROVE  KeptInv'
<1> DEFINE x == sock.input.bytes
           n == call.part
           read == call.got \o SubSeq(x, 1, n)
           left == SubSeq(x, n + 1, Len(x))
           f == FreeFront(sock.input, n)
           b == [sock EXCEPT !.input = f]
           to == IF Len(read) < HeaderSize THEN "ready" ELSE "between"
<1>1. /\ Continue("receiver", "header", to) /\ pc["receiver"] = "header"
      /\ call' = [call EXCEPT !.got = read, !.part = 0] /\ Turns(ReleaseInput(b))
  BY DEF HeaderFree, Continue
<1>2. /\ SoundSocket(b) /\ SendSame(sock, b) /\ b.stored = <<>> /\ b.input = f
      /\ b.recvPB = sock.recvPB /\ b.recvResult = sock.recvResult
      /\ b.packet = sock.packet
  BY DEF UdpInv, DataInv, SoundSocket, SockFields, SendSame
<1>3. InputKept(sock, due, "header", call) /\ call.len \in Nat
      /\ DOMAIN call = {"put", "len", "got", "part"}
  BY <1>1 DEF DataInv, UdpInv
<1> HIDE DEF b
<1>4. /\ GoodBuffer(sock.input) /\ due \in Seq(Messages) /\ call.got \in Seq(Octets)
      /\ sock.recvPB = "hasRead" /\ sock.recvResult = "noErr" => sock.packet \in Datagrams
      /\ n \in Nat /\ Len(call.got) + n <= HeaderSize /\ OnePiece(sock.input.ring, n)
      /\ call.got \o x = StoredBytes(due)
  BY <1>3 DEF InputKept, HeaderKept, Had, TakesOne, BytesOf
<1>5. GoodBuffer(f) /\ f.bytes = left
  BY <1>4, FreeFrontKeeps
<1>6. x \in Seq(Octets) /\ n \in 0 .. Len(x)
  <2>1. Len(x) = sock.input.ring.valid /\ x \in Seq(Octets) /\ Len(x) \in Nat
    BY <1>4, LenProperties DEF GoodBuffer
  <2>2. n <= sock.input.ring.valid
    BY <1>4 DEF OnePiece
  <2>3. QED
    BY <1>4, <2>1, <2>2
<1>7. /\ SubSeq(x, 1, n) \in Seq(Octets) /\ Len(SubSeq(x, 1, n)) = n
      /\ left \in Seq(Octets) /\ SubSeq(x, 1, n) \o left = x
  <2>1. /\ SubSeq(x, 1, n) \in Seq(Octets) /\ Len(SubSeq(x, 1, n)) = n
        /\ SubSeq(x, n + 1, Len(x)) \in Seq(Octets)
    <3> HIDE DEF x, n
    <3>1. QED
      BY <1>6, Taken
  <2>2. SubSeq(x, 1, n) \o SubSeq(x, n + 1, Len(x)) = x
    <3> HIDE DEF x, n
    <3>1. QED
      BY <1>6, PartsJoin
  <2>3. QED
    BY <2>1, <2>2
<1>8. call'.put = call.put /\ call'.len = call.len /\ call'.got = read
  BY <1>1, <1>3
<1> DEFINE part == SubSeq(x, 1, n)
<1>9. /\ part \in Seq(Octets) /\ Len(part) = n /\ left \in Seq(Octets)
      /\ part \o left = x /\ read = call.got \o part
  BY <1>7
<1> HIDE DEF x, n, read, left, f, part
<1>10. /\ read \in Seq(Octets) /\ Len(read) \in Nat /\ Len(read) <= HeaderSize
       /\ read \o left = StoredBytes(due)
  <2>1. (call.got \o part) \o left = call.got \o (part \o left)
    BY <1>4, <1>9, OctetsAssociate
  <2>2. /\ call.got \o part \in Seq(Octets)
        /\ Len(call.got \o part) = Len(call.got) + Len(part) /\ Len(call.got) \in Nat
    BY <1>4, <1>9, OctetFacts
  <2>3. QED
    BY <1>4, <1>9, <2>1, <2>2
<1>11. InputKept(b, due, to, call')
  <2>1. CASE Len(read) < HeaderSize
    <3>1. /\ to = "ready" /\ Had(to, call') = read /\ BytesOf(due, to) = StoredBytes(due)
      BY <1>8, <2>1 DEF Had, TakesOne, BytesOf
    <3>2. HeaderKept(f.ring, to, call')
      BY <1>8, <2>1, <3>1 DEF HeaderKept
    <3> HIDE DEF to
    <3>3. QED
      BY <1>2, <1>4, <1>5, <1>8, <1>10, <3>1, <3>2 DEF InputKept, TakesOne
  <2>2. CASE ~(Len(read) < HeaderSize)
    <3>1. to = "between" /\ Had(to, call') = <<>>
      BY <2>2 DEF Had, TakesOne
    <3>2. Len(read) = HeaderSize
      BY <1>10, <2>2, SizesFacts
    <3>3. due # <<>> /\ read = Header(Head(due)) /\ left = BytesOf(due, "between")
      BY <1>4, <1>9, <1>10, <3>2, HeaderWhole
    <3>4. <<>> \o left = left
      BY <1>9, ConcatEmptySeq
    <3>5. HeaderKept(f.ring, to, call')
      BY <3>1 DEF HeaderKept, TakesOne
    <3> HIDE DEF to
    <3>6. QED
      BY <1>2, <1>4, <1>5, <1>8, <1>10, <3>1, <3>3, <3>4, <3>5 DEF InputKept, TakesOne
  <2>3. QED
    BY <2>1, <2>2
<1> HIDE DEF to
<1>12. QED
  BY <1>1, <1>2, <1>3, <1>8, <1>11, ReceiverData

\* The first datagram is in the hands of the receiver, and no longer in the buffer.
LEMMA TakenAway ==
  ASSUME NEW s, NEW q, NEW from, NEW c, InputKept(s, q, from, c), q # <<>>,
         NEW n, GoodBuffer(n.input), n.input.bytes = StoredBytes(Tail(q)),
         n.recvPB = s.recvPB, n.recvResult = s.recvResult, n.packet = s.packet,
         NEW e, e.got = Body(Head(q))
  PROVE  InputKept(n, q, "return", e)
<1>1. e.got \in Seq(Octets)
  BY StoredFirst, PackedBytes DEF InputKept
<1>2. HeaderKept(n.input.ring, "return", e)
  BY DEF HeaderKept, TakesOne
<1>3. Had("return", e) = <<>> /\ BytesOf(q, "return") = StoredBytes(Tail(q))
  BY DEF Had, TakesOne, BytesOf
<1>4. <<>> \o n.input.bytes = n.input.bytes
  BY ConcatEmptySeq DEF GoodBuffer
<1>5. QED
  BY <1>1, <1>2, <1>3, <1>4 DEF InputKept, TakesOne

\* recvfrom reads what was accepted first, and its length is the one of its header.
LEMMA ReceiverStepData ==
  ASSUME UdpInv, DataInv, \/ HeaderConsume \/ HeaderFree \/ GarbageConsume \/ NoData
                          \/ DataLock \/ DataConsume \/ PeekLock \/ PeekRelease
  PROVE  KeptInv'
<1> DEFINE locks == [sock EXCEPT !.inLocked = TRUE]
<1>1. /\ SoundSocket(sock) /\ SendSame(sock, sock) /\ sock.stored = <<>>
      /\ SoundSocket(locks) /\ SendSame(sock, locks) /\ RecvSame(sock, locks)
      /\ locks.stored = <<>>
  BY DEF UdpInv, DataInv, SoundSocket, SockFields, SendSame, RecvSame
<1>2. /\ DOMAIN call = {"put", "len", "got", "part"} /\ call.len \in Nat
      /\ InputKept(sock, due, pc["receiver"], call)
      /\ due \in Seq(Messages) /\ GoodBuffer(sock.input) /\ call.got \in Seq(Octets)
  BY DEF UdpInv, DataInv, InputKept
<1>3. InputKept(locks, due, pc["receiver"], call)
  BY <1>1, <1>2, SameInput
<1>4. /\ ReceiverReturns.put = call.put /\ ReceiverReturns.len \in Nat
      /\ ReceiverReturns.got = <<>>
  BY <1>2 DEF ReceiverReturns
<1> DEFINE h == Head(due)
<1> HIDE DEF locks
<1>6. CASE HeaderConsume
  <2> DEFINE n == LoanLength(sock.input.ring, HeaderSize - Len(call.got))
  <2>1. /\ Continue("receiver", "ready", "header") /\ pc["receiver"] = "ready"
        /\ Turns(ReleaseInput(sock)) /\ call' = [call EXCEPT !.part = n]
    BY <1>6 DEF HeaderConsume, Continue
  <2>2. /\ call'.part = n /\ call'.got = call.got /\ call'.put = call.put
        /\ call'.len = call.len
    BY <1>2, <2>1
  <2>3. InputKept(sock, due, "ready", call)
    BY <1>2, <2>1
  <2>4. /\ Len(call.got) \in Nat /\ HeaderSize \in Nat /\ Len(call.got) < HeaderSize
    BY <1>2, <2>3, LenProperties, SizesFacts DEF InputKept, HeaderKept
  <2>5. n \in 0 .. HeaderSize - Len(call.got) /\ OnePiece(sock.input.ring, n)
    <3>1. HeaderSize - Len(call.got) \in Nat
      BY <2>4
    <3>2. QED
      BY <1>2, <3>1, LoanLengthBounds DEF GoodBuffer, OnePiece
  <2> HIDE DEF n
  <2>6. n \in Nat /\ Len(call.got) + n <= HeaderSize
    BY <2>4, <2>5
  <2>7. InputKept(sock, due, "header", call')
    <3>1. /\ Had("ready", call) = call.got /\ Had("header", call') = call.got
          /\ BytesOf(due, "ready") = BytesOf(due, "header")
      BY <2>2 DEF Had, TakesOne, BytesOf
    <3>2. HeaderKept(sock.input.ring, "header", call')
      BY <2>2, <2>4, <2>5, <2>6 DEF HeaderKept, TakesOne
    <3>3. QED
      BY <2>2, <2>3, <3>1, <3>2 DEF InputKept, TakesOne
  <2>8. QED
    BY <1>1, <1>2, <2>1, <2>2, <2>7, ReceiverData
<1>7. CASE HeaderFree
  BY <1>7, HeaderFreeData
<1>8. CASE GarbageConsume
  <2> DEFINE x == Consume(sock.input, call.len)
             c == call.len > 0 /\ sock.input.ring.valid > 0
             b == [sock EXCEPT !.input = x, !.cut = c]
  <2>1. /\ Continue("receiver", "garbage", "idle") /\ pc["receiver"] = "garbage"
        /\ Turns(b) /\ call' = ReceiverReturns
    BY <1>8 DEF GarbageConsume, Continue
  <2>2. /\ GoodBuffer(x)
        /\ x.bytes = SubSeq(sock.input.bytes,
                            Smaller(call.len, sock.input.ring.valid) + 1,
                            Len(sock.input.bytes))
    BY <1>2, ConsumeKeeps
  <2>3. c \/ x.bytes = sock.input.bytes
    <3>1. SUFFICES ASSUME ~c PROVE x.bytes = sock.input.bytes
      OBVIOUS
    <3>2. sock.input.bytes \in Seq(Octets) /\ Len(sock.input.bytes) = sock.input.ring.valid
          /\ sock.input.ring.valid \in Nat
      BY <1>2, LenProperties DEF GoodBuffer
    <3>3. Smaller(call.len, sock.input.ring.valid) = 0
      BY <1>2, <3>1, <3>2 DEF Smaller
    <3> HIDE DEF x
    <3>4. x.bytes = SubSeq(sock.input.bytes, 1, Len(sock.input.bytes))
      BY <2>2, <3>3
    <3>5. QED
      BY <3>2, <3>4, WholeTaken
  <2> HIDE DEF x, c
  <2>4. /\ SoundSocket(b) /\ SendSame(sock, b) /\ b.stored = <<>> /\ b.input = x
        /\ b.cut = c /\ b.recvPB = sock.recvPB /\ b.recvResult = sock.recvResult
        /\ b.packet = sock.packet
    BY <1>1 DEF SoundSocket, SockFields, SendSame
  <2> HIDE DEF b
  <2>5. call.got = <<>>
    BY <1>2, <2>1 DEF InputKept, HeaderKept, TakesOne
  <2>6. HeaderKept(x.ring, "garbage", call)
    BY <2>5 DEF HeaderKept
  <2>7. b.cut \/ InputKept(b, due, "garbage", call)
    BY <1>2, <2>1, <2>2, <2>3, <2>4, <2>6 DEF InputKept
  <2>8. b.cut \/ InputKept(b, due, "idle", call')
    BY <1>4, <2>1, <2>5, <2>7, InputElsewhere DEF TakesOne
  <2>9. QED
    BY <1>4, <2>1, <2>4, <2>8, ReceiverData
<1>9. CASE DataLock
  <2>1. /\ Continue("receiver", "between", "data") /\ Turns(locks) /\ call' = call
        /\ pc["receiver"] = "between"
    BY <1>9 DEF DataLock, Continue, locks
  <2>2. InputKept(locks, due, "data", call)
    BY <1>3, <2>1 DEF InputKept, BytesOf, TakesOne, Had, HeaderKept
  <2>3. QED
    BY <1>1, <1>2, <2>1, <2>2, ReceiverData
\* What is known where the header has been read.
<1>10. ASSUME pc["receiver"] \in {"between", "data"}
       PROVE  /\ due # <<>> /\ HeaderRead = h
              /\ sock.input.bytes = BytesOf(due, "between")
              /\ h.len \in Nat /\ h.len <= Len(sock.input.bytes)
              /\ SubSeq(sock.input.bytes, 1, h.len) = Body(h)
              /\ SubSeq(sock.input.bytes, h.len + 1, Len(sock.input.bytes))
                   = StoredBytes(Tail(due))
              /\ sock.input.bytes \in Seq(Octets)
  <2> DEFINE place == pc["receiver"]
             x == sock.input.bytes
  <2>1. place \in TakesOne /\ BytesOf(due, place) = BytesOf(due, "between")
    BY <1>10 DEF TakesOne, BytesOf
  <2>2. due # <<>> /\ call.got = Header(h) /\ <<>> \o x = BytesOf(due, "between")
    BY <1>2, <1>10, <2>1 DEF InputKept, Had
  <2>3. x \in Seq(Octets) /\ <<>> \o x = x
    BY <1>2, ConcatEmptySeq DEF GoodBuffer
  <2>4. h \in Messages
    BY <1>2, <2>2, StoredFirst
  <2>5. HeaderRead = h
    BY <2>2, <2>4, HeaderNames DEF HeaderRead
  <2>6. x = BytesOf(due, "between")
    BY <2>2, <2>3
  <2> HIDE DEF x
  <2>7. /\ h.len \in Nat /\ h.len <= Len(x) /\ SubSeq(x, 1, h.len) = Body(h)
        /\ SubSeq(x, h.len + 1, Len(x)) = StoredBytes(Tail(due))
    BY <1>2, <2>2, <2>6, DataComesNext
  <2>8. QED
    BY <2>2, <2>3, <2>5, <2>6, <2>7 DEF x
<1>11. CASE DataConsume
  <2> DEFINE n == Fits
             x == Consume(sock.input, n)
             c == n < HeaderRead.len
             b == [sock EXCEPT !.input = x, !.cut = c]
  <2>1. /\ Continue("receiver", "data", "return") /\ pc["receiver"] = "data"
        /\ Turns(ReleaseInput(b))
        /\ call' = [call EXCEPT !.got = SubSeq(sock.input.bytes, 1, n), !.len = 0]
    BY <1>11 DEF DataConsume, Continue
  <2>2. /\ due # <<>> /\ HeaderRead = h
        /\ h.len \in Nat /\ h.len <= Len(sock.input.bytes)
        /\ SubSeq(sock.input.bytes, 1, h.len) = Body(h)
        /\ SubSeq(sock.input.bytes, h.len + 1, Len(sock.input.bytes))
             = StoredBytes(Tail(due))
        /\ sock.input.bytes \in Seq(Octets)
    BY <1>10, <2>1
  <2> HIDE DEF h
  <2>3. n \in Nat /\ n <= h.len /\ (c \/ n = h.len)
    BY <1>2, <2>2 DEF Smaller, Fits
  <2>4. Smaller(h.len, sock.input.ring.valid) = h.len
    <3>1. Len(sock.input.bytes) = sock.input.ring.valid /\ Len(sock.input.bytes) \in Nat
      BY <1>2, LenProperties DEF GoodBuffer
    <3>2. QED
      BY <2>2, <3>1 DEF Smaller
  <2> HIDE DEF n, c
  <2>5. /\ GoodBuffer(x)
        /\ x.bytes = SubSeq(sock.input.bytes, Smaller(n, sock.input.ring.valid) + 1,
                            Len(sock.input.bytes))
    BY <1>2, <2>3, ConsumeKeeps
  <2> HIDE DEF x
  <2>6. c \/ x.bytes = StoredBytes(Tail(due))
    BY <2>2, <2>3, <2>4, <2>5
  <2>7. /\ call'.put = call.put /\ call'.len = 0
        /\ call'.got = SubSeq(sock.input.bytes, 1, n)
    BY <1>2, <2>1
  <2>8. c \/ call'.got = Body(h)
    BY <2>2, <2>3, <2>7
  <2>9. /\ SoundSocket(b) /\ SendSame(sock, b) /\ b.stored = <<>> /\ b.input = x
        /\ b.cut = c /\ b.recvPB = sock.recvPB /\ b.recvResult = sock.recvResult
        /\ b.packet = sock.packet
    BY <1>1 DEF SoundSocket, SockFields, SendSame
  <2> HIDE DEF b
  <2>10. b.cut \/ InputKept(b, due, "return", call')
    BY <1>2, <2>2, <2>5, <2>6, <2>8, <2>9, TakenAway DEF h
  <2>11. QED
    BY <2>1, <2>7, <2>9, <2>10, ReceiverData
<1>12. CASE NoData
  <2> DEFINE c == HeaderRead.len > 0
             b == [sock EXCEPT !.cut = c]
  <2>1. /\ Continue("receiver", "between", "return") /\ pc["receiver"] = "between"
        /\ Turns(b) /\ call' = [call EXCEPT !.got = <<>>, !.len = 0]
    BY <1>12 DEF NoData, Continue
  <2>2. /\ due # <<>> /\ HeaderRead = h
        /\ h.len \in Nat
        /\ SubSeq(sock.input.bytes, 1, h.len) = Body(h)
        /\ SubSeq(sock.input.bytes, h.len + 1, Len(sock.input.bytes))
             = StoredBytes(Tail(due))
        /\ sock.input.bytes \in Seq(Octets)
    BY <1>10, <2>1
  <2>3. SubSeq(sock.input.bytes, 1, 0) = <<>>
        /\ SubSeq(sock.input.bytes, 1, Len(sock.input.bytes)) = sock.input.bytes
    BY <2>2, WholeTaken
  <2> HIDE DEF h
  <2>4. c \/ h.len = 0
    BY <2>2
  <2>5. c \/ (Body(h) = <<>> /\ sock.input.bytes = StoredBytes(Tail(due)))
    <3>1. SUFFICES ASSUME h.len = 0
                   PROVE  Body(h) = <<>> /\ sock.input.bytes = StoredBytes(Tail(due))
      BY <2>4
    <3>2. 0 + 1 = 1
      OBVIOUS
    <3>3. QED
      BY <2>2, <2>3, <3>1, <3>2
  <2>6. call'.put = call.put /\ call'.len = 0 /\ call'.got = <<>>
    BY <1>2, <2>1
  <2> HIDE DEF c
  <2>7. /\ SoundSocket(b) /\ SendSame(sock, b) /\ b.stored = <<>>
        /\ b.input = sock.input
        /\ b.cut = c /\ b.recvPB = sock.recvPB /\ b.recvResult = sock.recvResult
        /\ b.packet = sock.packet
    BY <1>1 DEF SoundSocket, SockFields, SendSame
  <2> HIDE DEF b
  <2>8. b.cut \/ InputKept(b, due, "return", call')
    BY <1>2, <2>2, <2>5, <2>6, <2>7, TakenAway DEF h
  <2>9. QED
    BY <2>1, <2>6, <2>7, <2>8, ReceiverData
<1>13. CASE PeekLock
  <2>1. /\ Continue("receiver", "ready", "peek") /\ Turns(locks) /\ call' = call
        /\ pc["receiver"] = "ready" /\ call.got = <<>>
    BY <1>13 DEF PeekLock, Continue, locks
  <2>2. InputKept(locks, due, "peek", call)
    BY <1>3, <2>1, InputElsewhere DEF TakesOne
  <2>3. QED
    BY <1>1, <1>2, <2>1, <2>2, ReceiverData
<1>14. CASE PeekRelease
  <2>1. /\ Continue("receiver", "peek", "idle") /\ Turns(ReleaseInput(sock))
        /\ call' = ReceiverReturns /\ pc["receiver"] = "peek"
    BY <1>14 DEF PeekRelease, Continue
  <2>2. call.got = <<>>
    BY <1>2, <2>1 DEF InputKept, HeaderKept, TakesOne
  <2>3. InputKept(sock, due, "idle", call')
    BY <1>2, <1>4, <2>1, <2>2, InputElsewhere DEF TakesOne
  <2>4. QED
    BY <1>1, <1>4, <2>1, <2>3, ReceiverData
<1>15. QED
  BY <1>6, <1>7, <1>8, <1>9, <1>11, <1>12, <1>13, <1>14

\* What is stored behind the datagrams that are waiting, while the buffer is locked.
LEMMA OwedBytes ==
  ASSUME NEW s, NEW o \in Seq(Messages), NEW place, NEW put, Sends(s, o, place, put)
  PROVE  /\ BytesOf(o, Taking(s)) \in Seq(Octets)
         /\ BytesOf(o, Taking(s)) \o <<>> = BytesOf(o, Taking(s))
         /\ Taking(s) \in TakesOne => o # <<>>
<1>1. Taking(s) \in TakesOne => o # <<>>
  BY DEF Taking, Sends, WritesFirst, TakesOne
<1>2. BytesOf(o, Taking(s)) \in Seq(Octets)
  <2>1. CASE s.sendPB = "none"
    BY <2>1, StoredAreBytes DEF Taking, BytesOf
  <2>2. CASE s.sendPB # "none"
    BY <1>1, <2>2, DataComesNext DEF Taking, TakesOne
  <2>3. QED
    BY <2>1, <2>2
<1>3. QED
  BY <1>1, <1>2, ConcatEmptySeq

LEMMA HeaderStored ==
  ASSUME NEW s, NEW o \in Seq(Messages), NEW put \in Messages,
         Sends(s, o, "locked", put),
         NEW n, n.output = Produce(s.output, Header(put)),
         n.outDeferred = s.outDeferred, n.sendPB = s.sendPB, n.wds = s.wds,
         n.fState = s.fState,
         ~(Len(n.output.bytes) < Len(s.output.bytes) + HeaderSize)
  PROVE  Sends(n, o, "halfway", put)
<1> DEFINE x == BytesOf(o, Taking(s))
           g == Header(put)
<1>1. g \in Seq(Octets) /\ Len(g) = HeaderSize
  BY PackedBytes
<1>2. x \in Seq(Octets) /\ s.output.bytes = x
  BY OwedBytes DEF Sends, Half
<1> HIDE DEF g
<1>3. /\ GoodBuffer(n.output) /\ n.output.bytes = s.output.bytes \o g
      /\ \A k \in Nat : OnePiece(s.output.ring, k) => OnePiece(n.output.ring, k)
  BY <1>1, ProduceKeeps DEF Sends, g
<1>4. Taking(n) = Taking(s)
  BY DEF Taking
<1>5. WritesFirst(s, o) => WritesFirst(n, o)
  <2>1. SUFFICES ASSUME WritesFirst(s, o) PROVE WritesFirst(n, o)
    OBVIOUS
  <2>2. o # <<>> /\ OnePiece(s.output.ring, Head(o).len)
    BY <2>1 DEF WritesFirst
  <2>3. Head(o) \in Messages
    BY <2>2, StoredFirst
  <2>4. Head(o).len \in Nat
    BY <2>3 DEF Messages
  <2>5. OnePiece(n.output.ring, Head(o).len)
    BY <1>3, <2>2, <2>4
  <2>6. QED
    BY <2>1, <2>5 DEF WritesFirst
<1>6. Half("halfway", put) = g
  BY DEF Half, g
<1>7. n.output.bytes = BytesOf(o, Taking(n)) \o Half("halfway", put)
  BY <1>2, <1>3, <1>4, <1>6 DEF x
<1>8. QED
  BY <1>3, <1>5, <1>7 DEF Sends

\* A sendto that had made its last test before the error.
LEMMA HeaderAnew ==
  ASSUME NEW s, NEW o, NEW put \in Messages, GivenUp(s, o, "locked"),
         NEW n, n.output = Produce(s.output, Header(put)),
         n.outDeferred = s.outDeferred, n.sendPB = s.sendPB, n.fState = s.fState,
         ~(Len(n.output.bytes) < Len(s.output.bytes) + HeaderSize)
  PROVE  Sends(n, o, "halfway", put)
<1> DEFINE g == Header(put)
           b == s.output
<1>1. /\ g \in Seq(Octets) /\ Len(g) = HeaderSize /\ HeaderSize > 0
  BY PackedBytes, SizesFacts
<1>2. b.ring \in Ring /\ b.ring.valid = 0 /\ b.bytes = <<>> /\ n.output = Produce(b, g)
      /\ ~(Len(Produce(b, g).bytes) < Len(b.bytes) + HeaderSize)
  BY DEF GivenUp
<1> HIDE DEF g, b
<1>3. GoodBuffer(n.output) /\ n.output.bytes = <<>> \o g
  BY <1>1, <1>2, ProduceAnew
<1>4. Taking(n) = "idle" /\ Half("halfway", put) = g
  BY DEF GivenUp, Taking, Half, g
<1>5. BytesOf(o, "idle") = <<>>
  BY StoredNothing DEF GivenUp, BytesOf
<1>6. QED
  BY <1>3, <1>4, <1>5 DEF Sends, GivenUp

LEMMA DataStored ==
  ASSUME NEW s, NEW o \in Seq(Messages), NEW put \in Messages,
         Sends(s, o, "halfway", put),
         NEW n, n.output = Produce(s.output, Body(put)),
         n.outDeferred = s.outDeferred, n.sendPB = s.sendPB, n.wds = s.wds,
         n.fState = s.fState,
         ~(Len(n.output.bytes) < Len(s.output.bytes) + put.len)
  PROVE  Append(o, put) \in Seq(Messages) /\ Sends(n, Append(o, put), "stored", put)
<1> DEFINE x == BytesOf(o, Taking(s))
           g == Header(put)
           y == Body(put)
           r == Append(o, put)
<1>1. /\ g \in Seq(Octets) /\ y \in Seq(Octets) /\ Len(y) = put.len
      /\ Packed(put) = g \o y
  BY PackedBytes DEF Packed
<1>2. x \in Seq(Octets) /\ s.output.bytes = x \o g /\ (Taking(s) \in TakesOne => o # <<>>)
  BY OwedBytes DEF Sends, Half
<1>3. r = o \o <<put>> /\ r \in Seq(Messages) /\ r # <<>>
  BY AppendIsConcat, AppendProperties
<1> HIDE DEF g, y, r, x
<1>4. /\ GoodBuffer(n.output) /\ n.output.bytes = s.output.bytes \o y
      /\ \A k \in Nat : OnePiece(s.output.ring, k) => OnePiece(n.output.ring, k)
  BY <1>1, ProduceKeeps DEF Sends, y
<1>5. /\ o # <<>> => Head(r) = Head(o)
      /\ BytesOf(r, Taking(s)) = x \o Packed(put)
  BY <1>2, <1>3, OneMore DEF x
<1>6. Taking(n) = Taking(s)
  BY DEF Taking
<1>7. WritesFirst(s, o) => WritesFirst(n, r)
  <2>1. SUFFICES ASSUME WritesFirst(s, o) PROVE WritesFirst(n, r)
    OBVIOUS
  <2>2. o # <<>> /\ OnePiece(s.output.ring, Head(o).len)
    BY <2>1 DEF WritesFirst
  <2>3. Head(o) \in Messages
    BY <2>2, StoredFirst
  <2>4. Head(o).len \in Nat
    BY <2>3 DEF Messages
  <2>5. OnePiece(n.output.ring, Head(o).len)
    BY <1>4, <2>2, <2>4
  <2>6. QED
    BY <1>3, <1>5, <2>1, <2>2, <2>5 DEF WritesFirst
<1>8. n.output.bytes = BytesOf(r, Taking(n)) \o Half("stored", put)
  <2>1. (x \o g) \o y = x \o (g \o y)
    BY <1>1, <1>2, OctetsAssociate
  <2>2. n.output.bytes = BytesOf(r, Taking(n))
    BY <1>1, <1>2, <1>4, <1>5, <1>6, <2>1
  <2>3. n.output.bytes \o <<>> = n.output.bytes
    BY <1>4, ConcatEmptySeq DEF GoodBuffer
  <2>4. QED
    BY <2>2, <2>3 DEF Half
<1>9. Sends(n, r, "stored", put)
  BY <1>4, <1>7, <1>8 DEF Sends
<1>10. QED
  BY <1>3, <1>9 DEF r

LEMMA SenderData ==
  ASSUME UdpInv, DataInv, NEW from, NEW to, Continue("sender", from, to),
         NEW s, SoundSocket(s), RecvSame(sock, s), Becomes(s), due' = due,
         s.cut \/ OutputKept(s, owed', to, call'.put),
         call'.part = call.part, call'.len = call.len, call'.got = call.got
  PROVE  KeptInv'
<1>1. pc'["sender"] = to /\ pc'["receiver"] = pc["receiver"]
  BY DEF UdpInv, OneRuns, Continue, Threads
<1>2. QED
  BY <1>1, OutputTurns

\* The last test of sendto: the peer of the socket takes the place of its own.
LEMMA SendtoTestData ==
  ASSUME UdpInv, DataInv, SendtoTest
  PROVE  KeptInv'
<1> DEFINE put == call.put
           new == [put EXCEPT !.peer = IF sock.fPeerAddr = NoPeer
                                       THEN @ ELSE sock.fPeerAddr]
<1>1. /\ DOMAIN call = {"put", "len", "got", "part"} /\ call.len \in Nat
      /\ InputKept(sock, due, pc["receiver"], call)
      /\ OutputKept(sock, owed, pc["sender"], put)
      /\ sock.fPeerAddr \in Partners \cup {NoPeer}
  BY DEF UdpInv, DataInv
<1>2. /\ pc["sender"] = "ready" /\ pc'["sender"] = "tested"
      /\ pc'["receiver"] = pc["receiver"] /\ UNCHANGED <<sock, due, owed, cut>>
  BY DEF SendtoTest, Continue, UdpInv, OneRuns, Threads
<1>3. call' = [call EXCEPT !.put.peer = IF sock.fPeerAddr = NoPeer
                                        THEN @ ELSE sock.fPeerAddr]
  BY DEF SendtoTest
<1>4. /\ call'.put = new /\ call'.part = call.part /\ call'.len = call.len
      /\ call'.got = call.got
  BY <1>1, <1>3
<1> HIDE DEF put
<1>5. new \in Messages
  <2>1. put \in Messages
    BY <1>1, <1>2 DEF OutputKept
  <2>2. sock.fPeerAddr \in Peers
    BY <1>1 DEF Peers
  <2>3. QED
    BY <2>1, <2>2 DEF Messages
<1> HIDE DEF new
<1>6. OutputKept(sock, owed, "tested", call'.put)
  BY <1>1, <1>2, <1>4, <1>5, OutputElsewhere DEF HoldsOutput
<1>7. InputKept(sock, due', pc'["receiver"], call')
  BY <1>1, <1>2, <1>4 DEF InputKept, Had, HeaderKept
<1>8. QED
  BY <1>1, <1>2, <1>4, <1>6, <1>7, SocketStands

LEMMA SenderStepData ==
  ASSUME UdpInv, DataInv,
         SendtoLock \/ HeaderProduce \/ DataProduce \/ SendtoRelease
  PROVE  KeptInv'
<1> DEFINE put == call.put
           place == pc["sender"]
<1>1. /\ SoundSocket(sock) /\ RecvSame(sock, sock) /\ sock.stored = <<>>
      /\ sock.lost = 0 /\ DOMAIN call = {"put", "len", "got", "part"}
      /\ OutputKept(sock, owed, place, put) /\ owed \in Seq(Messages)
      /\ sock.fPeerAddr \in Partners \cup {NoPeer}
  BY DEF UdpInv, DataInv, RecvSame, OutputKept
<1> HIDE DEF put, place
<1>3. CASE SendtoLock
  <2> DEFINE b == [sock EXCEPT !.outLocked = TRUE]
  <2>1. /\ Continue("sender", "tested", "locked") /\ place = "tested" /\ Turns(b)
        /\ call' = call
    BY <1>3 DEF SendtoLock, Continue, place
  <2>2. /\ SoundSocket(b) /\ RecvSame(sock, b) /\ b.stored = <<>> /\ b.lost = 0
        /\ b.outLocked /\ b.output = sock.output /\ b.outDeferred = sock.outDeferred
        /\ b.sendPB = sock.sendPB /\ b.wds = sock.wds /\ b.fState = sock.fState
        /\ b.fWriteShutdown = sock.fWriteShutdown
    BY <1>1 DEF SoundSocket, SockFields, RecvSame
  <2> HIDE DEF b
  <2>3. put \in Messages /\ Busy(sock)
    BY <1>1, <2>1 DEF OutputKept
  <2>6. Sends(b, owed, "locked", put) \/ GivenUp(b, owed, "locked")
    <3>1. Sends(sock, owed, "tested", put) => Sends(b, owed, "locked", put)
      <4>1. /\ Taking(b) = Taking(sock)
            /\ WritesFirst(sock, owed) => WritesFirst(b, owed)
            /\ Half("locked", put) = Half("tested", put)
        BY <2>2 DEF Taking, WritesFirst, Half
      <4>2. QED
        BY <2>2, <4>1 DEF Sends
    <3>2. GivenUp(sock, owed, "tested") => GivenUp(b, owed, "locked")
      BY <2>2 DEF GivenUp
    <3>3. QED
      BY <1>1, <2>1, <3>1, <3>2 DEF OutputKept
  <2>7. OutputKept(b, owed, "locked", put)
    BY <1>1, <2>2, <2>3, <2>6 DEF OutputKept, Busy
  <2>8. Becomes(b) /\ due' = due /\ owed' = owed
    BY <2>1, <2>2, NothingMoves DEF Turns
  <2>9. QED
    BY <2>1, <2>2, <2>7, <2>8, SenderData DEF put
<1>4. CASE HeaderProduce
  <2> DEFINE x == Produce(sock.output, Header(put))
             c == Len(x.bytes) < Len(sock.output.bytes) + HeaderSize
             n == [sock EXCEPT !.output = x, !.cut = c]
  <2>1. /\ Continue("sender", "locked", "halfway") /\ place = "locked" /\ Turns(n)
        /\ call' = call
    BY <1>4 DEF HeaderProduce, Continue, place, put
  <2> HIDE DEF x, c
  <2>2. /\ SoundSocket(n) /\ RecvSame(sock, n) /\ n.stored = <<>> /\ n.lost = 0
        /\ n.outLocked = sock.outLocked /\ n.output = x
        /\ n.outDeferred = sock.outDeferred /\ n.sendPB = sock.sendPB
        /\ n.wds = sock.wds /\ n.fState = sock.fState /\ n.cut = c
    BY <1>1 DEF SoundSocket, SockFields, RecvSame
  <2> HIDE DEF n
  <2>3. /\ put \in Messages /\ sock.outLocked /\ Busy(sock)
        /\ Sends(sock, owed, "locked", put) \/ GivenUp(sock, owed, "locked")
    BY <1>1, <2>1 DEF HoldsOutput, OutputKept
  <2>4. c \/ Sends(n, owed, "halfway", put)
    <3>1. SUFFICES ASSUME ~(Len(n.output.bytes) < Len(sock.output.bytes) + HeaderSize)
                   PROVE  Sends(n, owed, "halfway", put)
      BY <2>2 DEF c
    <3>2. n.output = Produce(sock.output, Header(put))
      BY <2>2 DEF x
    <3>3. CASE Sends(sock, owed, "locked", put)
      BY <1>1, <2>2, <2>3, <3>1, <3>2, <3>3, HeaderStored
    <3>4. CASE GivenUp(sock, owed, "locked")
      BY <2>2, <2>3, <3>1, <3>2, <3>4, HeaderAnew
    <3>5. QED
      BY <2>3, <3>3, <3>4
  <2>5. n.cut \/ OutputKept(n, owed, "halfway", put)
    BY <1>1, <2>2, <2>3, <2>4 DEF OutputKept, Busy
  <2>6. Becomes(n) /\ due' = due /\ owed' = owed
    BY <2>1, <2>2, NothingMoves DEF Turns
  <2>7. QED
    BY <2>1, <2>2, <2>5, <2>6, SenderData DEF put
<1>5. CASE DataProduce
  <2> DEFINE x == Produce(sock.output, Body(put))
             c == Len(x.bytes) < Len(sock.output.bytes) + put.len
             n == [sock EXCEPT !.output = x, !.cut = c]
  <2>1. /\ Continue("sender", "halfway", "stored") /\ place = "halfway" /\ Becomes(n)
        /\ call' = call /\ due' = due /\ owed' = Append(owed, put)
    BY <1>5 DEF DataProduce, Continue, place, put
  <2> HIDE DEF x, c
  <2>2. /\ SoundSocket(n) /\ RecvSame(sock, n)
        /\ n.outLocked = sock.outLocked /\ n.output = x
        /\ n.outDeferred = sock.outDeferred /\ n.sendPB = sock.sendPB
        /\ n.wds = sock.wds /\ n.fState = sock.fState /\ n.cut = c
    BY <1>1 DEF SoundSocket, SockFields, RecvSame
  <2> HIDE DEF n
  <2>3. /\ Sends(sock, owed, "halfway", put) /\ put \in Messages /\ sock.outLocked
        /\ Busy(sock)
    BY <1>1, <2>1 DEF HoldsOutput, OutputKept, GivenUp
  <2>4. c \/ (owed' \in Seq(Messages) /\ Sends(n, owed', "stored", put))
    BY <1>1, <2>1, <2>2, <2>3, DataStored DEF x, c
  <2>5. n.cut \/ OutputKept(n, owed', "stored", put)
    BY <2>2, <2>3, <2>4 DEF OutputKept, Busy
  <2>6. QED
    BY <2>1, <2>2, <2>5, SenderData DEF put
<1>6. CASE SendtoRelease
  <2> DEFINE n == ReleaseOutput(sock)
  <2>1. /\ Continue("sender", "stored", "idle") /\ place = "stored" /\ Turns(n)
        /\ call' = SenderReturns
    BY <1>6 DEF SendtoRelease, Continue, place
  <2>2. /\ call'.part = call.part /\ call'.len = call.len /\ call'.got = call.got
    BY <1>1, <2>1 DEF SenderReturns
  <2>3. OutputKept(sock, owed, "idle", call'.put)
    BY <1>1, <2>1, OutputElsewhere DEF HoldsOutput
  <2>4. /\ n.cut \/ OutputKept(n, SubSeq(owed, n.lost + 1, Len(owed)), "idle", call'.put)
        /\ RecvSame(sock, n)
    BY <1>1, <2>3, ReleaseOutputSends DEF HoldsOutput
  <2>5. SoundSocket(n)
    BY <1>1, ReleaseOutputKeeps
  <2> HIDE DEF n
  <2>6. /\ Becomes(n) /\ due' = due /\ owed' = SubSeq(owed, n.lost + 1, Len(owed))
    BY <1>1, <2>1, <2>4, NothingMoves DEF Turns, Moves, RecvSame
  <2>7. QED
    BY <2>1, <2>2, <2>4, <2>5, <2>6, SenderData
<1>7. QED
  BY <1>3, <1>4, <1>5, <1>6

LEMMA CloserData ==
  ASSUME UdpInv, DataInv, NEW from, NEW to,
         Enter("closer", from, to) \/ Continue("closer", from, to),
         NEW s, SoundSocket(s), RecvSame(sock, s), Turns(s),
         \/ s.cut
         \/ OutputKept(s, SubSeq(owed, s.lost + 1, Len(owed)), pc["sender"], call.put),
         UNCHANGED call
  PROVE  KeptInv'
<1>1. pc'["sender"] = pc["sender"] /\ pc'["receiver"] = pc["receiver"]
  BY DEF UdpInv, OneRuns, Enter, Continue, Threads
<1>2. /\ Becomes(s) /\ due' = due /\ owed' = SubSeq(owed, s.lost + 1, Len(owed))
  BY NothingMoves DEF Turns, Moves, RecvSame, DataInv
<1>3. QED
  BY <1>1, <1>2, OutputTurns

LEMMA CloserStepData ==
  ASSUME UdpInv, DataInv,
         \/ \E how \in SUBSET {"read", "write"} : Shutdown(how)
         \/ Destroy \/ ShutdownLock \/ ShutdownRelease
  PROVE  KeptInv'
<1> DEFINE put == call.put
           place == pc["sender"]
<1>1. /\ SoundSocket(sock) /\ sock.lost = 0 /\ RecvSame(sock, sock)
      /\ OutputKept(sock, owed, place, put) /\ owed \in Seq(Messages)
  BY DEF UdpInv, DataInv, OutputKept, RecvSame
<1>2. SubSeq(owed, 0 + 1, Len(owed)) = owed
  BY <1>1, LaterOwed
<1> HIDE DEF put, place
<1>3. ASSUME NEW how
      PROVE  LET b == Shut(sock, how)
             IN  /\ SoundSocket(b) /\ RecvSame(sock, b) /\ b.lost = 0
                 /\ OutputKept(b, owed, place, put)
  <2> DEFINE b == Shut(sock, how)
  <2>1. /\ SoundSocket(b) /\ RecvSame(sock, b) /\ b.lost = 0
        /\ b.outLocked = sock.outLocked /\ b.output = sock.output
        /\ b.outDeferred = sock.outDeferred /\ b.sendPB = sock.sendPB
        /\ b.wds = sock.wds /\ b.fState = sock.fState
        /\ (sock.fWriteShutdown => b.fWriteShutdown)
    BY <1>1 DEF SoundSocket, SockFields, RecvSame, Shut
  <2> HIDE DEF b
  <2>2. Taking(b) = Taking(sock) /\ (WritesFirst(sock, owed) => WritesFirst(b, owed))
    BY <2>1 DEF Taking, WritesFirst
  <2>3. Sends(sock, owed, place, put) => Sends(b, owed, place, put)
    BY <2>1, <2>2 DEF Sends
  <2>4. GivenUp(sock, owed, place) => GivenUp(b, owed, place)
    BY <2>1 DEF GivenUp
  <2>5. OutputKept(b, owed, place, put)
    BY <1>1, <2>1, <2>3, <2>4 DEF OutputKept, Busy
  <2>6. QED
    BY <2>1, <2>5 DEF b
<1>4. CASE \E how \in SUBSET {"read", "write"} : Shutdown(how)
  <2>1. PICK how \in SUBSET {"read", "write"} : Shutdown(how)
    BY <1>4
  <2> DEFINE b == Shut(sock, how)
  <2>2. Enter("closer", "idle", "flagged") /\ Turns(b) /\ UNCHANGED call
    BY <2>1 DEF Shutdown
  <2>3. /\ SoundSocket(b) /\ RecvSame(sock, b) /\ b.lost = 0
        /\ OutputKept(b, owed, place, put)
    BY <1>3
  <2> HIDE DEF b
  <2>4. QED
    BY <1>2, <2>2, <2>3, CloserData DEF place, put
<1>5. CASE Destroy
  <2>1. \/ /\ Enter("closer", "idle", "lastFlagged")
           /\ Turns(Shut(sock, {"read", "write"})) /\ UNCHANGED call
        \/ /\ Enter("closer", "idle", "gone") /\ Turns(sock) /\ UNCHANGED call
    BY <1>5 DEF Destroy
  <2>2. CASE /\ Enter("closer", "idle", "lastFlagged")
             /\ Turns(Shut(sock, {"read", "write"})) /\ UNCHANGED call
    <3> DEFINE b == Shut(sock, {"read", "write"})
    <3>1. /\ SoundSocket(b) /\ RecvSame(sock, b) /\ b.lost = 0
          /\ OutputKept(b, owed, place, put)
      BY <1>3
    <3>2. Turns(b)
      BY <2>2
    <3> HIDE DEF b
    <3>3. QED
      BY <1>2, <2>2, <3>1, <3>2, CloserData DEF place, put
  <2>3. CASE Enter("closer", "idle", "gone") /\ Turns(sock) /\ UNCHANGED call
    BY <1>1, <1>2, <2>3, CloserData DEF place, put
  <2>4. QED
    BY <2>1, <2>2, <2>3
<1>6. CASE ShutdownLock
  <2> DEFINE b == [sock EXCEPT !.outLocked = TRUE]
  <2>1. /\ \/ Continue("closer", "flagged", "shutting")
           \/ Continue("closer", "lastFlagged", "lastShutting")
        /\ Turns(b) /\ UNCHANGED call
    BY <1>6 DEF ShutdownLock
  <2>2. /\ SoundSocket(b) /\ RecvSame(sock, b) /\ b.lost = 0
        /\ b.outLocked /\ b.output = sock.output /\ b.outDeferred = sock.outDeferred
        /\ b.sendPB = sock.sendPB /\ b.wds = sock.wds /\ b.fState = sock.fState
        /\ b.fWriteShutdown = sock.fWriteShutdown
    BY <1>1 DEF SoundSocket, SockFields, RecvSame
  <2> HIDE DEF b
  <2>3. Taking(b) = Taking(sock) /\ (WritesFirst(sock, owed) => WritesFirst(b, owed))
    BY <2>2 DEF Taking, WritesFirst
  <2>4. Sends(sock, owed, place, put) => Sends(b, owed, place, put)
    BY <2>2, <2>3 DEF Sends
  <2>5. GivenUp(sock, owed, place) => GivenUp(b, owed, place)
    BY <2>2 DEF GivenUp
  <2>6. OutputKept(b, owed, place, put)
    BY <1>1, <2>2, <2>4, <2>5 DEF OutputKept, Busy
  <2>7. QED
    BY <1>2, <2>1, <2>2, <2>6, CloserData DEF place, put
<1>7. CASE ShutdownRelease
  <2> DEFINE n == ReleaseOutput(sock)
  <2>1. /\ \/ Continue("closer", "shutting", "idle")
           \/ Continue("closer", "lastShutting", "loop")
        /\ Turns(n) /\ UNCHANGED call
    BY <1>7 DEF ShutdownRelease
  <2>2. place \notin HoldsOutput
    <3>1. running = "closer"
      BY <2>1 DEF Continue
    <3>2. place \in Resting
      BY <3>1 DEF UdpInv, OneRuns, Threads, place
    <3>3. QED
      BY <3>2 DEF Resting, HoldsOutput
  <2>3. /\ n.cut \/ OutputKept(n, SubSeq(owed, n.lost + 1, Len(owed)), place, put)
        /\ RecvSame(sock, n)
    BY <1>1, <2>2, ReleaseOutputSends
  <2>4. SoundSocket(n)
    BY <1>1, ReleaseOutputKeeps
  <2> HIDE DEF n
  <2>5. QED
    BY <2>1, <2>3, <2>4, CloserData DEF place, put
<1>8. QED
  BY <1>4, <1>5, <1>6, <1>7

\* A thread that only looks, waits or gives up.
LEMMA StandsData ==
  ASSUME UdpInv, DataInv, NEW t \in Threads, NEW from, NEW to,
         Enter(t, from, to) \/ Continue(t, from, to),
         {from, to} \cap (TakesOne \cup HoldsOutput \cup {"header"}) = {}, from # "idle",
         UNCHANGED <<sock, due, owed, cut>>,
         t = "receiver" => /\ from # "ready" /\ call'.put = call.put
                           /\ call'.len \in Nat /\ call'.got \in {call.got, <<>>},
         t = "sender" => /\ to # "idle" => call'.put = call.put
                         /\ call'.part = call.part /\ call'.len = call.len
                         /\ call'.got = call.got,
         t = "closer" => call' = call
  PROVE  KeptInv'
<1>1. /\ pc[t] = from /\ pc'[t] = to /\ \A u \in Threads \ {t} : pc'[u] = pc[u]
  BY DEF UdpInv, OneRuns, Enter, Continue
<1>2. /\ from \notin TakesOne \cup {"header"} /\ to \notin TakesOne /\ to # "header"
      /\ from \notin HoldsOutput /\ to \notin HoldsOutput /\ from # "halfway"
  BY DEF HoldsOutput
<1>3. /\ InputKept(sock, due, pc["receiver"], call)
      /\ OutputKept(sock, owed, pc["sender"], call.put) /\ call.len \in Nat
  BY DEF DataInv
<1>4. CASE t = "receiver"
  <2>1. pc["receiver"] = from /\ pc'["receiver"] = to /\ pc'["sender"] = pc["sender"]
    BY <1>1, <1>4 DEF Threads
  <2>2. InputKept(sock, due, to, call')
    <3>1. call.got = <<>>
      BY <1>2, <1>3, <1>4, <2>1 DEF InputKept, HeaderKept
    <3>2. call'.got = <<>>
      BY <1>4, <3>1
    <3>3. QED
      BY <1>2, <1>3, <2>1, <3>1, <3>2, InputElsewhere
  <2>3. QED
    BY <1>3, <1>4, <2>1, <2>2, SocketStands
<1>5. CASE t = "sender"
  <2>1. pc["sender"] = from /\ pc'["sender"] = to /\ pc'["receiver"] = pc["receiver"]
    BY <1>1, <1>5 DEF Threads
  <2>2. to # "idle" => call'.put \in Messages
    BY <1>3, <1>5, <2>1 DEF OutputKept
  <2>3. OutputKept(sock, owed, to, call'.put)
    BY <1>2, <1>3, <2>1, <2>2, OutputElsewhere
  <2>4. InputKept(sock, due, pc'["receiver"], call')
    BY <1>3, <1>5, <2>1 DEF InputKept, Had, HeaderKept
  <2>5. QED
    BY <1>3, <1>5, <2>1, <2>3, <2>4, SocketStands
<1>6. CASE t = "closer"
  <2>1. pc'["sender"] = pc["sender"] /\ pc'["receiver"] = pc["receiver"]
    BY <1>1, <1>6 DEF Threads
  <2>2. QED
    BY <1>3, <1>6, <2>1, SocketStands
<1>7. QED
  BY <1>4, <1>5, <1>6 DEF Threads

LEMMA ReturnData ==
  ASSUME UdpInv, DataInv, Return
  PROVE  KeptInv'
<1>1. /\ pc["receiver"] = "return" /\ pc'["receiver"] = "idle"
      /\ pc'["sender"] = pc["sender"] /\ due' = Tail(due)
      /\ UNCHANGED <<sock, owed, cut>>
      /\ call'.put = call.put /\ call'.len \in Nat /\ call'.got = <<>>
  BY DEF UdpInv, OneRuns, Return, Continue, Threads, ReceiverReturns
<1>2. InputKept(sock, due, "return", call)
  BY <1>1 DEF DataInv
<1>3. Tail(due) \in Seq(Messages)
  BY <1>2, StoredFirst DEF InputKept, TakesOne
<1>4. InputKept(sock, Tail(due), "idle", call')
  <2>1. /\ Had("return", call) = <<>> /\ Had("idle", call') = <<>>
        /\ BytesOf(due, "return") = BytesOf(Tail(due), "idle")
    BY <1>1 DEF Had, BytesOf, TakesOne
  <2>2. HeaderKept(sock.input.ring, "idle", call')
    BY <1>1 DEF HeaderKept
  <2>3. QED
    BY <1>1, <1>2, <1>3, <2>1, <2>2, EmptySeq DEF InputKept, TakesOne
<1>5. QED
  BY <1>1, <1>4, SocketStands DEF DataInv

\* Nothing has been read where there is nothing to read.
LEMMA NoHeaderData ==
  ASSUME UdpInv, DataInv, NEW n \in Lengths, NoHeader(n)
  PROVE  KeptInv'
<1>1. /\ DOMAIN call = {"put", "len", "got", "part"} /\ call.len \in Nat
      /\ InputKept(sock, due, pc["receiver"], call)
      /\ OutputKept(sock, owed, pc["sender"], call.put)
  BY DEF UdpInv, DataInv
<1>2. /\ pc["receiver"] = "ready" /\ pc'["receiver"] = "garbage"
      /\ pc'["sender"] = pc["sender"] /\ UNCHANGED <<sock, due, owed, cut>>
      /\ sock.input.ring.valid = 0
  BY DEF NoHeader, Continue, UdpInv, OneRuns, Threads
<1>3. n \in Nat
  BY SizesFacts
<1>4. call'.put = call.put /\ call'.len \in Nat /\ call'.got = call.got
  BY <1>1, <1>3 DEF NoHeader, Smaller
<1> DEFINE x == sock.input.bytes
           g == call.got
<1>5. /\ g \in Seq(Octets) /\ Len(g) < HeaderSize /\ g \o x = StoredBytes(due)
      /\ due \in Seq(Messages) /\ x \in Seq(Octets) /\ Len(x) = 0
  BY <1>1, <1>2 DEF InputKept, HeaderKept, Had, TakesOne, BytesOf, GoodBuffer
<1> HIDE DEF x, g
<1>6. g = StoredBytes(due)
  <2>1. x = <<>> /\ g \o <<>> = g
    BY <1>5, EmptySeq, ConcatEmptySeq
  <2>2. QED
    BY <1>5, <2>1
<1>7. g = <<>>
  <2>1. due = <<>>
    <3>1. SUFFICES ASSUME due # <<>> PROVE FALSE
      OBVIOUS
    <3>2. Len(StoredBytes(due)) >= HeaderSize
      BY <1>5, <3>1, StoredLong
    <3>3. Len(g) \in Nat /\ HeaderSize \in Nat
      BY <1>5, LenProperties, SizesFacts
    <3>4. QED
      BY <1>5, <1>6, <3>2, <3>3
  <2>2. QED
    BY <1>6, <2>1, StoredNothing
<1>8. InputKept(sock, due, "garbage", call')
  BY <1>1, <1>2, <1>4, <1>7, InputElsewhere DEF TakesOne, g
<1>9. QED
  BY <1>1, <1>2, <1>4, <1>8, SocketStands


LEMMA StandingData ==
  ASSUME UdpInv, DataInv,
         \/ \E t \in Threads : TestFirst(t) \/ TestAgain(t)
         \/ \E t \in Threads : YieldReturns(t) \/ YieldInterrupted(t)
         \/ SendtoShutdown \/ DestroyTest
  PROVE  KeptInv'
<1>1. /\ DOMAIN call = {"put", "len", "got", "part"} /\ call.len \in Nat
  BY DEF UdpInv, DataInv
<1>2. /\ ReceiverReturns.put = call.put /\ ReceiverReturns.len \in Nat
      /\ ReceiverReturns.got = <<>>
      /\ SenderReturns.part = call.part /\ SenderReturns.len = call.len
      /\ SenderReturns.got = call.got
  BY <1>1 DEF ReceiverReturns, SenderReturns
<1> DEFINE quiet == {"idle", "test", "loop", "wait", "ready", "gone"}
<1>3. \A from, to \in quiet :
        {from, to} \cap (TakesOne \cup HoldsOutput \cup {"header"}) = {}
  BY DEF TakesOne, HoldsOutput
<1> HIDE DEF quiet
<1>4. CASE \E t \in Threads : TestFirst(t) \/ TestAgain(t)
  <2>1. PICK t \in Threads : TestFirst(t) \/ TestAgain(t)
    BY <1>4
  <2>2. PICK from \in {"test", "loop"}, to \in {"loop", "wait", "ready"} :
          Continue(t, from, to)
    BY <2>1 DEF TestFirst, TestAgain
  <2>3. from \in quiet /\ to \in quiet /\ from # "idle" /\ from # "ready"
    BY <2>2 DEF quiet
  <2>4. UNCHANGED <<sock, due, owed, cut, call>>
    BY <2>1 DEF TestFirst, TestAgain
  <2>5. QED
    BY <1>1, <1>3, <2>2, <2>3, <2>4, StandsData
<1>5. CASE \E t \in Threads : YieldReturns(t)
  <2>1. PICK t \in Threads : YieldReturns(t)
    BY <1>5
  <2>2. Enter(t, "wait", "loop") /\ UNCHANGED <<sock, due, owed, cut, call>>
    BY <2>1 DEF YieldReturns
  <2>3. "wait" \in quiet /\ "loop" \in quiet
    BY DEF quiet
  <2>4. QED
    BY <1>1, <1>3, <2>2, <2>3, StandsData
<1>6. CASE \E t \in Threads : YieldInterrupted(t)
  <2>1. PICK t \in Threads : YieldInterrupted(t)
    BY <1>6
  <2>2. /\ Enter(t, "wait", "idle") /\ UNCHANGED <<sock, due, owed, cut>>
        /\ t # "closer"
        /\ call' = IF t = "receiver" THEN ReceiverReturns ELSE SenderReturns
    BY <2>1 DEF YieldInterrupted
  <2>3. "wait" \in quiet /\ "idle" \in quiet
    BY DEF quiet
  <2>4. /\ t = "receiver" => call' = ReceiverReturns
        /\ t = "sender" => call' = SenderReturns
    BY <2>2
  <2>5. QED
    BY <1>2, <1>3, <2>2, <2>3, <2>4, StandsData
<1>8. CASE SendtoShutdown
  <2>1. /\ Continue("sender", "ready", "idle") /\ UNCHANGED <<sock, due, owed, cut>>
        /\ call' = SenderReturns
    BY <1>8 DEF SendtoShutdown
  <2>2. "ready" \in quiet /\ "idle" \in quiet /\ "sender" \in Threads
    BY DEF quiet, Threads
  <2>3. QED
    BY <1>2, <1>3, <2>1, <2>2, StandsData
<1>9. CASE DestroyTest
  <2>1. PICK to \in {"gone", "wait"} : Continue("closer", "loop", to)
    BY <1>9 DEF DestroyTest
  <2>2. UNCHANGED <<sock, due, owed, cut, call>>
    BY <1>9 DEF DestroyTest
  <2>3. "loop" \in quiet /\ to \in quiet /\ "closer" \in Threads
    BY <2>1 DEF quiet, Threads
  <2>4. QED
    BY <1>3, <2>1, <2>2, <2>3, StandsData
<1>10. QED
  BY <1>4, <1>5, <1>6, <1>8, <1>9

-----------------------------------------------------------------------------
LEMMA NewBuffer ==
  ASSUME NEW size \in Nat
  PROVE  GoodBuffer(Buffer(size))
<1>1. NewRing(size) \in Ring /\ RingShape(NewRing(size))
  BY NewRingShape
<1>2. NewRing(size).valid = 0
  BY DEF NewRing
<1>3. QED
  BY <1>1, <1>2, EmptySeq DEF GoodBuffer, Buffer

LEMMA DataInitial ==
  ASSUME UdpInit
  PROVE  DataInv
<1>1. /\ GoodBuffer(Buffer(InSize)) /\ GoodBuffer(Buffer(OutSize))
  BY NewBuffer, SizesFacts
<1>2. <<>> \in Seq(Messages) /\ StoredBytes(<<>>) = <<>> /\ <<>> \o <<>> = <<>>
  BY StoredNothing, EmptySeq, ConcatEmptySeq
<1>3. /\ sock.stored = <<>> /\ sock.lost = 0 /\ sock.fPeerAddr = NoPeer
      /\ sock.recvPB = "none" /\ sock.input = Buffer(InSize)
      /\ sock.sendPB = "none" /\ sock.outDeferred = "none" /\ sock.output = Buffer(OutSize)
      /\ pc["receiver"] = "idle" /\ pc["sender"] = "idle" /\ call.len = 0
      /\ call.got = <<>> /\ due = <<>> /\ owed = <<>> /\ sock.fState = "Unbound"
  BY DEF UdpInit, NewSocket, NoCall, Threads
<1>4. Buffer(InSize).bytes = <<>> /\ Buffer(OutSize).bytes = <<>>
  BY DEF Buffer
<1>5. InputKept(sock, due, "idle", call)
  BY <1>1, <1>2, <1>3, <1>4, EmptySeq
    DEF InputKept, BytesOf, TakesOne, Had, HeaderKept
<1>6. Sends(sock, owed, "idle", call.put)
  <2>1. Taking(sock) = "idle" /\ Half("idle", call.put) = <<>>
    BY <1>3 DEF Taking, Half
  <2>2. BytesOf(owed, "idle") = <<>>
    BY <1>2, <1>3 DEF BytesOf
  <2>3. QED
    BY <1>1, <1>2, <1>3, <1>4, <2>1, <2>2 DEF Sends
<1>7. OutputKept(sock, owed, "idle", call.put)
  BY <1>2, <1>3, <1>6 DEF OutputKept, HoldsOutput, Busy
<1>8. QED
  BY <1>3, <1>5, <1>7 DEF DataInv

LEMMA DataStep ==
  ASSUME UdpInv, KeptInv, [UdpNext]_udpVars
  PROVE  KeptInv'
<1>1. CASE UNCHANGED udpVars
  BY <1>1 DEF udpVars, KeptInv, DataInv
<1>2. CASE UdpNext
  <2>1. DataInv
    BY <1>2 DEF UdpNext, Live, KeptInv
  <2>2. CASE Interrupts
    <3>1. CASE \E result \in {"noErr", "error"} : WriteCompletes(result)
      BY <2>1, <3>1, WriteCompletesData
    <3>2. CASE \E result \in {"noErr", "error"} : ReturnCompletes(result)
      BY <2>1, <3>2, ReturnCompletesData DEF Results
    <3>3. CASE \E d \in Datagrams : ReadCompletes(d, "noErr")
      BY <2>1, <3>3, ReadCompletesData DEF Results
    <3>4. CASE \E result \in Results \ {"noErr"} : ReadCompletes(NoDatagram, result)
      BY <2>1, <3>4, ReadCompletesData
    <3>5. QED
      BY <2>2, <3>1, <3>2, <3>3, <3>4 DEF Interrupts
  <2>3. CASE ThreadCode
    BY <2>1, <2>3, ReceiverStepData, SenderStepData, CloserStepData, StandingData,
       ReturnData, NoHeaderData, SendtoTestData DEF ThreadCode
  <2>4. CASE Calls
    <3>1. CASE \E how \in {{"read"}, {"write"}, {"read", "write"}} : Shutdown(how)
      <4>1. \E how \in SUBSET {"read", "write"} : Shutdown(how)
        BY <3>1
      <4>2. QED
        BY <2>1, <4>1, CloserStepData
    <3>2. QED
      BY <2>1, <2>4, <3>1, LookingData, BeginsData, StandingData, CloserStepData
        DEF Calls
  <2>5. QED
    BY <1>2, <2>2, <2>3, <2>4 DEF UdpNext
<1>3. QED
  BY <1>1, <1>2

\* The invariant, put the way the run states it.
LEMMA WhatIsKept ==
  ASSUME UdpInv, KeptInv
  PROVE  DatagramsKept
<1>1. SUFFICES ASSUME ~cut PROVE Receiving /\ Sending
  BY DEF DatagramsKept
<1>2. /\ InputKept(sock, due, pc["receiver"], call)
      /\ OutputKept(sock, owed, pc["sender"], call.put)
  BY <1>1 DEF KeptInv, DataInv
<1>3. Receiving
  <2> DEFINE place == pc["receiver"]
             x == sock.input.bytes
  <2>1. x \in Seq(Octets) /\ <<>> \o x = x
    BY <1>2, ConcatEmptySeq DEF InputKept, GoodBuffer
  <2>2. CASE place \in {"between", "data"}
    BY <1>2, <2>1, <2>2 DEF Receiving, InputKept, Had, BytesOf, TakesOne
  <2>3. CASE place = "return"
    BY <1>2, <2>1, <2>3 DEF Receiving, InputKept, Had, BytesOf, TakesOne
  <2>4. CASE place \notin {"between", "data", "return"}
    BY <1>2, <2>4 DEF Receiving, InputKept, Had, BytesOf, TakesOne
  <2>5. QED
    BY <2>2, <2>3, <2>4
<1>4. Sending
  <2>1. CASE GivenUp(sock, owed, pc["sender"])
    <3>1. /\ sock.sendPB = "none" /\ sock.output.bytes = <<>> /\ owed = <<>>
          /\ pc["sender"] # "halfway"
      BY <2>1 DEF GivenUp
    <3>2. StoredBytes(<<>>) = <<>> /\ <<>> \o <<>> = <<>>
      BY StoredNothing, EmptySeq, ConcatEmptySeq
    <3>3. QED
      BY <3>1, <3>2 DEF Sending
  <2>2. CASE Sends(sock, owed, pc["sender"], call.put)
    <3>1. ASSUME sock.sendPB = "none", sock.fState = "Connected", ~sock.outLocked
          PROVE  owed = <<>>
      <4>1. sock.outDeferred = "Send" /\ pc["sender"] \notin HoldsOutput
        BY <1>2, <3>1 DEF OutputKept, Busy
      <4>2. ~(sock.output.ring.valid > 0)
        BY <4>1 DEF UdpInv, NothingToWrite
      <4>3. sock.output.bytes \in Seq(Octets)
            /\ Len(sock.output.bytes) = sock.output.ring.valid
            /\ Len(sock.output.bytes) \in Nat
        BY <2>2, LenProperties DEF Sends, GoodBuffer
      <4>4. owed \in Seq(Messages) /\ StoredBytes(owed) \in Seq(Octets)
        BY <1>2, StoredAreBytes DEF OutputKept
      <4>5. sock.output.bytes = StoredBytes(owed) \o <<>>
        BY <2>2, <3>1, <4>1 DEF Sends, Taking, BytesOf, Half, HoldsOutput
      <4>6. Len(StoredBytes(owed)) = 0
        BY <4>2, <4>3, <4>4, <4>5, ConcatEmptySeq
      <4>7. owed # <<>> => Len(StoredBytes(owed)) >= HeaderSize
        BY <4>4, StoredLong
      <4>8. QED
        BY <4>6, <4>7, SizesFacts
    <3>2. QED
      BY <2>2, <3>1 DEF Sending, Sends, WritesFirst, Taking, BytesOf, Half
  <2>3. QED
    BY <1>2, <2>1, <2>2 DEF OutputKept
<1>5. QED
  BY <1>3, <1>4

\* Until a datagram has come apart, recvfrom (GUSIMTUdp.nw:504) returns those that
\* were accepted and MacTCP is handed those that sendto (GUSIMTUdp.nw:566) stored,
\* whole, in order, with their own peers, for every size of the buffers and of the
\* datagrams, and wherever the completion routines come in between.
THEOREM DatagramsStay == UdpSpec => []DatagramsKept
<1>1. UdpInit => UdpInv /\ KeptInv
  BY UdpInitial, DataInitial DEF KeptInv
<1>2. UdpInv /\ KeptInv /\ [UdpNext]_udpVars => (UdpInv /\ KeptInv)'
  BY UdpStep, DataStep
<1>3. UdpInv /\ KeptInv => DatagramsKept
  BY WhatIsKept
<1>4. QED
  BY <1>1, <1>2, <1>3, PTL DEF UdpSpec

-----------------------------------------------------------------------------
(***************************************************************************)
(* The ring buffer as a stream.  First about sequences: what FlattenSeq    *)
(* makes of them when one of them gets longer behind, or shorter in front. *)
(***************************************************************************)
\* f[i] is what the first i of the sequences P are together.
Glued(f, P, n) ==
  \A i \in 1 .. n : f[i] = IF i = 1 THEN P[i] ELSE f[i - 1] \o P[i]

\* There is such a function.
LEMMA GlueExists ==
  ASSUME NEW S, NEW n \in Nat, NEW P \in [1 .. n -> Seq(S)]
  PROVE  \E f \in [1 .. n -> Seq(S)] : Glued(f, P, n)
<1> DEFINE T == {k \in Nat : k <= n => \E f \in [1 .. k -> Seq(S)] : Glued(f, P, k)}
<1>1. 0 \in T
  <2>1. <<>> \in [1 .. 0 -> Seq(S)] /\ Glued(<<>>, P, 0)
    BY DEF Glued
  <2>2. QED
    BY <2>1
<1>2. ASSUME NEW k \in T PROVE k + 1 \in T
  <2>1. SUFFICES ASSUME k + 1 <= n
                 PROVE  \E g \in [1 .. k + 1 -> Seq(S)] : Glued(g, P, k + 1)
    OBVIOUS
  <2>2. PICK f \in [1 .. k -> Seq(S)] : Glued(f, P, k)
    BY <2>1
  <2>3. k \in Nat /\ k + 1 \in 1 .. n /\ P[k + 1] \in Seq(S)
    BY <2>1
  <2> DEFINE e == IF k = 0 THEN P[k + 1] ELSE f[k] \o P[k + 1]
             g == [i \in 1 .. k + 1 |-> IF i = k + 1 THEN e ELSE f[i]]
  <2>4. e \in Seq(S)
    BY <2>2, <2>3, ConcatProperties
  <2>5. g \in [1 .. k + 1 -> Seq(S)]
    <3> HIDE DEF e
    <3>1. \A i \in 1 .. k + 1 : i # k + 1 => i \in 1 .. k
      BY <2>3
    <3>2. QED
      BY <2>2, <2>4, <3>1
  <2>6. ASSUME NEW i \in 1 .. k + 1
        PROVE  g[i] = IF i = 1 THEN P[i] ELSE g[i - 1] \o P[i]
    <3>1. CASE i = k + 1
      <4>1. g[i] = e
        BY <3>1
      <4>2. CASE k = 0
        BY <3>1, <4>1, <4>2
      <4>3. CASE k # 0
        <5>1. i # 1 /\ i - 1 = k /\ k \in 1 .. k + 1 /\ k # k + 1
          BY <2>3, <3>1, <4>3
        <5>2. g[i - 1] = f[k]
          BY <5>1
        <5>3. QED
          BY <3>1, <4>1, <4>3, <5>1, <5>2
      <4>4. QED
        BY <4>2, <4>3
    <3>2. CASE i # k + 1
      <4>1. i \in 1 .. k /\ (i # 1 => i - 1 \in 1 .. k + 1 /\ i - 1 # k + 1)
        BY <2>3, <3>2
      <4>2. g[i] = f[i]
        BY <3>2
      <4>3. i # 1 => g[i - 1] = f[i - 1]
        BY <4>1
      <4>4. QED
        BY <2>2, <4>1, <4>2, <4>3 DEF Glued
    <3>3. QED
      BY <3>1, <3>2
  <2> HIDE DEF g
  <2>7. QED
    BY <2>5, <2>6 DEF Glued
<1> HIDE DEF T
<1>3. T = Nat
  <2>1. T \in SUBSET Nat
    BY DEF T
  <2>2. QED
    BY <1>1, <1>2, <2>1, SetInduction
<1>4. QED
  BY <1>3 DEF T

\* There is only one.
LEMMA GlueUnique ==
  ASSUME NEW P, NEW n \in Nat, NEW f, Glued(f, P, n), NEW g, Glued(g, P, n)
  PROVE  \A i \in 1 .. n : g[i] = f[i]
<1> DEFINE T == {k \in Nat : k \in 1 .. n => g[k] = f[k]}
<1>1. ASSUME NEW k \in Nat, k \in 1 .. n => g[k] = f[k], k + 1 \in 1 .. n
      PROVE  g[k + 1] = f[k + 1]
  <2> DEFINE i == k + 1
  <2>1. i \in 1 .. n /\ i - 1 = k /\ (i # 1 => k \in 1 .. n)
    BY <1>1
  <2> HIDE DEF i
  <2>2. /\ f[i] = IF i = 1 THEN P[i] ELSE f[i - 1] \o P[i]
        /\ g[i] = IF i = 1 THEN P[i] ELSE g[i - 1] \o P[i]
    BY <2>1 DEF Glued
  <2>3. g[i] = f[i]
    BY <1>1, <2>1, <2>2
  <2>4. QED
    BY <2>3 DEF i
<1>2. 0 \in T /\ \A k \in T : k + 1 \in T
  BY <1>1
<1> HIDE DEF T
<1>3. T \in SUBSET Nat
  BY DEF T
<1>4. T = Nat
  BY <1>2, <1>3, SetInduction
<1>5. QED
  BY <1>4 DEF T

\* FlattenSeq (SequencesExt) is its last value.
LEMMA FlatIsGlued ==
  ASSUME NEW S, NEW n \in Nat, n # 0, NEW P \in [1 .. n -> Seq(S)],
         NEW f \in [1 .. n -> Seq(S)], Glued(f, P, n)
  PROVE  FlattenSeq(P) = f[n] /\ FlattenSeq(P) \in Seq(S)
<1> DEFINE g == CHOOSE g : g = [i \in 1 .. n |-> IF i = 1 THEN P[i] ELSE g[i - 1] \o P[i]]
<1>1. Len(P) = n
  BY FunctionIsSeq
<1>2. FlattenSeq(P) = g[n]
  BY <1>1 DEF FlattenSeq
<1>3. f = [i \in 1 .. n |-> IF i = 1 THEN P[i] ELSE f[i - 1] \o P[i]]
  <2>1. \A i \in 1 .. n : f[i] = IF i = 1 THEN P[i] ELSE f[i - 1] \o P[i]
    BY DEF Glued
  <2>2. QED
    BY <2>1
<1>4. g = [i \in 1 .. n |-> IF i = 1 THEN P[i] ELSE g[i - 1] \o P[i]]
  BY <1>3
<1> HIDE DEF g
<1>5. Glued(g, P, n)
  <2>1. ASSUME NEW i \in 1 .. n
        PROVE  g[i] = IF i = 1 THEN P[i] ELSE g[i - 1] \o P[i]
    BY ONLY <1>4, i \in 1 .. n, Zenon
  <2>2. QED
    BY <2>1 DEF Glued
<1>6. n \in 1 .. n
  OBVIOUS
<1>7. g[n] = f[n]
  BY <1>5, <1>6, GlueUnique
<1>8. QED
  BY <1>2, <1>6, <1>7

\* Q is P with w added behind the k-th of its sequences, and none behind it.
Extended(S, P, Q, n, k, w) ==
  /\ n \in Nat /\ n # 0 /\ k \in 1 .. n /\ w \in Seq(S)
  /\ P \in [1 .. n -> Seq(S)] /\ Q \in [1 .. n -> Seq(S)]
  /\ Q[k] = P[k] \o w
  /\ \A i \in 1 .. n : i # k => Q[i] = P[i]
  /\ \A i \in 1 .. n : i > k => P[i] = <<>>

\* P is Q with w in front of the k-th of its sequences, and none before it.
Shortened(S, P, Q, n, k, w) ==
  /\ n \in Nat /\ n # 0 /\ k \in 1 .. n /\ w \in Seq(S)
  /\ P \in [1 .. n -> Seq(S)] /\ Q \in [1 .. n -> Seq(S)]
  /\ P[k] = w \o Q[k]
  /\ \A i \in 1 .. n : i # k => Q[i] = P[i]
  /\ \A i \in 1 .. n : i < k => P[i] = <<>>

\* Q is P and one more sequence, with nothing in it.
Lengthened(S, P, Q, n) ==
  /\ n \in Nat /\ n # 0
  /\ P \in [1 .. n -> Seq(S)] /\ Q \in [1 .. n + 1 -> Seq(S)]
  /\ \A i \in 1 .. n : Q[i] = P[i]
  /\ Q[n + 1] = <<>>

\* What is added behind the last sequence that is not empty comes last.
LEMMA FlatExtends ==
  ASSUME NEW S, NEW P, NEW Q, NEW n, NEW k, NEW w, Extended(S, P, Q, n, k, w)
  PROVE  FlattenSeq(Q) = FlattenSeq(P) \o w
<1> SUFFICES ASSUME n \in Nat, n # 0, k \in 1 .. n, w \in Seq(S),
                    P \in [1 .. n -> Seq(S)], Q \in [1 .. n -> Seq(S)],
                    Q[k] = P[k] \o w,
                    \A i \in 1 .. n : i # k => Q[i] = P[i],
                    \A i \in 1 .. n : i > k => P[i] = <<>>
             PROVE  FlattenSeq(Q) = FlattenSeq(P) \o w
  BY DEF Extended
<1>0. \A x, y, z \in Seq(S) : (x \o y) \o z = x \o (y \o z)
  BY ONLY SeqAssociates
<1>1. PICK f \in [1 .. n -> Seq(S)] : Glued(f, P, n)
  BY GlueExists
<1>2. PICK g \in [1 .. n -> Seq(S)] : Glued(g, Q, n)
  BY GlueExists
<1> DEFINE T == {i \in Nat : i \in 1 .. n =>
                               g[i] = IF i < k THEN f[i] ELSE f[i] \o w}
<1>3. ASSUME NEW j \in Nat,
             j \in 1 .. n => g[j] = IF j < k THEN f[j] ELSE f[j] \o w,
             NEW i, i = j + 1, i \in 1 .. n
      PROVE  g[i] = IF i < k THEN f[i] ELSE f[i] \o w
  <2>1. /\ f[i] = IF i = 1 THEN P[i] ELSE f[i - 1] \o P[i]
        /\ g[i] = IF i = 1 THEN Q[i] ELSE g[i - 1] \o Q[i]
    BY <1>1, <1>2, <1>3 DEF Glued
  <2>2. i - 1 = j /\ (i # 1 => j \in 1 .. n)
    BY <1>3
  <2>3. f[i] \in Seq(S) /\ P[i] \in Seq(S) /\ (i # 1 => f[j] \in Seq(S))
    BY <1>3, <2>2
  <2>4. i \in 1 .. n /\ i \in Nat /\ j \in Nat /\ i = j + 1 /\ k \in Nat
    BY <1>3
  <2>5. j \in 1 .. n => g[j] = IF j < k THEN f[j] ELSE f[j] \o w
    BY <1>3
  <2>6. CASE i < k
    <3>1. i # k /\ j < k
      BY <2>4, <2>6
    <3>2. Q[i] = P[i]
      BY <2>4, <3>1
    <3>3. i # 1 => g[j] = f[j]
      BY <2>2, <2>5, <3>1
    <3>4. g[i] = f[i]
      BY <2>1, <2>2, <3>2, <3>3
    <3>5. QED
      BY <2>6, <3>4
  <2>7. CASE i = k
    <3>1. Q[i] = P[i] \o w /\ ~(i < k) /\ j < k
      <4>1. ~(i < k) /\ j < k
        BY <2>4, <2>7
      <4>2. QED
        BY <2>7, <4>1
    <3>2. CASE i = 1
      <4>1. g[i] = Q[i] /\ f[i] = P[i]
        BY <2>1, <3>2
      <4>2. QED
        BY <3>1, <4>1
    <3>3. CASE i # 1
      <4>1. g[j] = f[j]
        BY <2>2, <2>5, <3>1, <3>3
      <4>2. g[i] = f[j] \o (P[i] \o w) /\ f[i] = f[j] \o P[i]
        BY <2>1, <2>2, <3>1, <3>3, <4>1
      <4>3. f[j] \in Seq(S) /\ P[i] \in Seq(S) /\ w \in Seq(S)
        BY <2>3, <3>3
      <4>4. f[j] \o (P[i] \o w) = (f[j] \o P[i]) \o w
        BY <1>0, <4>3
      <4>5. QED
        BY <3>1, <4>2, <4>4
    <3>4. QED
      BY <3>2, <3>3
  <2>8. CASE i > k
    <3>1. ~(j < k) /\ i # 1 /\ ~(i < k) /\ i # k
      BY <2>4, <2>8
    <3>2. P[i] = <<>>
      BY <2>4, <2>8
    <3>3. Q[i] = <<>>
      BY <2>4, <3>1, <3>2
    <3>4. j \in 1 .. n /\ g[j] = f[j] \o w
      BY <2>2, <2>5, <3>1
    <3>5. g[j] \in Seq(S)
      BY <3>4
    <3>6. f[i] = f[j]
      <4>1. f[i] = f[j] \o <<>>
        BY <2>1, <2>2, <3>1, <3>2
      <4>2. QED
        BY <2>3, <3>1, <4>1, ConcatEmptySeq
    <3>7. g[i] = g[j]
      <4>1. g[i] = g[j] \o <<>>
        BY <2>1, <2>2, <3>1, <3>3
      <4>2. QED
        BY <3>5, <4>1, ConcatEmptySeq
    <3>8. QED
      BY <3>1, <3>4, <3>6, <3>7
  <2>9. i < k \/ i = k \/ i > k
    BY <2>4
  <2>10. QED
    BY <2>6, <2>7, <2>8, <2>9
<1>4. 0 \in T /\ \A j \in T : j + 1 \in T
  <2>1. 0 \in T
    OBVIOUS
  <2>2. ASSUME NEW j \in T PROVE j + 1 \in T
    <3> DEFINE i == j + 1
    <3>1. i = j + 1 /\ i \in Nat /\ j \in Nat
      OBVIOUS
    <3> HIDE DEF i
    <3>2. CASE i \in 1 .. n
      BY <1>3, <3>1, <3>2
    <3>3. CASE i \notin 1 .. n
      BY <3>1, <3>3
    <3>4. QED
      BY <3>2, <3>3 DEF i
  <2>3. QED
    BY <2>1, <2>2
<1> HIDE DEF T
<1>5. T \in SUBSET Nat
  BY DEF T
<1>6. T = Nat
  BY <1>4, <1>5, SetInduction
<1>7. n \in 1 .. n /\ ~(n < k)
  OBVIOUS
<1>8. g[n] = f[n] \o w
  BY <1>6, <1>7 DEF T
<1>9. FlattenSeq(P) = f[n]
  <2>1. /\ n \in Nat /\ n # 0 /\ P \in [1 .. n -> Seq(S)]
        /\ f \in [1 .. n -> Seq(S)] /\ Glued(f, P, n)
    BY <1>1
  <2>2. QED
    BY ONLY <2>1, FlatIsGlued
<1>10. FlattenSeq(Q) = g[n]
  <2>1. /\ n \in Nat /\ n # 0 /\ Q \in [1 .. n -> Seq(S)]
        /\ g \in [1 .. n -> Seq(S)] /\ Glued(g, Q, n)
    BY <1>2
  <2>2. QED
    BY ONLY <2>1, FlatIsGlued
<1>11. QED
  BY <1>8, <1>9, <1>10

\* What is taken from the first sequence that is not empty was in front.
LEMMA FlatLoses ==
  ASSUME NEW S, NEW P, NEW Q, NEW n, NEW k, NEW w, Shortened(S, P, Q, n, k, w)
  PROVE  FlattenSeq(P) = w \o FlattenSeq(Q)
<1> SUFFICES ASSUME n \in Nat, n # 0, k \in 1 .. n, w \in Seq(S),
                    P \in [1 .. n -> Seq(S)], Q \in [1 .. n -> Seq(S)],
                    P[k] = w \o Q[k],
                    \A i \in 1 .. n : i # k => Q[i] = P[i],
                    \A i \in 1 .. n : i < k => P[i] = <<>>
             PROVE  FlattenSeq(P) = w \o FlattenSeq(Q)
  BY DEF Shortened
<1>0. \A x, y, z \in Seq(S) : (x \o y) \o z = x \o (y \o z)
  BY ONLY SeqAssociates
<1>1. PICK f \in [1 .. n -> Seq(S)] : Glued(f, P, n)
  BY GlueExists
<1>2. PICK g \in [1 .. n -> Seq(S)] : Glued(g, Q, n)
  BY GlueExists
<1> DEFINE T == {i \in Nat : i \in 1 .. n =>
                               IF i < k THEN f[i] = <<>> /\ g[i] = <<>>
                                        ELSE f[i] = w \o g[i]}
<1>3. ASSUME NEW j \in Nat,
             j \in 1 .. n => IF j < k THEN f[j] = <<>> /\ g[j] = <<>>
                                      ELSE f[j] = w \o g[j],
             NEW i, i = j + 1, i \in 1 .. n
      PROVE  IF i < k THEN f[i] = <<>> /\ g[i] = <<>> ELSE f[i] = w \o g[i]
  <2>1. /\ f[i] = IF i = 1 THEN P[i] ELSE f[i - 1] \o P[i]
        /\ g[i] = IF i = 1 THEN Q[i] ELSE g[i - 1] \o Q[i]
    BY <1>1, <1>2, <1>3 DEF Glued
  <2>2. i - 1 = j /\ (i # 1 => j \in 1 .. n)
    BY <1>3
  <2>3. Q[i] \in Seq(S) /\ P[i] \in Seq(S) /\ (i # 1 => g[j] \in Seq(S))
    BY <1>3, <2>2
  <2>4. i \in 1 .. n /\ i \in Nat /\ j \in Nat /\ i = j + 1 /\ k \in Nat
    BY <1>3
  <2>5. j \in 1 .. n => IF j < k THEN f[j] = <<>> /\ g[j] = <<>>
                                  ELSE f[j] = w \o g[j]
    BY <1>3
  <2>6. CASE i < k
    <3>1. i # k /\ j < k
      BY <2>4, <2>6
    <3>2. P[i] = <<>>
      BY <2>4, <2>6
    <3>3. Q[i] = <<>>
      BY <2>4, <3>1, <3>2
    <3>4. i # 1 => f[j] = <<>> /\ g[j] = <<>>
      BY <2>2, <2>5, <3>1
    <3>5. <<>> \in Seq(S) /\ <<>> \o <<>> = <<>>
      BY EmptySeq, ConcatEmptySeq
    <3>6. f[i] = <<>> /\ g[i] = <<>>
      BY <2>1, <2>2, <3>2, <3>3, <3>4, <3>5
    <3>7. QED
      BY <2>6, <3>6
  <2>7. CASE i = k
    <3>1. P[i] = w \o Q[i] /\ ~(i < k) /\ j < k
      <4>1. ~(i < k) /\ j < k
        BY <2>4, <2>7
      <4>2. QED
        BY <2>7, <4>1
    <3>2. f[i] = P[i] /\ g[i] = Q[i]
      <4>1. CASE i = 1
        BY <2>1, <4>1
      <4>2. CASE i # 1
        <5>1. f[j] = <<>> /\ g[j] = <<>>
          BY <2>2, <2>5, <3>1, <4>2
        <5>2. f[i] = <<>> \o P[i] /\ g[i] = <<>> \o Q[i]
          BY <2>1, <2>2, <4>2, <5>1
        <5>3. QED
          BY <2>3, <5>2, ConcatEmptySeq
      <4>3. QED
        BY <4>1, <4>2
    <3>3. QED
      BY <3>1, <3>2
  <2>8. CASE i > k
    <3>1. ~(j < k) /\ i # 1 /\ ~(i < k) /\ i # k
      BY <2>4, <2>8
    <3>2. Q[i] = P[i]
      BY <2>4, <3>1
    <3>3. j \in 1 .. n /\ f[j] = w \o g[j]
      BY <2>2, <2>5, <3>1
    <3>4. f[i] = (w \o g[j]) \o Q[i] /\ g[i] = g[j] \o Q[i]
      BY <2>1, <2>2, <3>1, <3>2, <3>3
    <3>5. w \in Seq(S) /\ g[j] \in Seq(S) /\ Q[i] \in Seq(S)
      BY <2>3, <3>1
    <3>6. (w \o g[j]) \o Q[i] = w \o (g[j] \o Q[i])
      BY <1>0, <3>5
    <3>7. QED
      BY <3>1, <3>4, <3>6
  <2>9. i < k \/ i = k \/ i > k
    BY <2>4
  <2>10. QED
    BY <2>6, <2>7, <2>8, <2>9
<1>4. 0 \in T /\ \A j \in T : j + 1 \in T
  <2>1. 0 \in T
    OBVIOUS
  <2>2. ASSUME NEW j \in T PROVE j + 1 \in T
    <3> DEFINE i == j + 1
    <3>1. i = j + 1 /\ i \in Nat /\ j \in Nat
      OBVIOUS
    <3> HIDE DEF i
    <3>2. CASE i \in 1 .. n
      BY <1>3, <3>1, <3>2
    <3>3. CASE i \notin 1 .. n
      BY <3>1, <3>3
    <3>4. QED
      BY <3>2, <3>3 DEF i
  <2>3. QED
    BY <2>1, <2>2
<1> HIDE DEF T
<1>5. T \in SUBSET Nat
  BY DEF T
<1>6. T = Nat
  BY <1>4, <1>5, SetInduction
<1>7. n \in 1 .. n /\ ~(n < k)
  OBVIOUS
<1>8. f[n] = w \o g[n]
  BY <1>6, <1>7 DEF T
<1>9. FlattenSeq(P) = f[n]
  <2>1. /\ n \in Nat /\ n # 0 /\ P \in [1 .. n -> Seq(S)]
        /\ f \in [1 .. n -> Seq(S)] /\ Glued(f, P, n)
    BY <1>1
  <2>2. QED
    BY ONLY <2>1, FlatIsGlued
<1>10. FlattenSeq(Q) = g[n]
  <2>1. /\ n \in Nat /\ n # 0 /\ Q \in [1 .. n -> Seq(S)]
        /\ g \in [1 .. n -> Seq(S)] /\ Glued(g, Q, n)
    BY <1>2
  <2>2. QED
    BY ONLY <2>1, FlatIsGlued
<1>11. QED
  BY <1>8, <1>9, <1>10

\* An empty sequence at the end makes no difference.
LEMMA FlatGrows ==
  ASSUME NEW S, NEW P, NEW Q, NEW n, Lengthened(S, P, Q, n)
  PROVE  FlattenSeq(Q) = FlattenSeq(P)
<1> SUFFICES ASSUME n \in Nat, n # 0,
                    P \in [1 .. n -> Seq(S)], Q \in [1 .. n + 1 -> Seq(S)],
                    \A i \in 1 .. n : Q[i] = P[i], Q[n + 1] = <<>>
             PROVE  FlattenSeq(Q) = FlattenSeq(P)
  BY DEF Lengthened
<1>1. PICK f : f \in [1 .. n -> Seq(S)] /\ Glued(f, P, n)
  BY GlueExists
<1> DEFINE m == n + 1
<1>0. m \in Nat /\ m # 0 /\ Q \in [1 .. m -> Seq(S)]
  OBVIOUS
<1> HIDE DEF m
<1>2. PICK g : g \in [1 .. m -> Seq(S)] /\ Glued(g, Q, m)
  BY <1>0, GlueExists
<1>3. Glued(g, P, n)
  <2>1. ASSUME NEW i \in 1 .. n
        PROVE  g[i] = IF i = 1 THEN P[i] ELSE g[i - 1] \o P[i]
    <3>1. i \in 1 .. m /\ Q[i] = P[i]
      BY DEF m
    <3>2. g[i] = IF i = 1 THEN Q[i] ELSE g[i - 1] \o Q[i]
      BY <1>2, <3>1 DEF Glued
    <3>3. QED
      BY <3>1, <3>2
  <2>2. QED
    BY <2>1 DEF Glued
<1>4. n \in 1 .. n /\ g[n] = f[n]
  <2>1. n \in 1 .. n
    OBVIOUS
  <2>2. n \in Nat /\ Glued(f, P, n) /\ Glued(g, P, n)
    BY <1>1, <1>3
  <2>3. QED
    BY ONLY <2>1, <2>2, GlueUnique
<1>5. g[m] = g[n] \o <<>>
  <2>1. m \in 1 .. m /\ m # 1 /\ m - 1 = n /\ Q[m] = <<>>
    BY DEF m
  <2>2. g[m] = g[m - 1] \o Q[m]
    BY <1>2, <2>1 DEF Glued
  <2>3. QED
    BY <2>1, <2>2
<1>6. f[n] \in Seq(S) /\ f[n] \o <<>> = f[n]
  BY <1>1, <1>4, ConcatEmptySeq
<1>7. FlattenSeq(P) = f[n]
  BY <1>1, FlatIsGlued
<1>8. FlattenSeq(Q) = g[m]
  BY <1>0, <1>2, FlatIsGlued
<1>9. QED
  BY <1>4, <1>5, <1>6, <1>7, <1>8

-----------------------------------------------------------------------------
(***************************************************************************)
(* Then about one buffer: what is in it, before and after an operation.    *)
(***************************************************************************)
\* What is in a buffer has as many bytes as it counts.
LEMMA ContentsLength ==
  ASSUME NEW r \in Ring, NEW m
  PROVE  /\ Len(Contents(r, m)) = r.valid /\ r.valid \in Nat
         /\ r.valid = 0 => Contents(r, m) = <<>>
         /\ \A i \in 1 .. r.valid :
              Contents(r, m)[i] = m[ByteAddress(r, i - 1)]
<1> DEFINE v == r.valid
           c == Contents(r, m)
           T == {m[ByteAddress(r, i - 1)] : i \in 1 .. v}
<1>1. v \in Nat
  BY RingFields
<1>2. c = [i \in 1 .. v |-> m[ByteAddress(r, i - 1)]]
  BY DEF Contents
<1>3. \A i \in 1 .. v : m[ByteAddress(r, i - 1)] \in T
  OBVIOUS
<1> HIDE DEF v, c, T
<1>4. c \in [1 .. v -> T]
  BY <1>2, <1>3
<1>5. c \in Seq(T) /\ Len(c) = v
  BY <1>1, <1>4, FunctionIsSeq
<1>6. v = 0 => c = <<>>
  BY <1>5, EmptySeq
<1>7. \A i \in 1 .. v : c[i] = m[ByteAddress(r, i - 1)]
  BY <1>2
<1>8. QED
  BY <1>1, <1>5, <1>6, <1>7 DEF c, v

\* Rings that find their bytes at the same addresses have the same contents.
LEMMA SameContents ==
  ASSUME NEW r \in Ring, NEW s \in Ring, NEW m, s.valid = r.valid,
         \A i \in Nat : i < r.valid => ByteAddress(s, i) = ByteAddress(r, i)
  PROVE  Contents(s, m) = Contents(r, m)
<1>1. r.valid \in Nat
  BY RingFields
<1>2. ASSUME NEW i \in 1 .. r.valid
      PROVE  m[ByteAddress(s, i - 1)] = m[ByteAddress(r, i - 1)]
  <2>1. i - 1 \in Nat /\ i - 1 < r.valid
    BY <1>1
  <2>2. QED
    BY <2>1
<1>3. QED
  BY <1>2 DEF Contents

\* ProduceBuffer skips no byte that is there.
LEMMA ContentsGranted ==
  ASSUME NEW r \in Ring, RingShape(r), NEW len \in Nat, NEW m
  PROVE  Contents(Granting(r, len), m) = Contents(r, m)
<1> DEFINE s == Granting(r, len)
<1>1. s \in Ring /\ s.valid = r.valid
  BY GrantingShape
<1>2. \A i \in Nat : i < r.valid => ByteAddress(s, i) = ByteAddress(r, i)
  BY AddressGranted
<1> HIDE DEF s
<1>3. Contents(s, m) = Contents(r, m)
  BY <1>1, <1>2, SameContents
<1>4. QED
  BY <1>3 DEF s

\* What ValidBuffer is told of comes behind what was there.
LEMMA ContentsStored ==
  ASSUME NEW r \in Ring, RingShape(r), NEW n \in Nat,
         n <= r.free, r.produce + n <= r.size,
         NEW m \in [0 .. r.size - 1 -> Bytes \cup {Junk}],
         NEW w \in Seq(Bytes), Len(w) = n, Contents(r, m) \in Seq(Bytes)
  PROVE  Contents(Validated(r, n), Stored(m, r.produce, w)) = Contents(r, m) \o w
<1> DEFINE s == Validated(r, n)
           h == Stored(m, r.produce, w)
           c == Contents(r, m)
           d == Contents(s, h)
<1>0. /\ r.size \in Nat /\ r.consume \in Nat /\ r.produce \in Nat
      /\ r.free \in Nat /\ r.valid \in Nat /\ r.spare \in Nat
  BY RingFields
<1>1. /\ s \in Ring /\ s.size = r.size /\ s.consume = r.consume
      /\ s.spare = r.spare /\ s.valid = r.valid + n
  BY ValidatedShape
<1>2. /\ Len(c) = r.valid
      /\ \A i \in 1 .. r.valid : c[i] = m[ByteAddress(r, i - 1)]
  BY ContentsLength
<1> HIDE DEF s, c
<1>3. /\ Len(d) = r.valid + n
      /\ \A i \in 1 .. r.valid + n : d[i] = h[ByteAddress(s, i - 1)]
  BY <1>1, ContentsLength
<1>4. \A i \in Nat : ByteAddress(s, i) = ByteAddress(r, i)
  BY <1>1 DEF ByteAddress
<1>5. ASSUME NEW i \in 1 .. r.valid PROVE d[i] = c[i]
  <2> DEFINE a == ByteAddress(r, i - 1)
  <2>1. i - 1 \in Nat /\ i - 1 < r.valid /\ i - 1 \in 0 .. r.valid - 1
        /\ i \in 1 .. r.valid + n
    BY <1>0
  <2>2. d[i] = h[a] /\ c[i] = m[a]
    BY <1>2, <1>3, <1>4, <2>1
  <2>3. a \in ValidAddresses(r)
    BY <2>1 DEF ValidAddresses
  <2>4. a \notin r.produce .. r.produce + n - 1
    BY <2>3, FreeBlockIsDisjoint
  <2>5. a \in 0 .. r.size - 1
    BY <2>1, AddressInside
  <2> HIDE DEF a
  <2>6. h[a] = m[a]
    BY <2>4, <2>5 DEF Stored
  <2>7. QED
    BY <2>2, <2>6
<1>6. ASSUME NEW k \in 1 .. n PROVE d[r.valid + k] = w[k]
  <2> DEFINE i == r.valid + k
             a == ByteAddress(r, i - 1)
  <2>0. n \in Nat /\ k \in 1 .. n
    OBVIOUS
  <2>1. k - 1 \in Nat /\ k - 1 < n /\ i - 1 = r.valid + (k - 1)
        /\ i - 1 \in Nat /\ i \in 1 .. r.valid + n
    <3> DEFINE v == r.valid
    <3>1. v \in Nat
      BY <1>0
    <3> HIDE DEF v
    <3>2. /\ k - 1 \in Nat /\ k - 1 < n /\ v + k - 1 = v + (k - 1)
          /\ v + k - 1 \in Nat /\ v + k \in 1 .. v + n
      BY ONLY <2>0, <3>1
    <3>3. i = v + k /\ r.valid = v
      BY DEF v
    <3> HIDE DEF i
    <3>4. QED
      BY ONLY <2>0, <3>1, <3>2, <3>3
  <2>2. d[i] = h[a]
    BY <1>3, <1>4, <2>1
  <2>3. /\ a = r.produce + (k - 1) /\ a \in 0 .. r.size - 1
        /\ a \in r.produce .. r.produce + n - 1
    BY <2>1, AddressStored
  <2> HIDE DEF a
  <2>4. a - r.produce + 1 = k
    BY <1>0, <2>3
  <2>5. h[a] = w[k]
    BY <2>3, <2>4 DEF Stored
  <2>6. QED
    BY <2>2, <2>5
<1> HIDE DEF d, h
<1>7. /\ c \o w \in Seq(Bytes) /\ Len(c \o w) = r.valid + n
      /\ \A i \in 1 .. r.valid + n :
           (c \o w)[i] = IF i <= r.valid THEN c[i] ELSE w[i - r.valid]
  <2>1. c \in Seq(Bytes)
    BY DEF c
  <2>2. /\ c \o w \in Seq(Bytes) /\ Len(c \o w) = Len(c) + Len(w)
        /\ \A i \in 1 .. Len(c) + Len(w) :
             (c \o w)[i] = IF i <= Len(c) THEN c[i] ELSE w[i - Len(c)]
    BY <2>1, ConcatProperties
  <2>3. QED
    BY <1>2, <2>2
<1>8. \A i \in 1 .. r.valid + n : d[i] = (c \o w)[i]
  <2>1. ASSUME NEW i \in 1 .. r.valid + n PROVE d[i] = (c \o w)[i]
    <3>1. CASE i <= r.valid
      <4>1. i \in 1 .. r.valid
        BY <1>0, <3>1
      <4>2. QED
        BY <1>5, <1>7, <3>1, <4>1
    <3>2. CASE ~(i <= r.valid)
      <4> DEFINE k == i - r.valid
      <4>0. n \in Nat /\ i \in 1 .. r.valid + n
        OBVIOUS
      <4>1. k \in 1 .. n /\ r.valid + k = i
        BY ONLY <1>0, <3>2, <4>0
      <4>2. (c \o w)[i] = w[k]
        BY <1>7, <3>2
      <4> HIDE DEF k
      <4>3. d[r.valid + k] = w[k]
        BY <1>6, <4>1
      <4>4. QED
        BY <4>1, <4>2, <4>3
    <3>3. QED
      BY <3>1, <3>2
  <2>2. QED
    BY <2>1
<1>9. d = c \o w
  <2> DEFINE e == c \o w
  <2>1. e \in Seq(Bytes) /\ Len(e) = r.valid + n
        /\ \A i \in 1 .. r.valid + n : d[i] = e[i]
    BY <1>7, <1>8
  <2>2. d = [i \in 1 .. r.valid + n |-> d[i]]
    BY <1>1 DEF d, Contents
  <2> HIDE DEF e
  <2>3. e = [i \in 1 .. r.valid + n |-> e[i]]
    BY <2>1, LenProperties
  <2>4. QED
    BY <2>1, <2>2, <2>3 DEF e
<1>10. QED
  BY <1>9 DEF d, s, h, c

\* FreeBuffer takes the block that was read off the front.
LEMMA ContentsFreed ==
  ASSUME NEW r \in Ring, RingShape(r), NEW n \in Nat,
         n <= r.valid, r.consume + n <= r.size - r.spare,
         NEW m \in [0 .. r.size - 1 -> Bytes \cup {Junk}],
         Contents(r, m) \in Seq(Bytes)
  PROVE  /\ Block(m, r.consume, n) = SubSeq(Contents(r, m), 1, n)
         /\ Contents(Freed(r, n), Erased(m, r.consume, n))
              = SubSeq(Contents(r, m), n + 1, Len(Contents(r, m)))
<1> DEFINE s == Freed(r, n)
           h == Erased(m, r.consume, n)
           c == Contents(r, m)
           d == Contents(s, h)
           b == Block(m, r.consume, n)
           first == SubSeq(c, 1, n)
           last == SubSeq(c, n + 1, Len(c))
           k == r.valid - n
<1>0. /\ r.size \in Nat /\ r.consume \in Nat /\ r.produce \in Nat
      /\ r.free \in Nat /\ r.valid \in Nat /\ r.spare \in Nat
  BY RingFields
<1>1. s \in Ring /\ s.size = r.size /\ s.valid = r.valid - n
  BY FreedShape
<1>2. /\ Len(c) = r.valid
      /\ \A i \in 1 .. r.valid : c[i] = m[ByteAddress(r, i - 1)]
  BY ContentsLength
<1>3. n \in 0 .. Len(c) /\ k \in Nat /\ n + k = r.valid
  BY <1>0, <1>2
<1>4. /\ first \in Seq(Bytes) /\ Len(first) = n
      /\ last \in Seq(Bytes) /\ Len(last) = k
      /\ \A i \in 1 .. n : first[i] = c[i]
      /\ \A i \in 1 .. k : last[i] = c[n + i]
  <2>1. c \in Seq(Bytes)
    OBVIOUS
  <2>2. Len(c) - n = k
    BY <1>2
  <2> HIDE DEF c, k
  <2>3. /\ first \in Seq(Bytes) /\ Len(first) = n
        /\ last \in Seq(Bytes) /\ Len(last) = Len(c) - n
        /\ \A i \in 1 .. n : first[i] = c[i]
        /\ \A i \in 1 .. Len(c) - n : last[i] = c[n + i]
    BY <1>3, <2>1, Taken
  <2>4. QED
    BY <2>2, <2>3
<1>5. \A i \in Nat : i < k =>
        /\ ByteAddress(s, i) = ByteAddress(r, n + i)
        /\ ByteAddress(r, n + i) \notin r.consume .. r.consume + n - 1
  BY AddressFreed
<1> HIDE DEF s, c, first, last
<1>6. \A i \in 1 .. k : d[i] = h[ByteAddress(s, i - 1)]
  BY <1>1, ContentsLength
<1>7. d = [i \in 1 .. k |-> d[i]]
  BY <1>1 DEF d, Contents
<1> HIDE DEF d, k
<1>8. ASSUME NEW i \in 1 .. n PROVE b[i] = first[i]
  <2>0. /\ n <= r.valid /\ r.consume + n <= r.size - r.spare
        /\ n \in Nat /\ i \in 1 .. n
    OBVIOUS
  <2>1. i \in 1 .. r.valid /\ r.consume + (i - 1) < r.size - r.spare
    BY ONLY <1>0, <2>0
  <2>2. ByteAddress(r, i - 1) = r.consume + i - 1
    BY <1>0, <2>1 DEF ByteAddress
  <2>3. b[i] = m[r.consume + i - 1]
    BY DEF Block
  <2>4. QED
    BY <1>2, <1>4, <2>1, <2>2, <2>3
<1>9. ASSUME NEW i \in 1 .. k PROVE d[i] = last[i]
  <2> DEFINE j == i - 1
             a == ByteAddress(r, n + j)
  <2>1. j \in Nat /\ j < k /\ n + i \in 1 .. r.valid /\ n + i - 1 = n + j
        /\ n + j \in Nat /\ n + j < r.valid
    BY <1>0, <1>3
  <2>2. d[i] = h[ByteAddress(s, j)]
    BY <1>6
  <2> HIDE DEF j
  <2>3. ByteAddress(s, j) = a /\ a \notin r.consume .. r.consume + n - 1
    BY <1>5, <2>1
  <2>4. a \in 0 .. r.size - 1
    BY <2>1, AddressInside
  <2>5. d[i] = h[a]
    BY <2>2, <2>3
  <2>6. c[n + i] = m[a]
    <3> DEFINE x == n + i
    <3>1. x \in 1 .. r.valid /\ x - 1 = n + j
      BY <2>1
    <3> HIDE DEF x
    <3>2. c[x] = m[a]
      BY <1>2, <3>1
    <3>3. QED
      BY <3>2 DEF x
  <2> HIDE DEF a
  <2>7. h[a] = m[a]
    BY <2>3, <2>4 DEF Erased
  <2>8. QED
    BY <1>4, <2>5, <2>6, <2>7
<1>10. b = first
  <2>1. b = [i \in 1 .. n |-> b[i]]
    BY DEF Block
  <2>2. first = [i \in 1 .. n |-> first[i]]
    BY <1>4, LenProperties
  <2> HIDE DEF b
  <2>3. QED
    BY <1>8, <2>1, <2>2
<1>11. d = last
  <2>1. last = [i \in 1 .. k |-> last[i]]
    BY <1>4, LenProperties
  <2>2. QED
    BY <1>7, <1>9, <2>1
<1>12. QED
  BY <1>10, <1>11 DEF b, first, d, last, s, c

-----------------------------------------------------------------------------
(***************************************************************************)
(* What the invariant has to say for the bytes, besides IInv.  While a     *)
(* block is being filled, the buffers behind its own hold nothing: the     *)
(* bytes that arrive in it are the last ones.                              *)
(***************************************************************************)
Piece(g) == IF g \in live THEN Contents(ring[g], mem[g]) ELSE <<>>

GoodBytes == \A g \in 1 .. newest : Piece(g) \in Seq(Bytes)

GrantInLast ==
  grant # NoBlock => \A g \in live : g > grant.gen => ring[g].valid = 0

Linked == GoodBytes /\ GrantInLast

Chain == [g \in 1 .. newest |-> Piece(g)]

\* The bytes under way are those of the buffers, put together.
LEMMA ChainIs ==
  ASSUME IInv, GoodBytes
  PROVE  /\ newest \in Nat /\ newest # 0 /\ newest \in 1 .. newest
         /\ Chain \in [1 .. newest -> Seq(Bytes)]
         /\ \A g \in 1 .. newest : Chain[g] = Piece(g)
         /\ InFlight = FlattenSeq(Chain) /\ InFlight \in Seq(Bytes)
<1>1. newest \in Nat /\ newest # 0 /\ newest \in 1 .. newest
  BY Generations
<1>2. \A g \in 1 .. newest : Chain[g] = Piece(g)
  BY DEF Chain
<1>3. Chain \in [1 .. newest -> Seq(Bytes)]
  BY DEF Chain, GoodBytes
<1>4. InFlight = FlattenSeq(Chain)
  BY DEF InFlight, Chain, Piece
<1>5. PICK f \in [1 .. newest -> Seq(Bytes)] : Glued(f, Chain, newest)
  BY <1>1, <1>3, GlueExists
<1>6. FlattenSeq(Chain) \in Seq(Bytes)
  BY <1>1, <1>3, <1>5, FlatIsGlued
<1>7. QED
  BY <1>1, <1>2, <1>3, <1>4, <1>6

\* A sequence is a prefix of itself, and of what is added to it.
LEMMA PrefixOf ==
  ASSUME NEW S, NEW s \in Seq(S), NEW t \in Seq(S)
  PROVE  Stream!IsPrefix(s, s \o t) /\ Stream!IsPrefix(s, s)
<1>1. /\ Len(s) \in Nat /\ Len(t) \in Nat /\ Len(s \o t) = Len(s) + Len(t)
      /\ SubSeq(s \o t, 1, Len(s)) = s
  BY Splits
<1>2. SubSeq(s, 1, Len(s)) = s
  BY WholeTaken
<1>3. QED
  BY <1>1, <1>2 DEF Stream!IsPrefix

\* A sequence that is cut in two can be put together again.
LEMMA PutTogether ==
  ASSUME NEW S, NEW s \in Seq(S), NEW k \in 0 .. Len(s)
  PROVE  s = SubSeq(s, 1, k) \o SubSeq(s, k + 1, Len(s))
<1> DEFINE n == Len(s)
           u == SubSeq(s, 1, k)
           t == SubSeq(s, k + 1, Len(s))
           c == u \o t
<1>1. n \in Nat /\ k \in Nat /\ k <= n
  BY LenProperties
<1>2. /\ u \in Seq(S) /\ Len(u) = k /\ t \in Seq(S) /\ Len(t) = n - k
      /\ \A i \in 1 .. k : u[i] = s[i]
      /\ \A i \in 1 .. n - k : t[i] = s[k + i]
  BY Taken
<1> HIDE DEF u, t, n
<1>3. /\ c \in Seq(S) /\ Len(c) = Len(u) + Len(t)
      /\ \A i \in 1 .. Len(u) + Len(t) :
           c[i] = IF i <= Len(u) THEN u[i] ELSE t[i - Len(u)]
  BY <1>2, ConcatProperties
<1> HIDE DEF c
<1>4. Len(c) = n
  BY <1>1, <1>2, <1>3
<1>5. ASSUME NEW i \in 1 .. n PROVE c[i] = s[i]
  <2>1. i \in 1 .. Len(u) + Len(t)
    BY <1>1, <1>2
  <2>2. CASE i <= k
    <3>1. i \in 1 .. k
      BY <1>1, <2>2
    <3>2. QED
      BY <1>2, <1>3, <2>1, <2>2, <3>1
  <2>3. CASE ~(i <= k)
    <3> DEFINE j == i - k
    <3>1. j \in 1 .. n - k /\ k + j = i
      BY <1>1, <2>3
    <3>2. c[i] = t[j]
      BY <1>2, <1>3, <2>1, <2>3
    <3> HIDE DEF j
    <3>3. t[j] = s[k + j]
      BY <1>2, <3>1
    <3>4. QED
      BY <3>1, <3>2, <3>3
  <2>4. QED
    BY <2>2, <2>3
<1>6. c = s
  BY <1>3, <1>4, <1>5, SeqEqual DEF n
<1>7. QED
  BY <1>6 DEF c, u, t

-----------------------------------------------------------------------------
(***************************************************************************)
(* The steps of a stream.                                                  *)
(***************************************************************************)
LEMMA Stays ==
  ASSUME IInv, GoodBytes, newest' = newest,
         \A g \in 1 .. newest : Piece(g)' = Piece(g), out' = <<>>
  PROVE  GoodBytes' /\ Stream!Put
<1>1. InFlight = FlattenSeq(Chain) /\ InFlight \in Seq(Bytes)
  BY ChainIs
<1>2. InFlight' = FlattenSeq(Chain')
  BY DEF InFlight, Chain, Piece
<1>3. Chain' = Chain
  BY DEF Chain
<1>4. GoodBytes'
  BY DEF GoodBytes
<1>5. InFlight' = InFlight
  BY <1>1, <1>2, <1>3
<1>6. Stream!IsPrefix(InFlight, InFlight)
  BY <1>1, PrefixOf
<1>7. QED
  BY <1>1, <1>4, <1>5, <1>6 DEF Stream!Put

\* A step that adds bytes to the last buffer that holds any.
LEMMA Puts ==
  ASSUME IInv, IInv', GoodBytes, newest' = newest,
         NEW k \in 1 .. newest, NEW w \in Seq(Bytes),
         Piece(k)' = Piece(k) \o w,
         \A g \in 1 .. newest : g # k => Piece(g)' = Piece(g),
         \A g \in 1 .. newest : g > k => Piece(g) = <<>>, out' = <<>>
  PROVE  GoodBytes' /\ Stream!Put
<1>1. /\ newest \in Nat /\ newest # 0
      /\ Chain \in [1 .. newest -> Seq(Bytes)]
      /\ \A g \in 1 .. newest : Chain[g] = Piece(g)
      /\ InFlight = FlattenSeq(Chain) /\ InFlight \in Seq(Bytes)
  BY ChainIs
<1>2. GoodBytes'
  <2>1. Piece(k) \in Seq(Bytes)
    BY DEF GoodBytes
  <2>2. Piece(k)' \in Seq(Bytes)
    BY <2>1, ConcatProperties
  <2>3. QED
    BY <2>2 DEF GoodBytes
<1>3. /\ Chain' \in [1 .. newest -> Seq(Bytes)]
      /\ \A g \in 1 .. newest : Chain'[g] = Piece(g)'
      /\ InFlight' = FlattenSeq(Chain') /\ InFlight' \in Seq(Bytes)
  <2>1. (IInv /\ GoodBytes)' =>
          (/\ Chain \in [1 .. newest -> Seq(Bytes)]
           /\ \A g \in 1 .. newest : Chain[g] = Piece(g)
           /\ InFlight = FlattenSeq(Chain) /\ InFlight \in Seq(Bytes))'
    BY ChainIs, PTL
  <2>2. QED
    BY <1>2, <2>1
<1>4. FlattenSeq(Chain') = FlattenSeq(Chain) \o w
  <2>1. /\ Chain'[k] = Chain[k] \o w
        /\ \A g \in 1 .. newest : g # k => Chain'[g] = Chain[g]
        /\ \A g \in 1 .. newest : g > k => Chain[g] = <<>>
    BY <1>1, <1>3
  <2> DEFINE p == Chain
             q == Chain'
             n == newest
  <2>2. Extended(Bytes, p, q, n, k, w)
    BY <1>1, <1>3, <2>1 DEF Extended
  <2> HIDE DEF p, q
  <2>3. FlattenSeq(q) = FlattenSeq(p) \o w
    BY <2>2, FlatExtends
  <2>4. QED
    BY <2>3 DEF p, q
<1>5. Stream!IsPrefix(InFlight, InFlight \o w)
  BY <1>1, PrefixOf
<1>6. QED
  BY <1>1, <1>2, <1>3, <1>4, <1>5 DEF Stream!Put

\* A step that takes bytes from the first buffer that holds any.
LEMMA Gets ==
  ASSUME IInv, IInv', GoodBytes, newest' = newest,
         NEW k \in 1 .. newest, NEW n \in 0 .. Len(Piece(k)),
         Piece(k)' = SubSeq(Piece(k), n + 1, Len(Piece(k))),
         out' = SubSeq(Piece(k), 1, n),
         \A g \in 1 .. newest : g # k => Piece(g)' = Piece(g),
         \A g \in 1 .. newest : g < k => Piece(g) = <<>>
  PROVE  GoodBytes' /\ Stream!Get
<1>1. /\ newest \in Nat /\ newest # 0
      /\ Chain \in [1 .. newest -> Seq(Bytes)]
      /\ \A g \in 1 .. newest : Chain[g] = Piece(g)
      /\ InFlight = FlattenSeq(Chain) /\ InFlight \in Seq(Bytes)
  BY ChainIs
<1>2. /\ out' \in Seq(Bytes) /\ Len(out') = n /\ Piece(k)' \in Seq(Bytes)
      /\ Piece(k) = out' \o Piece(k)'
  <2> DEFINE s == Piece(k)
  <2>1. s \in Seq(Bytes) /\ n \in 0 .. Len(s)
    BY DEF GoodBytes
  <2>2. /\ out' = SubSeq(s, 1, n)
        /\ Piece(k)' = SubSeq(s, n + 1, Len(s))
    OBVIOUS
  <2> HIDE DEF s
  <2>3. /\ SubSeq(s, 1, n) \in Seq(Bytes) /\ Len(SubSeq(s, 1, n)) = n
        /\ SubSeq(s, n + 1, Len(s)) \in Seq(Bytes)
    BY <2>1, Taken
  <2>4. s = SubSeq(s, 1, n) \o SubSeq(s, n + 1, Len(s))
    BY <2>1, PutTogether
  <2>5. QED
    BY <2>2, <2>3, <2>4 DEF s
<1>3. GoodBytes'
  BY <1>2 DEF GoodBytes
<1>4. /\ Chain' \in [1 .. newest -> Seq(Bytes)]
      /\ \A g \in 1 .. newest : Chain'[g] = Piece(g)'
      /\ InFlight' = FlattenSeq(Chain') /\ InFlight' \in Seq(Bytes)
  <2>1. (IInv /\ GoodBytes)' =>
          (/\ Chain \in [1 .. newest -> Seq(Bytes)]
           /\ \A g \in 1 .. newest : Chain[g] = Piece(g)
           /\ InFlight = FlattenSeq(Chain) /\ InFlight \in Seq(Bytes))'
    BY ChainIs, PTL
  <2>2. QED
    BY <1>3, <2>1
<1>5. FlattenSeq(Chain) = out' \o FlattenSeq(Chain')
  <2>1. /\ Chain[k] = out' \o Chain'[k]
        /\ \A g \in 1 .. newest : g # k => Chain'[g] = Chain[g]
        /\ \A g \in 1 .. newest : g < k => Chain[g] = <<>>
    BY <1>1, <1>2, <1>4
  <2> DEFINE p == Chain
             q == Chain'
             w == out'
             m == newest
  <2>2. Shortened(Bytes, p, q, m, k, w)
    BY <1>1, <1>2, <1>4, <2>1 DEF Shortened
  <2> HIDE DEF p, q, w
  <2>3. FlattenSeq(p) = w \o FlattenSeq(q)
    BY <2>2, FlatLoses
  <2>4. QED
    BY <2>3 DEF p, q, w
<1>6. InFlight = out' \o InFlight'
  BY <1>1, <1>4, <1>5
<1>7. /\ Len(InFlight) = Len(out') + Len(InFlight') /\ Len(InFlight') \in Nat
      /\ SubSeq(InFlight, 1, Len(out')) = out'
      /\ SubSeq(InFlight, Len(out') + 1, Len(InFlight)) = InFlight'
  <2> DEFINE s == out'
             t == InFlight'
  <2>1. s \in Seq(Bytes) /\ t \in Seq(Bytes) /\ InFlight = s \o t
    BY <1>2, <1>4, <1>6
  <2> HIDE DEF s, t
  <2>2. /\ Len(t) \in Nat /\ Len(s \o t) = Len(s) + Len(t)
        /\ SubSeq(s \o t, 1, Len(s)) = s
        /\ SubSeq(s \o t, Len(s) + 1, Len(s \o t)) = t
    BY <2>1, Splits
  <2>3. QED
    BY <2>1, <2>2 DEF s, t
<1>8. n \in 0 .. Len(InFlight)
  <2>1. n \in Nat
    BY <1>2, LenProperties
  <2>2. QED
    BY <1>2, <1>7, <2>1
<1>9. QED
  BY <1>2, <1>3, <1>7, <1>8 DEF Stream!Get

\* A step that adds a buffer, with nothing in it.
LEMMA Grows ==
  ASSUME IInv, IInv', GoodBytes, NEW m, m = newest + 1, newest' = m,
         \A g \in 1 .. newest : Piece(g)' = Piece(g),
         Piece(m)' = <<>>, out' = <<>>
  PROVE  GoodBytes' /\ Stream!Put
<1>1. /\ newest \in Nat /\ newest # 0
      /\ Chain \in [1 .. newest -> Seq(Bytes)]
      /\ \A g \in 1 .. newest : Chain[g] = Piece(g)
      /\ InFlight = FlattenSeq(Chain) /\ InFlight \in Seq(Bytes)
  BY ChainIs
<1>2. GoodBytes'
  <2>1. ASSUME NEW g \in 1 .. m PROVE Piece(g)' \in Seq(Bytes)
    <3>1. CASE g = m
      BY <3>1, EmptySeq
    <3>2. CASE g # m
      <4>1. g \in 1 .. newest
        BY <1>1, <3>2
      <4>2. QED
        BY <4>1 DEF GoodBytes
    <3>3. QED
      BY <3>1, <3>2
  <2>2. QED
    BY <2>1 DEF GoodBytes
<1>3. /\ Chain' \in [1 .. m -> Seq(Bytes)]
      /\ \A g \in 1 .. m : Chain'[g] = Piece(g)'
      /\ InFlight' = FlattenSeq(Chain')
  <2>1. (IInv /\ GoodBytes)' =>
          (/\ Chain \in [1 .. newest -> Seq(Bytes)]
           /\ \A g \in 1 .. newest : Chain[g] = Piece(g)
           /\ InFlight = FlattenSeq(Chain) /\ InFlight \in Seq(Bytes))'
    BY ChainIs, PTL
  <2>2. QED
    BY <1>2, <2>1
<1>4. FlattenSeq(Chain') = FlattenSeq(Chain)
  <2> DEFINE p == Chain
             q == Chain'
             n == newest
  <2>1. n \in Nat /\ n # 0 /\ m = n + 1
    BY <1>1
  <2>2. p \in [1 .. n -> Seq(Bytes)] /\ q \in [1 .. m -> Seq(Bytes)]
    BY <1>1, <1>3
  <2>3. /\ \A g \in 1 .. n : q[g] = p[g]
        /\ q[m] = <<>>
    <3>1. m \in 1 .. m /\ \A g \in 1 .. newest : g \in 1 .. m
      BY <1>1
    <3>2. QED
      BY <1>1, <1>3, <3>1
  <2>4. Lengthened(Bytes, p, q, n)
    BY <2>1, <2>2, <2>3 DEF Lengthened
  <2> HIDE DEF p, q
  <2>5. FlattenSeq(q) = FlattenSeq(p)
    BY <2>4, FlatGrows
  <2>6. QED
    BY <2>5 DEF p, q
<1>5. Stream!IsPrefix(InFlight, InFlight)
  BY <1>1, PrefixOf
<1>6. QED
  BY <1>1, <1>2, <1>3, <1>4, <1>5 DEF Stream!Put

-----------------------------------------------------------------------------
(***************************************************************************)
(* The steps of the buffer, one by one.                                    *)
(***************************************************************************)
LEMMA PieceIs ==
  ASSUME IInv, NEW g \in 1 .. newest
  PROVE  /\ ring[g] \in Ring /\ RingShape(ring[g]) /\ ring[g].valid \in Nat
         /\ mem[g] \in [0 .. ring[g].size - 1 -> Bytes \cup {Junk}]
         /\ g \in live => Piece(g) = Contents(ring[g], mem[g])
         /\ g \notin live => Piece(g) = <<>>
         /\ ring[g].valid = 0 => Piece(g) = <<>>
<1>1. ring[g] \in Ring /\ RingShape(ring[g])
  BY Generations
<1>2. mem[g] \in [0 .. ring[g].size - 1 -> Bytes \cup {Junk}]
  BY DEF IInv, TypeOK
<1>3. ring[g].valid \in Nat /\ (ring[g].valid = 0 => Contents(ring[g], mem[g]) = <<>>)
  BY <1>1, ContentsLength
<1>4. QED
  BY <1>1, <1>2, <1>3 DEF Piece

\* What leaves the chain is empty, so that all that was on it may be counted.
LEMMA PiecesAfter ==
  ASSUME IInv, IInv', newest' = newest, live' \subseteq live,
         \A g \in live : g \notin live' => ~(ring'[g].valid > 0)
  PROVE  \A g \in 1 .. newest :
           Piece(g)' = IF g \in live THEN Contents(ring'[g], mem'[g]) ELSE <<>>
<1>1. ASSUME NEW g \in 1 .. newest
      PROVE  Piece(g)' = IF g \in live THEN Contents(ring'[g], mem'[g]) ELSE <<>>
  <2>1. Piece(g)' = IF g \in live' THEN Contents(ring'[g], mem'[g]) ELSE <<>>
    BY DEF Piece
  <2>2. CASE g \in live /\ g \notin live'
    <3>1. ring'[g] \in Ring
      BY DEF IInv, TypeOK
    <3>2. ring'[g].valid = 0
      BY <2>2, <3>1, RingFields
    <3>3. Contents(ring'[g], mem'[g]) = <<>>
      BY <3>1, <3>2, ContentsLength
    <3>4. QED
      BY <2>1, <2>2, <3>3
  <2>3. CASE ~(g \in live /\ g \notin live')
    BY <2>1, <2>3
  <2>4. QED
    BY <2>2, <2>3
<1>2. QED
  BY <1>1

\* A step that leaves every buffer as it is.
LEMMA NoByteMoves ==
  ASSUME IInv, Linked, newest' = newest, ring' = ring, mem' = mem,
         live' = live, out' = <<>>, grant' = grant \/ grant' = NoBlock
  PROVE  Linked' /\ Stream!Put
<1>1. \A g \in 1 .. newest : Piece(g)' = Piece(g)
  BY DEF Piece
<1>2. GoodBytes' /\ Stream!Put
  BY <1>1, Stays DEF Linked
<1>3. GrantInLast'
  BY DEF Linked, GrantInLast
<1>4. QED
  BY <1>2, <1>3 DEF Linked

\* ConsumeBuffer and FreeBuffer drop no buffer that holds bytes.
LEMMA DrainedDrops ==
  ASSUME IInv, NEW rings, NEW b \in live, NEW L, L = Drained(rings, live, b)
  PROVE  /\ L \subseteq live
         /\ \A g \in live : g \notin L => ~(rings[g].valid > 0)
<1>1. newest \in Nat /\ newest \in live /\ live \subseteq 1 .. newest
  BY Generations
<1>2. QED
  BY <1>1, DrainedKeeps

\* ProduceBuffer hands out the newest buffer: what it prunes is empty.
LEMMA ProduceBufferPuts ==
  ASSUME IInv, IInv', Linked, NEW len \in 1 .. Free, ProduceBuffer(len)
  PROVE  Linked' /\ Stream!Put
<1> DEFINE r == Granting(ring[newest], len)
<1>1. /\ newest' = newest /\ mem' = mem /\ out' = <<>>
      /\ ring' = [ring EXCEPT ![newest] = r]
      /\ live' = Pruned(live) /\ grant'.gen = newest
  BY DEF ProduceBuffer
<1>2. /\ newest \in Nat /\ newest \in 1 .. newest /\ live \subseteq 1 .. newest
      /\ ring \in [1 .. newest -> Ring] /\ RingShape(ring[newest])
      /\ ring[newest] \in Ring
  BY Generations DEF IInv, TypeOK
<1>3. ring'[newest] = r /\ \A g \in 1 .. newest : g # newest => ring'[g] = ring[g]
  BY <1>1, <1>2
<1>4. live' \subseteq live
      /\ \A g \in live : g \notin live' => g # newest /\ ~(ring[g].valid > 0)
  BY <1>1 DEF Pruned
<1>5. \A g \in live : g \notin live' => ~(ring'[g].valid > 0)
  BY <1>2, <1>3, <1>4
<1>6. \A m : Contents(r, m) = Contents(ring[newest], m)
  BY <1>2, ContentsGranted
<1> HIDE DEF r
<1>7. ASSUME NEW g \in 1 .. newest PROVE Piece(g)' = Piece(g)
  <2>1. Piece(g)' = IF g \in live THEN Contents(ring'[g], mem'[g]) ELSE <<>>
    BY <1>1, <1>4, <1>5, PiecesAfter
  <2>2. Contents(ring'[g], mem'[g]) = Contents(ring[g], mem[g])
    BY <1>1, <1>3, <1>6
  <2>3. QED
    BY <2>1, <2>2 DEF Piece
<1>8. GoodBytes' /\ Stream!Put
  BY <1>1, <1>7, Stays DEF Linked
<1>9. GrantInLast'
  <2>1. \A g \in live' : ~(g > grant'.gen)
    BY <1>1, <1>2, <1>4
  <2>2. QED
    BY <2>1 DEF GrantInLast
<1>10. QED
  BY <1>8, <1>9 DEF Linked

\* The bytes of a block follow all others, though its buffer be an old one.
LEMMA ValidBufferPuts ==
  ASSUME IInv, IInv', Linked, NEW n \in 0 .. grant.len, ValidBuffer(n)
  PROVE  Linked' /\ Stream!Put
<1> SUFFICES ASSUME NEW b, b = grant.gen PROVE Linked' /\ Stream!Put
  OBVIOUS
<1> DEFINE w == Stamps(n)
           r == ring[b]
<1>1. /\ newest \in Nat /\ newest \in live
      /\ live \subseteq 1 .. newest /\ live \subseteq Nat
      /\ ring \in [1 .. newest -> Ring] /\ DOMAIN mem = 1 .. newest
  BY Generations DEF IInv, TypeOK
<1>2. /\ grant # NoBlock /\ b \in live /\ grant.off = r.produce
      /\ grant.off + grant.len <= r.size /\ grant.len <= r.free
      /\ grant.off \in Nat /\ grant.len \in Nat
  BY DEF ValidBuffer, IInv, GrantHeld, TypeOK, BlockType
<1>3. /\ newest' = newest /\ ring' = [ring EXCEPT ![b] = Validated(r, n)]
      /\ live' = Drained(ring', live, b)
      /\ mem' = [mem EXCEPT ![b] = Stored(mem[b], r.produce, w)]
      /\ grant' = NoBlock /\ out' = <<>>
  BY <1>2 DEF ValidBuffer
<1>4. /\ b \in 1 .. newest /\ r \in Ring /\ RingShape(r)
      /\ mem[b] \in [0 .. r.size - 1 -> Bytes \cup {Junk}]
      /\ Piece(b) = Contents(r, mem[b])
  BY <1>1, <1>2, PieceIs
<1>5. n \in Nat /\ n <= r.free /\ r.produce + n <= r.size
  BY <1>2, <1>4, RingFields
<1>6. w \in Seq(Bytes) /\ Len(w) = n
  <2>1. w \in Seq(Bytes)
    BY <1>5, StampsType DEF IInv, TypeOK
  <2>2. w \in [1 .. n -> Bytes]
    <3>1. \A i \in 1 .. n : (sent + i - 1) % Period \in Bytes
      BY StampsAreBytes DEF IInv, TypeOK
    <3>2. QED
      BY <3>1 DEF Stamps
  <2> HIDE DEF w
  <2>3. Len(w) = n
    BY <1>5, <2>2, FunctionIsSeq
  <2>4. QED
    BY <2>1, <2>3
<1>7. /\ live' \subseteq live
      /\ \A g \in live : g \notin live' => ~(ring'[g].valid > 0)
  <2> DEFINE rings == ring'
             L == live'
  <2>1. L = Drained(rings, live, b) /\ b \in live
    BY <1>2, <1>3
  <2> HIDE DEF rings, L
  <2>2. L \subseteq live /\ \A g \in live : g \notin L => ~(rings[g].valid > 0)
    BY <2>1, DrainedDrops
  <2>3. QED
    BY <2>2 DEF rings, L
<1>8. /\ ring'[b] = Validated(r, n) /\ mem'[b] = Stored(mem[b], r.produce, w)
      /\ \A g \in 1 .. newest : g # b => ring'[g] = ring[g] /\ mem'[g] = mem[g]
  BY <1>1, <1>3, <1>4
<1>9. \A g \in 1 .. newest :
        Piece(g)' = IF g \in live THEN Contents(ring'[g], mem'[g]) ELSE <<>>
  BY <1>3, <1>7, PiecesAfter
<1>10. Piece(b)' = Piece(b) \o w
  <2>1. Contents(r, mem[b]) \in Seq(Bytes)
    BY <1>4 DEF Linked, GoodBytes
  <2> HIDE DEF r, w
  <2>2. Contents(Validated(r, n), Stored(mem[b], r.produce, w)) = Contents(r, mem[b]) \o w
    BY <1>4, <1>5, <1>6, <2>1, ContentsStored
  <2>3. QED
    BY <1>2, <1>4, <1>8, <1>9, <2>2
<1>11. \A g \in 1 .. newest : g # b => Piece(g)' = Piece(g)
  BY <1>8, <1>9 DEF Piece
<1>12. ASSUME NEW g \in 1 .. newest, g > b PROVE Piece(g) = <<>>
  BY <1>2, <1>12, PieceIs DEF Linked, GrantInLast
<1> HIDE DEF w, r
<1>13. GoodBytes' /\ Stream!Put
  BY <1>3, <1>4, <1>6, <1>10, <1>11, <1>12, Puts DEF Linked
<1>14. GrantInLast'
  BY <1>3 DEF GrantInLast
<1>15. QED
  BY <1>13, <1>14 DEF Linked

\* ConsumeBuffer delivers nothing yet.
LEMMA ConsumeBufferPuts ==
  ASSUME IInv, IInv', Linked, NEW len \in 1 .. Valid, ConsumeBuffer(len)
  PROVE  Linked' /\ Stream!Put
<1>1. /\ newest' = newest /\ ring' = ring /\ mem' = mem /\ out' = <<>>
      /\ live' = Drained(ring, live, Top(live)) /\ grant' = grant
  BY DEF ConsumeBuffer
<1>2. /\ newest \in Nat /\ newest \in live /\ live \subseteq 1 .. newest
      /\ Top(live) \in live
  BY Generations
<1>3. /\ live' \subseteq live
      /\ \A g \in live : g \notin live' => ~(ring[g].valid > 0)
  BY <1>1, <1>2, DrainedKeeps
<1>4. \A g \in live : g \notin live' => ~(ring'[g].valid > 0)
  BY <1>1, <1>3
<1>5. ASSUME NEW g \in 1 .. newest PROVE Piece(g)' = Piece(g)
  BY <1>1, <1>3, <1>4, PiecesAfter DEF Piece
<1>6. GoodBytes' /\ Stream!Put
  BY <1>1, <1>5, Stays DEF Linked
<1>7. GrantInLast'
  BY <1>1, <1>3 DEF Linked, GrantInLast
<1>8. QED
  BY <1>6, <1>7 DEF Linked

\* Bytes are consumed from the buffer that is on top of the chain.
LEMMA FrontGets ==
  ASSUME IInv, IInv', Linked, NEW n \in Nat, NEW t, t = Top(live),
         n <= ring[t].valid, ring[t].consume + n <= ring[t].size - ring[t].spare,
         newest' = newest, grant' = grant,
         ring' = [ring EXCEPT ![t] = Freed(@, n)],
         live' = Drained(ring', live, t),
         mem' = [mem EXCEPT ![t] = Erased(@, ring[t].consume, n)],
         out' = Block(mem[t], ring[t].consume, n)
  PROVE  Linked' /\ Stream!Get
<1> DEFINE r == ring[t]
           c == Contents(r, mem[t])
<1>1. /\ newest \in Nat /\ newest \in live
      /\ live \subseteq 1 .. newest /\ live \subseteq Nat
      /\ ring \in [1 .. newest -> Ring] /\ DOMAIN mem = 1 .. newest
      /\ t \in live /\ \A h \in live : t <= h
  BY Generations DEF IInv, TypeOK
<1>2. /\ t \in 1 .. newest /\ r \in Ring /\ RingShape(r) /\ r.valid \in Nat
      /\ mem[t] \in [0 .. r.size - 1 -> Bytes \cup {Junk}]
      /\ Piece(t) = c
  BY <1>1, PieceIs
<1>3. /\ ring'[t] = Freed(r, n) /\ mem'[t] = Erased(mem[t], r.consume, n)
      /\ \A g \in 1 .. newest : g # t => ring'[g] = ring[g] /\ mem'[g] = mem[g]
  BY <1>1, <1>2
<1>4. /\ live' \subseteq live
      /\ \A g \in live : g \notin live' => ~(ring'[g].valid > 0)
  <2> DEFINE rings == ring'
             L == live'
  <2>1. L = Drained(rings, live, t) /\ t \in live
    BY <1>1
  <2> HIDE DEF rings, L
  <2>2. L \subseteq live /\ \A g \in live : g \notin L => ~(rings[g].valid > 0)
    BY <2>1, DrainedDrops
  <2>3. QED
    BY <2>2 DEF rings, L
<1>5. \A g \in 1 .. newest :
        Piece(g)' = IF g \in live THEN Contents(ring'[g], mem'[g]) ELSE <<>>
  BY <1>4, PiecesAfter
<1>6. c \in Seq(Bytes) /\ Len(c) = r.valid /\ n \in 0 .. Len(c)
  <2>1. c \in Seq(Bytes)
    BY <1>2 DEF Linked, GoodBytes
  <2>2. Len(c) = r.valid
    BY <1>2, ContentsLength
  <2> HIDE DEF c
  <2>3. QED
    BY <1>2, <2>1, <2>2
<1>7. /\ out' = SubSeq(c, 1, n)
      /\ Contents(Freed(r, n), Erased(mem[t], r.consume, n)) = SubSeq(c, n + 1, Len(c))
  <2>1. out' = Block(mem[t], r.consume, n)
    OBVIOUS
  <2>2. r.consume + n <= r.size - r.spare /\ n <= r.valid
    OBVIOUS
  <2> HIDE DEF r
  <2>3. QED
    BY <1>2, <1>6, <2>1, <2>2, ContentsFreed
<1> HIDE DEF c
<1>8. /\ Piece(t)' = SubSeq(Piece(t), n + 1, Len(Piece(t)))
      /\ out' = SubSeq(Piece(t), 1, n) /\ n \in 0 .. Len(Piece(t))
  BY <1>1, <1>2, <1>3, <1>5, <1>6, <1>7
<1> HIDE DEF r
<1>9. \A g \in 1 .. newest : g # t => Piece(g)' = Piece(g)
  <2>1. SUFFICES ASSUME NEW g \in 1 .. newest, g # t PROVE Piece(g)' = Piece(g)
    OBVIOUS
  <2>2. ring'[g] = ring[g] /\ mem'[g] = mem[g]
    BY <1>3, <2>1
  <2>3. Piece(g)' = IF g \in live THEN Contents(ring'[g], mem'[g]) ELSE <<>>
    BY <1>5
  <2>4. QED
    BY <2>2, <2>3 DEF Piece
<1>10. ASSUME NEW g \in 1 .. newest, g < t PROVE Piece(g) = <<>>
  <2>1. g \notin live
    BY <1>1, <1>10
  <2>2. QED
    BY <2>1 DEF Piece
<1>11. GoodBytes' /\ Stream!Get
  <2>1. GoodBytes
    BY DEF Linked
  <2> HIDE DEF r
  <2>2. QED
    BY <1>2, <1>8, <1>9, <1>10, <2>1, Gets
<1>12. GrantInLast'
  <2>1. SUFFICES ASSUME grant # NoBlock, NEW g \in live', g > grant.gen
                 PROVE  ring'[g].valid = 0
    BY DEF GrantInLast
  <2>2. grant.gen \in live /\ g \in live
    BY <1>4, <2>1 DEF IInv, GrantHeld
  <2>3. g # t /\ g \in 1 .. newest
    <3>1. t <= grant.gen /\ t \in Nat /\ grant.gen \in Nat /\ g \in Nat
      BY <1>1, <2>2
    <3>2. g # t
      BY ONLY <3>1, <2>1
    <3>3. QED
      BY <1>1, <2>2, <3>2
  <2>4. ring[g].valid = 0
    BY <2>1, <2>2 DEF Linked, GrantInLast
  <2>5. QED
    BY <1>3, <2>3, <2>4
<1>13. QED
  BY <1>11, <1>12 DEF Linked

\* FreeBuffer delivers the block that was lent.
LEMMA FreeBufferGets ==
  ASSUME IInv, IInv', Linked, FreeBuffer
  PROVE  Linked' /\ Stream!Get
<1> DEFINE n == loan.len
<1> SUFFICES ASSUME NEW t, t = Top(live) PROVE Linked' /\ Stream!Get
  OBVIOUS
<1>1. /\ loan # NoBlock /\ newest' = newest /\ grant' = grant
      /\ ring' = [ring EXCEPT ![t] = Freed(@, n)]
      /\ live' = Drained(ring', live, t)
      /\ out' = Block(mem[loan.gen], loan.off, n)
      /\ mem' = [mem EXCEPT ![loan.gen] = Erased(@, loan.off, n)]
  BY DEF FreeBuffer
<1>2. /\ loan.gen \in live /\ \A h \in live : loan.gen <= h
      /\ loan.off = ring[loan.gen].consume
      /\ n \in 1 .. ring[loan.gen].valid
      /\ loan.off + n <= ring[loan.gen].size - ring[loan.gen].spare
      /\ n \in Nat
  BY <1>1 DEF IInv, LoanHeld, TypeOK, BlockType
<1>3. t = loan.gen
  BY <1>2, Generations, TopIs
<1>4. n <= ring[t].valid
  BY <1>2, <1>3, Generations, RingFields
<1> HIDE DEF n
<1>5. /\ ring[t].consume + n <= ring[t].size - ring[t].spare
      /\ out' = Block(mem[t], ring[t].consume, n)
      /\ mem' = [mem EXCEPT ![t] = Erased(@, ring[t].consume, n)]
  BY <1>1, <1>2, <1>3
<1>6. QED
  BY <1>1, <1>2, <1>4, <1>5, FrontGets

\* One turn of the loop of Consume.
LEMMA ConsumeStepGets ==
  ASSUME IInv, IInv', Linked, ConsumeStep
  PROVE  Linked' /\ Stream!Get
<1> SUFFICES ASSUME NEW t, t = Top(live) PROVE Linked' /\ Stream!Get
  OBVIOUS
<1> DEFINE n == LoanLength(ring[t], want)
<1>1. /\ want > 0 /\ newest' = newest /\ grant' = grant
      /\ ring' = [ring EXCEPT ![t] = Freed(@, n)]
      /\ live' = Drained(ring', live, t)
      /\ out' = Block(mem[t], ring[t].consume, n)
      /\ mem' = [mem EXCEPT ![t] = Erased(@, ring[t].consume, n)]
  BY DEF ConsumeStep
<1>2. want \in Nat
  BY <1>1 DEF IInv, TypeOK, NotRunning
<1>3. ring[t] \in Ring /\ RingShape(ring[t])
  BY Generations
<1>4. /\ n \in 0 .. want /\ n <= ring[t].valid
      /\ ring[t].consume + n <= ring[t].size - ring[t].spare
  BY <1>2, <1>3, LoanLengthBounds
<1> HIDE DEF n
<1>5. n \in Nat
  BY <1>2, <1>4
<1>6. QED
  BY <1>1, <1>4, <1>5, FrontGets

\* One turn of the loop of Produce.
LEMMA ProduceStepPuts ==
  ASSUME IInv, IInv', Linked, ProduceStep
  PROVE  Linked' /\ Stream!Put
<1> SUFFICES ASSUME NEW b, b = newest PROVE Linked' /\ Stream!Put
  OBVIOUS
<1> DEFINE r == Granting(ring[b], rest)
           n == GrantLength(ring[b], rest)
           w == Stamps(n)
<1>1. /\ b \in Nat /\ b \in 1 .. newest /\ b \in live /\ live \subseteq 1 .. newest
      /\ ring \in [1 .. newest -> Ring] /\ DOMAIN mem = 1 .. newest
      /\ ring[b] \in Ring /\ RingShape(ring[b])
      /\ mem[b] \in [0 .. ring[b].size - 1 -> Bytes \cup {Junk}]
      /\ Piece(b) = Contents(ring[b], mem[b])
  BY Generations, PieceIs DEF IInv, TypeOK
<1>2. /\ rest > 0 /\ newest' = newest /\ live' = Pruned(live) /\ out' = <<>>
      /\ ring' = [ring EXCEPT ![b] = Validated(r, n)]
      /\ mem' = [mem EXCEPT ![b] = Stored(mem[b], r.produce, w)]
      /\ grant' = grant
  BY DEF ProduceStep
<1>3. rest \in Nat /\ grant = NoBlock
  BY <1>2 DEF IInv, TypeOK, NotRunning, CallsMatchSide, Producing, GrantHeld
<1>4. /\ r \in Ring /\ RingShape(r) /\ r.size = ring[b].size
      /\ n \in 0 .. rest /\ n <= r.free /\ r.produce + n <= r.size
      /\ Contents(r, mem[b]) = Contents(ring[b], mem[b])
  <2> DEFINE q == ring[b]
             m == mem[b]
  <2>1. q \in Ring /\ RingShape(q) /\ rest \in Nat
    BY <1>1, <1>3
  <2> HIDE DEF q, m
  <2>2. Contents(Granting(q, rest), m) = Contents(q, m)
    BY ONLY <2>1, ContentsGranted
  <2>3. /\ Granting(q, rest) \in Ring /\ RingShape(Granting(q, rest))
        /\ Granting(q, rest).size = q.size
        /\ GrantLength(q, rest) \in 0 .. rest
        /\ GrantLength(q, rest) <= Granting(q, rest).free
        /\ Granting(q, rest).produce + GrantLength(q, rest) <= q.size
    BY ONLY <2>1, GrantingShape
  <2>4. QED
    BY <2>2, <2>3 DEF q, m
<1> HIDE DEF r, n
<1>5. n \in Nat
  BY <1>3, <1>4
<1>6. w \in Seq(Bytes) /\ Len(w) = n
  <2>1. w \in Seq(Bytes)
    BY <1>5, StampsType DEF IInv, TypeOK
  <2>2. w \in [1 .. n -> Bytes]
    <3>1. \A i \in 1 .. n : (sent + i - 1) % Period \in Bytes
      BY StampsAreBytes DEF IInv, TypeOK
    <3>2. QED
      BY <3>1 DEF Stamps
  <2> HIDE DEF w
  <2>3. Len(w) = n
    BY <1>5, <2>2, FunctionIsSeq
  <2>4. QED
    BY <2>1, <2>3
<1> HIDE DEF w
<1>7. /\ ring'[b] = Validated(r, n) /\ mem'[b] = Stored(mem[b], r.produce, w)
      /\ \A g \in 1 .. newest : g # b => ring'[g] = ring[g] /\ mem'[g] = mem[g]
  BY <1>1, <1>2
<1>8. live' \subseteq live
      /\ \A g \in live : g \notin live' => g # b /\ ~(ring[g].valid > 0)
  BY <1>2 DEF Pruned
<1>9. \A g \in live : g \notin live' => ~(ring'[g].valid > 0)
  BY <1>1, <1>7, <1>8
<1>10. \A g \in 1 .. newest :
        Piece(g)' = IF g \in live THEN Contents(ring'[g], mem'[g]) ELSE <<>>
  BY <1>2, <1>8, <1>9, PiecesAfter
<1>11. Piece(b)' = Piece(b) \o w
  <2>1. Contents(r, mem[b]) \in Seq(Bytes)
    BY <1>1, <1>4 DEF Linked, GoodBytes
  <2>2. mem[b] \in [0 .. r.size - 1 -> Bytes \cup {Junk}]
    BY <1>1, <1>4
  <2>3. Contents(Validated(r, n), Stored(mem[b], r.produce, w)) = Contents(r, mem[b]) \o w
    BY <1>4, <1>5, <1>6, <2>1, <2>2, ContentsStored
  <2>4. QED
    BY <1>1, <1>4, <1>7, <1>10, <2>3
<1>12. \A g \in 1 .. newest : g # b => Piece(g)' = Piece(g)
  BY <1>7, <1>10 DEF Piece
<1>13. \A g \in 1 .. newest : ~(g > b)
  BY <1>1
<1>14. GoodBytes' /\ Stream!Put
  BY <1>1, <1>2, <1>6, <1>11, <1>12, <1>13, Puts DEF Linked
<1>15. GrantInLast'
  BY <1>2, <1>3 DEF GrantInLast
<1>16. QED
  BY <1>14, <1>15 DEF Linked

\* SwitchBuffer puts an empty buffer behind the others.
LEMMA GenerationPuts ==
  ASSUME IInv, IInv', Linked, NEW n \in Nat, AddGeneration(n), grant' = grant,
         out' = <<>>,
         \/ live' = live \cup {newest + 1}
         \/ /\ live' = (live \ {newest}) \cup {newest + 1}
            /\ ring[newest].valid = 0
  PROVE  Linked' /\ Stream!Put
<1> SUFFICES ASSUME NEW m, m = newest + 1 PROVE Linked' /\ Stream!Put
  OBVIOUS
<1>1. /\ newest \in Nat /\ newest \in live /\ live \subseteq 1 .. newest
      /\ live \subseteq Nat
  BY Generations
<1>2. newest' = m
  BY DEF AddGeneration
<1>3. /\ \A g \in 1 .. newest : ring'[g] = ring[g] /\ mem'[g] = mem[g]
      /\ ring'[m] = NewRing(n)
  BY <1>1 DEF AddGeneration
<1>4. /\ \A g \in 1 .. newest : g \in live' => g \in live
      /\ \A g \in 1 .. newest : g \in live /\ g \notin live' => ring[g].valid = 0
      /\ \A g \in live' : g # m => g \in live
  BY <1>1
<1>5. ASSUME NEW g \in 1 .. newest PROVE Piece(g)' = Piece(g)
  <2>1. Piece(g)' = IF g \in live' THEN Contents(ring[g], mem[g]) ELSE <<>>
    BY <1>3 DEF Piece
  <2>2. CASE g \in live'
    BY <1>4, <2>1, <2>2 DEF Piece
  <2>3. CASE g \notin live'
    BY <1>4, <2>1, <2>3, PieceIs
  <2>4. QED
    BY <2>2, <2>3
<1>6. NewRing(n) \in Ring /\ NewRing(n).valid = 0
  BY NewRingShape DEF NewRing
<1>7. Piece(m)' = <<>>
  <2>1. \A x : Contents(NewRing(n), x) = <<>>
    BY <1>6, ContentsLength
  <2>2. QED
    BY <1>3, <2>1 DEF Piece
<1>8. GoodBytes' /\ Stream!Put
  BY <1>2, <1>5, <1>7, Grows DEF Linked
<1>9. GrantInLast'
  <2>1. SUFFICES ASSUME grant # NoBlock, NEW g \in live', g > grant.gen
                 PROVE  ring'[g].valid = 0
    BY DEF GrantInLast
  <2>2. CASE g = m
    BY <1>3, <1>6, <2>2
  <2>3. CASE g # m
    <3>1. g \in live /\ g \in 1 .. newest
      BY <1>1, <1>4, <2>3
    <3>2. ring[g].valid = 0
      BY <2>1, <3>1 DEF Linked, GrantInLast
    <3>3. QED
      BY <1>3, <3>1, <3>2
  <2>4. QED
    BY <2>2, <2>3
<1>10. QED
  BY <1>8, <1>9 DEF Linked

\* The first buffer is empty.
LEMMA FlowBegins == Init => Linked /\ Stream!Init
<1> SUFFICES ASSUME Init PROVE Linked /\ Stream!Init
  OBVIOUS
<1>1. PICK n \in Sizes : ring = [g \in 1 .. 1 |-> NewRing(n)]
  BY DEF Init
<1>2. newest = 1 /\ live = {1} /\ grant = NoBlock /\ out = <<>> /\ IInv
  BY InitInv DEF Init
<1>3. n \in Nat /\ ring[1] = NewRing(n)
  BY <1>1, SizesAssumption
<1>4. ring[1].valid = 0
  BY <1>3 DEF NewRing
<1>5. 1 \in 1 .. newest
  BY <1>2
<1>6. Piece(1) = <<>>
  BY <1>2, <1>4, <1>5, PieceIs
<1>7. \A g \in 1 .. newest : g = 1
  BY <1>2
<1>8. GoodBytes
  BY <1>6, <1>7, EmptySeq DEF GoodBytes
<1>9. Linked
  BY <1>2, <1>8 DEF Linked, GrantInLast
<1>10. /\ Chain \in [1 .. newest -> Seq(Bytes)]
       /\ \A g \in 1 .. newest : Chain[g] = Piece(g)
       /\ InFlight = FlattenSeq(Chain)
  BY <1>2, <1>8, ChainIs
<1>11. Glued(Chain, Chain, 1)
  BY DEF Glued
<1>12. FlattenSeq(Chain) = Chain[1]
  <2> DEFINE p == Chain
  <2>1. p \in [1 .. 1 -> Seq(Bytes)] /\ Glued(p, p, 1)
    BY <1>2, <1>10, <1>11
  <2> HIDE DEF p
  <2>2. FlattenSeq(p) = p[1]
    <3> DEFINE one == 1
    <3>1. one \in Nat /\ one # 0
          /\ p \in [1 .. one -> Seq(Bytes)] /\ Glued(p, p, one)
      BY <2>1
    <3> HIDE DEF one
    <3>2. FlattenSeq(p) = p[one]
      BY ONLY <3>1, FlatIsGlued
    <3>3. QED
      BY <3>2 DEF one
  <2>3. QED
    BY <2>2 DEF p
<1>13. InFlight = <<>>
  BY <1>5, <1>6, <1>10, <1>12
<1>14. QED
  BY <1>2, <1>9, <1>13 DEF Stream!Init

\* Every step of the buffer is one of the stream.
LEMMA FlowStep ==
  ASSUME IInv, IInv', Linked, [Next]_vars
  PROVE  Linked' /\ [Stream!Next]_(Stream!vars)
<1>1. SUFFICES Linked' /\ (Stream!Put \/ Stream!Get \/ UNCHANGED <<InFlight, out>>)
  BY DEF Stream!Next, Stream!vars
<1>2. CASE InterruptNext
  <2>1. ASSUME NEW len \in 1 .. Free, ProduceBuffer(len) PROVE Linked' /\ Stream!Put
    BY <2>1, ProduceBufferPuts
  <2>2. ASSUME NEW n \in 0 .. grant.len, ValidBuffer(n) PROVE Linked' /\ Stream!Put
    BY <2>2, ValidBufferPuts
  <2>3. CASE AbandonGrant
    BY <2>3, NoByteMoves DEF AbandonGrant
  <2>4. ASSUME NEW len \in 1 .. Valid, ConsumeBuffer(len) PROVE Linked' /\ Stream!Put
    BY <2>4, ConsumeBufferPuts
  <2>5. CASE FreeBuffer
    BY <2>5, FreeBufferGets
  <2>6. QED
    BY <1>2, <2>1, <2>2, <2>3, <2>4, <2>5 DEF InterruptNext
<1>3. CASE ThreadNext
  <2>1. ASSUME NEW n \in 1 .. MaxRequest, BeginProduce(n) PROVE Linked' /\ Stream!Put
    BY <2>1, NoByteMoves DEF BeginProduce
  <2>2. ASSUME NEW n \in 1 .. MaxRequest, BeginConsume(n) PROVE Linked' /\ Stream!Put
    BY <2>2, NoByteMoves DEF BeginConsume
  <2>3. CASE ProduceStep
    BY <2>3, ProduceStepPuts
  <2>4. CASE EndProduce
    BY <2>4, NoByteMoves DEF EndProduce
  <2>5. CASE ConsumeStep
    BY <2>5, ConsumeStepGets
  <2>6. CASE EndConsume
    BY <2>6, NoByteMoves DEF EndConsume
  <2>7. ASSUME NEW n \in Sizes, SwitchSameSize(n) PROVE Linked' /\ Stream!Put
    BY <2>7, NoByteMoves DEF SwitchSameSize
  <2>8. ASSUME NEW n \in Sizes, SwitchInPlace(n) PROVE Linked' /\ Stream!Put
    BY <2>8, GenerationPuts, SizesAssumption DEF SwitchInPlace
  <2>9. ASSUME NEW n \in Sizes, SwitchToNew(n) PROVE Linked' /\ Stream!Put
    BY <2>9, GenerationPuts, SizesAssumption DEF SwitchToNew
  <2>10. QED
    BY <1>3, <2>1, <2>2, <2>3, <2>4, <2>5, <2>6, <2>7, <2>8, <2>9 DEF ThreadNext
<1>4. CASE UNCHANGED vars
  <2>1. /\ newest' = newest /\ ring' = ring /\ mem' = mem /\ live' = live
        /\ grant' = grant /\ out' = out
    BY <1>4 DEF vars
  <2>2. InFlight' = InFlight
    BY <2>1 DEF InFlight
  <2>3. Linked'
    BY <2>1 DEF Linked, GoodBytes, GrantInLast, Piece
  <2>4. QED
    BY <2>1, <2>2, <2>3
<1>5. QED
  BY <1>2, <1>3, <1>4 DEF Next

\* Through skipped ends, blocks that are half filled or abandoned, and changes of
\* memory under a transfer, the buffer (GUSIBuffer.cpp) is a stream: the bytes come
\* out in the order they went in, none lost and none twice.
THEOREM IsStream == Spec => ImplementsStream
<1>1. Init => Linked /\ Stream!Init
  BY FlowBegins
<1>2. IInv /\ IInv' /\ Linked /\ [Next]_vars => Linked' /\ [Stream!Next]_(Stream!vars)
  BY FlowStep
<1>3. QED
  BY <1>1, <1>2, Invariance, PTL DEF Spec, ImplementsStream, Stream!Spec
=============================================================================
