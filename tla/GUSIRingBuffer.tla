--------------------------- MODULE GUSIRingBuffer ---------------------------
(***************************************************************************)
(* A GUSIRingBuffer with the two parties that share it (GUSIBuffer.cpp).   *)
(*                                                                         *)
(* One party is cooperative thread code and moves memory with Produce or   *)
(* Consume; the lock is held over the whole call (IterateIOVec), so the    *)
(* other party cannot run between its iterations.  The other party is      *)
(* interrupt code that has the system write into, or read from, a block of *)
(* the buffer: it obtains the block with ProduceBuffer or ConsumeBuffer    *)
(* when one asynchronous call starts, and answers with ValidBuffer or      *)
(* FreeBuffer when the call completes.  Any number of steps of the thread  *)
(* fall between the two.                                                   *)
(*                                                                         *)
(* SwitchBuffer replaces the memory while either party may still be using  *)
(* the old one.  Every block of memory the buffer has had is a generation  *)
(* g in 1 .. newest, with its fields in ring[g] and its bytes in mem[g].   *)
(* live holds the generations of the fNewBuffer chain: its least element   *)
(* is the buffer object itself, newest its last fNewBuffer.  A generation  *)
(* that ObsoleteBuffer retires leaves live; PurgeBuffers may dispose of    *)
(* its memory at any time from then on.                                    *)
(***************************************************************************)
EXTENDS GUSIRing, Sequences

CONSTANTS
  Sizes,          \* buffer sizes that the socket options ask for
  MaxRequest,     \* longest Produce or Consume request
  Period,         \* bytes are numbered modulo Period
  MaxGenerations, \* bound on the number of blocks of memory
  MaxLeaks        \* bound on the number of locks SwitchBuffer leaks

ASSUME SizesAssumption == Sizes \subseteq Nat
ASSUME BoundsAssumption ==
  /\ MaxRequest \in Nat \ {0}
  /\ Period \in Nat \ {0}
  /\ MaxGenerations \in Nat \ {0}
  /\ MaxLeaks \in Nat

VARIABLES
  side,   \* which of the parties is thread code
  newest, \* number of generations so far
  ring, mem, live,
  locked, \* fLocked between two calls of the thread, or during its Produce
  grant,  \* the block ProduceBuffer handed out, until ValidBuffer
  loan,   \* the block ConsumeBuffer handed out, until FreeBuffer
  rest,   \* how many bytes a running Produce has still to store
  want,   \* how many bytes a running Consume has still to fetch
  sent,   \* number of the next byte to be stored
  out     \* the bytes released by the last step, as the consumer read them

vars == <<side, newest, ring, mem, live, locked, grant, loan, rest, want,
          sent, out>>

Bytes == 0 .. Period - 1
Junk  == -1              \* what memory holds outside the valid bytes
NoBlock == [gen |-> 0, off |-> 0, len |-> 0]
NotRunning == -1         \* rest or want, when there is no such call

\* The next n bytes of the stream that the producing party sends.
Stamps(n) == [i \in 1 .. n |-> (sent + i - 1) % Period]

-----------------------------------------------------------------------------
(***************************************************************************)
(* Memory and the chain of generations.                                    *)
(***************************************************************************)
FreshMemory(n) == [a \in 0 .. n - 1 |-> Junk]

Stored(m, off, bytes) ==
  [a \in DOMAIN m |->
     IF a \in off .. off + Len(bytes) - 1 THEN bytes[a - off + 1] ELSE m[a]]

Erased(m, off, n) ==
  [a \in DOMAIN m |-> IF a \in off .. off + n - 1 THEN Junk ELSE m[a]]

Block(m, off, n) == [i \in 1 .. n |-> m[off + i - 1]]

Top(L) == CHOOSE g \in L : \A h \in L : g <= h

\* Mutant: a buffer is obsoleted although it still holds data.
PrunedToNewest(L) == {newest}

\* What ProduceBuffer leaves of the chain: it walks to the last fNewBuffer and
\* obsoletes every empty buffer on its way.
Pruned(L) == {g \in L : g = newest \/ ring[g].valid > 0}

\* Mutant: an empty buffer is obsoleted although a call still fills it.
DrainedInUse(rings, L, b) ==
  {g \in L : \/ g < b
             \/ \E h \in L : /\ b <= h /\ h <= g
                             /\ h = newest \/ rings[h].valid > 0}

\* What "while (fNewBuffer && !fValid && !fInUse) ObsoleteBuffer()" leaves of
\* the chain when generation b executes it.
Drained(rings, L, b) ==
  {g \in L : \/ g < b
             \/ \E h \in L : /\ b <= h /\ h <= g
                             /\ \/ h = newest
                                \/ rings[h].valid > 0
                                \/ rings[h].inUse}

Free  == ring[newest].free

Valid ==
  LET f[g \in 0 .. newest] ==
        IF g = 0 THEN 0
        ELSE f[g - 1] + (IF g \in live THEN ring[g].valid ELSE 0)
  IN  f[newest]

Producing == rest # NotRunning
Consuming == want # NotRunning

\* Interrupt code finds the buffer locked and defers itself to the Release.
Locked == locked # 0

-----------------------------------------------------------------------------
(***************************************************************************)
(* The interrupt party as producer.  It asks for no more than Free().      *)
(***************************************************************************)
ProduceBuffer(len) ==
  /\ side = "input" /\ ~Locked /\ grant = NoBlock
  /\ len \in 1 .. Free
  /\ LET r == Granting(ring[newest], len)
     IN  /\ ring' = [ring EXCEPT ![newest] = r]
         /\ grant' = [gen |-> newest, off |-> r.produce,
                      len |-> GrantLength(ring[newest], len)]
  /\ live' = Pruned(live)
  /\ out' = <<>>
  /\ UNCHANGED <<side, newest, mem, locked, loan, rest, want, sent>>

\* The call that fills the block may deliver less than the block holds.
ValidBuffer(n) ==
  /\ ~Locked /\ grant # NoBlock
  /\ n \in 0 .. grant.len
  /\ LET b == IF grant.gen \in live THEN grant.gen ELSE newest
         rings == [ring EXCEPT ![b] = Validated(@, n)]
     IN  ring' = rings /\ live' = Drained(rings, live, b)
  /\ mem' = [mem EXCEPT ![grant.gen] = Stored(@, grant.off, Stamps(n))]
  /\ sent' = (sent + n) % Period
  /\ grant' = NoBlock
  /\ out' = <<>>
  /\ UNCHANGED <<side, newest, locked, loan, rest, want>>

\* A receive that times out or fails is never answered with ValidBuffer.
AbandonGrant ==
  /\ ~Locked /\ grant # NoBlock
  /\ grant' = NoBlock
  /\ out' = <<>>
  /\ UNCHANGED <<side, newest, ring, mem, live, locked, loan, rest, want, sent>>

(***************************************************************************)
(* The interrupt party as consumer.  A thread that discards input without  *)
(* the lock, as the destructor of a MacTCP stream does, takes these steps  *)
(* on the input side.                                                      *)
(***************************************************************************)
MayConsume ==
  \/ side = "output" /\ ~Locked
  \/ side = "input" /\ ~Consuming

ConsumeBuffer(len) ==
  /\ MayConsume /\ loan = NoBlock
  /\ len \in 1 .. Valid
  /\ LET L == Drained(ring, live, Top(live))
         t == Top(L)
     IN  /\ live' = L
         /\ LoanLength(ring[t], len) > 0
         /\ loan' = [gen |-> t, off |-> ring[t].consume,
                     len |-> LoanLength(ring[t], len)]
  /\ out' = <<>>
  /\ UNCHANGED <<side, newest, ring, mem, locked, grant, rest, want, sent>>

FreeBuffer ==
  /\ MayConsume /\ loan # NoBlock
  /\ LET t == Top(live)
         rings == [ring EXCEPT ![t] = Freed(@, loan.len)]
     IN  ring' = rings /\ live' = Drained(rings, live, t)
  /\ out' = Block(mem[loan.gen], loan.off, loan.len)
  /\ mem' = [mem EXCEPT ![loan.gen] = Erased(@, loan.off, loan.len)]
  /\ loan' = NoBlock
  /\ UNCHANGED <<side, newest, locked, grant, rest, want, sent>>

-----------------------------------------------------------------------------
(***************************************************************************)
(* The thread party: Produce and Consume, one iteration of their loop at a *)
(* time.  Bytes that Produce does not store stay with its caller.          *)
(***************************************************************************)
BeginProduce(n) ==
  /\ side \in {"output", "pipe"} /\ ~Producing /\ ~Consuming
  /\ rest' = n
  /\ locked' = locked + 1
  /\ out' = <<>>
  /\ UNCHANGED <<side, newest, ring, mem, live, grant, loan, want, sent>>

ProduceStep ==
  /\ rest > 0 /\ ring[Top(live)].free > 0
  /\ LET r == Granting(ring[newest], rest)
         part == GrantLength(ring[newest], rest)
     IN  /\ ring' = [ring EXCEPT ![newest] = Validated(r, part)]
         /\ mem' = [mem EXCEPT ![newest] = Stored(@, r.produce, Stamps(part))]
         /\ rest' = rest - part
         /\ sent' = (sent + part) % Period
  /\ live' = Pruned(live)
  /\ out' = <<>>
  /\ UNCHANGED <<side, newest, locked, grant, loan, want>>

EndProduce ==
  /\ Producing
  /\ rest = 0 \/ ring[Top(live)].free = 0
  /\ rest' = NotRunning
  /\ locked' = locked - 1
  /\ out' = <<>>
  /\ UNCHANGED <<side, newest, ring, mem, live, grant, loan, want, sent>>

BeginConsume(n) ==
  /\ side \in {"input", "pipe"} /\ ~Producing /\ ~Consuming
  /\ side = "input" => loan = NoBlock
  /\ want' = n
  /\ locked' = locked + 1
  /\ out' = <<>>
  /\ UNCHANGED <<side, newest, ring, mem, live, grant, loan, rest, sent>>

ConsumeStep ==
  /\ want > 0 /\ ring[Top(live)].valid > 0
  /\ LET t == Top(live)
         part == LoanLength(ring[t], want)
         rings == [ring EXCEPT ![t] = Freed(@, part)]
     IN  /\ ring' = rings
         /\ live' = Drained(rings, live, t)
         /\ out' = Block(mem[t], ring[t].consume, part)
         /\ mem' = [mem EXCEPT ![t] = Erased(@, ring[t].consume, part)]
         /\ want' = want - part
  /\ UNCHANGED <<side, newest, locked, grant, loan, rest, sent>>

EndConsume ==
  /\ Consuming
  /\ want = 0 \/ ring[Top(live)].valid = 0
  /\ want' = NotRunning
  /\ locked' = locked - 1
  /\ out' = <<>>
  /\ UNCHANGED <<side, newest, ring, mem, live, grant, loan, rest, sent>>

-----------------------------------------------------------------------------
(***************************************************************************)
(* setsockopt(SO_SNDBUF / SO_RCVBUF) and listen() call SwitchBuffer.  The  *)
(* call recurses to the newest buffer.  The lock that it takes is not      *)
(* released when the size is unchanged, and is reset to 0 before the       *)
(* Release when the buffer is replaced on the spot; both count only if     *)
(* the newest buffer is the object itself, whose fLocked the parties use.  *)
(***************************************************************************)
MaySwitch ==
  /\ side \in {"input", "output"} /\ ~Producing /\ ~Consuming
  /\ side = "input" => loan = NoBlock

SwitchSameSize(bufsiz) ==
  /\ MaySwitch /\ bufsiz = ring[newest].size
  /\ locked < MaxLeaks
  /\ locked' = IF Top(live) = newest THEN locked + 1 ELSE locked
  /\ out' = <<>>
  /\ UNCHANGED <<side, newest, ring, mem, live, grant, loan, rest, want, sent>>

AddGeneration(bufsiz) ==
  /\ newest < MaxGenerations
  /\ newest' = newest + 1
  /\ ring' = [g \in 1 .. newest + 1 |->
                IF g = newest + 1 THEN NewRing(bufsiz) ELSE ring[g]]
  /\ mem' = [g \in 1 .. newest + 1 |->
               IF g = newest + 1 THEN FreshMemory(bufsiz) ELSE mem[g]]

SwitchInPlace(bufsiz) ==
  /\ MaySwitch /\ bufsiz # ring[newest].size
  /\ ~ring[newest].inUse /\ ring[newest].valid = 0
  /\ AddGeneration(bufsiz)
  /\ live' = (live \ {newest}) \cup {newest + 1}
  /\ locked' = IF Top(live) = newest THEN -1 ELSE locked
  /\ out' = <<>>
  /\ UNCHANGED <<side, grant, loan, rest, want, sent>>

SwitchToNew(bufsiz) ==
  /\ MaySwitch /\ bufsiz # ring[newest].size
  /\ ring[newest].inUse \/ ring[newest].valid > 0
  /\ AddGeneration(bufsiz)
  /\ live' = live \cup {newest + 1}
  /\ out' = <<>>
  /\ UNCHANGED <<side, locked, grant, loan, rest, want, sent>>

-----------------------------------------------------------------------------
Init ==
  /\ side \in {"input", "output", "pipe"}
  /\ newest = 1
  /\ \E n \in Sizes \ {0} : ring = [g \in 1 .. 1 |-> NewRing(n)]
                      /\ mem = [g \in 1 .. 1 |-> FreshMemory(n)]
  /\ live = {1}
  /\ locked = 0
  /\ grant = NoBlock /\ loan = NoBlock
  /\ rest = NotRunning /\ want = NotRunning
  /\ sent = 0
  /\ out = <<>>

InterruptNext ==
  \/ \E len \in 1 .. Free : ProduceBuffer(len)
  \/ \E n \in 0 .. grant.len : ValidBuffer(n)
  \/ AbandonGrant
  \/ \E len \in 1 .. Valid : ConsumeBuffer(len)
  \/ FreeBuffer

ThreadNext ==
  \/ \E n \in 1 .. MaxRequest : BeginProduce(n) \/ BeginConsume(n)
  \/ ProduceStep \/ EndProduce
  \/ ConsumeStep \/ EndConsume
  \/ \E n \in Sizes : SwitchSameSize(n) \/ SwitchInPlace(n) \/ SwitchToNew(n)

Next == InterruptNext \/ ThreadNext

Spec == Init /\ [][Next]_vars

-----------------------------------------------------------------------------
BlockType == [gen : Nat, off : Nat, len : Nat]

TypeOK ==
  /\ side \in {"input", "output", "pipe"}
  /\ newest \in 1 .. MaxGenerations
  /\ ring \in [1 .. newest -> Ring]
  /\ DOMAIN mem = 1 .. newest
  /\ \A g \in 1 .. newest :
       mem[g] \in [0 .. ring[g].size - 1 -> Bytes \cup {Junk}]
  /\ live \subseteq 1 .. newest /\ newest \in live
  /\ locked \in Int
  /\ grant \in BlockType /\ loan \in BlockType
  /\ rest \in Nat \cup {NotRunning} /\ want \in Nat \cup {NotRunning}
  /\ sent \in Bytes
  /\ out \in Seq(Bytes \cup {Junk})

(***************************************************************************)
(* The assertion "Invariant violated in GUSIRingBuffer::..." that every    *)
(* member function makes on its way out holds of every buffer in the chain *)
(* that has any memory, whatever the two parties do in between.  Of one    *)
(* without, which SwitchBuffer makes when it is asked to, it is false.     *)
(***************************************************************************)
RingsConsistent == \A g \in live : ring[g].size > 0 => RingInvariant(ring[g])

(***************************************************************************)
(* While an asynchronous call fills a block, the block stays where         *)
(* ValidBuffer will assume it (its assertions len <= fFree and             *)
(* fProduce + len <= fEnd hold), shares no byte with valid data, and lies  *)
(* in memory that is not retired, although consumption and SwitchBuffer go *)
(* on meanwhile.                                                           *)
(***************************************************************************)
GrantStaysFree ==
  grant # NoBlock =>
    LET r == ring[grant.gen]
    IN  /\ grant.gen \in live
        /\ grant.off = r.produce
        /\ grant.off + grant.len <= r.size
        /\ grant.len <= r.free
        /\ (grant.off .. grant.off + grant.len - 1)
             \cap ValidAddresses(r) = {}

(***************************************************************************)
(* While an asynchronous call reads a block, FreeBuffer, which ignores the *)
(* pointer it is given, will release exactly that block: it is the first   *)
(* block of valid bytes of the buffer that is on top of the chain.         *)
(***************************************************************************)
LoanStaysValid ==
  loan # NoBlock =>
    LET r == ring[loan.gen]
    IN  /\ loan.gen = Top(live)
        /\ loan.off = r.consume
        /\ loan.len \in 1 .. r.valid
        /\ loan.off + loan.len <= r.size - r.spare
=============================================================================
