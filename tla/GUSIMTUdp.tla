----------------------------- MODULE GUSIMTUdp -----------------------------
(***************************************************************************)
(* A MacTCP datagram socket, GUSIMTUdpSocket (GUSIMTUdp.cpp; connect,      *)
(* recvfrom, sendto, select and shutdown are in                            *)
(* original_nw/src/GUSIMTUdp.nw).                                          *)
(*                                                                         *)
(* The socket keeps datagrams in two ring buffers that know of bytes only: *)
(* each is stored as a header, with the peer and the length, and its data. *)
(* The rings are those of module GUSIRing, next to the bytes they hold.    *)
(* fSendPB writes one datagram after the other from fOutputBuffer, fRecvPB *)
(* reads one, stores it into fInputBuffer and returns the memory to        *)
(* MacTCP.  Their completion routines are interrupts, and wait in the      *)
(* fDeferred of a buffer that is locked or full for its next Release.      *)
(*                                                                         *)
(* Three cooperative threads use a blocking socket: one receives, one      *)
(* sends, one shuts it down and destroys it.                               *)
(***************************************************************************)
EXTENDS GUSIRing, Sequences, SequencesExt

CONSTANTS
  InSize,      \* of fInputBuffer
  OutSize,     \* of fOutputBuffer
  HeaderSize,  \* of a GUSIUDPHeader
  Datagrams,   \* those that are sent and received: a peer and a length each
  Partners,    \* the peers connect is called with
  NoPeer       \* fPeerAddr of a socket that is not connected

ASSUME UdpSizesAssumption ==
  /\ InSize \in Nat \ {0} /\ OutSize \in Nat \ {0} /\ HeaderSize \in Nat \ {0}
ASSUME DatagramsAssumption ==
  /\ \A d \in Datagrams : /\ d = [peer |-> d.peer, len |-> d.len]
                           /\ d.peer # NoPeer /\ d.len \in Nat
  /\ NoPeer \notin Partners

Threads == {"receiver", "sender", "closer"}
Nobody == "nobody"

\* The buffers recvfrom is called with: for the datagrams that can come.
Lengths == {d.len : d \in {e \in Datagrams : e.len + HeaderSize <= InSize}}

VARIABLES
  sock,     \* the socket: see NewSocket
  pc,       \* where a thread is in its call
  running,  \* the thread that has the processor in the middle of a call
  fWakeup,  \* the threads that have been woken since their last Yield
  call,     \* call.put is what sendto stores, call.got what recvfrom has read
            \* of a header or of data, call.part the length of the block it
            \* reads, call.len the size of its buffer
  due,      \* the datagrams that were accepted and not yet returned
  owed,     \* the datagrams that were stored and not yet written
  cut       \* whether a datagram came apart: see MayCut

udpVars == <<sock, pc, running, fWakeup, call, due, owed, cut>>

-----------------------------------------------------------------------------
(***************************************************************************)
(* A buffer is its ring and the bytes in it.  A byte is named by its       *)
(* datagram and its place in it, so that a header is its first bytes.      *)
(***************************************************************************)
Header(d) == [i \in 1 .. HeaderSize |-> <<d, i>>]
Body(d) == [i \in 1 .. d.len |-> <<d, HeaderSize + i>>]
StoredBytes(queue) ==
  FlattenSeq([i \in DOMAIN queue |-> Header(queue[i]) \o Body(queue[i])])

Buffer(size) == [ring |-> NewRing(size), bytes |-> <<>>]

\* One round of the loop in Produce.
ProduceRound(r, n) ==
  IF n > 0 /\ r.free > 0 THEN Validated(Granting(r, n), GrantLength(r, n)) ELSE r

\* Produce: after one round the free bytes are contiguous, so there are at
\* most two.
Produce(b, data) ==
  LET n == Len(data)
      first == ProduceRound(b.ring, n)
      last == ProduceRound(first, n - (first.valid - b.ring.valid))
  IN  [ring |-> last, bytes |-> b.bytes \o SubSeq(data, 1, last.valid - b.ring.valid)]

\* Consume, or a FreeBuffer for each contiguous part.
ConsumeRound(r, n) == IF n > 0 /\ r.valid > 0 THEN Freed(r, LoanLength(r, n)) ELSE r

Consume(b, n) ==
  LET first == ConsumeRound(b.ring, n)
      last == ConsumeRound(first, n - (b.ring.valid - first.valid))
  IN  [ring |-> last,
       bytes |-> SubSeq(b.bytes, b.ring.valid - last.valid + 1, Len(b.bytes))]

FreeFront(b, n) ==
  [ring |-> Freed(b.ring, n), bytes |-> SubSeq(b.bytes, n + 1, Len(b.bytes))]

(***************************************************************************)
(* sendPB is the call in fSendPB, or "written" when its completion routine *)
(* is deferred; recvPB likewise, "read" and "return" being its two calls,  *)
(* and packet the datagram it has read.  wds holds the address, the bytes  *)
(* of the two parts and the length of the first.  lost says how many       *)
(* datagrams of owed are done with, stored what is added to due, wake      *)
(* whether the contexts of the socket are woken: Becomes takes them away.  *)
(***************************************************************************)
NoDatagram == [peer |-> NoPeer, len |-> 0]
NoWDS == <<NoPeer, <<>>, 0>>
NoCall == [put |-> NoDatagram, len |-> 0, got |-> <<>>, part |-> 0]

NewSocket == [
  fState |-> "Unbound", fPeerAddr |-> NoPeer,
  fReadShutdown |-> FALSE, fWriteShutdown |-> FALSE, fAsyncError |-> FALSE,
  sendPB |-> "none", sendResult |-> "noErr", wds |-> NoWDS,
  recvPB |-> "none", recvResult |-> "noErr", packet |-> NoDatagram,
  output |-> Buffer(OutSize), outLocked |-> FALSE, outDeferred |-> "none",
  input |-> Buffer(InSize), inLocked |-> FALSE, inDeferred |-> "none",
  stored |-> <<>>, lost |-> 0, cut |-> FALSE, wake |-> FALSE, shut |-> {}]

-----------------------------------------------------------------------------
(***************************************************************************)
(* The interrupt routines.                                                 *)
(***************************************************************************)

\* The datagram at the front of the output buffer, in fSendWDS: the second
\* ConsumeBuffer starts where the first did.
Write(s) ==
  LET header == Head(s.output.bytes)[1]
      b == Consume(s.output, HeaderSize)
      first == LoanLength(b.ring, header.len)
      second == LoanLength(b.ring, header.len - first)
  IN  [s EXCEPT !.output = b, !.sendPB = "write",
                !.wds = <<header.peer,
                          SubSeq(b.bytes, 1, first) \o SubSeq(b.bytes, 1, second),
                          first>>,
                !.cut = @ \/ first < header.len]

\* GUSIMTUSend
Send(s) ==
  LET c == [s EXCEPT !.outDeferred = "none"]
  IN  CASE s.output.ring.valid > 0 /\ ~s.outLocked -> Write(c)
        [] ~(s.output.ring.valid > 0 /\ ~s.outLocked) /\ ~s.fWriteShutdown ->
             [c EXCEPT !.outDeferred = "Send"]
        [] OTHER -> [c EXCEPT !.fState = "Closing"]

\* GUSIMTUSendDone: it frees the first part.  An error throws away all the
\* datagrams.
SendDone(s) ==
  IF s.outLocked THEN [s EXCEPT !.outDeferred = "SendDone"]
  ELSE LET c == [s EXCEPT !.outDeferred = "none", !.sendPB = "none", !.lost = 1,
                          !.sendResult = "noErr", !.wds = NoWDS,
                          !.output = FreeFront(@, s.wds[3])]
           f == IF s.sendResult = "error"
                THEN [c EXCEPT !.fAsyncError = TRUE, !.fWriteShutdown = TRUE,
                               !.lost = Len(owed),
                               !.output = FreeFront(@, @.ring.valid)]
                ELSE c
       IN  [Send(f) EXCEPT !.wake = TRUE]

\* GUSIMTURecv
Recv(s) == [s EXCEPT !.recvPB = "read", !.recvResult = "noErr"]

\* The memory of a datagram goes back to MacTCP.
BfrReturn(s) == [s EXCEPT !.recvPB = "return", !.packet = NoDatagram]

\* A datagram that was read: too large, waiting for room, from somebody else,
\* or stored.  Skipping the end of the ring can take the room away again.
Accept(s) ==
  LET d == s.packet
      needed == d.len + HeaderSize
      b == Produce(Produce(s.input, Header(d)), Body(d))
  IN  CASE s.input.ring.size < needed -> BfrReturn(s)
        [] s.input.ring.size >= needed /\ s.input.ring.free < needed ->
             [s EXCEPT !.inDeferred = "RecvDone"]
        [] s.input.ring.free >= needed /\ s.fPeerAddr \notin {NoPeer, d.peer} ->
             BfrReturn(s)
        [] OTHER ->
             [BfrReturn(s) EXCEPT !.input = b, !.stored = <<d>>,
                       !.cut = @ \/ Len(b.bytes) < Len(s.input.bytes) + needed]

\* Mutant: what has been stored is not reported when its memory is returned.
RecvDoneSilent(s) ==
  IF s.inLocked THEN [s EXCEPT !.inDeferred = "RecvDone"]
  ELSE LET c == [s EXCEPT !.inDeferred = "none"]
       IN  CASE s.recvResult = "noErr" /\ s.recvPB = "hasRead"     -> Accept(c)
             [] s.recvResult = "noErr" /\ s.recvPB = "hasReturned" -> Recv(c)
             [] s.recvResult = "timeout" -> [Recv(c) EXCEPT !.wake = TRUE]
             [] s.recvResult = "error" ->
                  [c EXCEPT !.recvPB = "none", !.recvResult = "noErr",
                            !.packet = NoDatagram, !.fAsyncError = TRUE,
                            !.fReadShutdown = TRUE, !.wake = TRUE]

\* GUSIMTURecvDone
RecvDone(s) ==
  IF s.inLocked THEN [s EXCEPT !.inDeferred = "RecvDone"]
  ELSE LET c == [s EXCEPT !.inDeferred = "none"]
       IN  CASE s.recvResult = "noErr" /\ s.recvPB = "hasRead" -> Accept(c)
             [] s.recvResult = "noErr" /\ s.recvPB = "hasReturned" ->
                  [Recv(c) EXCEPT !.wake = TRUE]
             [] s.recvResult = "timeout" -> [Recv(c) EXCEPT !.wake = TRUE]
             [] s.recvResult = "error" ->
                  [c EXCEPT !.recvPB = "none", !.recvResult = "noErr",
                            !.packet = NoDatagram, !.fAsyncError = TRUE,
                            !.fReadShutdown = TRUE, !.wake = TRUE]

\* The Release that unlocks a buffer runs what was deferred.
ReleaseOutput(s) ==
  LET c == [s EXCEPT !.outLocked = FALSE]
  IN  CASE s.outDeferred = "none"     -> c
        [] s.outDeferred = "Send"     -> Send(c)
        [] s.outDeferred = "SendDone" -> SendDone(c)

ReleaseInput(s) ==
  LET c == [s EXCEPT !.inLocked = FALSE]
  IN  IF s.inDeferred = "RecvDone" THEN RecvDone(c) ELSE c

\* CreateStream, by the first call that needs the stream.
WithStream(s) ==
  IF s.fState = "Unbound" THEN Recv(Send([s EXCEPT !.fState = "Connected"])) ELSE s

-----------------------------------------------------------------------------
fContexts == {t \in Threads : pc[t] \in {"loop", "wait"}}

\* The socket becomes s.
Becomes(s) ==
  /\ sock' = [s EXCEPT !.stored = <<>>, !.lost = 0, !.cut = FALSE, !.wake = FALSE]
  /\ fWakeup' = IF s.wake THEN fWakeup \cup fContexts ELSE fWakeup
  /\ cut' = (cut \/ s.cut)

\* What an interrupt routine has stored and written.
Moves(s) ==
  /\ due' = due \o s.stored
  /\ owed' = SubSeq(owed, s.lost + 1, Len(owed))

Turns(s) == Becomes(s) /\ Moves(s)

(***************************************************************************)
(* MacTCP completes the calls.                                             *)
(***************************************************************************)
WriteCompletes(result) ==
  /\ sock.sendPB = "write"
  /\ Turns(SendDone([sock EXCEPT !.sendPB = "written", !.sendResult = result]))
  /\ UNCHANGED <<pc, running, call>>

ReadCompletes(d, result) ==
  /\ sock.recvPB = "read"
  /\ Turns(RecvDone([sock EXCEPT !.recvPB = "hasRead", !.packet = d,
                                 !.recvResult = result]))
  /\ UNCHANGED <<pc, running, call>>

ReturnCompletes(result) ==
  /\ sock.recvPB = "return"
  /\ Turns(RecvDone([sock EXCEPT !.recvPB = "hasReturned", !.packet = NoDatagram,
                                 !.recvResult = result]))
  /\ UNCHANGED <<pc, running, call>>

-----------------------------------------------------------------------------
(***************************************************************************)
(* The threads.  Between two Yields only interrupts come in between.       *)
(***************************************************************************)
Enter(t, from, to) ==
  /\ running = Nobody /\ pc[t] = from
  /\ pc' = [pc EXCEPT ![t] = to]
  /\ running' = IF to \in {"idle", "wait", "gone"} THEN Nobody ELSE t

Continue(t, from, to) ==
  /\ running = t /\ pc[t] = from
  /\ pc' = [pc EXCEPT ![t] = to]
  /\ running' = IF to \in {"idle", "wait", "gone"} THEN Nobody ELSE t

\* What a call leaves behind.
ReceiverReturns == [call EXCEPT !.len = 0, !.got = <<>>, !.part = 0]

SenderReturns == [call EXCEPT !.put = NoDatagram]

MustRead == ~sock.fReadShutdown /\ sock.input.ring.valid = 0

MustWrite ==
  ~sock.fWriteShutdown /\ sock.output.ring.free < call.put.len + HeaderSize

Must(t) == IF t = "receiver" THEN MustRead ELSE MustWrite

\* connect(): it installs the peer, or takes it away if the address is not one.
Connect(p) ==
  /\ running = Nobody /\ pc["closer"] = "idle"
  /\ Turns([(IF p = NoPeer THEN sock ELSE WithStream(sock)) EXCEPT !.fPeerAddr = p])
  /\ UNCHANGED <<pc, running, call>>

\* The sanity check of recvfrom or sendto that reports an error.
GetAsyncError ==
  /\ running = Nobody /\ pc["closer"] = "idle" /\ sock.fAsyncError
  /\ Turns([sock EXCEPT !.fAsyncError = FALSE])
  /\ UNCHANGED <<pc, running, call>>

\* select(): it only looks, but it creates the stream.
Select ==
  /\ running = Nobody /\ pc["closer"] = "idle"
  /\ Turns(WithStream(sock))
  /\ UNCHANGED <<pc, running, call>>

\* recvfrom() after its sanity checks, with a buffer of n bytes.
Recvfrom(n) ==
  /\ pc["closer"] = "idle"
  /\ sock.input.ring.valid > 0 \/ (~sock.fAsyncError /\ ~sock.fReadShutdown)
  /\ Enter("receiver", "idle", "test")
  /\ Turns(WithStream(sock))
  /\ call' = [call EXCEPT !.len = n]

\* sendto() after its sanity checks.
Sendto(d) ==
  /\ pc["closer"] = "idle"
  /\ ~sock.fAsyncError
  /\ d.len + HeaderSize <= OutSize
  /\ Enter("sender", "idle", "test")
  /\ Turns(WithStream(sock))
  /\ call' = [call EXCEPT !.put = d]

\* AddContext, before the condition is tested again.
TestFirst(t) ==
  /\ Continue(t, "test", IF Must(t) THEN "loop" ELSE "ready")
  /\ UNCHANGED <<sock, fWakeup, call, due, owed, cut>>

TestAgain(t) ==
  /\ t # "closer"
  /\ Continue(t, "loop", IF Must(t) THEN "wait" ELSE "ready")
  /\ UNCHANGED <<sock, fWakeup, call, due, owed, cut>>

\* Yield(kGUSIBlock) comes back, woken or because of a signal.
YieldReturns(t) ==
  /\ t \in fWakeup /\ Enter(t, "wait", "loop")
  /\ fWakeup' = fWakeup \ {t}
  /\ UNCHANGED <<sock, call, due, owed, cut>>

YieldInterrupted(t) ==
  /\ t # "closer" /\ Enter(t, "wait", "idle")
  /\ fWakeup' = fWakeup \ {t}
  /\ call' = IF t = "receiver" THEN ReceiverReturns ELSE SenderReturns
  /\ UNCHANGED <<sock, due, owed, cut>>

(***************************************************************************)
(* recvfrom: Consume the header, then as much of the data as fits.  The    *)
(* first Consume locks the buffer only in each ConsumeBuffer and each      *)
(* FreeBuffer, and what comes in between them is not deferred; the second  *)
(* one holds the lock, but does not take it when there is nothing to read. *)
(* With a read shutdown there may be no header, and what is in its place   *)
(* is anything.  MSG_PEEK locks the buffer and leaves everything in it.    *)
(***************************************************************************)
\* A round of Consume(void *) as far as its ConsumeBuffer.
HeaderConsume ==
  /\ sock.input.ring.valid > 0
  /\ Continue("receiver", "ready", "header")
  /\ call' = [call EXCEPT !.part = LoanLength(sock.input.ring,
                                              HeaderSize - Len(call.got))]
  /\ Turns(ReleaseInput(sock))

\* The rest of the round: the block is read and freed.
HeaderFree ==
  LET read == call.got \o SubSeq(sock.input.bytes, 1, call.part)
  IN  /\ Continue("receiver", "header",
                  IF Len(read) < HeaderSize THEN "ready" ELSE "between")
      /\ call' = [call EXCEPT !.got = read, !.part = 0]
      /\ Turns(ReleaseInput([sock EXCEPT !.input = FreeFront(@, call.part)]))

\* The garbage in a header, with the data that may have come meanwhile.
NoHeader(n) ==
  /\ sock.input.ring.valid = 0
  /\ Continue("receiver", "ready", "garbage")
  /\ call' = [call EXCEPT !.len = Smaller(@, n)]
  /\ UNCHANGED <<sock, fWakeup, due, owed, cut>>

GarbageConsume ==
  /\ Continue("receiver", "garbage", "idle")
  /\ Turns([sock EXCEPT !.input = Consume(@, call.len),
                        !.cut = call.len > 0 /\ sock.input.ring.valid > 0])
  /\ call' = ReceiverReturns

\* The datagram whose header was read, and how much of it fits.
HeaderRead == Head(call.got)[1]

Fits == Smaller(call.len, HeaderRead.len)

NoData ==
  /\ Continue("receiver", "between", "return")
  /\ Fits = 0
  /\ call' = [call EXCEPT !.got = <<>>, !.len = 0]
  /\ Turns([sock EXCEPT !.cut = HeaderRead.len > 0])

DataLock ==
  /\ Continue("receiver", "between", "data")
  /\ Fits > 0
  /\ Turns([sock EXCEPT !.inLocked = TRUE])
  /\ UNCHANGED call

DataConsume ==
  /\ Continue("receiver", "data", "return")
  /\ call' = [call EXCEPT !.got = SubSeq(sock.input.bytes, 1, Fits), !.len = 0]
  /\ Turns(ReleaseInput([sock EXCEPT !.input = Consume(@, Fits),
                                     !.cut = Fits < HeaderRead.len]))

Return ==
  /\ Continue("receiver", "return", "idle")
  /\ due' = Tail(due)
  /\ call' = ReceiverReturns
  /\ UNCHANGED <<sock, fWakeup, owed, cut>>

PeekLock ==
  /\ sock.input.ring.valid > 0 /\ call.got = <<>>
  /\ Continue("receiver", "ready", "peek")
  /\ Turns([sock EXCEPT !.inLocked = TRUE])
  /\ UNCHANGED call

PeekRelease ==
  /\ Continue("receiver", "peek", "idle")
  /\ Turns(ReleaseInput(sock))
  /\ call' = ReceiverReturns

(***************************************************************************)
(* sendto: after the last test the header is put together, for a connected *)
(* socket without the address of the call; then the buffer is locked, and  *)
(* header and data are stored.                                             *)
(***************************************************************************)
SendtoTest ==
  /\ ~sock.fWriteShutdown
  /\ Continue("sender", "ready", "tested")
  /\ call' = [call EXCEPT !.put.peer =
                IF sock.fPeerAddr = NoPeer THEN @ ELSE sock.fPeerAddr]
  /\ UNCHANGED <<sock, fWakeup, due, owed, cut>>

\* Mutant: the buffer is not locked.
SendtoUnlocked ==
  /\ Continue("sender", "tested", "locked")
  /\ Turns(sock)
  /\ UNCHANGED call

SendtoLock ==
  /\ Continue("sender", "tested", "locked")
  /\ Turns([sock EXCEPT !.outLocked = TRUE])
  /\ UNCHANGED call

SendtoShutdown ==
  /\ sock.fWriteShutdown
  /\ Continue("sender", "ready", "idle")
  /\ call' = SenderReturns
  /\ UNCHANGED <<sock, fWakeup, due, owed, cut>>

HeaderProduce ==
  LET b == Produce(sock.output, Header(call.put))
  IN  /\ Continue("sender", "locked", "halfway")
      /\ Turns([sock EXCEPT !.output = b,
                            !.cut = Len(b.bytes) < Len(sock.output.bytes) + HeaderSize])
      /\ UNCHANGED call

DataProduce ==
  LET b == Produce(sock.output, Body(call.put))
  IN  /\ Continue("sender", "halfway", "stored")
      /\ Becomes([sock EXCEPT !.output = b,
                              !.cut = Len(b.bytes) < Len(sock.output.bytes) + call.put.len])
      /\ owed' = Append(owed, call.put)
      /\ UNCHANGED <<call, due>>

SendtoRelease ==
  /\ Continue("sender", "stored", "idle")
  /\ Turns(ReleaseOutput(sock))
  /\ call' = SenderReturns

\* shutdown(how): the flags, then Lock and Release of the output buffer.
Shut(s, how) ==
  [s EXCEPT !.fReadShutdown  = @ \/ "read" \in how,
            !.fWriteShutdown = @ \/ "write" \in how,
            !.shut = @ \cup how]

Shutdown(how) ==
  /\ Enter("closer", "idle", "flagged")
  /\ Turns(Shut(sock, how))
  /\ UNCHANGED call

\* The destructor, when nobody is in a call on the socket any more: it shuts a
\* stream down and waits until everything is written.
Destroy ==
  /\ pc["receiver"] = "idle" /\ pc["sender"] = "idle"
  /\ IF sock.fState = "Connected"
     THEN Enter("closer", "idle", "lastFlagged") /\ Turns(Shut(sock, {"read", "write"}))
     ELSE Enter("closer", "idle", "gone") /\ Turns(sock)
  /\ UNCHANGED call

ShutdownLock ==
  /\ \/ Continue("closer", "flagged", "shutting")
     \/ Continue("closer", "lastFlagged", "lastShutting")
  /\ Turns([sock EXCEPT !.outLocked = TRUE])
  /\ UNCHANGED call

ShutdownRelease ==
  /\ \/ Continue("closer", "shutting", "idle")
     \/ Continue("closer", "lastShutting", "loop")
  /\ Turns(ReleaseOutput(sock))
  /\ UNCHANGED call

DestroyTest ==
  /\ Continue("closer", "loop", IF sock.fState = "Closing" THEN "gone" ELSE "wait")
  /\ UNCHANGED <<sock, fWakeup, call, due, owed, cut>>

-----------------------------------------------------------------------------
UdpInit ==
  /\ sock = NewSocket
  /\ pc = [t \in Threads |-> "idle"]
  /\ running = Nobody
  /\ fWakeup = {}
  /\ call = NoCall
  /\ due = <<>> /\ owed = <<>>
  /\ cut = FALSE

Results == {"noErr", "timeout", "error"}

Interrupts ==
  \/ \E result \in {"noErr", "error"} : WriteCompletes(result) \/ ReturnCompletes(result)
  \/ \E d \in Datagrams : ReadCompletes(d, "noErr")
  \/ \E result \in Results \ {"noErr"} : ReadCompletes(NoDatagram, result)

ThreadCode ==
  \/ \E t \in Threads : TestFirst(t) \/ TestAgain(t)
  \/ HeaderConsume \/ HeaderFree \/ NoData \/ DataLock \/ DataConsume \/ Return
  \/ \E n \in Lengths : NoHeader(n)
  \/ GarbageConsume \/ PeekLock \/ PeekRelease
  \/ SendtoTest \/ SendtoLock \/ SendtoShutdown
  \/ HeaderProduce \/ DataProduce \/ SendtoRelease
  \/ ShutdownLock \/ ShutdownRelease \/ DestroyTest

Calls ==
  \/ \E p \in Partners \cup {NoPeer} : Connect(p)
  \/ GetAsyncError \/ Select \/ Destroy
  \/ \E n \in Lengths : Recvfrom(n)
  \/ \E d \in Datagrams : Sendto(d)
  \/ \E how \in {{"read"}, {"write"}, {"read", "write"}} : Shutdown(how)
  \/ \E t \in Threads : YieldReturns(t) \/ YieldInterrupted(t)

(***************************************************************************)
(* A datagram that came apart in a buffer, because the end of the ring was *)
(* skipped, because it had to be written in two parts, or because recvfrom *)
(* left a part of it, makes whatever follows it misread.  The model stops  *)
(* there.                                                                  *)
(***************************************************************************)
Live == pc["closer"] # "gone" /\ ~cut

UdpNext == Live /\ (Interrupts \/ ThreadCode \/ Calls)

UdpSpec == UdpInit /\ [][UdpNext]_udpVars

-----------------------------------------------------------------------------
(***************************************************************************)
(* The buffers keep datagrams although they only know bytes.  Until one    *)
(* has come apart, the input buffer holds the datagrams that were accepted *)
(* and not yet received, recvfrom returns the first of them with its data  *)
(* and its peer, and MacTCP is handed those that sendto stored, whole, in  *)
(* order and for the peer they were meant for, whatever the interrupts do  *)
(* between the two parts of a datagram.  A datagram does not stay behind:  *)
(* while there is one, and the buffer is free, the socket writes, unless   *)
(* it is closing.  It is closing before all is written when a write fails  *)
(* between the last test of a sendto and its Lock.                         *)
(***************************************************************************)
Receiving ==
  CASE pc["receiver"] \in {"between", "data"} ->
         /\ due # <<>> /\ call.got = Header(Head(due))
         /\ sock.input.bytes = Body(Head(due)) \o StoredBytes(Tail(due))
    [] pc["receiver"] = "return" ->
         /\ due # <<>> /\ call.got = Body(Head(due))
         /\ sock.input.bytes = StoredBytes(Tail(due))
    [] OTHER -> call.got \o sock.input.bytes = StoredBytes(due)

Sending ==
  LET half == IF pc["sender"] = "halfway" THEN Header(call.put) ELSE <<>>
  IN  IF sock.sendPB = "none"
      THEN /\ sock.output.bytes = StoredBytes(owed) \o half
           /\ sock.fState = "Connected" /\ ~sock.outLocked => owed = <<>>
      ELSE /\ owed # <<>>
           /\ sock.output.bytes = Body(Head(owed)) \o StoredBytes(Tail(owed)) \o half
           /\ sock.wds = <<Head(owed).peer, Body(Head(owed)), Head(owed).len>>

DatagramsKept == cut \/ (Receiving /\ Sending)

(***************************************************************************)
(* A thread that sleeps in recvfrom or sendto, and has not been woken, has *)
(* something to wait for, or the call that will wake it is under way; only *)
(* shutdown(), called by another thread, may end the wait in silence.      *)
(***************************************************************************)
SleeperWaits ==
  /\ pc["receiver"] = "wait" /\ "receiver" \notin fWakeup =>
       MustRead \/ "read" \in sock.shut \/ sock.recvPB = "return"
  /\ pc["sender"] = "wait" /\ "sender" \notin fWakeup =>
       MustWrite \/ "write" \in sock.shut
=============================================================================
