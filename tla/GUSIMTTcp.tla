----------------------------- MODULE GUSIMTTcp -----------------------------
(***************************************************************************)
(* A connected MacTCP socket, GUSIMTTcpSocket (GUSIMTTcp.cpp; connect,     *)
(* recvfrom, sendto and shutdown are in original_nw/src/GUSIMTTcp.nw).     *)
(*                                                                         *)
(* Two parameter blocks carry the asynchronous calls: fSendPB opens the    *)
(* connection, sends and closes it, fRecvPB receives.  The completion      *)
(* routines run as interrupts, take bytes out of fOutputBuffer or put      *)
(* bytes into fInputBuffer, and start the next call.  A routine that finds *)
(* the buffer locked, or without anything to do, leaves itself in the      *)
(* buffer's one fDeferred, and the Release that unlocks the buffer runs    *)
(* it.  The buffers are counts here (module GUSIRingBuffer has the bytes); *)
(* MacTCP, which completes the calls and calls the notification routine,   *)
(* is the environment.                                                     *)
(*                                                                         *)
(* Three cooperative threads use a blocking socket: one reads, one writes, *)
(* one shuts it down and destroys it; a fourth waits in connect, which     *)
(* does nothing more.  The handlers are written as functions from the      *)
(* socket before to the socket after.                                      *)
(***************************************************************************)
EXTENDS Naturals, FiniteSets

CONSTANTS
  Size,      \* of each of the two buffers
  MaxWrite,  \* the longest sendto
  MayFail    \* whether an active open may fail

ASSUME SizeAssumption == Size \in Nat /\ Size >= 2
ASSUME WriteAssumption == MaxWrite \in Nat \ {0} /\ MayFail \in BOOLEAN

Threads == {"reader", "writer", "closer"}
Nobody == "nobody"

VARIABLES
  sock,     \* the socket: see Socket
  link,     \* the connection: "none", "up", "peerClosed", "gone"
  pc,       \* where a thread is in its call
  running,  \* the thread that has the processor in the middle of a call
  fWakeup,  \* the threads that have been woken since their last Yield
  rest      \* how many bytes sendto has still to store

vars == <<sock, link, pc, running, fWakeup, rest>>

Smaller(a, b) == IF a < b THEN a ELSE b

(***************************************************************************)
(* sendPB is the call in fSendPB, or "sent" when a send has completed and  *)
(* its routine is deferred; recvPB likewise.  wake is set if the contexts  *)
(* of the socket are woken, and shut keeps what shutdown() was asked for.  *)
(* Two flags watch the parameter blocks.  leftover: the last connect() has *)
(* gone ahead before all calls and routines of the connection before it    *)
(* were through.  clobbered: a chain of calls has been started in a block  *)
(* that is still in use; the model stops there, for nothing says what      *)
(* MacTCP makes of a block that it is given twice.                         *)
(***************************************************************************)
Socket == [
  fState : {"Unbound", "Unconnected", "Connecting", "Connected", "Closing"},
  fReadShutdown : BOOLEAN, fWriteShutdown : BOOLEAN, fAsyncError : BOOLEAN,
  sendPB : {"none", "open", "send", "sent", "close"}, sendLen : 0 .. Size,
  sendError : BOOLEAN,
  recvPB : {"none", "receive", "received"}, recvLen : 0 .. Size,
  recvResult : {"noErr", "timeout", "error", "closing"},
  outValid : 0 .. Size, outLocked : BOOLEAN,
  outDeferred : {"none", "Send", "SendDone"},
  inValid : 0 .. Size, inLocked : BOOLEAN,
  inDeferred : {"none", "Recv", "RecvDone"},
  clobbered : BOOLEAN, leftover : BOOLEAN, wake : BOOLEAN,
  shut : SUBSET {"read", "write"}]

NewSocket == [
  fState |-> "Unbound",
  fReadShutdown |-> FALSE, fWriteShutdown |-> FALSE, fAsyncError |-> FALSE,
  sendPB |-> "none", sendLen |-> 0, sendError |-> FALSE,
  recvPB |-> "none", recvLen |-> 0, recvResult |-> "noErr",
  outValid |-> 0, outLocked |-> FALSE, outDeferred |-> "none",
  inValid |-> 0, inLocked |-> FALSE, inDeferred |-> "none",
  clobbered |-> FALSE, leftover |-> FALSE, wake |-> FALSE,
  shut |-> {}]

-----------------------------------------------------------------------------
(***************************************************************************)
(* The interrupt routines.  n is the length that a call asks for: at most  *)
(* half the buffer, and as much as is contiguous.                          *)
(***************************************************************************)
Half == Size \div 2

CallSend(s, call, n) ==
  [s EXCEPT !.sendPB = call, !.sendLen = n, !.sendError = FALSE,
            !.clobbered = @ \/ s.sendPB # "none"]

CallReceive(s, n) ==
  [s EXCEPT !.recvPB = "receive", !.recvLen = n,
            !.clobbered = @ \/ s.recvPB # "none"]

\* A call is through; nothing reads what it has left in its block.
FreeSend(s) == [s EXCEPT !.sendPB = "none", !.sendLen = 0, !.sendError = FALSE]

FreeReceive(s) ==
  [s EXCEPT !.recvPB = "none", !.recvLen = 0, !.recvResult = "noErr"]

\* GUSIMTTSend
Send(s, n) ==
  LET c == [s EXCEPT !.outDeferred = "none"]
  IN  CASE s.outValid > 0 -> CallSend(c, "send", Smaller(n, s.outValid))
        [] s.outValid = 0 /\ ~s.fWriteShutdown -> [c EXCEPT !.outDeferred = "Send"]
        [] s.outValid = 0 /\ s.fWriteShutdown /\ s.fState = "Connected" ->
             CallSend([c EXCEPT !.fState = "Closing"], "close", 0)
        [] OTHER -> c

\* Mutant: what was sent is freed after an error has thrown it away.
SendDoneFlushFirst(s, n) ==
  IF s.outLocked THEN [s EXCEPT !.outDeferred = "SendDone"]
  ELSE LET c == [FreeSend(s) EXCEPT !.outDeferred = "none"]
           f == IF s.sendError
                THEN [c EXCEPT !.fAsyncError = TRUE, !.outValid = 0 - s.sendLen,
                               !.fWriteShutdown = TRUE]
                ELSE [c EXCEPT !.outValid = @ - s.sendLen]
       IN  [Send(f, n) EXCEPT !.wake = TRUE]

\* GUSIMTTSendDone; an error throws the remaining data away.
SendDone(s, n) ==
  IF s.outLocked THEN [s EXCEPT !.outDeferred = "SendDone"]
  ELSE LET c == [FreeSend(s) EXCEPT !.outDeferred = "none", !.outValid = @ - s.sendLen]
           f == IF s.sendError
                THEN [c EXCEPT !.fAsyncError = TRUE, !.outValid = 0,
                               !.fWriteShutdown = TRUE]
                ELSE c
       IN  [Send(f, n) EXCEPT !.wake = TRUE]

\* GUSIMTTRecv
Recv(s, n) ==
  LET free == Size - s.inValid
  IN  IF free = 0
      THEN [s EXCEPT !.inDeferred = "Recv", !.clobbered = @ \/ s.recvPB # "none"]
      ELSE CallReceive([s EXCEPT !.inDeferred = "none"], Smaller(n, free))

\* Mutant: what was received is not waited for.
RecvDoneSilent(s, n) ==
  IF s.inLocked THEN [s EXCEPT !.inDeferred = "RecvDone"]
  ELSE LET c == [FreeReceive(s) EXCEPT !.inDeferred = "none"]
       IN  CASE s.recvResult = "noErr" -> Recv([c EXCEPT !.inValid = @ + s.recvLen], n)
             [] s.recvResult = "timeout" -> Recv(c, n)
             [] s.recvResult = "error" ->
                  [c EXCEPT !.fAsyncError = TRUE, !.fReadShutdown = TRUE,
                            !.wake = TRUE]
             [] s.recvResult = "closing" ->
                  [c EXCEPT !.fReadShutdown = TRUE, !.wake = TRUE]

\* GUSIMTTRecvDone; recvLen has become the length that was received.
RecvDone(s, n) ==
  IF s.inLocked THEN [s EXCEPT !.inDeferred = "RecvDone"]
  ELSE LET c == [FreeReceive(s) EXCEPT !.inDeferred = "none"]
           r == CASE s.recvResult = "noErr" ->
                       Recv([c EXCEPT !.inValid = @ + s.recvLen], n)
                  [] s.recvResult = "timeout" -> Recv(c, n)
                  [] s.recvResult = "error" ->
                       [c EXCEPT !.fAsyncError = TRUE, !.fReadShutdown = TRUE]
                  [] s.recvResult = "closing" -> [c EXCEPT !.fReadShutdown = TRUE]
       IN  [r EXCEPT !.wake = TRUE]

\* GUSIMTTConnectDone; it does not look at the locks.
ConnectDone(s, n, failed) ==
  LET c == [s EXCEPT !.sendPB = "none", !.wake = TRUE]
  IN  IF failed
      THEN [c EXCEPT !.fAsyncError = TRUE, !.fState = "Unconnected"]
      ELSE Recv(Send([c EXCEPT !.fState = "Connected"], n), n)

\* The Release that unlocks a buffer runs what was deferred.
ReleaseOutput(s, n) ==
  LET c == [s EXCEPT !.outLocked = FALSE]
  IN  CASE s.outDeferred = "none"     -> c
        [] s.outDeferred = "Send"     -> Send(c, n)
        [] s.outDeferred = "SendDone" -> SendDone(c, n)

\* Mutant: a receive that waits for free space is forgotten.
ReleaseInputRecvDone(s, n) ==
  LET c == [s EXCEPT !.inLocked = FALSE]
  IN  IF s.inDeferred = "RecvDone" THEN RecvDone(c, n) ELSE c

ReleaseInput(s, n) ==
  LET c == [s EXCEPT !.inLocked = FALSE]
  IN  CASE s.inDeferred = "none"     -> c
        [] s.inDeferred = "Recv"     -> Recv(c, n)
        [] s.inDeferred = "RecvDone" -> RecvDone(c, n)

-----------------------------------------------------------------------------
\* Mutant: the destructor is in fContexts only while it waits.
fContextsWaiting == {t \in Threads : pc[t] \in {"loop", "wait"}}

\* The threads that AddContext has entered in fContexts: the destructor keeps
\* its own in while it consumes.
fContexts ==
  {t \in Threads :
     \/ pc[t] \in {"loop", "wait"}
     \/ t = "closer" /\ pc[t] \in {"ready", "locked", "moved"}}

\* The socket becomes s; its contexts are woken if s says so.
Becomes(s) ==
  /\ sock' = [s EXCEPT !.wake = FALSE]
  /\ fWakeup' = IF s.wake THEN fWakeup \cup fContexts ELSE fWakeup

(***************************************************************************)
(* MacTCP completes the calls.                                             *)
(***************************************************************************)
OpenCompletes(n, failed) ==
  /\ sock.sendPB = "open"
  /\ failed => MayFail
  /\ link' = IF failed THEN "gone" ELSE "up"
  /\ Becomes(ConnectDone(sock, n, failed))
  /\ UNCHANGED <<pc, running, rest>>

SendCompletes(n, failed) ==
  /\ sock.sendPB = "send"
  /\ link = "gone" => failed
  /\ Becomes(SendDone([sock EXCEPT !.sendPB = "sent", !.sendError = failed], n))
  /\ UNCHANGED <<link, pc, running, rest>>

\* The close call has no completion routine.
CloseCompletes ==
  /\ sock.sendPB = "close"
  /\ Becomes([sock EXCEPT !.sendPB = "none"])
  /\ UNCHANGED <<link, pc, running, rest>>

ReceiveCompletes(n, len, result) ==
  /\ sock.recvPB = "receive"
  /\ IF result = "noErr" THEN link = "up" /\ len \in 1 .. sock.recvLen ELSE len = 0
  /\ result = "timeout" => link = "up"
  /\ result = "closing" => link = "peerClosed"
  /\ Becomes(RecvDone([sock EXCEPT !.recvPB = "received", !.recvLen = len,
                                   !.recvResult = result], n))
  /\ UNCHANGED <<link, pc, running, rest>>

\* GUSIMTTNotify
NotifyClosing ==
  /\ link = "up"
  /\ link' = "peerClosed"
  /\ Becomes([sock EXCEPT !.fReadShutdown = TRUE, !.wake = TRUE])
  /\ UNCHANGED <<pc, running, rest>>

NotifyTerminate ==
  /\ link \in {"up", "peerClosed"}
  /\ link' = "gone"
  /\ Becomes([sock EXCEPT !.fReadShutdown = TRUE, !.fWriteShutdown = TRUE,
                          !.fState = "Unconnected", !.wake = TRUE])
  /\ UNCHANGED <<pc, running, rest>>

-----------------------------------------------------------------------------
(***************************************************************************)
(* The threads.  Between two Yields only interrupts come in between.       *)
(***************************************************************************)
Enter(t, from, to) ==
  /\ running = Nobody /\ pc[t] = from
  /\ pc' = [pc EXCEPT ![t] = to]
  /\ running' = t

Continue(t, from, to) ==
  /\ running = t /\ pc[t] = from
  /\ pc' = [pc EXCEPT ![t] = to]
  /\ running' = IF to \in {"idle", "wait", "gone"} THEN Nobody ELSE t

\* A call of the last connection is still to complete, or what the Release of
\* a sleeping reader or writer will run is still to start one.
Underway ==
  \/ sock.sendPB # "none" \/ sock.recvPB # "none" \/ sock.inDeferred # "none"
  \/ sock.outDeferred # "none" /\ pc["writer"] # "idle"

\* connect(), also on a socket whose connection is gone: it looks at fState,
\* not at the blocks, and resets neither flags nor buffers.
Connect ==
  /\ running = Nobody /\ pc["closer"] = "idle"
  /\ ~sock.fAsyncError /\ sock.fState \in {"Unbound", "Unconnected"}
  /\ Becomes([CallSend(sock, "open", 0) EXCEPT
               !.fState = "Connecting", !.leftover = Underway])
  /\ link' = "none"
  /\ UNCHANGED <<pc, running, rest>>

Online(states) == sock.fState \in states

MustRead ==
  ~sock.fReadShutdown /\ Online({"Connecting", "Connected", "Closing"})
    /\ sock.inValid = 0

MustWrite ==
  ~sock.fWriteShutdown /\ Online({"Connecting", "Connected"})
    /\ sock.outValid = Size

\* recvfrom() after its sanity checks.
Recvfrom ==
  /\ Enter("reader", "idle", "test")
  /\ pc["closer"] = "idle"
  /\ sock.inValid > 0 \/ (~sock.fAsyncError /\ ~sock.fReadShutdown)
  /\ Online({"Connecting", "Connected", "Closing"})
  /\ UNCHANGED <<sock, link, fWakeup, rest>>

\* sendto() after its sanity checks; it stores bytes in rounds.
Sendto(n) ==
  /\ Enter("writer", "idle", "test")
  /\ pc["closer"] = "idle"
  /\ ~sock.fAsyncError /\ ~sock.fWriteShutdown
  /\ Online({"Connecting", "Connected", "Closing"})
  /\ rest' = n
  /\ UNCHANGED <<sock, link, fWakeup>>

\* The sanity check of connect, recvfrom or sendto that reports an error of an
\* interrupt routine.
GetAsyncError ==
  /\ running = Nobody /\ pc["closer"] = "idle" /\ sock.fAsyncError
  /\ Becomes([sock EXCEPT !.fAsyncError = FALSE])
  /\ UNCHANGED <<link, pc, running, rest>>

Must(t) == IF t = "reader" THEN MustRead ELSE MustWrite

\* AddContext, before the condition is tested again.
TestFirst(t) ==
  /\ Continue(t, "test", IF Must(t) THEN "loop" ELSE "ready")
  /\ UNCHANGED <<sock, link, fWakeup, rest>>

TestAgain(t) ==
  /\ t \in {"reader", "writer"}
  /\ Continue(t, "loop", IF Must(t) THEN "wait" ELSE "ready")
  /\ UNCHANGED <<sock, link, fWakeup, rest>>

\* Yield(kGUSIBlock) comes back.
YieldReturns(t) ==
  /\ t \in fWakeup /\ Enter(t, "wait", "loop")
  /\ fWakeup' = fWakeup \ {t}
  /\ UNCHANGED <<sock, link, rest>>

\* Consume: lock, move, release.
ConsumeLock(t) ==
  /\ Continue(t, "ready", "locked")
  /\ Becomes([sock EXCEPT !.inLocked = TRUE])
  /\ UNCHANGED <<link, rest>>

ConsumeMove(t, n) ==
  /\ Continue(t, "locked", "moved")
  /\ n = sock.inValid \/ (t = "reader" /\ n \in 1 .. sock.inValid)
  /\ Becomes([sock EXCEPT !.inValid = @ - n])
  /\ UNCHANGED <<link, rest>>

ConsumeRelease(t, n) ==
  /\ Continue(t, "moved", IF t = "reader" THEN "idle" ELSE "wait")
  /\ Becomes(ReleaseInput(sock, n))
  /\ UNCHANGED <<link, rest>>

\* Produce, unless the connection was shut down meanwhile.
ProduceLock ==
  /\ IF sock.fWriteShutdown /\ sock.outValid = Size
     THEN Continue("writer", "ready", "idle") /\ Becomes(sock)
     ELSE Continue("writer", "ready", "locked")
          /\ Becomes([sock EXCEPT !.outLocked = TRUE])
  /\ UNCHANGED <<link, rest>>

ProduceMove ==
  /\ Continue("writer", "locked", "moved")
  /\ LET n == Smaller(rest, Size - sock.outValid)
     IN  /\ Becomes([sock EXCEPT !.outValid = @ + n])
         /\ rest' = rest - n
  /\ UNCHANGED link

ProduceRelease(n) ==
  /\ Continue("writer", "moved", IF rest = 0 THEN "idle" ELSE "test")
  /\ Becomes(ReleaseOutput(sock, n))
  /\ UNCHANGED <<link, rest>>

\* shutdown(how): the flags, then Lock and Release of the output buffer.
Shut(s, how) ==
  [s EXCEPT !.fReadShutdown  = @ \/ "read" \in how,
            !.fWriteShutdown = @ \/ "write" \in how,
            !.shut = @ \cup how]

Shutdown(how) ==
  /\ Enter("closer", "idle", "flagged")
  /\ Becomes(Shut(sock, how))
  /\ UNCHANGED <<link, rest>>

\* The destructor, when nobody is in a call on the socket any more; it calls
\* shutdown(2) if there is a connection.
Destroy ==
  /\ pc["reader"] = "idle" /\ pc["writer"] = "idle"
  /\ IF Online({"Connecting", "Connected"})
     THEN Enter("closer", "idle", "lastFlagged") /\ Becomes(Shut(sock, {"read", "write"}))
     ELSE Enter("closer", "idle", "loop") /\ Becomes(sock)
  /\ UNCHANGED <<link, rest>>

ShutdownLock ==
  /\ \/ Continue("closer", "flagged", "shutting")
     \/ Continue("closer", "lastFlagged", "lastShutting")
  /\ Becomes([sock EXCEPT !.outLocked = TRUE])
  /\ UNCHANGED <<link, rest>>

ShutdownRelease(n) ==
  /\ \/ Continue("closer", "shutting", "idle")
     \/ Continue("closer", "lastShutting", "loop")
  /\ Becomes(ReleaseOutput(sock, n))
  /\ UNCHANGED <<link, rest>>

\* It throws away input and waits until the connection is gone.
DestroyTest ==
  /\ Continue("closer", "loop",
              IF Online({"Unbound", "Unconnected"}) THEN "gone" ELSE "ready")
  /\ UNCHANGED <<sock, link, fWakeup, rest>>

-----------------------------------------------------------------------------
\* A socket that will connect, or one that accept() has made.
Init ==
  /\ \/ sock = NewSocket /\ link = "none"
     \/ \E n \in 1 .. Half :
          /\ sock = Recv(Send([NewSocket EXCEPT !.fState = "Connected"], n), n)
          /\ link = "up"
  /\ pc = [t \in Threads |-> "idle"]
  /\ running = Nobody
  /\ fWakeup = {}
  /\ rest = 0

Live == pc["closer"] # "gone" /\ ~sock.clobbered

Completions ==
  \/ \E n \in 1 .. Half, failed \in BOOLEAN :
       OpenCompletes(n, failed) \/ SendCompletes(n, failed)
  \/ \E n \in 1 .. Half, len \in 0 .. Size,
        result \in {"noErr", "timeout", "error", "closing"} :
       ReceiveCompletes(n, len, result)
  \/ CloseCompletes

Interrupts == Completions \/ NotifyClosing \/ NotifyTerminate

ThreadCode ==
  \/ \E t \in {"reader", "writer"} : TestFirst(t) \/ TestAgain(t)
  \/ \E t \in {"reader", "closer"} :
       \/ ConsumeLock(t)
       \/ \E n \in 0 .. Size : ConsumeMove(t, n)
       \/ \E n \in 1 .. Half : ConsumeRelease(t, n)
  \/ ProduceLock \/ ProduceMove \/ ShutdownLock
  \/ \E n \in 1 .. Half : ProduceRelease(n) \/ ShutdownRelease(n)
  \/ DestroyTest

Calls ==
  \/ Connect \/ Recvfrom \/ GetAsyncError \/ Destroy
  \/ \E n \in 1 .. MaxWrite : Sendto(n)
  \/ \E how \in {{"read"}, {"write"}, {"read", "write"}} : Shutdown(how)

Next ==
  Live /\ (Interrupts \/ ThreadCode \/ Calls \/ \E t \in Threads : YieldReturns(t))

Spec == Init /\ [][Next]_vars

(***************************************************************************)
(* MacTCP completes every call (a receive after 120 seconds, a send or an  *)
(* open after 60), and a connection that has been closed terminates.  A    *)
(* thread that has been woken is scheduled again, among others that may    *)
(* take the processor first.                                               *)
(***************************************************************************)
Fairness ==
  /\ WF_vars(Live /\ ThreadCode)
  /\ WF_vars(Live /\ CloseCompletes)
  /\ WF_vars(Live /\ \E n \in 1 .. Half, failed \in BOOLEAN :
                       OpenCompletes(n, failed))
  /\ WF_vars(Live /\ \E n \in 1 .. Half, failed \in BOOLEAN :
                       SendCompletes(n, failed))
  /\ WF_vars(Live /\ \E n \in 1 .. Half, len \in 0 .. Size,
                        result \in {"noErr", "timeout", "error", "closing"} :
                       ReceiveCompletes(n, len, result))
  /\ WF_vars(Live /\ sock.fState = "Closing" /\ NotifyTerminate)
  /\ \A t \in Threads : SF_vars(Live /\ YieldReturns(t))

FairSpec == Spec /\ Fairness

-----------------------------------------------------------------------------
TypeOK ==
  /\ sock \in Socket /\ ~sock.wake
  /\ link \in {"none", "up", "peerClosed", "gone"}
  /\ pc \in [Threads -> {"idle", "test", "loop", "wait", "ready", "locked",
                         "moved", "flagged", "shutting", "lastFlagged",
                         "lastShutting", "gone"}]
  /\ running \in Threads \cup {Nobody}
  /\ fWakeup \subseteq Threads
  /\ rest \in 0 .. MaxWrite

(***************************************************************************)
(* The sending side of a connection never loses its thread: there is a     *)
(* call under way, or a completion or the next send waits in the buffer    *)
(* for the Release, and then only for a buffer that is locked or empty.    *)
(***************************************************************************)
SenderAlive ==
  sock.fState = "Connected" =>
    \/ sock.sendPB = "send"
    \/ sock.sendPB = "sent" /\ sock.outDeferred = "SendDone" /\ sock.outLocked
    \/ /\ sock.sendPB = "none" /\ sock.outDeferred = "Send"
       /\ sock.outLocked \/ sock.outValid = 0
       /\ sock.fWriteShutdown => running = "closer"

(***************************************************************************)
(* So does the receiving side, until the connection is closed: what waits  *)
(* in the buffer waits for the Release of a buffer that is locked or full. *)
(***************************************************************************)
ReceiverAlive ==
  sock.fState \in {"Connected", "Closing"} /\ ~sock.fReadShutdown =>
    \/ sock.recvPB = "receive"
    \/ sock.recvPB = "received" /\ sock.inDeferred = "RecvDone" /\ sock.inLocked
    \/ /\ sock.recvPB = "none" /\ sock.inDeferred = "Recv"
       /\ sock.inLocked \/ sock.inValid = Size

(***************************************************************************)
(* Each direction of a connection keeps exactly one chain of calls, which  *)
(* does not break, whatever finds the buffers locked, and is started twice *)
(* only if connect() opens the socket again before the connection that was *)
(* there is through.                                                       *)
(***************************************************************************)
TransfersAlive ==
  /\ sock.clobbered => sock.leftover
  /\ sock.clobbered \/ (SenderAlive /\ ReceiverAlive)

(***************************************************************************)
(* A thread that sleeps in recvfrom or sendto, and has not been woken, has *)
(* something to wait for; only shutdown(), called by another thread, may   *)
(* end the wait without waking it.                                         *)
(***************************************************************************)
SleeperWaits ==
  /\ pc["reader"] = "wait" /\ "reader" \notin fWakeup =>
       MustRead \/ "read" \in sock.shut
  /\ pc["writer"] = "wait" /\ "writer" \notin fWakeup =>
       MustWrite \/ "write" \in sock.shut

\* recvfrom returns once there is data or the connection is closed.
ReadReturns ==
  pc["reader"] = "wait" /\ ~MustRead ~> pc["reader"] = "idle" \/ sock.clobbered

\* The destructor comes to an end, whatever is under way when it starts.
DestructorEnds ==
  pc["closer"] \in {"lastFlagged", "loop"} ~> pc["closer"] = "gone" \/ sock.clobbered
=============================================================================
