-------------------------- MODULE GUSIMTTcpProofs --------------------------
(***************************************************************************)
(* The two chains of asynchronous calls of GUSIMTTcp, for any size of the  *)
(* buffers and any length of a write.                                      *)
(***************************************************************************)
EXTENDS GUSIMTTcp, TLAPS

-----------------------------------------------------------------------------
(***************************************************************************)
(* The inductive invariant.                                                *)
(***************************************************************************)
\* What fSendPB, the output buffer and fState say of each other.
SendSide(s) ==
  /\ ~s.clobbered
  /\ s.sendPB = "open" <=> s.fState = "Connecting"
  /\ s.fState = "Unbound" => s.sendPB = "none" /\ s.outDeferred = "none" /\ ~s.leftover
  /\ s.sendPB = "close" => s.fState \in {"Closing", "Unconnected"}
  /\ s.fState = "Closing" => s.sendPB \in {"close", "none"} /\ s.outDeferred = "none"
  /\ s.sendPB = "sent" <=> s.outDeferred = "SendDone"
  /\ s.sendPB = "sent" => s.outLocked
  /\ s.outDeferred = "Send" =>
       s.sendPB \in {"none", "open"} /\ (s.outLocked \/ s.outValid = 0)
  /\ s.sendPB \in {"send", "sent"} => s.sendLen <= s.outValid
  /\ s.fState = "Connected" => s.sendPB \in {"send", "sent"} \/ s.outDeferred = "Send"
  /\ s.fState # "Connected" /\ (s.sendPB \in {"send", "sent"} \/ s.outDeferred = "Send") =>
       s.fWriteShutdown
  /\ s.fState = "Connecting" /\ s.outDeferred = "Send" /\ ~s.leftover => s.outValid = 0

\* What fRecvPB, the input buffer and fState say of each other.
ReceiveSide(s) ==
  /\ s.fState \in {"Unbound", "Connecting"} /\ ~s.leftover =>
       s.recvPB = "none" /\ s.inDeferred = "none"
  /\ s.recvPB = "received" <=> s.inDeferred = "RecvDone"
  /\ s.recvPB = "received" => s.inLocked
  /\ s.inDeferred = "Recv" => s.recvPB = "none" /\ (s.inLocked \/ s.inValid = Size)
  /\ \/ s.recvPB = "receive"
     \/ s.recvPB = "received" /\ s.recvResult = "noErr"
     => s.recvLen <= Size - s.inValid
  /\ s.fState \in {"Connected", "Closing"} /\ ~s.fReadShutdown =>
       s.recvPB # "none" \/ s.inDeferred = "Recv"

\* A send that waits on a connection which is shut down waits for the Release
\* of the thread that shuts it down; the one that an earlier connection left
\* behind is run by no writer.
SendsLater(s, p) ==
  /\ s.fState = "Connected" /\ s.outDeferred = "Send" /\ s.fWriteShutdown =>
       p["closer"] \in {"flagged", "shutting", "lastFlagged", "lastShutting"}
  /\ s.fState = "Connecting" /\ s.outDeferred = "Send" /\ ~s.leftover =>
       p["writer"] = "idle"

ShutdownSends(s) == SendsLater(s, pc)

Chains(s) == SendSide(s) /\ ReceiveSide(s) /\ ShutdownSends(s)

Linked == link = "none" <=> sock.fState \in {"Unbound", "Connecting"}

InCall == {"idle", "test", "loop", "wait", "ready", "locked", "moved"}
Destroying == {"lastFlagged", "lastShutting", "loop", "wait", "ready",
               "locked", "moved", "gone"}

Places == InCall \cup Destroying \cup {"flagged", "shutting"}

\* One thread at a time is between two Yields, it alone holds a lock, and the
\* destructor runs alone.
OneRuns ==
  /\ \A t \in Threads : pc[t] \notin {"idle", "wait", "gone"} => running = t
  /\ pc["reader"] \in InCall /\ pc["writer"] \in InCall
  /\ pc["closer"] \in Destroying => pc["reader"] = "idle" /\ pc["writer"] = "idle"

LocksHeld ==
  /\ sock.inLocked <=> \/ pc["reader"] \in {"locked", "moved"}
                       \/ pc["closer"] \in {"locked", "moved"}
  /\ sock.outLocked <=> \/ pc["writer"] \in {"locked", "moved"}
                        \/ pc["closer"] \in {"shutting", "lastShutting"}

\* Every block is used by one chain of calls, or connect() has broken this.
InOrder ==
  TypeOK /\ Chains(sock) /\ Linked /\ OneRuns /\ LocksHeld /\ SleeperWaits

BlockReused == TypeOK /\ SleeperWaits /\ sock.clobbered /\ sock.leftover

IInv == InOrder \/ BlockReused

-----------------------------------------------------------------------------
(***************************************************************************)
(* The interrupt routines.  Each touches one side of the socket.           *)
(***************************************************************************)
SameReceive(s, r) ==
  /\ r.recvPB = s.recvPB /\ r.recvLen = s.recvLen /\ r.recvResult = s.recvResult
  /\ r.leftover = s.leftover /\ r.inValid = s.inValid /\ r.inLocked = s.inLocked
  /\ r.inDeferred = s.inDeferred /\ r.fReadShutdown = s.fReadShutdown

SameSend(s, r) ==
  /\ r.fState = s.fState /\ r.clobbered = s.clobbered /\ r.leftover = s.leftover
  /\ r.sendPB = s.sendPB /\ r.sendLen = s.sendLen /\ r.sendError = s.sendError
  /\ r.outValid = s.outValid /\ r.outLocked = s.outLocked
  /\ r.outDeferred = s.outDeferred /\ r.fWriteShutdown = s.fWriteShutdown

LEMMA HalfFits == Half \in Nat /\ Half >= 1 /\ Half <= Size
BY SizeAssumption DEF Half

\* Whether a sleeping reader or writer still has its reason to sleep.
Undisturbed(s, r) ==
  /\ r.outValid = s.outValid /\ r.inValid = s.inValid
  /\ r.fReadShutdown = s.fReadShutdown /\ r.fWriteShutdown = s.fWriteShutdown
  /\ \/ r.fState = s.fState
     \/ s.fState = "Connected" /\ s.fWriteShutdown /\ r.fState = "Closing"

\* A record stays a socket when one of its fields gets another value.
LEMMA FieldFits ==
  /\ \A c \in Socket : [c EXCEPT !.clobbered = TRUE] \in Socket
  /\ \A c \in Socket : [c EXCEPT !.sendError = FALSE] \in Socket
  /\ \A c \in Socket, v \in 0 .. Size : [c EXCEPT !.outValid = v] \in Socket
<1>1. ASSUME NEW c \in Socket PROVE [c EXCEPT !.clobbered = TRUE] \in Socket
  BY DEF Socket
<1>2. ASSUME NEW c \in Socket PROVE [c EXCEPT !.sendError = FALSE] \in Socket
  BY DEF Socket
<1>3. ASSUME NEW c \in Socket, NEW v \in 0 .. Size
      PROVE  [c EXCEPT !.outValid = v] \in Socket
  BY DEF Socket
<1>4. QED
  BY <1>1, <1>2, <1>3

\* What starting a call on an idle parameter block does.
LEMMA CallSendEffect ==
  ASSUME NEW s \in Socket, NEW call \in {"open", "send", "close"},
         NEW m \in 0 .. Size, NEW r, r = CallSend(s, call, m), s.sendPB = "none"
  PROVE  /\ r \in Socket /\ r.sendPB = call /\ r.sendLen = m
         /\ r.clobbered = s.clobbered /\ r.fState = s.fState
         /\ r.outDeferred = s.outDeferred /\ SameReceive(s, r) /\ Undisturbed(s, r)
         /\ r.outLocked = s.outLocked /\ r.shut = s.shut /\ r.wake = s.wake
<1>1. s.clobbered \in BOOLEAN /\ (s.clobbered \/ s.sendPB # "none") = s.clobbered
  BY DEF Socket
<1>2. r = [s EXCEPT !.sendPB = call, !.sendLen = m, !.sendError = FALSE,
                    !.clobbered = s.clobbered]
  BY <1>1 DEF CallSend
<1>3. r \in Socket
  <2> DEFINE a == [s EXCEPT !.sendPB = call]
             b == [a EXCEPT !.sendLen = m]
  <2>1. a \in Socket
    BY DEF Socket
  <2> HIDE DEF a
  <2>2. b \in Socket
    BY <2>1 DEF Socket
  <2> HIDE DEF b
  <2> DEFINE c == [b EXCEPT !.sendError = FALSE]
  <2>3. c \in Socket
    BY <2>2 DEF Socket
  <2>4. r = [c EXCEPT !.clobbered = s.clobbered]
    BY <1>2 DEF a, b
  <2> HIDE DEF c
  <2>5. s.clobbered \in BOOLEAN
    BY <1>1
  <2>6. QED
    BY ONLY <2>3, <2>4, <2>5 DEF Socket
<1>4. QED
  BY <1>2, <1>3 DEF Socket, SameReceive, Undisturbed

LEMMA CallReceiveEffect ==
  ASSUME NEW s \in Socket, NEW m \in 0 .. Size, NEW r, r = CallReceive(s, m),
         s.recvPB = "none"
  PROVE  /\ r \in Socket /\ r.recvPB = "receive" /\ r.recvLen = m
         /\ r.inDeferred = s.inDeferred /\ SameSend(s, r) /\ Undisturbed(s, r)
         /\ r.inLocked = s.inLocked /\ r.shut = s.shut /\ r.wake = s.wake
<1>1. s.clobbered \in BOOLEAN /\ (s.clobbered \/ s.recvPB # "none") = s.clobbered
  BY DEF Socket
<1>2. r = [s EXCEPT !.recvPB = "receive", !.recvLen = m, !.clobbered = s.clobbered]
  BY <1>1 DEF CallReceive
<1>3. r \in Socket
  <2> DEFINE a == [s EXCEPT !.recvPB = "receive"]
  <2>1. a \in Socket
    BY DEF Socket
  <2> HIDE DEF a
  <2> DEFINE b == [a EXCEPT !.recvLen = m]
  <2>2. b \in Socket
    BY <2>1 DEF Socket
  <2>3. r = [b EXCEPT !.clobbered = s.clobbered]
    BY <1>2 DEF a
  <2> HIDE DEF b
  <2>4. s.clobbered \in BOOLEAN
    BY <1>1
  <2>5. QED
    BY ONLY <2>2, <2>3, <2>4 DEF Socket
<1>4. QED
  BY <1>2, <1>3 DEF Socket, SameSend, Undisturbed

\* GUSIMTTSend starts a send, waits for data, or closes the connection if there
\* is none to come; nothing else of the socket changes.
LEMMA SendEffect ==
  ASSUME NEW s \in Socket, NEW n \in 1 .. Half, NEW r, r = Send(s, n),
         s.sendPB = "none", s.fState \in {"Connected", "Unconnected"}
  PROVE  /\ r \in Socket /\ r.clobbered = s.clobbered
         /\ SameReceive(s, r) /\ Undisturbed(s, r)
         /\ r.outLocked = s.outLocked /\ r.shut = s.shut /\ r.wake = s.wake
         /\ \/ /\ r.sendPB = "send" /\ r.outDeferred = "none"
               /\ r.sendLen <= s.outValid /\ r.fState = s.fState
            \/ /\ r.sendPB = "none" /\ r.outDeferred = "Send"
               /\ s.outValid = 0 /\ ~s.fWriteShutdown /\ r.fState = s.fState
            \/ /\ r.sendPB = "close" /\ r.outDeferred = "none"
               /\ r.fState = "Closing"
            \/ /\ r.sendPB = "none" /\ r.outDeferred = "none"
               /\ r.fState = "Unconnected"
<1> DEFINE c == [s EXCEPT !.outDeferred = "none"]
<1>1. /\ c \in Socket /\ c.clobbered = s.clobbered /\ c.sendPB = "none"
      /\ SameReceive(s, c) /\ Undisturbed(s, c) /\ c.fState = s.fState
      /\ c.outLocked = s.outLocked /\ c.shut = s.shut /\ c.wake = s.wake
      /\ c.outDeferred = "none"
  BY DEF Socket, SameReceive, Undisturbed
<1>2. CASE s.outValid > 0
  <2>1. r = CallSend(c, "send", Smaller(n, s.outValid))
    BY <1>2 DEF Send
  <2>2. PICK m \in 0 .. Size : m = Smaller(n, s.outValid) /\ m <= s.outValid
    BY <1>2, HalfFits, SizeAssumption DEF Socket, Smaller
  <2> HIDE DEF c
  <2>3. /\ r \in Socket /\ r.sendPB = "send" /\ r.sendLen = m
        /\ r.clobbered = c.clobbered
        /\ r.outDeferred = c.outDeferred /\ r.fState = c.fState
        /\ SameReceive(c, r) /\ Undisturbed(c, r)
        /\ r.outLocked = c.outLocked /\ r.shut = c.shut /\ r.wake = c.wake
    BY <1>1, <2>1, <2>2, CallSendEffect
  <2>4. QED
    BY <1>1, <2>2, <2>3 DEF SameReceive, Undisturbed
<1>3. CASE s.outValid = 0 /\ ~s.fWriteShutdown
  <2>1. r = [c EXCEPT !.outDeferred = "Send"]
    BY <1>3 DEF Send
  <2> HIDE DEF c
  <2>2. r \in Socket
    BY <1>1, <2>1 DEF Socket
  <2>3. /\ r.sendPB = "none" /\ r.clobbered = c.clobbered
        /\ r.outDeferred = "Send" /\ r.fState = c.fState
        /\ SameReceive(c, r) /\ Undisturbed(c, r)
        /\ r.outLocked = c.outLocked /\ r.shut = c.shut /\ r.wake = c.wake
    BY <1>1, <2>1 DEF Socket, SameReceive, Undisturbed
  <2>4. QED
    BY <1>1, <1>3, <2>2, <2>3 DEF SameReceive, Undisturbed
<1>4. CASE s.outValid = 0 /\ s.fWriteShutdown /\ s.fState = "Connected"
  <2> DEFINE d == [c EXCEPT !.fState = "Closing"]
  <2>1. r = CallSend(d, "close", 0)
    BY <1>4 DEF Send
  <2>2. /\ d \in Socket /\ d.clobbered = c.clobbered /\ d.sendPB = "none"
        /\ SameReceive(c, d) /\ Undisturbed(c, d) /\ d.fState = "Closing"
        /\ d.outLocked = c.outLocked /\ d.shut = c.shut /\ d.wake = c.wake
        /\ d.outDeferred = c.outDeferred
    <3> HIDE DEF c
    <3>1. c.fState = "Connected" /\ c.fWriteShutdown
      BY <1>1, <1>4 DEF Undisturbed
    <3>2. QED
      BY <1>1, <3>1 DEF Socket, SameReceive, Undisturbed
  <2> HIDE DEF d
  <2>3. /\ r \in Socket /\ r.sendPB = "close" /\ r.clobbered = d.clobbered
        /\ r.outDeferred = d.outDeferred /\ r.fState = d.fState
        /\ SameReceive(d, r) /\ Undisturbed(d, r)
        /\ r.outLocked = d.outLocked /\ r.shut = d.shut /\ r.wake = d.wake
    BY <2>1, <2>2, CallSendEffect, SizeAssumption
  <2> HIDE DEF c
  <2>4. /\ r.clobbered = s.clobbered /\ r.outLocked = s.outLocked
        /\ r.shut = s.shut /\ r.wake = s.wake
        /\ r.outDeferred = "none" /\ r.fState = "Closing"
    BY <1>1, <2>2, <2>3
  <2>5. SameReceive(s, r)
    BY <1>1, <2>2, <2>3 DEF SameReceive
  <2>6. Undisturbed(s, r)
    <3>1. /\ s.fState = "Connected" /\ s.fWriteShutdown
      BY <1>4
    <3>2. QED
      BY <1>1, <2>2, <2>3, <2>4, <3>1 DEF Undisturbed
  <2>7. QED
    BY <2>3, <2>4, <2>5, <2>6
<1>5. CASE s.outValid = 0 /\ s.fWriteShutdown /\ s.fState = "Unconnected"
  <2>1. r = c
    BY <1>5 DEF Send
  <2> HIDE DEF c
  <2>2. QED
    BY <1>1, <1>5, <2>1
<1>6. s.outValid \in Nat
  BY SizeAssumption DEF Socket
<1>7. QED
  BY <1>2, <1>3, <1>4, <1>5, <1>6

\* GUSIMTTRecv starts a receive or waits for space.
LEMMA RecvEffect ==
  ASSUME NEW s \in Socket, NEW n \in 1 .. Half, NEW r, r = Recv(s, n),
         s.recvPB = "none"
  PROVE  /\ r \in Socket /\ SameSend(s, r) /\ Undisturbed(s, r)
         /\ r.inLocked = s.inLocked /\ r.shut = s.shut /\ r.wake = s.wake
         /\ \/ /\ r.recvPB = "receive" /\ r.inDeferred = "none"
               /\ r.recvLen <= Size - s.inValid
            \/ /\ r.recvPB = "none" /\ r.inDeferred = "Recv"
               /\ s.inValid = Size
<1>1. CASE s.inValid = Size
  <2>1. s.clobbered \in BOOLEAN /\ (s.clobbered \/ s.recvPB # "none") = s.clobbered
    BY DEF Socket
  <2>5. Size - s.inValid = 0
    BY <1>1, SizeAssumption
  <2>2. r = [s EXCEPT !.inDeferred = "Recv", !.clobbered = s.clobbered]
    BY <2>1, <2>5 DEF Recv
  <2> DEFINE a == [s EXCEPT !.inDeferred = "Recv"]
  <2>6. a \in Socket
    BY DEF Socket
  <2>7. r = [a EXCEPT !.clobbered = s.clobbered]
    BY <2>2
  <2> HIDE DEF a
  <2>3. r \in Socket
    BY <2>1, <2>6, <2>7 DEF Socket
  <2>4. QED
    BY <1>1, <2>2, <2>3 DEF Socket, SameSend, Undisturbed
<1>2. CASE s.inValid # Size
  <2> DEFINE c == [s EXCEPT !.inDeferred = "none"]
  <2>1. /\ c \in Socket /\ c.recvPB = "none" /\ SameSend(s, c) /\ Undisturbed(s, c)
        /\ c.inLocked = s.inLocked /\ c.shut = s.shut /\ c.wake = s.wake
        /\ c.inDeferred = "none"
    BY DEF Socket, SameSend, Undisturbed
  <2>2. PICK m \in 0 .. Size :
          m = Smaller(n, Size - s.inValid) /\ m <= Size - s.inValid
    BY <1>2, HalfFits, SizeAssumption DEF Socket, Smaller
  <2>3. Size - s.inValid # 0
    BY <1>2, SizeAssumption DEF Socket
  <2>4. r = CallReceive(c, m)
    BY <2>2, <2>3 DEF Recv
  <2> HIDE DEF c
  <2>5. /\ r \in Socket /\ r.recvPB = "receive" /\ r.recvLen = m
        /\ r.inDeferred = c.inDeferred /\ SameSend(c, r) /\ Undisturbed(c, r)
        /\ r.inLocked = c.inLocked /\ r.shut = c.shut /\ r.wake = c.wake
    BY <2>1, <2>2, <2>4, CallReceiveEffect
  <2>6. QED
    BY <2>1, <2>2, <2>5 DEF SameSend, Undisturbed
<1>3. QED
  BY <1>1, <1>2

\* Started in a block that is in use, either routine marks the socket.
LEMMA CallSendReuses ==
  ASSUME NEW s \in Socket, NEW call \in {"open", "send", "close"},
         NEW m \in 0 .. Size, NEW r, r = CallSend(s, call, m), s.sendPB # "none"
  PROVE  /\ r \in Socket /\ r.clobbered /\ r.leftover = s.leftover
         /\ Undisturbed(s, r) /\ r.shut = s.shut /\ r.wake = s.wake
<1>1. (s.clobbered \/ s.sendPB # "none") = TRUE
  OBVIOUS
<1>2. r = [s EXCEPT !.sendPB = call, !.sendLen = m, !.sendError = FALSE,
                    !.clobbered = TRUE]
  BY <1>1 DEF CallSend
<1>3. r \in Socket
  <2> DEFINE a == [s EXCEPT !.sendPB = call]
             b == [a EXCEPT !.sendLen = m]
  <2>1. a \in Socket
    BY DEF Socket
  <2> HIDE DEF a
  <2>2. b \in Socket
    BY <2>1 DEF Socket
  <2>3. r = [b EXCEPT !.sendError = FALSE, !.clobbered = TRUE]
    BY <1>2 DEF a
  <2> HIDE DEF b
  <2> DEFINE d == [b EXCEPT !.sendError = FALSE]
  <2>4. d \in Socket
    BY <2>2 DEF Socket
  <2>5. r = [d EXCEPT !.clobbered = TRUE]
    BY <2>3
  <2> HIDE DEF d
  <2>7. r \in Socket
    BY <2>4, <2>5, FieldFits
  <2>6. QED
    BY <2>4, <2>5, <2>7 DEF Socket
<1>4. QED
  BY <1>2, <1>3 DEF Socket, Undisturbed

LEMMA RecvReuses ==
  ASSUME NEW s \in Socket, NEW n \in 1 .. Half, NEW r, r = Recv(s, n),
         s.recvPB # "none"
  PROVE  /\ r \in Socket /\ r.clobbered /\ r.leftover = s.leftover
         /\ r.shut = s.shut /\ r.wake = s.wake
<1>1. CASE Size - s.inValid = 0
  <2>1. (s.clobbered \/ s.recvPB # "none") = TRUE
    OBVIOUS
  <2>2. r = [s EXCEPT !.inDeferred = "Recv", !.clobbered = TRUE]
    BY <1>1, <2>1 DEF Recv
  <2> DEFINE a == [s EXCEPT !.inDeferred = "Recv"]
  <2>6. a \in Socket
    BY DEF Socket
  <2>7. r = [a EXCEPT !.clobbered = TRUE]
    BY <2>2
  <2> HIDE DEF a
  <2>3. r \in Socket
    BY <2>6, <2>7, FieldFits
  <2>4. QED
    BY <2>2, <2>3 DEF Socket
<1>2. CASE Size - s.inValid # 0
  <2>1. PICK m \in 0 .. Size : m = Smaller(n, Size - s.inValid)
    BY <1>2, HalfFits, SizeAssumption DEF Socket, Smaller
  <2> DEFINE c == [s EXCEPT !.inDeferred = "none"]
  <2>2. r = CallReceive(c, m)
    BY <1>2, <2>1 DEF Recv
  <2>3. /\ c \in Socket /\ c.recvPB # "none" /\ c.leftover = s.leftover
        /\ c.shut = s.shut /\ c.wake = s.wake
    BY DEF Socket
  <2> HIDE DEF c
  <2>4. (c.clobbered \/ c.recvPB # "none") = TRUE
    BY <2>3
  <2>5. r = [c EXCEPT !.recvPB = "receive", !.recvLen = m, !.clobbered = TRUE]
    BY <2>2, <2>4 DEF CallReceive
  <2> DEFINE a == [c EXCEPT !.recvPB = "receive"]
             b == [a EXCEPT !.recvLen = m]
  <2>8. a \in Socket
    BY <2>3 DEF Socket
  <2> HIDE DEF a
  <2>9. b \in Socket
    BY <2>8 DEF Socket
  <2>10. r = [b EXCEPT !.clobbered = TRUE]
    BY <2>5 DEF a
  <2> HIDE DEF b
  <2>6. r \in Socket
    BY <2>9, <2>10, FieldFits
  <2>7. QED
    BY <2>3, <2>5, <2>6 DEF Socket
<1>3. QED
  BY <1>1, <1>2

\* What became of fState: Send may have closed the connection.
ClosedOrSame(s, r) ==
  r.fState = s.fState \/ (s.fState = "Connected" /\ r.fState = "Closing")

LEMMA WakeSame ==
  ASSUME NEW x \in Socket, NEW r, r = [x EXCEPT !.wake = TRUE]
  PROVE  r \in Socket /\ r.wake /\ SameReceive(x, r) /\ SameSend(x, r) /\ r.shut = x.shut
<1>1. r \in Socket
  BY DEF Socket
<1>2. SameReceive(x, r)
  BY DEF Socket, SameReceive
<1>3. SameSend(x, r)
  BY DEF Socket, SameSend
<1>4. r.wake /\ r.shut = x.shut
  BY DEF Socket
<1>5. QED
  BY <1>1, <1>2, <1>3, <1>4

\* A call that is through leaves its block.
LEMMA FreeSendEffect ==
  ASSUME NEW s \in Socket, NEW r, r = FreeSend(s)
  PROVE  /\ r \in Socket /\ r.sendPB = "none" /\ r.fState = s.fState
         /\ r.clobbered = s.clobbered /\ r.outLocked = s.outLocked
         /\ r.shut = s.shut /\ r.fWriteShutdown = s.fWriteShutdown
         /\ r.outValid = s.outValid /\ SameReceive(s, r)
<1>1. 0 \in 0 .. Size
  BY SizeAssumption
<1>2. r = [s EXCEPT !.sendPB = "none", !.sendLen = 0, !.sendError = FALSE]
  BY DEF FreeSend
<1> DEFINE a == [s EXCEPT !.sendPB = "none"]
           b == [a EXCEPT !.sendLen = 0]
<1>5. a \in Socket
  BY DEF Socket
<1> HIDE DEF a
<1>6. b \in Socket
  BY <1>1, <1>5 DEF Socket
<1>7. r = [b EXCEPT !.sendError = FALSE]
  BY <1>2 DEF a
<1> HIDE DEF b
<1>3. r \in Socket
  BY <1>6, <1>7, FieldFits
<1>4. QED
  BY <1>2, <1>3 DEF Socket, SameReceive

LEMMA FreeReceiveEffect ==
  ASSUME NEW s \in Socket, NEW r, r = FreeReceive(s)
  PROVE  /\ r \in Socket /\ r.recvPB = "none" /\ SameSend(s, r)
         /\ r.inLocked = s.inLocked /\ r.shut = s.shut /\ r.inValid = s.inValid
<1>1. 0 \in 0 .. Size
  BY SizeAssumption
<1>2. r = [s EXCEPT !.recvPB = "none", !.recvLen = 0, !.recvResult = "noErr"]
  BY DEF FreeReceive
<1> DEFINE a == [s EXCEPT !.recvPB = "none"]
           b == [a EXCEPT !.recvLen = 0]
<1>5. a \in Socket
  BY DEF Socket
<1> HIDE DEF a
<1>6. b \in Socket
  BY <1>1, <1>5 DEF Socket
<1>7. r = [b EXCEPT !.recvResult = "noErr"]
  BY <1>2 DEF a
<1> HIDE DEF b
<1>3. r \in Socket
  BY <1>6, <1>7 DEF Socket
<1>4. QED
  BY <1>2, <1>3 DEF Socket, SameSend

LEMMA SendDoneEffect ==
  ASSUME NEW s \in Socket, NEW n \in 1 .. Half, NEW r, r = SendDone(s, n),
         s.sendPB = "sent", s.outDeferred \in {"none", "SendDone"}, ~s.clobbered,
         s.sendLen <= s.outValid, s.fState \in {"Connected", "Unconnected"},
         s.fState = "Unconnected" => s.fWriteShutdown
  PROVE  /\ r \in Socket /\ SendSide(r) /\ SameReceive(s, r) /\ ClosedOrSame(s, r)
         /\ r.outLocked = s.outLocked /\ r.shut = s.shut
         /\ r.outDeferred = "Send" => ~r.fWriteShutdown
         /\ r.wake \/ Undisturbed(s, r)
<1>1. CASE s.outLocked
  <2>1. r = [s EXCEPT !.outDeferred = "SendDone"]
    BY <1>1 DEF SendDone
  <2>2. r \in Socket
    BY <2>1 DEF Socket
  <2>3. /\ SameReceive(s, r) /\ Undisturbed(s, r) /\ r.fState = s.fState
        /\ r.sendPB = s.sendPB /\ r.sendLen = s.sendLen
        /\ r.clobbered = s.clobbered
        /\ r.outLocked = s.outLocked /\ r.shut = s.shut
        /\ r.outDeferred = "SendDone"
    BY <2>1 DEF Socket, SameReceive, Undisturbed
  <2>4. SendSide(r)
    BY <1>1, <2>3 DEF SendSide, Undisturbed
  <2>5. QED
    BY <2>2, <2>3, <2>4 DEF ClosedOrSame
<1>2. CASE ~s.outLocked
  <2> DEFINE a == FreeSend(s)
             c == [a EXCEPT !.outDeferred = "none", !.outValid = @ - s.sendLen]
             f == IF s.sendError
                  THEN [c EXCEPT !.fAsyncError = TRUE, !.outValid = 0,
                                 !.fWriteShutdown = TRUE]
                  ELSE c
             x == Send(f, n)
  <2>1. r = [x EXCEPT !.wake = TRUE]
    BY <1>2 DEF SendDone
  <2>2. s.outValid - s.sendLen \in 0 .. Size
    BY SizeAssumption DEF Socket
  <2>12. /\ a \in Socket /\ a.sendPB = "none" /\ a.fState = s.fState
         /\ a.clobbered = s.clobbered /\ a.outLocked = s.outLocked /\ a.shut = s.shut
         /\ a.fWriteShutdown = s.fWriteShutdown /\ a.outValid = s.outValid
         /\ SameReceive(s, a)
    BY FreeSendEffect
  <2> HIDE DEF a
  <2>3. c \in Socket
    <3> DEFINE d == [a EXCEPT !.outDeferred = "none"]
    <3>1. d \in Socket
      BY <2>12 DEF Socket
    <3>2. c = [d EXCEPT !.outValid = s.outValid - s.sendLen]
      BY <2>12 DEF Socket
    <3> HIDE DEF d
    <3>3. QED
      BY <2>2, <3>1, <3>2, FieldFits
  <2>4. /\ c.sendPB = "none" /\ c.fState = s.fState /\ c.clobbered = s.clobbered
        /\ c.outLocked = s.outLocked /\ c.shut = s.shut /\ SameReceive(s, c)
        /\ c.fWriteShutdown = s.fWriteShutdown
    BY <2>12 DEF Socket, SameReceive
  <2> HIDE DEF c
  <2>5. /\ f \in Socket /\ f.sendPB = "none" /\ f.fState = s.fState
        /\ f.clobbered = s.clobbered /\ f.outLocked = s.outLocked
        /\ f.shut = s.shut /\ SameReceive(s, f)
        /\ s.fWriteShutdown => f.fWriteShutdown
    <3>1. CASE s.sendError
      <4>1. f = [c EXCEPT !.fAsyncError = TRUE, !.outValid = 0,
                          !.fWriteShutdown = TRUE]
        BY <3>1
      <4>2. 0 \in 0 .. Size
        BY SizeAssumption
      <4> HIDE DEF f
      <4>3. f \in Socket
        BY <2>3, <4>1, <4>2 DEF Socket
      <4>4. QED
        BY <2>3, <2>4, <4>1, <4>3 DEF Socket, SameReceive
    <3>2. CASE ~s.sendError
      BY <2>3, <2>4, <3>2
    <3>3. QED
      BY <3>1, <3>2
  <2> HIDE DEF f
  <2>6. /\ x \in Socket /\ x.clobbered = f.clobbered /\ SameReceive(f, x)
        /\ Undisturbed(f, x)
        /\ x.outLocked = f.outLocked /\ x.shut = f.shut
        /\ \/ /\ x.sendPB = "send" /\ x.outDeferred = "none"
              /\ x.sendLen <= f.outValid /\ x.fState = f.fState
           \/ /\ x.sendPB = "none" /\ x.outDeferred = "Send"
              /\ f.outValid = 0 /\ ~f.fWriteShutdown /\ x.fState = f.fState
           \/ /\ x.sendPB = "close" /\ x.outDeferred = "none"
              /\ x.fState = "Closing"
           \/ /\ x.sendPB = "none" /\ x.outDeferred = "none"
              /\ x.fState = "Unconnected"
    BY <2>5, SendEffect
  <2> HIDE DEF x
  <2>7. r \in Socket /\ r.wake /\ SameReceive(x, r) /\ SameSend(x, r) /\ r.shut = x.shut
    BY <2>1, <2>6, WakeSame
  <2>8. SendSide(r) /\ ClosedOrSame(s, r)
    BY <2>5, <2>6, <2>7 DEF SendSide, SameSend, Undisturbed, ClosedOrSame
  <2>9. SameReceive(s, r) /\ r.outLocked = s.outLocked /\ r.shut = s.shut
    BY <2>5, <2>6, <2>7 DEF SameReceive, SameSend
  <2>10. r.outDeferred = "Send" => ~r.fWriteShutdown
    BY <2>6, <2>7 DEF SameSend, Undisturbed
  <2>11. QED
    BY <2>7, <2>8, <2>9, <2>10
<1>3. QED
  BY <1>1, <1>2

LEMMA RecvDoneEffect ==
  ASSUME NEW s \in Socket, NEW n \in 1 .. Half, NEW r, r = RecvDone(s, n),
         s.recvPB = "received", s.inDeferred \in {"none", "RecvDone"},
         s.recvResult = "noErr" => s.recvLen <= Size - s.inValid,
         s.fState \notin {"Unbound", "Connecting"} \/ s.leftover
  PROVE  /\ r \in Socket /\ ReceiveSide(r) /\ SameSend(s, r)
         /\ r.inLocked = s.inLocked /\ r.shut = s.shut
         /\ r.wake \/ Undisturbed(s, r)
<1>1. CASE s.inLocked
  <2>1. r = [s EXCEPT !.inDeferred = "RecvDone"]
    BY <1>1 DEF RecvDone
  <2>2. r \in Socket
    BY <2>1 DEF Socket
  <2>3. SameSend(s, r) /\ Undisturbed(s, r) /\ r.shut = s.shut
        /\ r.recvPB = s.recvPB /\ r.recvLen = s.recvLen
        /\ r.recvResult = s.recvResult /\ r.inLocked = s.inLocked
        /\ r.inDeferred = "RecvDone"
    BY <2>1 DEF Socket, SameSend, Undisturbed
  <2>4. ReceiveSide(r)
    BY <1>1, <2>3 DEF ReceiveSide, SameSend, Undisturbed
  <2>5. QED
    BY <2>2, <2>3, <2>4
<1>2. CASE ~s.inLocked
  <2> DEFINE a == FreeReceive(s)
             c == [a EXCEPT !.inDeferred = "none"]
             d == [c EXCEPT !.inValid = @ + s.recvLen]
             x == CASE s.recvResult = "noErr" -> Recv(d, n)
                    [] s.recvResult = "timeout" -> Recv(c, n)
                    [] s.recvResult = "error" ->
                         [c EXCEPT !.fAsyncError = TRUE, !.fReadShutdown = TRUE]
                    [] s.recvResult = "closing" -> [c EXCEPT !.fReadShutdown = TRUE]
  <2>1. r = [x EXCEPT !.wake = TRUE]
    BY <1>2 DEF RecvDone
  <2>2. /\ c \in Socket /\ c.recvPB = "none" /\ c.inDeferred = "none"
        /\ SameSend(s, c) /\ c.inLocked = s.inLocked /\ c.shut = s.shut
        /\ c.inValid = s.inValid
    <3>1. /\ a \in Socket /\ a.recvPB = "none" /\ SameSend(s, a)
          /\ a.inLocked = s.inLocked /\ a.shut = s.shut /\ a.inValid = s.inValid
      BY FreeReceiveEffect
    <3> HIDE DEF a
    <3>2. QED
      BY <3>1 DEF Socket, SameSend
  <2> HIDE DEF c
  <2>3. /\ x \in Socket /\ SameSend(s, x) /\ x.inLocked = s.inLocked /\ x.shut = s.shut
        /\ \/ /\ x.recvPB = "receive" /\ x.inDeferred = "none"
              /\ x.recvLen <= Size - x.inValid
           \/ /\ x.recvPB = "none" /\ x.inDeferred = "Recv" /\ x.inValid = Size
           \/ /\ x.recvPB = "none" /\ x.inDeferred = "none" /\ x.fReadShutdown
    <3>1. CASE s.recvResult = "noErr"
      <4>1. c.inValid + s.recvLen \in 0 .. Size
        BY <2>2, <3>1, SizeAssumption DEF Socket
      <4>2. /\ d \in Socket /\ d.recvPB = "none" /\ SameSend(s, d)
            /\ d.inLocked = s.inLocked /\ d.shut = s.shut
        BY <2>2, <4>1 DEF Socket, SameSend
      <4>3. x = Recv(d, n)
        BY <3>1
      <4> HIDE DEF d, x
      <4>4. QED
        BY <4>2, <4>3, RecvEffect DEF SameSend, Undisturbed
    <3>2. CASE s.recvResult = "timeout"
      <4>1. x = Recv(c, n)
        BY <3>2
      <4> HIDE DEF x
      <4>2. QED
        BY <2>2, <4>1, RecvEffect DEF SameSend, Undisturbed
    <3>3. CASE s.recvResult = "error"
      <4>1. x = [c EXCEPT !.fAsyncError = TRUE, !.fReadShutdown = TRUE]
        BY <3>3
      <4> HIDE DEF x
      <4>2. x \in Socket
        BY <2>2, <4>1 DEF Socket
      <4>3. QED
        BY <2>2, <4>1, <4>2 DEF Socket, SameSend
    <3>4. CASE s.recvResult = "closing"
      <4>1. x = [c EXCEPT !.fReadShutdown = TRUE]
        BY <3>4
      <4> HIDE DEF x
      <4>2. x \in Socket
        BY <2>2, <4>1 DEF Socket
      <4>3. QED
        BY <2>2, <4>1, <4>2 DEF Socket, SameSend
    <3>5. QED
      BY <3>1, <3>2, <3>3, <3>4 DEF Socket
  <2> HIDE DEF x
  <2>4. r \in Socket /\ r.wake /\ SameReceive(x, r) /\ SameSend(x, r) /\ r.shut = x.shut
    BY <2>1, <2>3, WakeSame
  <2>5. ReceiveSide(r)
    BY <2>3, <2>4 DEF ReceiveSide, SameReceive, SameSend
  <2>6. SameSend(s, r) /\ r.inLocked = s.inLocked /\ r.shut = s.shut
    BY <2>3, <2>4 DEF SameReceive, SameSend
  <2>7. QED
    BY <2>4, <2>5, <2>6
<1>3. QED
  BY <1>1, <1>2

LEMMA ConnectDoneEffect ==
  ASSUME NEW s \in Socket, NEW n \in 1 .. Half, NEW failed \in BOOLEAN,
         NEW r, r = ConnectDone(s, n, failed),
         SendSide(s), ReceiveSide(s), s.sendPB = "open", failed \/ s.recvPB = "none"
  PROVE  /\ r \in Socket /\ SendSide(r) /\ ReceiveSide(r) /\ r.wake
         /\ r.fState \in {"Connected", "Closing", "Unconnected"}
         /\ r.inLocked = s.inLocked /\ r.outLocked = s.outLocked /\ r.shut = s.shut
         /\ r.fState # "Unconnected" /\ r.outDeferred = "Send" => ~r.fWriteShutdown
<1> DEFINE c == [s EXCEPT !.sendPB = "none", !.wake = TRUE]
<1>1. /\ c \in Socket /\ c.sendPB = "none" /\ c.wake /\ SameReceive(s, c)
      /\ c.outLocked = s.outLocked /\ c.shut = s.shut /\ c.clobbered = s.clobbered
      /\ c.outDeferred = s.outDeferred /\ c.outValid = s.outValid
      /\ c.fWriteShutdown = s.fWriteShutdown
  BY DEF Socket, SameReceive
<1>2. /\ s.fState = "Connecting" /\ s.outDeferred \in {"none", "Send"} /\ ~s.clobbered
      /\ s.outDeferred = "Send" =>
           s.fWriteShutdown /\ (s.outLocked \/ s.outValid = 0)
  BY DEF SendSide, Socket
<1>3. CASE failed
  <2>1. r = [c EXCEPT !.fAsyncError = TRUE, !.fState = "Unconnected"]
    BY <1>3 DEF ConnectDone
  <2> HIDE DEF c
  <2>2. r \in Socket
    <3> DEFINE a == [c EXCEPT !.fAsyncError = TRUE]
    <3>1. a \in Socket
      BY <1>1 DEF Socket
    <3>2. r = [a EXCEPT !.fState = "Unconnected"]
      BY <2>1
    <3> HIDE DEF a
    <3>3. QED
      BY <3>1, <3>2 DEF Socket
  <2>3. /\ SameReceive(c, r) /\ r.sendPB = "none" /\ r.fState = "Unconnected"
        /\ r.outLocked = c.outLocked /\ r.shut = c.shut /\ ~r.clobbered
        /\ r.outDeferred = c.outDeferred /\ r.wake /\ r.outValid = c.outValid
        /\ r.fWriteShutdown = c.fWriteShutdown
    BY <1>1, <1>2, <2>1 DEF Socket, SameReceive
  <2>4. SendSide(r)
    BY <1>1, <1>2, <2>3 DEF SendSide
  <2>6. ReceiveSide(r)
    BY <1>1, <2>3 DEF ReceiveSide, SameReceive
  <2>5. QED
    BY <1>1, <2>2, <2>3, <2>4, <2>6 DEF SameReceive
<1>4. CASE ~failed
  <2> DEFINE d == [c EXCEPT !.fState = "Connected"]
             x == Send(d, n)
  <2>1. r = Recv(x, n)
    BY <1>4 DEF ConnectDone
  <2> HIDE DEF c
  <2>2. /\ d \in Socket /\ d.sendPB = "none" /\ d.wake /\ SameReceive(c, d)
        /\ d.outLocked = c.outLocked /\ d.shut = c.shut /\ ~d.clobbered
        /\ d.fState = "Connected"
    BY <1>1, <1>2 DEF Socket, SameReceive
  <2> HIDE DEF d
  <2>3. /\ x \in Socket /\ ~x.clobbered /\ SameReceive(d, x) /\ Undisturbed(d, x)
        /\ x.outLocked = d.outLocked /\ x.shut = d.shut /\ x.wake = d.wake
        /\ \/ /\ x.sendPB = "send" /\ x.outDeferred = "none"
              /\ x.sendLen <= d.outValid /\ x.fState = d.fState
           \/ /\ x.sendPB = "none" /\ x.outDeferred = "Send"
              /\ d.outValid = 0 /\ ~d.fWriteShutdown /\ x.fState = d.fState
           \/ /\ x.sendPB = "close" /\ x.outDeferred = "none"
              /\ x.fState = "Closing"
    <3>0. /\ x = Send(d, n) /\ d \in Socket /\ d.sendPB = "none"
          /\ d.fState \in {"Connected", "Unconnected"}
      BY <2>2
    <3> HIDE DEF x
    <3>1. /\ x \in Socket /\ x.clobbered = d.clobbered /\ SameReceive(d, x)
          /\ Undisturbed(d, x)
          /\ x.outLocked = d.outLocked /\ x.shut = d.shut /\ x.wake = d.wake
          /\ \/ /\ x.sendPB = "send" /\ x.outDeferred = "none"
                /\ x.sendLen <= d.outValid /\ x.fState = d.fState
             \/ /\ x.sendPB = "none" /\ x.outDeferred = "Send"
                /\ d.outValid = 0 /\ ~d.fWriteShutdown /\ x.fState = d.fState
             \/ /\ x.sendPB = "close" /\ x.outDeferred = "none"
                /\ x.fState = "Closing"
             \/ /\ x.sendPB = "none" /\ x.outDeferred = "none"
                /\ x.fState = "Unconnected"
      BY <3>0, SendEffect
    <3>2. x.fState # "Unconnected"
      BY <2>2, <3>1 DEF Undisturbed
    <3>3. QED
      BY <2>2, <3>1, <3>2
  <2> HIDE DEF x
  <2>4. x.recvPB = "none"
    BY <1>1, <1>4, <2>2, <2>3 DEF SameReceive
  <2>5. /\ r \in Socket /\ SameSend(x, r) /\ Undisturbed(x, r)
        /\ r.inLocked = x.inLocked /\ r.shut = x.shut /\ r.wake = x.wake
        /\ \/ /\ r.recvPB = "receive" /\ r.inDeferred = "none"
              /\ r.recvLen <= Size - x.inValid
           \/ /\ r.recvPB = "none" /\ r.inDeferred = "Recv" /\ x.inValid = Size
    BY <2>1, <2>3, <2>4, RecvEffect
  <2>6. SendSide(r)
    BY <2>2, <2>3, <2>5 DEF SendSide, SameSend, Undisturbed
  <2>7. ReceiveSide(r) /\ r.fState \in {"Connected", "Closing", "Unconnected"}
    BY <2>2, <2>3, <2>5 DEF ReceiveSide, SameSend, Undisturbed
  <2>8. r.inLocked = s.inLocked /\ r.outLocked = s.outLocked /\ r.shut = s.shut
    BY <1>1, <2>2, <2>3, <2>5 DEF SameReceive, SameSend
  <2>9. r.outDeferred = "Send" => ~r.fWriteShutdown
    BY <2>3, <2>5 DEF SameSend, Undisturbed
  <2>10. QED
    BY <2>2, <2>3, <2>5, <2>6, <2>7, <2>8, <2>9
<1>5. QED
  BY <1>3, <1>4

\* The open has come to its end while a receive of the last connection is
\* still there.
LEMMA ConnectDoneReuses ==
  ASSUME NEW s \in Socket, NEW n \in 1 .. Half, NEW r,
         r = ConnectDone(s, n, FALSE), s.recvPB # "none"
  PROVE  r \in Socket /\ r.clobbered /\ r.leftover = s.leftover /\ r.wake
         /\ r.shut = s.shut
<1> DEFINE c == [s EXCEPT !.sendPB = "none", !.wake = TRUE]
           d == [c EXCEPT !.fState = "Connected"]
           x == Send(d, n)
<1>1. r = Recv(x, n)
  BY DEF ConnectDone
<1>2. c \in Socket /\ c.sendPB = "none" /\ c.wake /\ SameReceive(s, c) /\ c.shut = s.shut
  BY DEF Socket, SameReceive
<1> HIDE DEF c
<1>3. /\ d \in Socket /\ d.sendPB = "none" /\ d.wake /\ SameReceive(c, d)
      /\ d.fState = "Connected" /\ d.shut = c.shut
  BY <1>2 DEF Socket, SameReceive
<1> HIDE DEF d
<1>4. x \in Socket /\ SameReceive(d, x) /\ x.wake = d.wake /\ x.shut = d.shut
  BY <1>3, SendEffect
<1> HIDE DEF x
<1>5. x.recvPB # "none" /\ x.leftover = s.leftover /\ x.wake /\ x.shut = s.shut
  BY <1>2, <1>3, <1>4 DEF SameReceive
<1>6. QED
  BY <1>1, <1>4, <1>5, RecvReuses

LEMMA ReleaseOutputEffect ==
  ASSUME NEW s \in Socket, NEW n \in 1 .. Half, NEW r, r = ReleaseOutput(s, n),
         SendSide(s),
         s.fState = "Connecting" /\ s.outDeferred = "Send" => s.outValid = 0
  PROVE  /\ r \in Socket /\ SendSide(r) /\ SameReceive(s, r) /\ ClosedOrSame(s, r)
         /\ ~r.outLocked /\ r.shut = s.shut
         /\ r.outDeferred = "Send" => ~r.fWriteShutdown
         /\ r.wake \/ Undisturbed(s, r)
<1> DEFINE c == [s EXCEPT !.outLocked = FALSE]
<1>1. /\ c \in Socket /\ SameReceive(s, c) /\ Undisturbed(s, c) /\ c.shut = s.shut
      /\ c.fState = s.fState /\ c.sendPB = s.sendPB /\ c.sendLen = s.sendLen
      /\ c.outDeferred = s.outDeferred /\ c.clobbered = s.clobbered
      /\ ~c.outLocked
  BY DEF Socket, SameReceive, Undisturbed
<1>2. CASE s.outDeferred = "none"
  <2>1. r = c
    BY <1>2 DEF ReleaseOutput
  <2> HIDE DEF c
  <2>2. SendSide(c)
    BY <1>1, <1>2 DEF SendSide, Undisturbed, SameReceive
  <2>3. QED
    BY <1>1, <1>2, <2>1, <2>2 DEF ClosedOrSame
<1>6. CASE s.outDeferred = "Send" /\ s.fState = "Connecting"
  <2>1. r = Send(c, n)
    BY <1>6 DEF ReleaseOutput
  <2> HIDE DEF c
  <2>2. /\ c.outValid = 0 /\ c.fWriteShutdown /\ ~c.clobbered /\ c.sendPB = "open"
        /\ c.fState = "Connecting"
    BY <1>1, <1>6 DEF SendSide, Undisturbed
  <2>3. r = [c EXCEPT !.outDeferred = "none"]
    BY <2>1, <2>2 DEF Send
  <2>4. r \in Socket
    BY <1>1, <2>3 DEF Socket
  <2>5. /\ SameReceive(c, r) /\ Undisturbed(c, r) /\ r.shut = c.shut
        /\ r.fState = c.fState /\ r.sendPB = c.sendPB /\ r.outDeferred = "none"
        /\ r.clobbered = c.clobbered /\ r.outLocked = c.outLocked
    BY <1>1, <2>3 DEF Socket, SameReceive, Undisturbed
  <2>6. SendSide(r)
    BY <2>2, <2>5 DEF SendSide
  <2>7. SameReceive(s, r) /\ Undisturbed(s, r) /\ ClosedOrSame(s, r)
    BY <1>1, <2>5 DEF SameReceive, Undisturbed, ClosedOrSame
  <2>8. ~r.outLocked /\ r.shut = s.shut /\ r.outDeferred # "Send"
    BY <1>1, <2>5
  <2>9. QED
    BY <2>4, <2>6, <2>7, <2>8
<1>3. CASE s.outDeferred = "Send" /\ s.fState # "Connecting"
  <2>1. r = Send(c, n)
    BY <1>3 DEF ReleaseOutput
  <2> HIDE DEF c
  <2>2. c.sendPB = "none" /\ c.fState \in {"Connected", "Unconnected"} /\ ~c.clobbered
    BY <1>1, <1>3 DEF SendSide, Socket
  <2>3. /\ r \in Socket /\ ~r.clobbered /\ SameReceive(c, r) /\ Undisturbed(c, r)
        /\ r.outLocked = c.outLocked /\ r.shut = c.shut
        /\ \/ /\ r.sendPB = "send" /\ r.outDeferred = "none"
              /\ r.sendLen <= c.outValid /\ r.fState = c.fState
           \/ /\ r.sendPB = "none" /\ r.outDeferred = "Send"
              /\ c.outValid = 0 /\ ~c.fWriteShutdown /\ r.fState = c.fState
           \/ /\ r.sendPB = "close" /\ r.outDeferred = "none"
              /\ r.fState = "Closing"
           \/ /\ r.sendPB = "none" /\ r.outDeferred = "none"
              /\ r.fState = "Unconnected"
    BY <1>1, <2>1, <2>2, SendEffect
  <2>4. SendSide(r)
    <3>1. c.fState # "Connected" => c.fWriteShutdown
      BY <1>1, <1>3 DEF SendSide, Undisturbed
    <3>2. QED
      BY <2>2, <2>3, <3>1 DEF SendSide, Undisturbed
  <2>5. SameReceive(s, r) /\ Undisturbed(s, r) /\ ClosedOrSame(s, r)
    BY <1>1, <2>3 DEF SameReceive, Undisturbed, ClosedOrSame
  <2>6. r.outDeferred = "Send" => ~r.fWriteShutdown
    BY <2>3 DEF Undisturbed
  <2>7. QED
    BY <1>1, <2>3, <2>4, <2>5, <2>6
<1>4. CASE s.outDeferred = "SendDone"
  <2>1. r = SendDone(c, n)
    BY <1>4 DEF ReleaseOutput
  <2> HIDE DEF c
  <2>2. /\ c.sendPB = "sent" /\ ~c.clobbered /\ c.sendLen <= c.outValid
        /\ c.fState \in {"Connected", "Unconnected"}
        /\ c.fState = "Unconnected" => c.fWriteShutdown
    BY <1>1, <1>4 DEF SendSide, Socket, Undisturbed
  <2>3. /\ r \in Socket /\ SendSide(r) /\ SameReceive(c, r) /\ ClosedOrSame(c, r)
        /\ r.outLocked = c.outLocked /\ r.shut = c.shut
        /\ r.outDeferred = "Send" => ~r.fWriteShutdown
        /\ r.wake \/ Undisturbed(c, r)
    BY <1>1, <1>4, <2>1, <2>2, SendDoneEffect
  <2>4. SameReceive(s, r) /\ ClosedOrSame(s, r) /\ (r.wake \/ Undisturbed(s, r))
    BY <1>1, <2>3 DEF SameReceive, Undisturbed, ClosedOrSame
  <2>5. QED
    BY <1>1, <2>3, <2>4
<1>5. QED
  BY <1>2, <1>3, <1>4, <1>6 DEF Socket

\* What the last connection left deferred starts a send while the next one is
\* being opened.
LEMMA ReleaseOutputReuses ==
  ASSUME NEW s \in Socket, NEW n \in 1 .. Half, NEW r, r = ReleaseOutput(s, n),
         SendSide(s), s.fState = "Connecting", s.outDeferred = "Send", s.outValid # 0
  PROVE  /\ r \in Socket /\ r.clobbered /\ r.leftover /\ Undisturbed(s, r)
         /\ r.shut = s.shut
<1> DEFINE c == [s EXCEPT !.outLocked = FALSE, !.outDeferred = "none"]
<1>1. /\ c \in Socket /\ Undisturbed(s, c) /\ c.shut = s.shut
      /\ c.sendPB = s.sendPB /\ c.leftover = s.leftover
  BY DEF Socket, Undisturbed
<1>2. PICK m \in 0 .. Size : m = Smaller(n, s.outValid)
  BY HalfFits, SizeAssumption DEF Socket, Smaller
<1>3. s.outValid > 0
  BY SizeAssumption DEF Socket
<1>4. r = CallSend(c, "send", m)
  BY <1>2, <1>3 DEF ReleaseOutput, Send
<1> HIDE DEF c
<1>5. s.sendPB = "open" /\ s.leftover
  BY DEF SendSide
<1>6. /\ r \in Socket /\ r.clobbered /\ r.leftover = c.leftover
      /\ Undisturbed(c, r) /\ r.shut = c.shut
  BY <1>1, <1>4, <1>5, CallSendReuses
<1>7. s.fState # "Connected"
  OBVIOUS
<1>8. QED
  BY <1>1, <1>5, <1>6, <1>7 DEF Undisturbed

LEMMA ReleaseInputEffect ==
  ASSUME NEW s \in Socket, NEW n \in 1 .. Half, NEW r, r = ReleaseInput(s, n),
         ReceiveSide(s)
  PROVE  /\ r \in Socket /\ ReceiveSide(r) /\ SameSend(s, r)
         /\ ~r.inLocked /\ r.shut = s.shut
         /\ r.wake \/ Undisturbed(s, r)
<1> DEFINE c == [s EXCEPT !.inLocked = FALSE]
<1>1. /\ c \in Socket /\ SameSend(s, c) /\ Undisturbed(s, c) /\ c.shut = s.shut
      /\ c.recvPB = s.recvPB /\ c.recvLen = s.recvLen /\ c.recvResult = s.recvResult
      /\ c.inDeferred = s.inDeferred /\ ~c.inLocked
  BY DEF Socket, SameSend, Undisturbed
<1>2. CASE s.inDeferred = "none"
  <2>1. r = c
    BY <1>2 DEF ReleaseInput
  <2> HIDE DEF c
  <2>2. ReceiveSide(c)
    BY <1>1, <1>2 DEF ReceiveSide, Undisturbed, SameSend
  <2>3. QED
    BY <1>1, <2>1, <2>2
<1>3. CASE s.inDeferred = "Recv"
  <2>1. r = Recv(c, n)
    BY <1>3 DEF ReleaseInput
  <2> HIDE DEF c
  <2>2. c.recvPB = "none" /\ (c.fState \notin {"Unbound", "Connecting"} \/ c.leftover)
    BY <1>1, <1>3 DEF ReceiveSide, SameSend
  <2>3. /\ r \in Socket /\ SameSend(c, r) /\ Undisturbed(c, r)
        /\ r.inLocked = c.inLocked /\ r.shut = c.shut
        /\ \/ /\ r.recvPB = "receive" /\ r.inDeferred = "none"
              /\ r.recvLen <= Size - c.inValid
           \/ /\ r.recvPB = "none" /\ r.inDeferred = "Recv" /\ c.inValid = Size
    BY <1>1, <2>1, <2>2, RecvEffect
  <2>4. ReceiveSide(r)
    BY <2>2, <2>3 DEF ReceiveSide, SameSend, Undisturbed
  <2>5. SameSend(s, r) /\ Undisturbed(s, r)
    BY <1>1, <2>3 DEF SameSend, Undisturbed
  <2>6. QED
    BY <1>1, <2>3, <2>4, <2>5
<1>4. CASE s.inDeferred = "RecvDone"
  <2>1. r = RecvDone(c, n)
    BY <1>4 DEF ReleaseInput
  <2> HIDE DEF c
  <2>2. /\ c.recvPB = "received"
        /\ c.fState \notin {"Unbound", "Connecting"} \/ c.leftover
        /\ c.recvResult = "noErr" => c.recvLen <= Size - c.inValid
    BY <1>1, <1>4 DEF ReceiveSide, SameSend, Undisturbed
  <2>3. /\ r \in Socket /\ ReceiveSide(r) /\ SameSend(c, r)
        /\ r.inLocked = c.inLocked /\ r.shut = c.shut
        /\ r.wake \/ Undisturbed(c, r)
    BY <1>1, <1>4, <2>1, <2>2, RecvDoneEffect
  <2>4. SameSend(s, r) /\ (r.wake \/ Undisturbed(s, r))
    BY <1>1, <2>3 DEF SameSend, Undisturbed
  <2>5. QED
    BY <1>1, <2>3, <2>4
<1>5. QED
  BY <1>2, <1>3, <1>4 DEF Socket

-----------------------------------------------------------------------------
(***************************************************************************)
(* The steps.                                                              *)
(***************************************************************************)
\* The socket a step leaves, and the threads it wakes.
LEMMA BecomesEffect ==
  ASSUME NEW s \in Socket, Becomes(s), fWakeup \subseteq Threads
  PROVE  /\ sock' \in Socket /\ ~sock'.wake
         /\ SameSend(s, sock') /\ SameReceive(s, sock') /\ sock'.shut = s.shut
         /\ fWakeup' \subseteq Threads /\ fWakeup \subseteq fWakeup'
         /\ s.wake => \A t \in Threads : pc[t] = "wait" => t \in fWakeup'
<1>1. sock' = [s EXCEPT !.wake = FALSE]
  BY DEF Becomes
<1>2. /\ sock' \in Socket /\ ~sock'.wake
      /\ SameSend(s, sock') /\ SameReceive(s, sock') /\ sock'.shut = s.shut
  BY <1>1 DEF Socket, SameSend, SameReceive
<1>3. /\ fWakeup' \subseteq Threads /\ fWakeup \subseteq fWakeup'
      /\ s.wake => \A t \in Threads : pc[t] = "wait" => t \in fWakeup'
  BY DEF Becomes, fContexts
<1>4. QED
  BY <1>2, <1>3

LEMMA SidesSame ==
  ASSUME NEW s, NEW r, SameSend(s, r), SameReceive(s, r)
  PROVE  /\ SendSide(s) <=> SendSide(r)
         /\ ReceiveSide(s) <=> ReceiveSide(r)
         /\ Undisturbed(s, r)
<1>1. SendSide(s) <=> SendSide(r)
  BY DEF SameSend, SendSide
<1>2. ReceiveSide(s) <=> ReceiveSide(r)
  BY DEF SameSend, SameReceive, ReceiveSide
<1>3. Undisturbed(s, r)
  BY DEF SameSend, SameReceive, Undisturbed
<1>4. QED
  BY <1>1, <1>2, <1>3

\* Two sockets between which nobody's reason to sleep goes away.
LEMMA StillWaits ==
  ASSUME Undisturbed(sock, sock'), sock'.shut = sock.shut
  PROVE  (MustRead => MustRead') /\ (MustWrite => MustWrite')
BY DEF Undisturbed, MustRead, MustWrite, Online

\* An interrupt, or a call that is over at once.
LEMMA InterruptKeeps ==
  ASSUME InOrder, NEW s \in Socket, Becomes(s), UNCHANGED <<pc, running, rest>>,
         link' \in {"none", "up", "peerClosed", "gone"},
         link' = "none" <=> s.fState \in {"Unbound", "Connecting"},
         SendSide(s), ReceiveSide(s), ShutdownSends(s),
         s.inLocked = sock.inLocked, s.outLocked = sock.outLocked,
         s.shut = sock.shut,
         \/ s.wake \/ Undisturbed(sock, s)
         \/ sock.fState \in {"Unbound", "Unconnected"}
  PROVE  InOrder'
<1>1. fWakeup \subseteq Threads
  BY DEF InOrder, TypeOK
<1>2. /\ sock' \in Socket /\ ~sock'.wake
      /\ SameSend(s, sock') /\ SameReceive(s, sock') /\ sock'.shut = s.shut
      /\ fWakeup' \subseteq Threads /\ fWakeup \subseteq fWakeup'
      /\ s.wake => \A t \in Threads : pc[t] = "wait" => t \in fWakeup'
  BY <1>1, BecomesEffect
<1>3. TypeOK'
  BY <1>2 DEF InOrder, TypeOK
<1>4. Chains(sock)'
  <2>1. SendSide(sock') /\ ReceiveSide(sock')
    BY <1>2, SidesSame
  <2>2. ShutdownSends(sock)'
    BY <1>2 DEF ShutdownSends, SendsLater, SameSend
  <2>3. QED
    BY <2>1, <2>2 DEF Chains, SendSide, ReceiveSide
<1>5. Linked' /\ OneRuns' /\ LocksHeld'
  BY <1>2 DEF InOrder, Linked, OneRuns, LocksHeld, SameSend, SameReceive
<1>6. SleeperWaits'
  <2>1. CASE s.wake
    BY <1>2, <2>1 DEF SleeperWaits, Threads
  <2>2. CASE Undisturbed(sock, s)
    <3>1. Undisturbed(sock, sock')
      BY <1>2, <2>2 DEF Undisturbed, SameSend, SameReceive
    <3>2. (MustRead => MustRead') /\ (MustWrite => MustWrite')
      BY <1>2, <3>1, StillWaits
    <3>3. QED
      BY <1>2, <3>2 DEF InOrder, SleeperWaits
  <2>3. CASE sock.fState \in {"Unbound", "Unconnected"}
    BY <1>2, <2>3 DEF InOrder, SleeperWaits, MustRead, MustWrite, Online
  <2>4. QED
    BY <2>1, <2>2, <2>3
<1>7. QED
  BY <1>3, <1>4, <1>5, <1>6 DEF InOrder

\* A block that is used twice: the state after the step is the last.
LEMMA ReuseEnds ==
  ASSUME InOrder, NEW s \in Socket, Becomes(s), s.clobbered, s.leftover,
         link' \in {"none", "up", "peerClosed", "gone"},
         pc' \in [Threads -> Places], running' \in Threads \cup {Nobody},
         rest' \in 0 .. MaxWrite,
         pc'["reader"] = "wait" => pc["reader"] = "wait",
         pc'["writer"] = "wait" => pc["writer"] = "wait",
         s.shut = sock.shut,
         \/ s.wake \/ Undisturbed(sock, s)
         \/ sock.fState \in {"Unbound", "Unconnected"}
  PROVE  IInv'
<1>1. /\ sock' = [s EXCEPT !.wake = FALSE] /\ fWakeup \subseteq Threads
  BY DEF InOrder, TypeOK, Becomes
<1>2. /\ sock' \in Socket /\ ~sock'.wake
      /\ SameSend(s, sock') /\ SameReceive(s, sock') /\ sock'.shut = s.shut
      /\ fWakeup' \subseteq Threads /\ fWakeup \subseteq fWakeup'
      /\ s.wake => \A t \in Threads : pc[t] = "wait" => t \in fWakeup'
  BY <1>1, BecomesEffect
<1>3. TypeOK'
  BY <1>2 DEF TypeOK, Places, InCall, Destroying
<1>4. sock'.clobbered /\ sock'.leftover
  BY <1>2 DEF SameSend
<1>5. SleeperWaits'
  <2>1. CASE s.wake
    BY <1>2, <2>1 DEF SleeperWaits, Threads
  <2>2. CASE Undisturbed(sock, s)
    <3>1. Undisturbed(sock, sock')
      BY <1>2, <2>2 DEF Undisturbed, SameSend, SameReceive
    <3>2. (MustRead => MustRead') /\ (MustWrite => MustWrite')
      BY <1>2, <3>1, StillWaits
    <3>3. QED
      BY <1>2, <3>2 DEF InOrder, SleeperWaits
  <2>3. CASE sock.fState \in {"Unbound", "Unconnected"}
    BY <1>2, <2>3 DEF InOrder, SleeperWaits, MustRead, MustWrite, Online
  <2>4. QED
    BY <2>1, <2>2, <2>3
<1>6. QED
  BY <1>3, <1>4, <1>5 DEF IInv, BlockReused

LEMMA OpenCompletesKeeps ==
  ASSUME InOrder, NEW n \in 1 .. Half, NEW failed \in BOOLEAN, OpenCompletes(n, failed)
  PROVE  IInv'
<1>1. PICK r : r = ConnectDone(sock, n, failed)
  OBVIOUS
<1>2. /\ sock \in Socket /\ SendSide(sock) /\ ReceiveSide(sock) /\ sock.sendPB = "open"
      /\ sock.fState = "Connecting"
  BY DEF InOrder, TypeOK, Chains, OpenCompletes, SendSide
<1>3. Becomes(r) /\ UNCHANGED <<pc, running, rest>> /\ link' \in {"gone", "up"}
  BY <1>1 DEF OpenCompletes
<1>4. CASE failed \/ sock.recvPB = "none"
  <2>1. /\ r \in Socket /\ SendSide(r) /\ ReceiveSide(r) /\ r.wake
        /\ r.fState \in {"Connected", "Closing", "Unconnected"}
        /\ r.inLocked = sock.inLocked /\ r.outLocked = sock.outLocked
        /\ r.shut = sock.shut
        /\ r.fState # "Unconnected" /\ r.outDeferred = "Send" => ~r.fWriteShutdown
    BY <1>1, <1>2, <1>4, ConnectDoneEffect
  <2>2. ShutdownSends(r)
    BY <2>1 DEF ShutdownSends, SendsLater
  <2>3. InOrder'
    BY <1>3, <2>1, <2>2, InterruptKeeps
  <2>4. QED
    BY <2>3 DEF IInv
<1>5. CASE ~failed /\ sock.recvPB # "none"
  <2>1. r = ConnectDone(sock, n, FALSE)
    BY <1>1, <1>5
  <2>2. r \in Socket /\ r.clobbered /\ r.leftover = sock.leftover /\ r.wake
        /\ r.shut = sock.shut
    BY <1>2, <1>5, <2>1, ConnectDoneReuses
  <2>3. sock.leftover
    BY <1>2, <1>5 DEF ReceiveSide
  <2>4. /\ pc' = pc /\ pc \in [Threads -> Places] /\ running' \in Threads \cup {Nobody}
        /\ rest' \in 0 .. MaxWrite
    BY <1>3 DEF InOrder, TypeOK, Places, InCall, Destroying
  <2>5. QED
    BY <1>3, <2>2, <2>3, <2>4, ReuseEnds
<1>6. QED
  BY <1>4, <1>5

LEMMA SendCompletesKeeps ==
  ASSUME InOrder, NEW n \in 1 .. Half, NEW failed \in BOOLEAN, SendCompletes(n, failed)
  PROVE  InOrder'
<1>1. PICK s : s = [sock EXCEPT !.sendPB = "sent", !.sendError = failed]
  OBVIOUS
<1>2. sock \in Socket /\ Chains(sock) /\ sock.sendPB = "send"
  BY DEF InOrder, TypeOK, SendCompletes
<1>3. s \in Socket
  BY <1>1, <1>2 DEF Socket
<1>4. /\ s.sendPB = "sent" /\ s.fState = sock.fState /\ s.clobbered = sock.clobbered
      /\ s.outDeferred = sock.outDeferred /\ s.sendLen = sock.sendLen
      /\ s.outLocked = sock.outLocked /\ s.shut = sock.shut
      /\ SameReceive(sock, s) /\ Undisturbed(sock, s)
  BY <1>1, <1>2 DEF Socket, SameReceive, Undisturbed
<1>5. /\ s.outDeferred = "none" /\ ~s.clobbered /\ s.sendLen <= s.outValid
      /\ s.fState \in {"Connected", "Unconnected"}
      /\ s.fState = "Unconnected" => s.fWriteShutdown
  BY <1>2, <1>4 DEF Chains, SendSide, Socket, Undisturbed
<1>6. PICK r : r = SendDone(s, n)
  OBVIOUS
<1>7. /\ r \in Socket /\ SendSide(r) /\ SameReceive(s, r) /\ ClosedOrSame(s, r)
      /\ r.outLocked = s.outLocked /\ r.shut = s.shut
      /\ r.outDeferred = "Send" => ~r.fWriteShutdown
      /\ r.wake \/ Undisturbed(s, r)
  BY <1>3, <1>4, <1>5, <1>6, SendDoneEffect
<1>8. ReceiveSide(r) /\ r.fState \notin {"Unbound", "Connecting"}
  BY <1>2, <1>4, <1>5, <1>7
  DEF Chains, ReceiveSide, SameReceive, ClosedOrSame
<1>9. ShutdownSends(r)
  BY <1>7, <1>8 DEF ShutdownSends, SendsLater
<1>10. Becomes(r) /\ UNCHANGED <<link, pc, running, rest>>
  BY <1>1, <1>6 DEF SendCompletes
<1>11. link' \in {"none", "up", "peerClosed", "gone"} /\ link' # "none"
  BY <1>4, <1>5, <1>10 DEF InOrder, TypeOK, Linked
<1>12. /\ r.inLocked = sock.inLocked /\ r.outLocked = sock.outLocked
       /\ r.shut = sock.shut /\ (r.wake \/ Undisturbed(sock, r))
  BY <1>4, <1>7 DEF SameReceive, Undisturbed
<1>13. QED
  BY <1>7, <1>8, <1>9, <1>10, <1>11, <1>12, InterruptKeeps

LEMMA ReceiveCompletesKeeps ==
  ASSUME InOrder, NEW n \in 1 .. Half, NEW len \in 0 .. Size,
         NEW result \in {"noErr", "timeout", "error", "closing"},
         ReceiveCompletes(n, len, result)
  PROVE  InOrder'
<1>1. PICK s : s = [sock EXCEPT !.recvPB = "received", !.recvLen = len,
                                !.recvResult = result]
  OBVIOUS
<1>2. /\ sock \in Socket /\ Chains(sock) /\ sock.recvPB = "receive"
      /\ result = "noErr" => len <= sock.recvLen
  BY DEF InOrder, TypeOK, ReceiveCompletes
<1>3. s \in Socket
  BY <1>1, <1>2 DEF Socket
<1>4. /\ s.recvPB = "received" /\ s.recvLen = len /\ s.recvResult = result
      /\ s.inDeferred = sock.inDeferred
      /\ s.inLocked = sock.inLocked /\ s.shut = sock.shut
      /\ SameSend(sock, s) /\ Undisturbed(sock, s)
  BY <1>1, <1>2 DEF Socket, SameSend, Undisturbed
<1>5. /\ s.inDeferred = "none"
      /\ s.fState \notin {"Unbound", "Connecting"} \/ s.leftover
  BY <1>2, <1>4 DEF Chains, ReceiveSide, Socket, SameSend
<1>6. s.recvResult = "noErr" => s.recvLen <= Size - s.inValid
  <2>1. sock.recvLen <= Size - sock.inValid
    BY <1>2 DEF Chains, ReceiveSide
  <2>2. sock.recvLen \in Nat /\ sock.inValid \in Nat
    BY <1>2, SizeAssumption DEF Socket
  <2>3. QED
    BY <1>2, <1>4, <2>1, <2>2, SizeAssumption DEF Undisturbed
<1>7. PICK r : r = RecvDone(s, n)
  OBVIOUS
<1>8. /\ r \in Socket /\ ReceiveSide(r) /\ SameSend(s, r)
      /\ r.inLocked = s.inLocked /\ r.shut = s.shut
      /\ r.wake \/ Undisturbed(s, r)
  BY <1>3, <1>4, <1>5, <1>6, <1>7, RecvDoneEffect
<1>9. SendSide(r) /\ ShutdownSends(r)
  BY <1>2, <1>4, <1>8 DEF Chains, SendSide, ShutdownSends, SendsLater, SameSend
<1>10. Becomes(r) /\ UNCHANGED <<link, pc, running, rest>>
  BY <1>1, <1>7 DEF ReceiveCompletes
<1>11. /\ link' \in {"none", "up", "peerClosed", "gone"}
       /\ link' = "none" <=> r.fState \in {"Unbound", "Connecting"}
  BY <1>4, <1>8, <1>10 DEF InOrder, TypeOK, Linked, SameSend
<1>12. /\ r.inLocked = sock.inLocked /\ r.outLocked = sock.outLocked
       /\ r.shut = sock.shut /\ (r.wake \/ Undisturbed(sock, r))
  BY <1>4, <1>8 DEF SameSend, Undisturbed
<1>13. QED
  BY <1>8, <1>9, <1>10, <1>11, <1>12, InterruptKeeps

LEMMA CloseCompletesKeeps ==
  ASSUME InOrder, CloseCompletes
  PROVE  InOrder'
<1>1. PICK s : s = [sock EXCEPT !.sendPB = "none"]
  OBVIOUS
<1>2. sock \in Socket /\ Chains(sock) /\ sock.sendPB = "close"
  BY DEF InOrder, TypeOK, CloseCompletes
<1>3. s \in Socket
  BY <1>1, <1>2 DEF Socket
<1>4. /\ s.sendPB = "none" /\ s.fState = sock.fState /\ s.clobbered = sock.clobbered
      /\ s.outDeferred = sock.outDeferred /\ s.outLocked = sock.outLocked
      /\ s.shut = sock.shut /\ SameReceive(sock, s) /\ Undisturbed(sock, s)
  BY <1>1, <1>2 DEF Socket, SameReceive, Undisturbed
<1>5. SendSide(s) /\ ReceiveSide(s) /\ ShutdownSends(s)
  BY <1>2, <1>4
  DEF Chains, SendSide, ReceiveSide, ShutdownSends, SendsLater, SameReceive, Undisturbed
<1>6. Becomes(s) /\ UNCHANGED <<link, pc, running, rest>>
  BY <1>1 DEF CloseCompletes
<1>7. /\ link' \in {"none", "up", "peerClosed", "gone"}
      /\ link' = "none" <=> s.fState \in {"Unbound", "Connecting"}
  BY <1>4, <1>6 DEF InOrder, TypeOK, Linked
<1>8. s.inLocked = sock.inLocked
  BY <1>4 DEF SameReceive
<1>9. QED
  BY <1>3, <1>4, <1>5, <1>6, <1>7, <1>8, InterruptKeeps

LEMMA NotifyClosingKeeps ==
  ASSUME InOrder, NotifyClosing
  PROVE  InOrder'
<1>1. PICK s : s = [sock EXCEPT !.fReadShutdown = TRUE, !.wake = TRUE]
  OBVIOUS
<1>2. sock \in Socket /\ Chains(sock)
  BY DEF InOrder, TypeOK
<1>3. s \in Socket
  BY <1>1, <1>2 DEF Socket
<1>4. /\ SameSend(sock, s) /\ s.wake /\ s.fReadShutdown /\ s.shut = sock.shut
      /\ s.recvPB = sock.recvPB /\ s.recvLen = sock.recvLen
      /\ s.recvResult = sock.recvResult /\ s.inValid = sock.inValid
      /\ s.inLocked = sock.inLocked /\ s.inDeferred = sock.inDeferred
  BY <1>1, <1>2 DEF Socket, SameSend
<1>5. SendSide(s) /\ ReceiveSide(s) /\ ShutdownSends(s)
  BY <1>2, <1>4 DEF Chains, SendSide, ReceiveSide, ShutdownSends, SendsLater, SameSend
<1>6. Becomes(s) /\ UNCHANGED <<pc, running, rest>>
  BY <1>1 DEF NotifyClosing
<1>7. /\ link' \in {"none", "up", "peerClosed", "gone"}
      /\ link' = "none" <=> s.fState \in {"Unbound", "Connecting"}
  BY <1>4 DEF InOrder, Linked, NotifyClosing, SameSend
<1>8. s.outLocked = sock.outLocked
  BY <1>4 DEF SameSend
<1>9. QED
  BY <1>3, <1>4, <1>5, <1>6, <1>7, <1>8, InterruptKeeps

LEMMA NotifyTerminateKeeps ==
  ASSUME InOrder, NotifyTerminate
  PROVE  InOrder'
<1>1. PICK s : s = [sock EXCEPT !.fReadShutdown = TRUE, !.fWriteShutdown = TRUE,
                                !.fState = "Unconnected", !.wake = TRUE]
  OBVIOUS
<1>2. sock \in Socket /\ Chains(sock)
  BY DEF InOrder, TypeOK
<1>3. s \in Socket
  BY <1>1, <1>2 DEF Socket
<1>4. /\ s.fState = "Unconnected" /\ s.wake /\ s.shut = sock.shut
      /\ s.clobbered = sock.clobbered /\ s.sendPB = sock.sendPB
      /\ s.sendLen = sock.sendLen /\ s.outValid = sock.outValid
      /\ s.outLocked = sock.outLocked /\ s.outDeferred = sock.outDeferred
      /\ s.recvPB = sock.recvPB /\ s.recvLen = sock.recvLen
      /\ s.recvResult = sock.recvResult /\ s.inValid = sock.inValid
      /\ s.inLocked = sock.inLocked /\ s.inDeferred = sock.inDeferred
      /\ s.leftover = sock.leftover /\ s.fWriteShutdown /\ s.fReadShutdown
  BY <1>1, <1>2 DEF Socket
<1>5. sock.fState \notin {"Unbound", "Connecting"}
  BY DEF InOrder, Linked, NotifyTerminate
<1>6. SendSide(s) /\ ReceiveSide(s) /\ ShutdownSends(s)
  BY <1>2, <1>4, <1>5 DEF Chains, SendSide, ReceiveSide, ShutdownSends, SendsLater
<1>7. Becomes(s) /\ UNCHANGED <<pc, running, rest>> /\ link' = "gone"
  BY <1>1 DEF NotifyTerminate
<1>8. QED
  BY <1>3, <1>4, <1>6, <1>7, InterruptKeeps

LEMMA ConnectKeeps ==
  ASSUME InOrder, Connect
  PROVE  IInv'
<1>1. PICK c : c = CallSend(sock, "open", 0)
  OBVIOUS
<1>2. PICK s : s = [c EXCEPT !.fState = "Connecting", !.leftover = Underway]
  OBVIOUS
<1>3. /\ sock \in Socket /\ Chains(sock) /\ sock.fState \in {"Unbound", "Unconnected"}
      /\ 0 \in 0 .. Size /\ running = Nobody
  BY SizeAssumption DEF InOrder, TypeOK, Connect
<1>4. /\ Becomes(s) /\ UNCHANGED <<pc, running, rest>> /\ link' = "none"
      /\ Underway \in BOOLEAN
  BY <1>1, <1>2 DEF Connect, Underway
<1>5. CASE sock.sendPB = "none"
  <2>1. /\ c \in Socket /\ c.sendPB = "open" /\ c.clobbered = sock.clobbered
        /\ c.outDeferred = sock.outDeferred /\ SameReceive(sock, c)
        /\ Undisturbed(sock, c) /\ c.outLocked = sock.outLocked /\ c.shut = sock.shut
    BY <1>1, <1>3, <1>5, CallSendEffect
  <2>2. s \in Socket
    BY <1>2, <1>4, <2>1 DEF Socket
  <2>3. /\ s.sendPB = "open" /\ s.fState = "Connecting" /\ s.leftover = Underway
        /\ s.clobbered = sock.clobbered /\ s.outDeferred = sock.outDeferred
        /\ s.outValid = sock.outValid /\ s.fWriteShutdown = sock.fWriteShutdown
        /\ s.outLocked = sock.outLocked /\ s.shut = sock.shut
        /\ s.recvPB = sock.recvPB /\ s.recvLen = sock.recvLen
        /\ s.recvResult = sock.recvResult /\ s.inValid = sock.inValid
        /\ s.inLocked = sock.inLocked /\ s.inDeferred = sock.inDeferred
        /\ s.fReadShutdown = sock.fReadShutdown
    BY <1>2, <2>1 DEF Socket, SameReceive, Undisturbed
  <2>4. ~sock.outLocked
    BY <1>3 DEF InOrder, LocksHeld, OneRuns, Threads, Nobody
  <2>5. sock.outDeferred = "Send" => sock.fWriteShutdown /\ sock.outValid = 0
    BY <1>3, <2>4 DEF Chains, SendSide
  <2>6. SendSide(s)
    BY <1>3, <2>3, <2>4, <2>5 DEF Chains, SendSide
  <2>7. ReceiveSide(s)
    BY <1>3, <2>3 DEF Chains, ReceiveSide, Underway
  <2>8. ShutdownSends(s)
    BY <2>3 DEF ShutdownSends, SendsLater, Underway
  <2>9. InOrder'
    BY <1>3, <1>4, <2>2, <2>3, <2>6, <2>7, <2>8, InterruptKeeps
  <2>10. QED
    BY <2>9 DEF IInv
<1>6. CASE sock.sendPB # "none"
  <2>1. c \in Socket /\ c.clobbered /\ c.shut = sock.shut
    BY <1>1, <1>3, <1>6, CallSendReuses
  <2>2. s \in Socket
    BY <1>2, <1>4, <2>1 DEF Socket
  <2>3. s.clobbered /\ s.leftover /\ s.shut = sock.shut
    BY <1>2, <1>6, <2>1 DEF Socket, Underway
  <2>4. /\ pc' = pc /\ pc \in [Threads -> Places] /\ running' \in Threads \cup {Nobody}
        /\ rest' \in 0 .. MaxWrite
    BY <1>4 DEF InOrder, TypeOK, Places, InCall, Destroying
  <2>5. QED
    BY <1>3, <1>4, <2>2, <2>3, <2>4, ReuseEnds
<1>7. QED
  BY <1>5, <1>6

LEMMA GetAsyncErrorKeeps ==
  ASSUME InOrder, GetAsyncError
  PROVE  InOrder'
<1>1. PICK s : s = [sock EXCEPT !.fAsyncError = FALSE]
  OBVIOUS
<1>2. sock \in Socket /\ Chains(sock)
  BY DEF InOrder, TypeOK
<1>3. s \in Socket
  BY <1>1, <1>2 DEF Socket
<1>4. SameSend(sock, s) /\ SameReceive(sock, s) /\ s.shut = sock.shut
  BY <1>1, <1>2 DEF Socket, SameSend, SameReceive
<1>5. SendSide(s) /\ ReceiveSide(s) /\ Undisturbed(sock, s)
  BY <1>2, <1>4, SidesSame DEF Chains
<1>6. ShutdownSends(s) /\ s.inLocked = sock.inLocked /\ s.outLocked = sock.outLocked
  BY <1>2, <1>4 DEF Chains, ShutdownSends, SendsLater, SameSend, SameReceive
<1>7. Becomes(s) /\ UNCHANGED <<link, pc, running, rest>>
  BY <1>1 DEF GetAsyncError
<1>8. /\ link' \in {"none", "up", "peerClosed", "gone"}
      /\ link' = "none" <=> s.fState \in {"Unbound", "Connecting"}
  BY <1>4, <1>7 DEF InOrder, TypeOK, Linked, SameSend
<1>9. QED
  BY <1>3, <1>4, <1>5, <1>6, <1>7, <1>8, InterruptKeeps

\* A thread goes on between two Yields, or starts to run.
Moves(t, to) ==
  /\ pc' = [pc EXCEPT ![t] = to] /\ pc' \in [Threads -> Places]
  /\ running' \in Threads \cup {Nobody} /\ OneRuns'
  /\ \A u \in Threads \ {t} : pc[u] \in {"idle", "wait", "gone"}

LEMMA ContinueEffect ==
  ASSUME InOrder, NEW t \in Threads, NEW from, NEW to, Continue(t, from, to),
         from \notin {"idle", "wait", "gone"}, to \in Places,
         t # "closer" => to \in InCall,
         t = "closer" /\ to \in Destroying => from \in Destroying
  PROVE  Moves(t, to) /\ pc[t] = from
<1>1. /\ pc \in [Threads -> Places] /\ pc[t] = from /\ running = t
      /\ pc' = [pc EXCEPT ![t] = to]
      /\ running' = IF to \in {"idle", "wait", "gone"} THEN Nobody ELSE t
  BY DEF InOrder, TypeOK, Continue, Places, InCall, Destroying
<1>2. \A u \in Threads \ {t} : pc[u] \in {"idle", "wait", "gone"}
  BY <1>1 DEF InOrder, OneRuns
<1>3. pc' \in [Threads -> Places]
  BY <1>1
<1>4. running' \in Threads \cup {Nobody}
  BY <1>1
<1>5. OneRuns'
  BY <1>1, <1>2 DEF InOrder, OneRuns, Threads
<1>6. QED
  BY <1>1, <1>2, <1>3, <1>4, <1>5 DEF Moves

LEMMA EnterEffect ==
  ASSUME InOrder, NEW t \in Threads, NEW from, NEW to, Enter(t, from, to),
         to \in Places \ {"idle", "wait", "gone"}, t # "closer" => to \in InCall,
         from = "idle" \/ from = "wait",
         t # "closer" /\ from = "idle" => pc["closer"] = "idle",
         t = "closer" /\ to \in Destroying =>
           from = "wait" \/ (pc["reader"] = "idle" /\ pc["writer"] = "idle")
  PROVE  Moves(t, to) /\ pc[t] = from
<1>1. /\ pc \in [Threads -> Places] /\ pc[t] = from /\ running = Nobody
      /\ pc' = [pc EXCEPT ![t] = to] /\ running' = t
  BY DEF InOrder, TypeOK, Enter, Places, InCall, Destroying
<1>2. \A u \in Threads : pc[u] \in {"idle", "wait", "gone"}
  BY <1>1 DEF InOrder, OneRuns, Threads, Nobody
<1>3. pc' \in [Threads -> Places]
  BY <1>1
<1>4. OneRuns'
  BY <1>1, <1>2 DEF InOrder, OneRuns, Threads, Destroying
<1>5. QED
  BY <1>1, <1>2, <1>3, <1>4 DEF Moves

\* A step that leaves the socket as it is.
LEMMA QuietKeeps ==
  ASSUME InOrder, NEW t \in Threads, NEW to, Moves(t, to),
         UNCHANGED <<sock, link>>, fWakeup' \subseteq Threads,
         rest' \in 0 .. MaxWrite, SleeperWaits',
         pc[t] \notin {"locked", "moved", "flagged", "shutting", "lastFlagged",
                       "lastShutting"},
         to \notin {"locked", "moved", "shutting", "lastShutting"},
         t = "writer" => pc["writer"] # "idle" \/ ~sock.fWriteShutdown
  PROVE  InOrder'
<1>1. TypeOK'
  BY DEF InOrder, TypeOK, Moves, Places, InCall, Destroying
<1>2. Chains(sock)'
  <2>1. ShutdownSends(sock)'
    <3>1. /\ sock' = sock /\ pc \in [Threads -> Places] /\ pc' = [pc EXCEPT ![t] = to]
          /\ SendSide(sock) /\ ShutdownSends(sock)
      BY DEF InOrder, TypeOK, Chains, Moves, Places, InCall, Destroying
    <3>2. t = "writer" => ~(/\ sock.fState = "Connecting" /\ sock.outDeferred = "Send"
                            /\ ~sock.leftover)
      BY <3>1 DEF SendSide, ShutdownSends, SendsLater
    <3>3. QED
      BY <3>1, <3>2 DEF ShutdownSends, SendsLater, Threads
  <2>2. QED
    BY <2>1 DEF InOrder, Chains, SendSide, ReceiveSide
<1>3. LocksHeld'
  BY DEF InOrder, TypeOK, LocksHeld, Moves, Threads
<1>4. QED
  BY <1>1, <1>2, <1>3 DEF InOrder, Moves, Linked

LEMMA RecvfromKeeps ==
  ASSUME InOrder, Recvfrom
  PROVE  InOrder'
<1>1. Moves("reader", "test") /\ pc["reader"] = "idle"
  BY EnterEffect DEF Recvfrom, Threads, Places, InCall
<1>2. SleeperWaits'
  BY <1>1 DEF InOrder, TypeOK, SleeperWaits, MustRead, MustWrite, Online, Recvfrom,
              Moves, Threads
<1>3. QED
  BY <1>1, <1>2, QuietKeeps DEF InOrder, TypeOK, Recvfrom, Threads

LEMMA SendtoKeeps ==
  ASSUME InOrder, NEW n \in 1 .. MaxWrite, Sendto(n)
  PROVE  InOrder'
<1>1. Moves("writer", "test") /\ pc["writer"] = "idle"
  BY EnterEffect DEF Sendto, Threads, Places, InCall
<1>2. SleeperWaits'
  BY <1>1 DEF InOrder, TypeOK, SleeperWaits, MustRead, MustWrite, Online, Sendto,
              Moves, Threads
<1>3. rest' \in 0 .. MaxWrite
  BY WriteAssumption DEF Sendto
<1>4. QED
  BY <1>1, <1>2, <1>3, QuietKeeps DEF InOrder, TypeOK, Sendto, Threads

LEMMA TestFirstKeeps ==
  ASSUME InOrder, NEW t \in {"reader", "writer"}, TestFirst(t)
  PROVE  InOrder'
<1>1. PICK to \in {"loop", "ready"} : Continue(t, "test", to)
  BY DEF TestFirst
<1>2. Moves(t, to) /\ pc[t] = "test"
  BY <1>1, ContinueEffect DEF Threads, Places, InCall
<1>3. SleeperWaits'
  BY <1>2 DEF InOrder, TypeOK, SleeperWaits, MustRead, MustWrite, Online, TestFirst,
              Moves, Threads
<1>4. QED
  BY <1>2, <1>3, QuietKeeps DEF InOrder, TypeOK, TestFirst, Threads

\* A thread goes to sleep only for what it has just tested.
LEMMA TestAgainKeeps ==
  ASSUME InOrder, NEW t \in {"reader", "writer"}, TestAgain(t)
  PROVE  InOrder'
<1>1. PICK to \in {"wait", "ready"} :
        Continue(t, "loop", to) /\ (to = "wait" => Must(t))
  BY DEF TestAgain
<1>2. Moves(t, to) /\ pc[t] = "loop"
  BY <1>1, ContinueEffect DEF Threads, Places, InCall
<1>3. SleeperWaits'
  <2>1. (MustRead' <=> MustRead) /\ (MustWrite' <=> MustWrite)
    BY DEF TestAgain, MustRead, MustWrite, Online
  <2>2. QED
    BY <1>1, <1>2, <2>1 DEF InOrder, TypeOK, SleeperWaits, Must, TestAgain, Moves, Threads
<1>4. QED
  BY <1>2, <1>3, QuietKeeps DEF InOrder, TypeOK, TestAgain, Threads

LEMMA YieldReturnsKeeps ==
  ASSUME InOrder, NEW t \in Threads, YieldReturns(t)
  PROVE  InOrder'
<1>1. Moves(t, "loop") /\ pc[t] = "wait"
  BY EnterEffect DEF YieldReturns, Places, InCall
<1>2. SleeperWaits'
  BY <1>1 DEF InOrder, TypeOK, SleeperWaits, MustRead, MustWrite, Online,
              YieldReturns, Moves, Threads
<1>3. fWakeup' \subseteq Threads
  BY DEF InOrder, TypeOK, YieldReturns
<1>4. QED
  BY <1>1, <1>2, <1>3, QuietKeeps DEF InOrder, TypeOK, YieldReturns

LEMMA DestroyTestKeeps ==
  ASSUME InOrder, DestroyTest
  PROVE  InOrder'
<1>1. PICK to \in {"gone", "ready"} : Continue("closer", "loop", to)
  BY DEF DestroyTest
<1>2. Moves("closer", to) /\ pc["closer"] = "loop"
  BY <1>1, ContinueEffect DEF Threads, Places, Destroying
<1>3. SleeperWaits'
  BY <1>2 DEF InOrder, TypeOK, SleeperWaits, MustRead, MustWrite, Online,
              DestroyTest, Moves, Threads
<1>4. QED
  BY <1>2, <1>3, QuietKeeps DEF InOrder, TypeOK, DestroyTest, Threads

\* A step that changes the socket.
ReadWaits(s) ==
  \/ /\ ~s.fReadShutdown /\ s.fState \in {"Connecting", "Connected", "Closing"}
     /\ s.inValid = 0
  \/ "read" \in s.shut

WriteWaits(s) ==
  \/ /\ ~s.fWriteShutdown /\ s.fState \in {"Connecting", "Connected"}
     /\ s.outValid = Size
  \/ "write" \in s.shut

LEMMA WaitsUndisturbed ==
  ASSUME NEW s, NEW r, Undisturbed(s, r), r.shut = s.shut
  PROVE  (ReadWaits(s) => ReadWaits(r)) /\ (WriteWaits(s) => WriteWaits(r))
BY DEF Undisturbed, ReadWaits, WriteWaits

LEMMA ThreadKeeps ==
  ASSUME InOrder, NEW t \in Threads, NEW to, Moves(t, to),
         NEW s \in Socket, Becomes(s), UNCHANGED link, rest' \in 0 .. MaxWrite,
         SendSide(s), ReceiveSide(s),
         SendsLater(s, pc'),
         s.fState = sock.fState \/ (sock.fState = "Connected" /\ s.fState = "Closing"),
         s.inLocked <=> \/ pc'["reader"] \in {"locked", "moved"}
                        \/ pc'["closer"] \in {"locked", "moved"},
         s.outLocked <=> \/ pc'["writer"] \in {"locked", "moved"}
                         \/ pc'["closer"] \in {"shutting", "lastShutting"},
         pc'["reader"] = "wait" =>
           pc["reader"] = "wait" /\ (s.wake \/ (ReadWaits(sock) => ReadWaits(s))),
         pc'["writer"] = "wait" =>
           pc["writer"] = "wait" /\ (s.wake \/ (WriteWaits(sock) => WriteWaits(s)))
  PROVE  InOrder'
<1>1. fWakeup \subseteq Threads
  BY DEF InOrder, TypeOK
<1>2. /\ sock' \in Socket /\ ~sock'.wake
      /\ SameSend(s, sock') /\ SameReceive(s, sock') /\ sock'.shut = s.shut
      /\ fWakeup' \subseteq Threads /\ fWakeup \subseteq fWakeup'
      /\ s.wake => \A u \in Threads : pc[u] = "wait" => u \in fWakeup'
  BY <1>1, BecomesEffect
<1>3. TypeOK'
  BY <1>2 DEF InOrder, TypeOK, Moves, Places, InCall, Destroying
<1>4. Chains(sock)'
  <2>1. SendSide(sock') /\ ReceiveSide(sock')
    BY <1>2, SidesSame
  <2>2. ShutdownSends(sock)'
    BY <1>2 DEF ShutdownSends, SendsLater, SameSend
  <2>3. QED
    BY <2>1, <2>2 DEF Chains, SendSide, ReceiveSide
<1>5. Linked' /\ LocksHeld'
  BY <1>2 DEF InOrder, Linked, LocksHeld, SameSend, SameReceive
<1>6. SleeperWaits'
  <2>1. /\ MustRead \/ "read" \in sock.shut <=> ReadWaits(sock)
        /\ MustWrite \/ "write" \in sock.shut <=> WriteWaits(sock)
    BY DEF MustRead, MustWrite, Online, ReadWaits, WriteWaits
  <2>2. /\ (MustRead \/ "read" \in sock.shut)' <=> ReadWaits(s)
        /\ (MustWrite \/ "write" \in sock.shut)' <=> WriteWaits(s)
    BY <1>2 DEF MustRead, MustWrite, Online, ReadWaits, WriteWaits, SameSend, SameReceive
  <2>3. QED
    BY <1>2, <2>1, <2>2 DEF InOrder, SleeperWaits, Threads
<1>7. QED
  BY <1>3, <1>4, <1>5, <1>6 DEF InOrder, Moves

LEMMA ConsumeLockKeeps ==
  ASSUME InOrder, NEW t \in {"reader", "closer"}, ConsumeLock(t)
  PROVE  InOrder'
<1>1. PICK s : s = [sock EXCEPT !.inLocked = TRUE]
  OBVIOUS
<1>2. sock \in Socket /\ Chains(sock)
  BY DEF InOrder, TypeOK
<1>3. s \in Socket
  BY <1>1, <1>2 DEF Socket
<1>4. /\ SameSend(sock, s) /\ s.inLocked /\ s.shut = sock.shut /\ Undisturbed(sock, s)
      /\ s.recvPB = sock.recvPB /\ s.recvLen = sock.recvLen
      /\ s.recvResult = sock.recvResult /\ s.inDeferred = sock.inDeferred
  BY <1>1, <1>2 DEF Socket, SameSend, Undisturbed
<1>5. Moves(t, "locked") /\ pc[t] = "ready"
  BY ContinueEffect DEF ConsumeLock, Threads, Places, InCall, Destroying
<1>6. SendSide(s) /\ ReceiveSide(s)
  BY <1>2, <1>4 DEF Chains, SendSide, ReceiveSide, SameSend, Undisturbed
<1>7. SendsLater(s, pc')
  BY <1>2, <1>4, <1>5 DEF InOrder, TypeOK, Chains, ShutdownSends, SendsLater, SameSend, Moves, Threads
<1>8. /\ s.inLocked <=> \/ pc'["reader"] \in {"locked", "moved"}
                        \/ pc'["closer"] \in {"locked", "moved"}
      /\ s.outLocked <=> \/ pc'["writer"] \in {"locked", "moved"}
                         \/ pc'["closer"] \in {"shutting", "lastShutting"}
  BY <1>4, <1>5 DEF InOrder, TypeOK, LocksHeld, SameSend, Moves, Threads
<1>9. /\ pc'["reader"] = "wait" => pc["reader"] = "wait"
      /\ pc'["writer"] = "wait" => pc["writer"] = "wait"
  BY <1>5 DEF InOrder, TypeOK, Moves, Threads
<1>10. /\ Becomes(s) /\ UNCHANGED link /\ rest' \in 0 .. MaxWrite
       /\ s.fState = sock.fState /\ t \in Threads
  BY <1>1, <1>4 DEF InOrder, TypeOK, ConsumeLock, SameSend, Threads
<1>11. QED
  BY <1>3, <1>4, <1>5, <1>6, <1>7, <1>8, <1>9, <1>10, ThreadKeeps, WaitsUndisturbed

LEMMA ConsumeMoveKeeps ==
  ASSUME InOrder, NEW t \in {"reader", "closer"}, NEW n \in 0 .. Size, ConsumeMove(t, n)
  PROVE  InOrder'
<1>1. PICK s : s = [sock EXCEPT !.inValid = @ - n]
  OBVIOUS
<1>2. sock \in Socket /\ Chains(sock)
  BY DEF InOrder, TypeOK
<1>3. sock.inValid - n \in 0 .. Size /\ sock.inValid - n <= sock.inValid
  BY <1>2, SizeAssumption DEF ConsumeMove, Socket
<1>4. s \in Socket
  BY <1>1, <1>2, <1>3 DEF Socket
<1>5. /\ SameSend(sock, s) /\ s.inValid = sock.inValid - n
      /\ s.inLocked = sock.inLocked /\ s.shut = sock.shut
      /\ s.recvPB = sock.recvPB /\ s.recvLen = sock.recvLen
      /\ s.recvResult = sock.recvResult /\ s.inDeferred = sock.inDeferred
      /\ s.fReadShutdown = sock.fReadShutdown
  BY <1>1, <1>2 DEF Socket, SameSend
<1>6. Moves(t, "moved") /\ pc[t] = "locked"
  BY ContinueEffect DEF ConsumeMove, Threads, Places, InCall, Destroying
<1>7. sock.inLocked
  BY <1>6 DEF InOrder, LocksHeld
<1>8. SendSide(s)
  BY <1>2, <1>5 DEF Chains, SendSide, SameSend
<1>9. ReceiveSide(s)
  <2>1. sock.recvLen \in Nat /\ sock.inValid \in Nat
    BY <1>2, SizeAssumption DEF Socket
  <2>2. sock.recvLen <= Size - sock.inValid => s.recvLen <= Size - s.inValid
    BY <1>3, <1>5, <2>1, SizeAssumption
  <2>3. QED
    BY <1>2, <1>5, <1>7, <2>2 DEF Chains, ReceiveSide, SameSend
<1>10. SendsLater(s, pc')
  BY <1>2, <1>5, <1>6 DEF InOrder, TypeOK, Chains, ShutdownSends, SendsLater, SameSend, Moves, Threads
<1>11. /\ s.inLocked <=> \/ pc'["reader"] \in {"locked", "moved"}
                         \/ pc'["closer"] \in {"locked", "moved"}
       /\ s.outLocked <=> \/ pc'["writer"] \in {"locked", "moved"}
                          \/ pc'["closer"] \in {"shutting", "lastShutting"}
  BY <1>5, <1>6, <1>7 DEF InOrder, TypeOK, LocksHeld, SameSend, Moves, Threads
<1>12. pc'["reader"] # "wait" /\ (pc'["writer"] = "wait" => pc["writer"] = "wait")
  BY <1>6 DEF InOrder, TypeOK, OneRuns, Destroying, Moves, Threads
<1>13. WriteWaits(sock) => WriteWaits(s)
  BY <1>5 DEF WriteWaits, SameSend
<1>14. /\ Becomes(s) /\ UNCHANGED link /\ rest' \in 0 .. MaxWrite
       /\ s.fState = sock.fState /\ t \in Threads
  BY <1>1, <1>5 DEF InOrder, TypeOK, ConsumeMove, SameSend, Threads
<1>15. QED
  BY <1>4, <1>6, <1>8, <1>9, <1>10, <1>11, <1>12, <1>13, <1>14, ThreadKeeps

LEMMA ConsumeReleaseKeeps ==
  ASSUME InOrder, NEW t \in {"reader", "closer"}, NEW n \in 1 .. Half,
         ConsumeRelease(t, n)
  PROVE  InOrder'
<1>1. PICK r : r = ReleaseInput(sock, n)
  OBVIOUS
<1>2. sock \in Socket /\ Chains(sock)
  BY DEF InOrder, TypeOK
<1>3. /\ r \in Socket /\ ReceiveSide(r) /\ SameSend(sock, r)
      /\ ~r.inLocked /\ r.shut = sock.shut
      /\ r.wake \/ Undisturbed(sock, r)
  BY <1>1, <1>2, ReleaseInputEffect DEF Chains
<1>4. PICK to : /\ to = (IF t = "reader" THEN "idle" ELSE "wait")
                /\ Continue(t, "moved", to)
  BY DEF ConsumeRelease
<1>5. Moves(t, to) /\ pc[t] = "moved"
  BY <1>4, ContinueEffect DEF Threads, Places, InCall, Destroying
<1>6. SendSide(r)
  BY <1>2, <1>3 DEF Chains, SendSide, SameSend
<1>7. SendsLater(r, pc')
  BY <1>2, <1>3, <1>5 DEF InOrder, TypeOK, Chains, ShutdownSends, SendsLater, SameSend, Moves, Threads
<1>8. /\ r.inLocked <=> \/ pc'["reader"] \in {"locked", "moved"}
                        \/ pc'["closer"] \in {"locked", "moved"}
      /\ r.outLocked <=> \/ pc'["writer"] \in {"locked", "moved"}
                         \/ pc'["closer"] \in {"shutting", "lastShutting"}
  BY <1>3, <1>4, <1>5
  DEF InOrder, TypeOK, LocksHeld, SameSend, Moves, Threads
<1>9. /\ pc'["reader"] = "wait" => pc["reader"] = "wait"
      /\ pc'["writer"] = "wait" => pc["writer"] = "wait"
  BY <1>4, <1>5 DEF InOrder, TypeOK, Moves, Threads
<1>10. /\ Becomes(r) /\ UNCHANGED link /\ rest' \in 0 .. MaxWrite
       /\ r.fState = sock.fState /\ t \in Threads
  BY <1>1, <1>3 DEF InOrder, TypeOK, ConsumeRelease, SameSend, Threads
<1>11. r.wake \/ ((ReadWaits(sock) => ReadWaits(r)) /\ (WriteWaits(sock) => WriteWaits(r)))
  BY <1>3, WaitsUndisturbed
<1>12. QED
  BY <1>3, <1>5, <1>6, <1>7, <1>8, <1>9, <1>10, <1>11, ThreadKeeps

\* sendto finds the connection shut down after its wait: it returns.
LEMMA ProduceGivesUpKeeps ==
  ASSUME InOrder, Continue("writer", "ready", "idle"), Becomes(sock),
         UNCHANGED <<link, rest>>
  PROVE  InOrder'
<1>1. sock \in Socket /\ Chains(sock) /\ "writer" \in Threads
  BY DEF InOrder, TypeOK, Threads
<1>2. Moves("writer", "idle") /\ pc["writer"] = "ready"
  BY ContinueEffect DEF Threads, Places, InCall
<1>3. SendsLater(sock, pc')
  BY <1>1, <1>2 DEF InOrder, TypeOK, Chains, ShutdownSends, SendsLater, Moves, Threads
<1>4. /\ sock.inLocked <=> \/ pc'["reader"] \in {"locked", "moved"}
                           \/ pc'["closer"] \in {"locked", "moved"}
      /\ sock.outLocked <=> \/ pc'["writer"] \in {"locked", "moved"}
                            \/ pc'["closer"] \in {"shutting", "lastShutting"}
  BY <1>2 DEF InOrder, TypeOK, LocksHeld, Moves, Threads
<1>5. /\ pc'["reader"] = "wait" => pc["reader"] = "wait"
      /\ pc'["writer"] = "wait" => pc["writer"] = "wait"
  BY <1>2 DEF InOrder, TypeOK, Moves, Threads
<1>6. SendSide(sock) /\ ReceiveSide(sock) /\ rest' \in 0 .. MaxWrite
  BY <1>1 DEF InOrder, TypeOK, Chains
<1>7. QED
  BY <1>1, <1>2, <1>3, <1>4, <1>5, <1>6, ThreadKeeps

\* The output buffer is locked, by sendto or by shutdown().
LEMMA OutputLocks ==
  ASSUME InOrder, NEW s, s = [sock EXCEPT !.outLocked = TRUE]
  PROVE  /\ s \in Socket /\ SameReceive(sock, s) /\ s.shut = sock.shut
         /\ Undisturbed(sock, s) /\ s.fState = sock.fState /\ s.outLocked
         /\ SendSide(s) /\ ReceiveSide(s) /\ s.outDeferred = sock.outDeferred
<1>1. sock \in Socket /\ Chains(sock)
  BY DEF InOrder, TypeOK
<1>2. s \in Socket
  BY <1>1 DEF Socket
<1>3. /\ SameReceive(sock, s) /\ s.shut = sock.shut /\ Undisturbed(sock, s)
      /\ s.fState = sock.fState /\ s.outLocked /\ s.clobbered = sock.clobbered
      /\ s.sendPB = sock.sendPB /\ s.sendLen = sock.sendLen
      /\ s.outDeferred = sock.outDeferred
  BY <1>1 DEF Socket, SameReceive, Undisturbed
<1>4. SendSide(s) /\ ReceiveSide(s)
  BY <1>1, <1>3 DEF Chains, SendSide, ReceiveSide, SameReceive, Undisturbed
<1>5. QED
  BY <1>2, <1>3, <1>4

LEMMA ProduceLockKeeps ==
  ASSUME InOrder, ProduceLock
  PROVE  InOrder'
<1>1. CASE sock.fWriteShutdown /\ sock.outValid = Size
  BY <1>1, ProduceGivesUpKeeps DEF ProduceLock
<1>2. CASE ~(sock.fWriteShutdown /\ sock.outValid = Size)
  <2>1. PICK s : s = [sock EXCEPT !.outLocked = TRUE]
    OBVIOUS
  <2>2. /\ s \in Socket /\ SameReceive(sock, s) /\ s.shut = sock.shut
        /\ Undisturbed(sock, s) /\ s.fState = sock.fState /\ s.outLocked
        /\ SendSide(s) /\ ReceiveSide(s) /\ s.outDeferred = sock.outDeferred
    BY <2>1, OutputLocks
  <2>3. Moves("writer", "locked") /\ pc["writer"] = "ready"
    BY <1>2, ContinueEffect DEF ProduceLock, Threads, Places, InCall
  <2>4. SendsLater(s, pc')
    BY <2>2, <2>3
    DEF SameReceive, InOrder, TypeOK, Chains, ShutdownSends, SendsLater, Undisturbed, Moves, Threads
  <2>5. /\ s.inLocked <=> \/ pc'["reader"] \in {"locked", "moved"}
                          \/ pc'["closer"] \in {"locked", "moved"}
        /\ s.outLocked <=> \/ pc'["writer"] \in {"locked", "moved"}
                           \/ pc'["closer"] \in {"shutting", "lastShutting"}
    BY <2>2, <2>3 DEF InOrder, TypeOK, LocksHeld, SameReceive, Moves, Threads
  <2>6. /\ pc'["reader"] = "wait" => pc["reader"] = "wait"
        /\ pc'["writer"] = "wait" => pc["writer"] = "wait"
    BY <2>3 DEF InOrder, TypeOK, Moves, Threads
  <2>7. /\ Becomes(s) /\ UNCHANGED link /\ rest' \in 0 .. MaxWrite
        /\ "writer" \in Threads
    BY <1>2, <2>1 DEF InOrder, TypeOK, ProduceLock, Threads
  <2>8. QED
    BY <2>2, <2>3, <2>4, <2>5, <2>6, <2>7, ThreadKeeps, WaitsUndisturbed
<1>3. QED
  BY <1>1, <1>2

LEMMA ProduceMoveKeeps ==
  ASSUME InOrder, ProduceMove
  PROVE  InOrder'
<1>1. PICK n : n = Smaller(rest, Size - sock.outValid)
  OBVIOUS
<1>2. sock \in Socket /\ Chains(sock) /\ rest \in 0 .. MaxWrite
  BY DEF InOrder, TypeOK
<1>3. /\ sock.outValid + n \in 0 .. Size /\ sock.outValid <= sock.outValid + n
      /\ rest - n \in 0 .. MaxWrite
  BY <1>1, <1>2, SizeAssumption, WriteAssumption DEF Socket, Smaller
<1>4. PICK s : s = [sock EXCEPT !.outValid = @ + n]
  OBVIOUS
<1>5. s \in Socket
  BY <1>2, <1>3, <1>4 DEF Socket
<1>6. /\ SameReceive(sock, s) /\ s.outValid = sock.outValid + n
      /\ s.fState = sock.fState /\ s.clobbered = sock.clobbered
      /\ s.sendPB = sock.sendPB /\ s.sendLen = sock.sendLen
      /\ s.outDeferred = sock.outDeferred /\ s.outLocked = sock.outLocked
      /\ s.fWriteShutdown = sock.fWriteShutdown /\ s.shut = sock.shut
      /\ s.leftover = sock.leftover
  BY <1>2, <1>4 DEF Socket, SameReceive
<1>7. Moves("writer", "moved") /\ pc["writer"] = "locked"
  BY ContinueEffect DEF ProduceMove, Threads, Places, InCall
<1>8. sock.outLocked
  BY <1>7 DEF InOrder, LocksHeld
<1>9. SendSide(s)
  <2>1. sock.sendLen <= sock.outValid => s.sendLen <= s.outValid
    BY <1>2, <1>3, <1>6, SizeAssumption DEF Socket
  <2>2. sock.fState = "Connecting" /\ sock.outDeferred = "Send" => sock.leftover
    BY <1>2, <1>7 DEF Chains, ShutdownSends, SendsLater
  <2>3. QED
    BY <1>2, <1>6, <1>8, <2>1, <2>2 DEF Chains, SendSide
<1>10. ReceiveSide(s)
  BY <1>2, <1>6 DEF Chains, ReceiveSide, SameReceive
<1>11. SendsLater(s, pc')
  BY <1>2, <1>6, <1>7 DEF InOrder, TypeOK, Chains, ShutdownSends, SendsLater, Moves, Threads
<1>12. /\ s.inLocked <=> \/ pc'["reader"] \in {"locked", "moved"}
                         \/ pc'["closer"] \in {"locked", "moved"}
       /\ s.outLocked <=> \/ pc'["writer"] \in {"locked", "moved"}
                          \/ pc'["closer"] \in {"shutting", "lastShutting"}
  BY <1>6, <1>7, <1>8 DEF InOrder, TypeOK, LocksHeld, SameReceive, Moves, Threads
<1>13. pc'["writer"] # "wait" /\ (pc'["reader"] = "wait" => pc["reader"] = "wait")
  BY <1>7 DEF InOrder, TypeOK, Moves, Threads
<1>14. ReadWaits(sock) => ReadWaits(s)
  BY <1>6 DEF ReadWaits, SameReceive
<1>15. /\ Becomes(s) /\ UNCHANGED link /\ rest' \in 0 .. MaxWrite
       /\ "writer" \in Threads
  BY <1>1, <1>3, <1>4 DEF ProduceMove, Threads
<1>16. QED
  BY <1>5, <1>6, <1>7, <1>9, <1>10, <1>11, <1>12, <1>13, <1>14, <1>15, ThreadKeeps

\* A Release of the output buffer, by sendto or by shutdown().
LEMMA OutputReleases ==
  ASSUME InOrder, NEW n \in 1 .. Half, NEW t \in {"writer", "closer"}, NEW to,
         Moves(t, to), pc[t] \in {"moved", "shutting", "lastShutting"},
         t = "writer" => to \in {"idle", "test"},
         t = "closer" => to \in {"idle", "loop"} /\ pc[t] # "moved",
         Becomes(ReleaseOutput(sock, n)), UNCHANGED <<link, rest>>
  PROVE  IInv'
<1>1. PICK r : r = ReleaseOutput(sock, n)
  OBVIOUS
<1>2. sock \in Socket /\ Chains(sock)
  BY DEF InOrder, TypeOK
<1>11. CASE /\ sock.fState = "Connecting" /\ sock.outDeferred = "Send"
            /\ sock.outValid # 0
  <2>1. r \in Socket /\ r.clobbered /\ r.leftover /\ Undisturbed(sock, r) /\ r.shut = sock.shut
    BY <1>1, <1>2, <1>11, ReleaseOutputReuses DEF Chains
  <2>2. /\ pc' \in [Threads -> Places] /\ running' \in Threads \cup {Nobody}
        /\ rest' \in 0 .. MaxWrite /\ link' \in {"none", "up", "peerClosed", "gone"}
    BY DEF InOrder, TypeOK, Moves
  <2>3. /\ pc'["reader"] = "wait" => pc["reader"] = "wait"
        /\ pc'["writer"] = "wait" => pc["writer"] = "wait"
    BY DEF InOrder, TypeOK, Moves, Threads
  <2>4. Becomes(r)
    BY <1>1
  <2>5. QED
    BY <2>1, <2>2, <2>3, <2>4, ReuseEnds
<1>12. SUFFICES ASSUME ~(/\ sock.fState = "Connecting" /\ sock.outDeferred = "Send"
                         /\ sock.outValid # 0)
                PROVE  InOrder'
  BY <1>11 DEF IInv
<1>3. /\ r \in Socket /\ SendSide(r) /\ SameReceive(sock, r) /\ ClosedOrSame(sock, r)
      /\ ~r.outLocked /\ r.shut = sock.shut
      /\ r.outDeferred = "Send" => ~r.fWriteShutdown
      /\ r.wake \/ Undisturbed(sock, r)
  BY <1>1, <1>2, <1>12, ReleaseOutputEffect DEF Chains
<1>4. ReceiveSide(r)
  BY <1>2, <1>3 DEF Chains, ReceiveSide, SameReceive, ClosedOrSame
<1>5. /\ r.inLocked <=> \/ pc'["reader"] \in {"locked", "moved"}
                        \/ pc'["closer"] \in {"locked", "moved"}
      /\ r.outLocked <=> \/ pc'["writer"] \in {"locked", "moved"}
                         \/ pc'["closer"] \in {"shutting", "lastShutting"}
  BY <1>3 DEF InOrder, TypeOK, LocksHeld, SameReceive, Moves, Threads
<1>6. /\ pc'["reader"] = "wait" => pc["reader"] = "wait"
      /\ pc'["writer"] = "wait" => pc["writer"] = "wait"
  BY DEF InOrder, TypeOK, Moves, Threads
<1>7. r.wake \/ ((ReadWaits(sock) => ReadWaits(r)) /\ (WriteWaits(sock) => WriteWaits(r)))
  BY <1>3, WaitsUndisturbed
<1>8. Becomes(r) /\ UNCHANGED link /\ rest' \in 0 .. MaxWrite /\ t \in Threads
  BY <1>1 DEF InOrder, TypeOK, Threads
<1>9. r.fState = sock.fState \/ (sock.fState = "Connected" /\ r.fState = "Closing")
  BY <1>3 DEF ClosedOrSame
<1>13. SendsLater(r, pc')
  BY <1>3 DEF SendsLater, SendSide
<1>10. QED
  BY <1>3, <1>4, <1>13, <1>5, <1>6, <1>7, <1>8, <1>9, ThreadKeeps

LEMMA ProduceReleaseKeeps ==
  ASSUME InOrder, NEW n \in 1 .. Half, ProduceRelease(n)
  PROVE  IInv'
<1>1. PICK to \in {"idle", "test"} : Continue("writer", "moved", to)
  BY DEF ProduceRelease
<1>2. Moves("writer", to) /\ pc["writer"] = "moved"
  BY <1>1, ContinueEffect DEF Threads, Places, InCall
<1>3. QED
  BY <1>2, OutputReleases DEF ProduceRelease

LEMMA ShutdownReleaseKeeps ==
  ASSUME InOrder, NEW n \in 1 .. Half, ShutdownRelease(n)
  PROVE  IInv'
<1>1. PICK from \in {"shutting", "lastShutting"}, to \in {"idle", "loop"} :
        /\ Continue("closer", from, to)
        /\ to = "loop" => from = "lastShutting"
  BY DEF ShutdownRelease
<1>2. Moves("closer", to) /\ pc["closer"] = from
  BY <1>1, ContinueEffect DEF Threads, Places, InCall, Destroying
<1>3. QED
  BY <1>2, OutputReleases DEF ShutdownRelease

LEMMA ShutdownLockKeeps ==
  ASSUME InOrder, ShutdownLock
  PROVE  InOrder'
<1>1. PICK s : s = [sock EXCEPT !.outLocked = TRUE]
  OBVIOUS
<1>2. /\ s \in Socket /\ SameReceive(sock, s) /\ s.shut = sock.shut
      /\ Undisturbed(sock, s) /\ s.fState = sock.fState /\ s.outLocked
      /\ SendSide(s) /\ ReceiveSide(s) /\ s.outDeferred = sock.outDeferred
  BY <1>1, OutputLocks
<1>3. PICK from \in {"flagged", "lastFlagged"}, to \in {"shutting", "lastShutting"} :
        /\ Continue("closer", from, to)
        /\ to = "lastShutting" => from = "lastFlagged"
  BY DEF ShutdownLock
<1>4. Moves("closer", to) /\ pc["closer"] = from
  BY <1>3, ContinueEffect DEF Threads, Places, InCall, Destroying
<1>5. /\ s.inLocked <=> \/ pc'["reader"] \in {"locked", "moved"}
                        \/ pc'["closer"] \in {"locked", "moved"}
      /\ s.outLocked <=> \/ pc'["writer"] \in {"locked", "moved"}
                         \/ pc'["closer"] \in {"shutting", "lastShutting"}
  BY <1>2, <1>4 DEF InOrder, TypeOK, LocksHeld, SameReceive, Moves, Threads
<1>6. /\ pc'["reader"] = "wait" => pc["reader"] = "wait"
      /\ pc'["writer"] = "wait" => pc["writer"] = "wait"
      /\ pc'["closer"] \in {"shutting", "lastShutting"}
  BY <1>4 DEF InOrder, TypeOK, Moves, Threads
<1>7. /\ Becomes(s) /\ UNCHANGED link /\ rest' \in 0 .. MaxWrite
      /\ "closer" \in Threads
  BY <1>1 DEF InOrder, TypeOK, ShutdownLock, Threads
<1>9. SendsLater(s, pc')
  BY <1>2, <1>4 DEF InOrder, TypeOK, Chains, ShutdownSends, SendsLater, SameReceive,
                    Undisturbed, Moves, Threads
<1>8. QED
  BY <1>2, <1>4, <1>5, <1>6, <1>7, <1>9, ThreadKeeps, WaitsUndisturbed

\* The flags of shutdown(): whoever sleeps on what is shut down may sleep on.
LEMMA ShutKeeps ==
  ASSUME InOrder, NEW how \in SUBSET {"read", "write"},
         NEW to \in {"flagged", "lastFlagged"}, Moves("closer", to),
         pc["closer"] = "idle", Becomes(Shut(sock, how)), UNCHANGED <<link, rest>>
  PROVE  InOrder'
<1>1. PICK s : s = Shut(sock, how)
  OBVIOUS
<1>2. sock \in Socket /\ Chains(sock)
  BY DEF InOrder, TypeOK
<1>3. /\ (sock.fReadShutdown \/ "read" \in how) \in BOOLEAN
      /\ (sock.fWriteShutdown \/ "write" \in how) \in BOOLEAN
      /\ sock.shut \cup how \in SUBSET {"read", "write"}
  BY <1>2 DEF Socket
<1>4. s \in Socket
  <2> DEFINE a == [sock EXCEPT !.fReadShutdown = @ \/ "read" \in how]
             b == [a EXCEPT !.fWriteShutdown = sock.fWriteShutdown \/ "write" \in how]
  <2>1. a \in Socket
    BY <1>2, <1>3 DEF Socket
  <2>2. s = [b EXCEPT !.shut = sock.shut \cup how]
    BY <1>1, <1>2 DEF Shut, Socket
  <2> HIDE DEF a
  <2>3. b \in Socket
    BY <1>3, <2>1 DEF Socket
  <2> HIDE DEF b
  <2>4. QED
    BY <1>3, <2>2, <2>3 DEF Socket
<1>5. /\ s.fState = sock.fState /\ s.clobbered = sock.clobbered
      /\ s.sendPB = sock.sendPB /\ s.sendLen = sock.sendLen
      /\ s.outValid = sock.outValid /\ s.outLocked = sock.outLocked
      /\ s.outDeferred = sock.outDeferred
      /\ s.recvPB = sock.recvPB /\ s.recvLen = sock.recvLen
      /\ s.recvResult = sock.recvResult /\ s.inValid = sock.inValid
      /\ s.inLocked = sock.inLocked /\ s.inDeferred = sock.inDeferred
      /\ s.shut = sock.shut \cup how /\ s.leftover = sock.leftover
  BY <1>1, <1>2 DEF Shut, Socket
<1>6. /\ s.fReadShutdown <=> sock.fReadShutdown \/ "read" \in how
      /\ s.fWriteShutdown <=> sock.fWriteShutdown \/ "write" \in how
  BY <1>1, <1>2 DEF Shut, Socket
<1>7. SendSide(s) /\ ReceiveSide(s)
  BY <1>2, <1>5, <1>6 DEF Chains, SendSide, ReceiveSide
<1>8. (ReadWaits(sock) => ReadWaits(s)) /\ (WriteWaits(sock) => WriteWaits(s))
  BY <1>5, <1>6 DEF ReadWaits, WriteWaits
<1>9. /\ s.inLocked <=> \/ pc'["reader"] \in {"locked", "moved"}
                        \/ pc'["closer"] \in {"locked", "moved"}
      /\ s.outLocked <=> \/ pc'["writer"] \in {"locked", "moved"}
                         \/ pc'["closer"] \in {"shutting", "lastShutting"}
  BY <1>5 DEF InOrder, TypeOK, LocksHeld, Moves, Threads
<1>10. /\ pc'["reader"] = "wait" => pc["reader"] = "wait"
       /\ pc'["writer"] = "wait" => pc["writer"] = "wait"
       /\ pc'["closer"] \in {"flagged", "lastFlagged"}
  BY DEF InOrder, TypeOK, Moves, Threads
<1>11. /\ Becomes(s) /\ UNCHANGED link /\ rest' \in 0 .. MaxWrite
       /\ "closer" \in Threads
  BY <1>1 DEF InOrder, TypeOK, Threads
<1>13. SendsLater(s, pc')
  BY <1>2, <1>5, <1>10 DEF InOrder, TypeOK, Chains, ShutdownSends, SendsLater, Moves, Threads
<1>12. QED
  BY <1>4, <1>5, <1>7, <1>8, <1>9, <1>10, <1>11, <1>13, ThreadKeeps

LEMMA ShutdownKeeps ==
  ASSUME InOrder, NEW how \in SUBSET {"read", "write"}, Shutdown(how)
  PROVE  InOrder'
<1>1. Moves("closer", "flagged") /\ pc["closer"] = "idle"
  BY EnterEffect DEF Shutdown, Threads, Places, Destroying
<1>2. QED
  BY <1>1, ShutKeeps DEF Shutdown

LEMMA DestroyKeeps ==
  ASSUME InOrder, Destroy
  PROVE  InOrder'
<1>1. CASE Online({"Connecting", "Connected"})
  <2>1. Moves("closer", "lastFlagged") /\ pc["closer"] = "idle"
    BY <1>1, EnterEffect DEF Destroy, Threads, Places, Destroying
  <2>2. QED
    BY <1>1, <2>1, ShutKeeps DEF Destroy
<1>2. CASE ~Online({"Connecting", "Connected"})
  <2>1. Moves("closer", "loop") /\ pc["closer"] = "idle"
    BY <1>2, EnterEffect DEF Destroy, Threads, Places, Destroying
  <2>2. sock \in Socket /\ ~sock.wake /\ Chains(sock) /\ Becomes(sock)
    BY <1>2 DEF InOrder, TypeOK, Destroy
  <2>3. sock' = sock /\ fWakeup' = fWakeup
    BY <2>2 DEF Becomes, Socket
  <2>4. SleeperWaits'
    BY <2>1, <2>3 DEF InOrder, TypeOK, SleeperWaits, MustRead, MustWrite, Online,
                      Moves, Threads
  <2>5. QED
    BY <2>1, <2>3, <2>4, QuietKeeps DEF InOrder, TypeOK, Destroy, Threads
<1>3. QED
  BY <1>1, <1>2

-----------------------------------------------------------------------------
LEMMA InitHolds == Init => IInv
<1> SUFFICES ASSUME Init PROVE InOrder
  BY DEF IInv
<1>1. NewSocket \in Socket /\ SendSide(NewSocket) /\ ReceiveSide(NewSocket)
  BY SizeAssumption DEF NewSocket, Socket, SendSide, ReceiveSide
<1>2. /\ sock \in Socket /\ ~sock.wake /\ SendSide(sock) /\ ReceiveSide(sock)
      /\ sock.outDeferred = "Send" => ~sock.fWriteShutdown
      /\ ~sock.inLocked /\ ~sock.outLocked /\ sock.fState # "Connecting"
      /\ link \in {"none", "up"}
      /\ link = "none" <=> sock.fState \in {"Unbound", "Connecting"}
  <2>1. CASE sock = NewSocket /\ link = "none"
    BY <1>1, <2>1 DEF NewSocket
  <2>2. CASE \E n \in 1 .. Half :
               /\ sock = Recv(Send([NewSocket EXCEPT !.fState = "Connected"], n), n)
               /\ link = "up"
    <3>1. PICK n \in 1 .. Half :
            sock = Recv(Send([NewSocket EXCEPT !.fState = "Connected"], n), n)
      BY <2>2
    <3>2. PICK c : c = [NewSocket EXCEPT !.fState = "Connected"]
      OBVIOUS
    <3>11. PICK b : b = NewSocket
      OBVIOUS
    <3>12. c = [b EXCEPT !.fState = "Connected"] /\ b \in Socket
      BY <1>1, <3>2, <3>11
    <3>13. /\ ~b.clobbered /\ ~b.wake /\ ~b.inLocked /\ ~b.outLocked
           /\ b.recvPB = "none" /\ b.inDeferred = "none" /\ ~b.fWriteShutdown
           /\ b.recvResult = "noErr" /\ b.sendPB = "none"
      BY <3>11 DEF NewSocket
    <3>14. c \in Socket
      BY <3>12 DEF Socket
    <3>3. /\ c \in Socket /\ c.sendPB = "none" /\ c.fState = "Connected"
          /\ ~c.clobbered /\ ~c.wake /\ ~c.inLocked /\ ~c.outLocked
          /\ c.recvPB = "none" /\ c.inDeferred = "none" /\ ~c.fWriteShutdown
          /\ c.recvResult = "noErr"
      BY <3>12, <3>13, <3>14 DEF Socket
    <3>4. PICK x : x = Send(c, n)
      OBVIOUS
    <3>5. /\ x \in Socket /\ ~x.clobbered /\ SameReceive(c, x) /\ Undisturbed(c, x)
          /\ x.outLocked = c.outLocked /\ x.wake = c.wake
          /\ \/ /\ x.sendPB = "send" /\ x.outDeferred = "none"
                /\ x.sendLen <= c.outValid /\ x.fState = c.fState
             \/ /\ x.sendPB = "none" /\ x.outDeferred = "Send"
                /\ c.outValid = 0 /\ ~c.fWriteShutdown /\ x.fState = c.fState
             \/ /\ x.sendPB = "close" /\ x.outDeferred = "none"
                /\ x.fState = "Closing"
             \/ /\ x.sendPB = "none" /\ x.outDeferred = "none"
                /\ x.fState = "Unconnected"
      BY <3>3, <3>4, SendEffect
    <3>6. x.fState = "Connected" /\ x.recvPB = "none" /\ ~x.inLocked
      BY <3>3, <3>5 DEF Undisturbed, SameReceive
    <3>7. sock = Recv(x, n)
      BY <3>1, <3>2, <3>4
    <3>8. /\ sock \in Socket /\ SameSend(x, sock) /\ Undisturbed(x, sock)
          /\ sock.inLocked = x.inLocked /\ sock.wake = x.wake
          /\ \/ /\ sock.recvPB = "receive" /\ sock.inDeferred = "none"
                /\ sock.recvLen <= Size - x.inValid
             \/ /\ sock.recvPB = "none" /\ sock.inDeferred = "Recv" /\ x.inValid = Size
      BY <3>5, <3>6, <3>7, RecvEffect
    <3>9. SendSide(sock) /\ ReceiveSide(sock)
      BY <3>3, <3>5, <3>6, <3>8
      DEF SendSide, ReceiveSide, SameSend, Undisturbed
    <3>10. QED
      BY <2>2, <3>3, <3>5, <3>6, <3>8, <3>9 DEF SameSend, Undisturbed
  <2>3. QED
    BY <2>1, <2>2 DEF Init
<1>3. TypeOK
  BY <1>2, WriteAssumption DEF Init, TypeOK, Threads, Nobody
<1>4. Chains(sock) /\ Linked
  BY <1>2 DEF Chains, ShutdownSends, SendsLater, Linked
<1>5. OneRuns /\ LocksHeld /\ SleeperWaits
  BY <1>2 DEF Init, OneRuns, InCall, Destroying, LocksHeld, SleeperWaits, Threads
<1>6. QED
  BY <1>3, <1>4, <1>5 DEF InOrder

LEMMA StepKeeps == IInv /\ [Next]_vars => IInv'
<1> SUFFICES ASSUME IInv, [Next]_vars PROVE IInv'
  OBVIOUS
<1>1. CASE UNCHANGED vars
  BY <1>1 DEF IInv, InOrder, BlockReused, TypeOK, Chains, SendSide, ReceiveSide,
              ShutdownSends, SendsLater, Linked, OneRuns, LocksHeld, SleeperWaits,
              MustRead, MustWrite, Online, vars
<1>2. CASE Next
  <2>1. InOrder
    BY <1>2 DEF IInv, BlockReused, Next, Live
  <2>2. InOrder' => IInv'
    BY DEF IInv
  <2>3. CASE Interrupts
    BY <2>1, <2>2, <2>3, OpenCompletesKeeps, SendCompletesKeeps, ReceiveCompletesKeeps,
       CloseCompletesKeeps, NotifyClosingKeeps, NotifyTerminateKeeps
    DEF Interrupts, Completions
  <2>4. CASE ThreadCode
    BY <2>1, <2>2, <2>4, TestFirstKeeps, TestAgainKeeps, ConsumeLockKeeps,
       ConsumeMoveKeeps, ConsumeReleaseKeeps, ProduceLockKeeps, ProduceMoveKeeps,
       ProduceReleaseKeeps, ShutdownLockKeeps, ShutdownReleaseKeeps,
       DestroyTestKeeps DEF ThreadCode
  <2>5. CASE Calls
    <3>1. ASSUME NEW how \in {{"read"}, {"write"}, {"read", "write"}}, Shutdown(how)
          PROVE  InOrder'
      BY <2>1, <3>1, ShutdownKeeps
    <3>2. QED
      BY <2>1, <2>2, <2>5, <3>1, ConnectKeeps, RecvfromKeeps, GetAsyncErrorKeeps,
         DestroyKeeps, SendtoKeeps DEF Calls
  <2>6. ASSUME NEW t \in Threads, YieldReturns(t) PROVE IInv'
    BY <2>1, <2>2, <2>6, YieldReturnsKeeps
  <2>7. QED
    BY <1>2, <2>3, <2>4, <2>5, <2>6 DEF Next
<1>3. QED
  BY <1>1, <1>2

-----------------------------------------------------------------------------
(***************************************************************************)
(* The invariant holds in every state of every behaviour.                  *)
(***************************************************************************)
THEOREM Invariance == Spec => []IInv
<1>1. QED
  BY InitHolds, StepKeeps, PTL DEF Spec

(***************************************************************************)
(* The completion routines never free more of a buffer than it holds nor   *)
(* store more than it has room for, however sends, receives, errors and    *)
(* the threads' locks follow each other.                                   *)
(***************************************************************************)
THEOREM TypeCorrect == Spec => []TypeOK
<1>1. IInv => TypeOK
  BY DEF IInv, InOrder, BlockReused
<1>2. QED
  BY <1>1, Invariance, PTL

(***************************************************************************)
(* Each direction of a connection keeps one chain of asynchronous calls:   *)
(* GUSIMTTSend, GUSIMTTRecv and their completion routines, deferred or     *)
(* not, leave no connection without a call or a deferred routine to start  *)
(* one, and start no call in a parameter block that is in use, except on a *)
(* socket that connect() has opened again before the last connection was   *)
(* through.                                                                *)
(***************************************************************************)
THEOREM ChainsKept == Spec => []TransfersAlive
<1>1. IInv => TransfersAlive
  <2>1. CASE BlockReused
    BY <2>1 DEF BlockReused, TransfersAlive
  <2>2. CASE InOrder
    <3>1. /\ SendSide(sock) /\ ReceiveSide(sock) /\ ShutdownSends(sock)
          /\ sock \in Socket
      BY <2>2 DEF InOrder, TypeOK, Chains
    <3>2. ~sock.clobbered
      BY <3>1 DEF SendSide
    <3>3. pc["closer"] \in {"flagged", "shutting", "lastFlagged", "lastShutting"} =>
            running = "closer"
      BY <2>2 DEF InOrder, OneRuns, Threads
    <3>4. SenderAlive
      BY <3>1, <3>3 DEF SendSide, ShutdownSends, SendsLater, SenderAlive, Socket
    <3>5. ReceiverAlive
      BY <3>1 DEF ReceiveSide, ReceiverAlive, Socket
    <3>6. QED
      BY <3>2, <3>4, <3>5 DEF TransfersAlive
  <2>3. QED
    BY <2>1, <2>2 DEF IInv
<1>2. QED
  BY <1>1, Invariance, PTL

(***************************************************************************)
(* recvfrom and sendto test their condition after AddContext, and every    *)
(* completion that changes it wakes the contexts: a thread that sleeps has *)
(* a reason to, or was told by shutdown() of another thread.               *)
(***************************************************************************)
THEOREM SleepersWait == Spec => []SleeperWaits
<1>1. IInv => SleeperWaits
  BY DEF IInv, InOrder, BlockReused
<1>2. QED
  BY <1>1, Invariance, PTL

=============================================================================
