------------------------------ MODULE GUSIPipe ------------------------------
(***************************************************************************)
(* Pipes (GUSIPipe.cpp): pairs of sockets behind the descriptor table, and *)
(* the threads that read and write them.                                   *)
(*                                                                         *)
(* Threads are cooperative and nothing here runs in an interrupt, so a     *)
(* call is one action up to its Yield, and each return from Yield is       *)
(* another.  A socket's fContexts are the threads whose call it holds.     *)
(***************************************************************************)
EXTENDS GUSIDescriptor, GUSIRing

CONSTANTS
  Threads,
  BufferSize, \* 8192 in the code
  Lengths     \* of the reads and writes

ASSUME PipeAssumption == BufferSize \in Nat \ {0} /\ Lengths \subseteq Nat \ {0}

VARIABLES
  pipe, \* the fields of each pipe socket
  call  \* the call each thread sleeps in, with the bytes left and its fWakeup

vars == <<table, corrupt, pipe, call>>

PipeSockets == Sockets \ {Console}

\* The constructor.
NewSocket ==
  [fBuffer |-> NewRing(BufferSize), fWriteShutdown |-> FALSE, fPeer |-> NoSocket]

Idle == [op |-> "none", sock |-> NoSocket, left |-> 0, woken |-> FALSE]

\* What the sockets are outside a call, and where threads may sleep.
TypeOK ==
  /\ TableTypeOK
  /\ pipe \in [PipeSockets ->
       [fBuffer : Ring, fWriteShutdown : BOOLEAN,
        fPeer : PipeSockets \cup {NoSocket}]]
  /\ \A s \in PipeSockets : RingInvariant(pipe[s].fBuffer)
  /\ \A t \in Threads :
       \/ call[t] = Idle
       \/ /\ call[t] \in [op : {"read", "write"}, sock : PipeSockets,
                          left : Nat \ {0}, woken : BOOLEAN]
          /\ Exists(call[t].sock)

-----------------------------------------------------------------------------
(***************************************************************************)
(* Produce and Consume of a buffer that nobody has switched.  Their loops  *)
(* make at most two turns: to the end of the memory, and from its start.   *)
(***************************************************************************)
ProduceTurn(r, n) ==
  LET part == GrantLength(r, n)
  IN  [ring |-> Validated(Granting(r, n), part), rest |-> n - part]

Produced(r, n) ==
  LET first == ProduceTurn(r, n)
  IN  IF r.free = 0 THEN [ring |-> r, rest |-> n]
      ELSE IF first.rest = 0 \/ first.ring.free = 0 THEN first
      ELSE ProduceTurn(first.ring, first.rest)

ConsumeTurn(r, n) ==
  LET part == LoanLength(r, n)
  IN  [ring |-> Freed(r, part), rest |-> n - part]

Consumed(r, n) ==
  LET first == ConsumeTurn(r, n)
  IN  IF r.valid = 0 THEN r
      ELSE IF first.rest = 0 \/ first.ring.valid = 0 THEN first.ring
      ELSE ConsumeTurn(first.ring, first.rest).ring

-----------------------------------------------------------------------------
Peer(s) == pipe[s].fPeer
HasPeer(s) == Peer(s) # NoSocket

Valid(s) == pipe[s].fBuffer.valid
FreeAtPeer(s) == pipe[Peer(s)].fBuffer.free

Eof(s) == ~HasPeer(s) \/ pipe[Peer(s)].fWriteShutdown
Shutdown(s) == ~HasPeer(s) \/ pipe[s].fWriteShutdown

Asleep(t) == call[t].op # "none"

\* Wakeup: all threads in the fContexts of the given sockets.
Woken(C, socks) ==
  [t \in Threads |->
     IF C[t].op # "none" /\ C[t].sock \in socks
     THEN [C[t] EXCEPT !.woken = TRUE] ELSE C[t]]

\* Mutant: the reader does not tell the writer that there is room.
ReadDoneSilently(t, s, len) ==
  /\ pipe' = [pipe EXCEPT ![s].fBuffer = Consumed(@, len)]
  /\ call' = [call EXCEPT ![t] = Idle]

\* The end of a read: take what there is, and wake the other end.
ReadDone(t, s, len) ==
  /\ pipe' = [pipe EXCEPT ![s].fBuffer = Consumed(@, len)]
  /\ call' = Woken([call EXCEPT ![t] = Idle], {Peer(s)})

\* A thread enters the fContexts of s and sleeps.  Something that an earlier wait
\* of the program was about may have set its fWakeup; then Yield returns at once.
Waits(C, t, op, s, left) ==
  {[C EXCEPT ![t] = [op |-> op, sock |-> s, left |-> left, woken |-> early]] :
     early \in BOOLEAN}

\* read: without data it is the end of file, or the thread waits.
Read(t, fd, len) ==
  /\ ~corrupt /\ ~Asleep(t) /\ IsOpen(table, fd)
  /\ LET s == Socket(table, fd)
     IN  /\ s \in PipeSockets
         /\ \/ Valid(s) > 0 /\ ReadDone(t, s, len)
            \/ /\ Valid(s) = 0 /\ ~Eof(s)
               /\ call' \in Waits(call, t, "read", s, len)
               /\ UNCHANGED pipe
  /\ UNCHANGED tableVars

\* Yield returns to a reader.
ReadResumes(t) ==
  /\ ~corrupt /\ call[t].op = "read" /\ call[t].woken
  /\ LET s == call[t].sock
     IN  IF Eof(s) \/ Valid(s) > 0
         THEN ReadDone(t, s, call[t].left)
         ELSE call' = [call EXCEPT ![t].woken = FALSE] /\ UNCHANGED pipe
  /\ UNCHANGED tableVars

\* write from its label restart on, with left bytes to go: store them all, or
\* fill the buffer and wait for room.
WriteTurn(t, s, left) ==
  LET p == Peer(s)
      stored == Produced(pipe[p].fBuffer, left)
  IN  IF Shutdown(s)
      THEN call' = [call EXCEPT ![t] = Idle] /\ UNCHANGED pipe
      ELSE /\ pipe' = [pipe EXCEPT ![p].fBuffer = stored.ring]
           /\ IF FreeAtPeer(s) < left
              THEN call' \in Waits(Woken(call, {p}), t, "write", s, stored.rest)
              ELSE call' = Woken([call EXCEPT ![t] = Idle], {p})

Write(t, fd, len) ==
  /\ ~corrupt /\ ~Asleep(t) /\ IsOpen(table, fd)
  /\ Socket(table, fd) \in PipeSockets
  /\ WriteTurn(t, Socket(table, fd), len)
  /\ UNCHANGED tableVars

\* Yield returns to a writer.
WriteResumes(t) ==
  /\ ~corrupt /\ call[t].op = "write" /\ call[t].woken
  /\ LET s == call[t].sock
     IN  IF Shutdown(s) \/ FreeAtPeer(s) > 0
         THEN WriteTurn(t, s, call[t].left)
         ELSE call' = [call EXCEPT ![t].woken = FALSE] /\ UNCHANGED pipe
  /\ UNCHANGED tableVars

\* Yield returns with a signal: the call ends where it is.
Interrupted(t) ==
  /\ ~corrupt /\ Asleep(t)
  /\ call' = [call EXCEPT ![t] = Idle]
  /\ UNCHANGED <<table, corrupt, pipe>>

\* shutdown, which wakes nobody.
ShutdownCall(t, fd, how) ==
  /\ ~corrupt /\ ~Asleep(t) /\ IsOpen(table, fd)
  /\ LET s == Socket(table, fd)
     IN  /\ s \in PipeSockets
         /\ pipe' = [other \in PipeSockets |->
              IF \/ other = s /\ how # 0
                 \/ other = Peer(s) /\ how % 2 = 0
              THEN [pipe[other] EXCEPT !.fWriteShutdown = TRUE]
              ELSE pipe[other]]
  /\ UNCHANGED <<table, corrupt, call>>

\* pipe shuts both writing from the first end and reading from the second.
Open(t, first, second, isPipe) ==
  /\ ~Asleep(t)
  /\ OpenPair(first, second)
  /\ pipe' = IF table' = table
             THEN pipe
             ELSE [pipe EXCEPT
                    ![first] = [NewSocket EXCEPT !.fPeer = second,
                                                 !.fWriteShutdown = isPipe],
                    ![second] = [NewSocket EXCEPT !.fPeer = first]]
  /\ UNCHANGED call

\* Mutant: the peer keeps its pointer to the deleted socket.
DestroyDangling(dead) ==
  /\ pipe' = [s \in PipeSockets |-> IF s \in dead THEN NewSocket ELSE pipe[s]]
  /\ call' = Woken(call, dead \cup {Peer(d) : d \in dead})

\* The destructors of the sockets in dead: the peer loses its link and is woken.
Destroy(dead) ==
  /\ pipe' = [s \in PipeSockets |->
       IF s \in dead THEN NewSocket
       ELSE IF \E d \in dead : s = Peer(d) THEN [pipe[s] EXCEPT !.fPeer = NoSocket]
       ELSE pipe[s]]
  /\ call' = Woken(call, dead \cup {Peer(d) : d \in dead})

\* A call removes the last descriptor of a socket in which a thread sleeps.
Busy(fd) ==
  /\ IsOpen(table, fd)
  /\ table.fRefCount[Socket(table, fd)] = 1
  /\ \E t \in Threads : call[t].sock = Socket(table, fd)

\* Calls on the table that may delete a socket, and dup, which deletes none.
TableCall(t) ==
  /\ ~Asleep(t)
  /\ \/ \E fd \in Descriptors : ~Busy(fd) /\ Close(fd)
     \/ \E fd, to \in Descriptors : ~Busy(to) /\ Dup2(fd, to)
     \/ \E fd, start \in Descriptors : Dup(fd, start)
  /\ Destroy(Deleted \ {Console})

CloseBusy(t) ==
  /\ ~corrupt /\ ~Asleep(t)
  /\ \E fd \in Descriptors : Busy(fd)
  /\ UseDeleted
  /\ UNCHANGED <<pipe, call>>

-----------------------------------------------------------------------------
Init ==
  /\ TableInit
  /\ pipe = [s \in PipeSockets |-> NewSocket]
  /\ call = [t \in Threads |-> Idle]

Next ==
  \E t \in Threads :
    \/ \E fd \in Descriptors, len \in Lengths : Read(t, fd, len) \/ Write(t, fd, len)
    \/ ReadResumes(t) \/ WriteResumes(t) \/ Interrupted(t)
    \/ \E fd \in Descriptors, how \in 0 .. 2 : ShutdownCall(t, fd, how)
    \/ \E first, second \in PipeSockets, isPipe \in BOOLEAN :
         Open(t, first, second, isPipe)
    \/ TableCall(t) \/ CloseBusy(t)

Spec == Init /\ [][Next]_vars

-----------------------------------------------------------------------------
\* Two sockets that know each other do so mutually, and both exist: nobody writes
\* into the buffer of a deleted socket (SetPeer and the destructor).
PeersMutual ==
  \A s \in PipeSockets :
    HasPeer(s) => Exists(s) /\ Exists(Peer(s)) /\ Peer(Peer(s)) = s

\* What a read or write can do without waiting any longer.  shutdown() gives
\* a sleeper an answer too, but wakes nobody, and is left out.
CanGoOn(t) ==
  LET s == call[t].sock
  IN  \/ ~HasPeer(s)
      \/ call[t].op = "read" /\ Valid(s) > 0
      \/ call[t].op = "write" /\ FreeAtPeer(s) > 0

\* No wakeup is missing: a thread that sleeps in read or write, and has not been
\* woken, has nothing to read, or no room to write, and a peer to wait for.
SleeperWaits ==
  \A t \in Threads : Asleep(t) /\ ~call[t].woken => ~CanGoOn(t)
=============================================================================
