----------------------------- MODULE GUSISelect -----------------------------
(***************************************************************************)
(* select, sleep and blocking calls on the sockets behind the descriptor   *)
(* table: the queue of contexts that a socket wakes (GUSISocket), the      *)
(* timers (GUSITimer) and the loops of GUSIPOSIX.cpp.                      *)
(*                                                                         *)
(* Threads are switched only where they yield, so what a call does between *)
(* two Yields is one action; interrupts come between any two actions.      *)
(* What Yield(kGUSIBlock) makes of fWakeup is the matter of GUSIContext:   *)
(* here a context that blocks goes on when it has been woken.              *)
(***************************************************************************)
EXTENDS GUSIDescriptor

CONSTANTS
  Contexts, \* the threads that make the calls
  MaxLeft   \* bound: how often a context that waits has been left in a queue

ASSUME MaxLeftAssumption == MaxLeft \in Nat

VARIABLES
  ready,     \* whether select and read of the socket find something
  fContexts, \* the queue of a socket: how often each context is in it
  fWakeup,
  timer,     \* the timer of the call the context is in
  pc,        \* where the thread is,
  inCall,    \* and in which call
  moved,     \* history: the descriptors of its select that were closed or
             \* opened by others meanwhile
  left       \* history: <<t, s>> when s lost such a descriptor and lived on

threadVars == <<fWakeup, timer, pc, inCall>>
history == <<moved, left>>
selectVars == <<tableVars, ready, fContexts, threadVars, history>>

NoCall == [want |-> {}, mode |-> "none", sock |-> NoSocket]

Calls == [want : SUBSET Descriptors,
          mode : {"none", "forever", "timed", "poll", "read", "sleep"},
          sock : Sockets \cup {NoSocket}]

\* A thread that looks does not yield before it is done.
At(t, label) ==
  ~corrupt /\ pc[t] = label /\ \A u \in Contexts \ {t} : pc[u] # "look"
Goto(t, label) == pc' = [pc EXCEPT ![t] = label]

MayWait(t) == \A s \in Sockets : fContexts[s][t] <= MaxLeft

Selecting(t) == pc[t] \in {"look", "asleep", "post"}

-----------------------------------------------------------------------------
(***************************************************************************)
(* The queue of a socket's contexts, and the socket's end.                 *)
(***************************************************************************)
\* How many descriptors of want belong to s.
Wanted(want, s) == Cardinality({fd \in want : Socket(table, fd) = s})

Queued(s) == {t \in Contexts : fContexts[s][t] > 0}

\* AddContext and RemoveContext, once for each descriptor; a context that is
\* not in the queue is not removed.
AddContexts(t, want) ==
  fContexts' = [s \in Sockets |->
                 [fContexts[s] EXCEPT ![t] = @ + Wanted(want, s)]]

RemoveContexts(t, want) ==
  fContexts' = [s \in Sockets |->
                 [fContexts[s] EXCEPT
                    ![t] = IF @ > Wanted(want, s)
                           THEN @ - Wanted(want, s) ELSE 0]]

WakeAll(woken) == fWakeup' = [t \in Contexts |-> fWakeup[t] \/ t \in woken]

\* Mutant: the destructor does not wake those who wait.
DestructSilently ==
  /\ fContexts' = [s \in Sockets |->
                    IF s \in Deleted THEN [t \in Contexts |-> 0]
                                     ELSE fContexts[s]]
  /\ UNCHANGED fWakeup

\* Mutant: those who wait are woken, but stay in the queue.
DestructQueued ==
  /\ WakeAll(UNION {Queued(s) : s \in Deleted})
  /\ UNCHANGED fContexts

\* ~GUSISocket wakes the contexts in its queue, which goes with it.
Destruct ==
  /\ fContexts' = [s \in Sockets |->
                    IF s \in Deleted THEN [t \in Contexts |-> 0]
                                     ELSE fContexts[s]]
  /\ WakeAll(UNION {Queued(s) : s \in Deleted})

\* Descriptor fd is given up, or taken, by a thread.
Remember(fd) ==
  /\ moved' = [t \in Contexts |->
                 IF Selecting(t) /\ fd \in inCall[t].want
                    /\ (table'.fSocket[fd] \in Sockets
                        \/ Socket(table, fd) \notin Deleted)
                 THEN moved[t] \cup {fd} ELSE moved[t]]
  /\ left' = {p \in left : p[2] \notin Deleted}
             \cup {<<t, Socket(table, fd)>> : t \in
                     {u \in Contexts : /\ Selecting(u) /\ fd \in inCall[u].want
                                      /\ IsOpen(table, fd)
                                      /\ Socket(table, fd) \notin Deleted}}

-----------------------------------------------------------------------------
(***************************************************************************)
(* Calls that change the table; a thread makes them while it is in no      *)
(* other call.                                                             *)
(***************************************************************************)
CloseSocket(t, fd) ==
  /\ At(t, "idle") /\ Close(fd)
  /\ Destruct /\ Remember(fd)
  /\ ready' = [s \in Sockets |-> ready[s] /\ s \notin Deleted]
  /\ UNCHANGED <<timer, pc, inCall>>

DupSocket(t, fd) ==
  /\ At(t, "idle") /\ Dup(fd, 0)
  /\ Remember(Lowest(Room(table, 0)))
  /\ UNCHANGED <<ready, fContexts, threadVars>>

Dup2Socket(t, fd, to) ==
  /\ At(t, "idle") /\ Dup2(fd, to)
  /\ IF corrupt' THEN UNCHANGED <<ready, fContexts, fWakeup, history>>
     ELSE /\ Destruct /\ Remember(to)
          /\ ready' = [s \in Sockets |-> ready[s] /\ s \notin Deleted]
  /\ UNCHANGED <<timer, pc, inCall>>

\* socket or open: a new socket, not the one that a call still points to.
OpenSocket(t, s) ==
  /\ At(t, "idle") /\ ~Exists(s) /\ Room(table, 0) # {}
  /\ \A u \in Contexts : inCall[u].sock # s
  /\ table' = Installed(table, s, 0) /\ UNCHANGED corrupt
  /\ Remember(Lowest(Room(table, 0)))
  /\ UNCHANGED <<ready, fContexts, threadVars>>

-----------------------------------------------------------------------------
(***************************************************************************)
(* Interrupts, which act as events of the sockets and timers.              *)
(***************************************************************************)
\* Something arrives for the socket.
SocketEvent(s) ==
  /\ ~corrupt /\ Exists(s) /\ ~ready[s]
  /\ ready' = [ready EXCEPT ![s] = TRUE]
  /\ WakeAll(Queued(s))
  /\ UNCHANGED <<tableVars, fContexts, timer, pc, inCall, history>>

\* GUSITimerProc.
TimerExpires(t) ==
  /\ ~corrupt /\ timer[t] = "primed"
  /\ timer' = [timer EXCEPT ![t] = "expired"]
  /\ WakeAll({t})
  /\ UNCHANGED <<tableVars, ready, fContexts, pc, inCall, history>>

-----------------------------------------------------------------------------
(***************************************************************************)
(* select.                                                                 *)
(***************************************************************************)
\* With a descriptor that is not open, select returns at once; otherwise
\* pre_select, and the timer of select_timed.
Select(t, want, mode) ==
  /\ At(t, "idle") /\ MayWait(t) /\ \A fd \in want : IsOpen(table, fd)
  /\ AddContexts(t, want)
  /\ timer' = [timer EXCEPT ![t] = IF mode = "timed" THEN "primed" ELSE "none"]
  /\ inCall' = [inCall EXCEPT ![t] =
                  [want |-> want, mode |-> mode, sock |-> NoSocket]]
  /\ moved' = [moved EXCEPT ![t] = {}]
  /\ Goto(t, "look")
  /\ UNCHANGED <<tableVars, ready, fWakeup, left>>

\* select_once finds a socket that is ready, or a descriptor that is closed.
Finds(t) ==
  \E fd \in inCall[t].want : LET s == Socket(table, fd)
                           IN s \notin Sockets \/ ready[s]

Answers(t) == Finds(t) \/ timer[t] = "expired"

Leave(t) ==
  /\ timer' = [timer EXCEPT ![t] = "none"]
  /\ inCall' = [inCall EXCEPT ![t] = NoCall]
  /\ moved' = [moved EXCEPT ![t] = {}]
  /\ Goto(t, "idle")

\* Mutant: an interrupted select returns without post_select.
LeaveQueued(t) == Leave(t) /\ UNCHANGED fContexts

\* post_select, for what is behind the descriptors now.
PostSelect(t) == Leave(t) /\ RemoveContexts(t, inCall[t].want)

\* select_once, and what select_forever and select_timed make of it.
Look(t) ==
  /\ At(t, "look") /\ inCall[t].mode # "poll"
  /\ IF Answers(t) THEN PostSelect(t)
     ELSE Goto(t, "asleep") /\ UNCHANGED <<fContexts, timer, inCall, moved>>
  /\ UNCHANGED <<tableVars, ready, fWakeup, left>>

\* A select that only polls yields before post_select.
LookOnce(t) ==
  /\ At(t, "look") /\ inCall[t].mode = "poll"
  /\ Goto(t, "post")
  /\ UNCHANGED <<tableVars, ready, fContexts, fWakeup, timer, inCall, history>>

AfterYield(t) ==
  /\ At(t, "post")
  /\ PostSelect(t)
  /\ fWakeup' \in {fWakeup, [fWakeup EXCEPT ![t] = FALSE]}
  /\ UNCHANGED <<tableVars, ready, left>>

WakesUp(t) ==
  /\ At(t, "asleep") /\ fWakeup[t]
  /\ fWakeup' = [fWakeup EXCEPT ![t] = FALSE]
  /\ Goto(t, "look")
  /\ UNCHANGED <<tableVars, ready, fContexts, timer, inCall, history>>

\* Yield answers that a signal has arrived: EINTR.
SelectInterrupted(t) ==
  /\ At(t, "asleep")
  /\ fWakeup' = [fWakeup EXCEPT ![t] = FALSE]
  /\ PostSelect(t)
  /\ UNCHANGED <<tableVars, ready, left>>

-----------------------------------------------------------------------------
(***************************************************************************)
(* A call that waits for one socket, which it keeps a pointer to, and      *)
(* sleep, which waits for its timer only.                                  *)
(***************************************************************************)
BeginRead(t, fd) ==
  /\ At(t, "idle") /\ MayWait(t) /\ IsOpen(table, fd)
  /\ LET s == Socket(table, fd)
     IN IF ready[s]
        THEN /\ ready' = [ready EXCEPT ![s] = FALSE]
             /\ UNCHANGED <<fContexts, pc, inCall>>
        ELSE /\ fContexts' = [fContexts EXCEPT ![s][t] = @ + 1]
             /\ inCall' = [inCall EXCEPT ![t] =
                             [NoCall EXCEPT !.mode = "read", !.sock = s]]
             /\ Goto(t, "reading")
             /\ UNCHANGED ready
  /\ UNCHANGED <<tableVars, fWakeup, timer, history>>

Dequeue(t) ==
  /\ fContexts' = [fContexts EXCEPT ![inCall[t].sock][t] = @ - 1]
  /\ Leave(t)

\* A signal, or something to read, ends the wait; a socket that has been
\* deleted meanwhile is used all the same.
ReadOn(t) ==
  /\ At(t, "reading") /\ fWakeup[t]
  /\ LET s == inCall[t].sock
     IN \/ ~Exists(s) /\ Corrupted
           /\ UNCHANGED <<ready, fContexts, threadVars, history>>
        \/ /\ Exists(s)
           /\ fWakeup' = [fWakeup EXCEPT ![t] = FALSE]
           /\ IF ready[s]
              THEN ready' = [ready EXCEPT ![s] = FALSE] /\ Dequeue(t)
              ELSE UNCHANGED <<ready, fContexts, timer, pc, inCall, moved>>
           /\ UNCHANGED <<tableVars, left>>

ReadInterrupted(t) ==
  /\ At(t, "reading") /\ Exists(inCall[t].sock)
  /\ fWakeup' = [fWakeup EXCEPT ![t] = FALSE]
  /\ Dequeue(t)
  /\ UNCHANGED <<tableVars, ready, left>>

\* Mutant: a wakeup from before is left.
ForgetWakeupsNot(t) == UNCHANGED fWakeup

ClearWakeups(t) == fWakeup' = [fWakeup EXCEPT ![t] = FALSE]

Sleep(t) ==
  /\ At(t, "idle")
  /\ ClearWakeups(t)
  /\ timer' = [timer EXCEPT ![t] = "primed"]
  /\ inCall' = [inCall EXCEPT ![t] = [NoCall EXCEPT !.mode = "sleep"]]
  /\ Goto(t, "sleeping")
  /\ UNCHANGED <<tableVars, ready, fContexts, history>>

SleepInterrupted(t) ==
  /\ At(t, "sleeping")
  /\ fWakeup' = [fWakeup EXCEPT ![t] = FALSE]
  /\ Leave(t)
  /\ UNCHANGED <<tableVars, ready, fContexts, left>>

\* The first wakeup, whatever it is for, ends the sleep.
SleepEnds(t) ==
  /\ At(t, "sleeping") /\ fWakeup[t]
  /\ fWakeup' = [fWakeup EXCEPT ![t] = FALSE]
  /\ Leave(t)
  /\ UNCHANGED <<tableVars, ready, fContexts, left>>

-----------------------------------------------------------------------------
SelectInit ==
  /\ TableInit
  /\ ready = [s \in Sockets |-> FALSE]
  /\ fContexts = [s \in Sockets |-> [t \in Contexts |-> 0]]
  /\ fWakeup = [t \in Contexts |-> FALSE]
  /\ timer = [t \in Contexts |-> "none"]
  /\ pc = [t \in Contexts |-> "idle"]
  /\ inCall = [t \in Contexts |-> NoCall]
  /\ moved = [t \in Contexts |-> {}] /\ left = {}

Continues(t) ==
  \/ Look(t) \/ LookOnce(t) \/ AfterYield(t) \/ WakesUp(t)
  \/ ReadOn(t) \/ SleepEnds(t)

Begins(t) ==
  \/ \E fd \in Descriptors :
       CloseSocket(t, fd) \/ DupSocket(t, fd) \/ BeginRead(t, fd)
  \/ \E fd, to \in Descriptors : Dup2Socket(t, fd, to)
  \/ \E s \in Sockets : OpenSocket(t, s)
  \/ \E want \in SUBSET Descriptors, mode \in {"forever", "timed", "poll"} :
       Select(t, want, mode)
  \/ Sleep(t)

SelectNext ==
  \/ \E t \in Contexts :
       Begins(t) \/ Continues(t) \/ SelectInterrupted(t) \/ ReadInterrupted(t)
       \/ SleepInterrupted(t) \/ TimerExpires(t)
  \/ \E s \in Sockets : SocketEvent(s)

SelectSpec == SelectInit /\ [][SelectNext]_selectVars

-----------------------------------------------------------------------------
\* The values of the variables; nobody is queued on a socket that is deleted.
SelectTypeOK ==
  /\ TableTypeOK
  /\ ready \in [Sockets -> BOOLEAN]
  /\ fContexts \in [Sockets -> [Contexts -> 0 .. SIZE + MaxLeft]]
  /\ fWakeup \in [Contexts -> BOOLEAN]
  /\ timer \in [Contexts -> {"none", "primed", "expired"}]
  /\ pc \in [Contexts ->
               {"idle", "look", "asleep", "post", "reading", "sleeping"}]
  /\ inCall \in [Contexts -> Calls]
  /\ \A s \in Sockets : ~Exists(s) => Queued(s) = {} /\ ~ready[s]

\* How often a context should be in the queue of a socket.
Due(t, s) ==
  IF Selecting(t) THEN Wanted(inCall[t].want, s)
  ELSE IF pc[t] = "reading" /\ inCall[t].sock = s THEN 1 ELSE 0

\* A context is in the queue of a socket as often as its call waits for the
\* socket, however the call ends.  post_select asks the descriptor table again
\* (GUSIPOSIX.cpp:660): where a descriptor of the select has been closed
\* meanwhile, and the socket lives on, the context stays in its queue for ever.
QueuedWhileWaiting ==
  ~corrupt => \A t \in Contexts, s \in Sockets :
    /\ fContexts[s][t] > Due(t, s) /\ Exists(s) => <<t, s>> \in left
    /\ fContexts[s][t] < Due(t, s) /\ Exists(s) => moved[t] # {}

\* No thread sleeps in a select that has an answer: none of its sockets is
\* ready, its timer runs and its descriptors are open, unless it has been
\* woken; but a descriptor that was closed while its socket lived on, or that
\* has been opened again, is not heard of (GUSIPOSIX.cpp:634).
SelectorWaits ==
  ~corrupt => \A t \in Contexts :
    pc[t] = "asleep" /\ ~fWakeup[t]
    => /\ timer[t] # "expired"
       /\ \A fd \in inCall[t].want \ moved[t] :
            LET s == Socket(table, fd) IN s \in Sockets /\ ~ready[s]

\* sleep is only cut short by a signal, or by a socket in whose queue an
\* earlier select has left the context; no wakeup that an earlier call did
\* not wait for disturbs it (GUSIPOSIX.cpp:159).
SleepUndisturbed ==
  [][\A t \in Contexts :
       /\ pc'[t] = "sleeping" /\ fWakeup'[t]
       /\ ~(pc[t] = "sleeping" /\ fWakeup[t])
       => \/ timer'[t] = "expired"
          \/ \E s \in Sockets : <<t, s>> \in left]_selectVars
=============================================================================
