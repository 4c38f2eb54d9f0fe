---------------------------- MODULE GUSIPThread ----------------------------
(***************************************************************************)
(* A pthread mutex and a condition variable (GUSIPThread.cpp).             *)
(*                                                                         *)
(* Both are queues of contexts; the front of the mutex's queue holds the   *)
(* lock.  Threads are cooperative, so that a call runs undisturbed up to   *)
(* its next GUSIContext::Yield: an action is one such stretch of a call.   *)
(* Yield(kGUSIBlock) comes back when the context has been woken, or when   *)
(* a signal is delivered to it, and clears fWakeup on its way (module      *)
(* GUSIContext).  Only the timer of pthread_cond_timedwait is an           *)
(* interrupt, and may fire between any two stretches.                      *)
(***************************************************************************)
EXTENDS Naturals, Sequences

CONSTANTS
  Threads,
  Nobody,   \* no thread
  MaxHolds  \* how often one thread may lock the mutex before it unlocks it

ASSUME ThreadsAssumption == Nobody \notin Threads
ASSUME HoldsAssumption == MaxHolds \in Nat \ {0}

VARIABLES
  mutex, fPolling, \* the queue of the mutex, and its flag
  cond,            \* the queue of the condition variable
  pc,              \* the Yield in which a thread is, or "user"
  fWakeup,
  timer,           \* the timer of a thread's pthread_cond_timedwait
  holds,           \* how many locks of the thread have returned
  overtakes        \* history: see Join

vars == <<mutex, fPolling, cond, pc, fWakeup, timer, holds, overtakes>>

Front(q, t) == q # <<>> /\ Head(q) = t

In(q, t) == \E i \in DOMAIN q : q[i] = t

\* GUSIContextQueue::remove takes out the first occurrence.
Removed(q, t) ==
  LET first == CHOOSE i \in DOMAIN q : q[i] = t /\ \A j \in 1 .. i - 1 : q[j] # t
  IN  IF In(q, t)
      THEN SubSeq(q, 1, first - 1) \o SubSeq(q, first + 1, Len(q))
      ELSE q

Goto(t, label) == pc' = [pc EXCEPT ![t] = label]

-----------------------------------------------------------------------------
(***************************************************************************)
(* Locking.  A condition wait ends in the same code: its thread waits for  *)
(* the mutex at "relock" where others wait at "lock".                      *)
(***************************************************************************)
\* The test of the loop in pthread_mutex_lock, with queue q.
TakeOrYield(t, q, label) ==
  IF Front(q, t)
  THEN /\ Goto(t, "user")
       /\ holds' = [holds EXCEPT ![t] = @ + 1]
       /\ timer' = [timer EXCEPT ![t] = "off"]
  ELSE Goto(t, label) /\ UNCHANGED <<holds, timer>>

(***************************************************************************)
(* A thread is queued behind all others, also one that has the lock.  If   *)
(* others wait, it has overtaken them: its next unlock will hand the lock  *)
(* to the first of them, and it still holds the lock it took here.         *)
(***************************************************************************)
Overtakes(t) == holds[t] > 0 /\ \E u \in Threads \ {t} : In(mutex, u)

Join(t) ==
  /\ mutex' = Append(mutex, t)
  /\ overtakes' = (overtakes \/ Overtakes(t))

\* Mutant: the new thread goes ahead of those that wait.
LockInFront(t) ==
  /\ pc[t] = "user" /\ holds[t] < MaxHolds
  /\ mutex' = <<t>> \o mutex
  /\ overtakes' = (overtakes \/ Overtakes(t))
  /\ TakeOrYield(t, mutex', "lock")
  /\ UNCHANGED <<fPolling, cond, fWakeup>>

Lock(t) ==
  /\ pc[t] = "user" /\ holds[t] < MaxHolds
  /\ Join(t)
  /\ TakeOrYield(t, mutex', "lock")
  /\ UNCHANGED <<fPolling, cond, fWakeup>>

\* Yield comes back to the loop.
LockAgain(t) ==
  /\ pc[t] \in {"lock", "relock"}
  /\ fWakeup' = [fWakeup EXCEPT ![t] = FALSE]
  /\ TakeOrYield(t, mutex, pc[t])
  /\ UNCHANGED <<mutex, fPolling, cond, overtakes>>

Trylock(t) ==
  /\ pc[t] = "user" /\ holds[t] < MaxHolds
  /\ IF mutex = <<>> \/ Front(mutex, t)
     THEN /\ Join(t)
          /\ holds' = [holds EXCEPT ![t] = @ + 1]
          /\ UNCHANGED <<fPolling, pc>>
     ELSE /\ fPolling' = TRUE
          /\ Goto(t, "yield")
          /\ UNCHANGED <<mutex, holds, overtakes>>
  /\ UNCHANGED <<cond, fWakeup, timer>>

\* The voluntary Yield of trylock and unlock; it clears fWakeup unless the
\* time slice is not over yet.
YieldOver(t) ==
  /\ pc[t] = "yield"
  /\ Goto(t, "user")
  /\ \/ fWakeup' = [fWakeup EXCEPT ![t] = FALSE]
     \/ UNCHANGED fWakeup
  /\ UNCHANGED <<mutex, fPolling, cond, timer, holds, overtakes>>

\* Mutant: the new front of the queue is not woken.
WakeFrontNot(q) == fWakeup

\* fWakeup once the front of queue q, the new lock owner, has been woken.
WakeFront(q) == IF q = <<>> THEN fWakeup ELSE [fWakeup EXCEPT ![Head(q)] = TRUE]

\* Mutant: whoever calls it unlocks the mutex.
UnlockAnyone(t) ==
  /\ pc[t] = "user" /\ mutex # <<>>
  /\ mutex' = Tail(mutex)
  /\ holds' = [holds EXCEPT ![t] = @ - 1]
  /\ fWakeup' = WakeFront(Tail(mutex))
  /\ fPolling' = FALSE
  /\ Goto(t, IF fPolling THEN "yield" ELSE "user")
  /\ UNCHANGED <<cond, timer, overtakes>>

\* Unlocking a mutex that t does not hold fails with EPERM.
Unlock(t) ==
  /\ pc[t] = "user" /\ Front(mutex, t)
  /\ mutex' = Tail(mutex)
  /\ holds' = [holds EXCEPT ![t] = @ - 1]
  /\ fWakeup' = WakeFront(Tail(mutex))
  /\ fPolling' = FALSE
  /\ Goto(t, IF fPolling THEN "yield" ELSE "user")
  /\ UNCHANGED <<cond, timer, overtakes>>

-----------------------------------------------------------------------------
(***************************************************************************)
(* The condition variable.                                                 *)
(***************************************************************************)
CondWait(t) ==
  /\ pc[t] = "user" /\ Front(mutex, t)
  /\ mutex' = Tail(mutex)
  /\ holds' = [holds EXCEPT ![t] = @ - 1]
  /\ fWakeup' = WakeFront(Tail(mutex))
  /\ cond' = Append(cond, t)
  /\ Goto(t, "wait")
  /\ UNCHANGED <<fPolling, timer, overtakes>>

\* The same with a timer, and with wakeups that came before it forgotten.
CondTimedwait(t) ==
  /\ pc[t] = "user" /\ Front(mutex, t)
  /\ mutex' = Tail(mutex)
  /\ holds' = [holds EXCEPT ![t] = @ - 1]
  /\ fWakeup' = [WakeFront(Tail(mutex)) EXCEPT ![t] = FALSE]
  /\ cond' = Append(cond, t)
  /\ timer' = [timer EXCEPT ![t] = "primed"]
  /\ Goto(t, "wait")
  /\ UNCHANGED <<fPolling, overtakes>>

\* The interrupt of the timer; it may come after the wait, during the relock.
TimerFires(t) ==
  /\ timer[t] = "primed"
  /\ timer' = [timer EXCEPT ![t] = "expired"]
  /\ fWakeup' = [fWakeup EXCEPT ![t] = TRUE]
  /\ UNCHANGED <<mutex, fPolling, cond, pc, holds, overtakes>>

\* Mutant: the thread takes itself for the owner when the wait is over.
WaitOverUnlocked(t) ==
  /\ pc[t] = "wait"
  /\ cond' = Removed(cond, t)
  /\ fWakeup' = [fWakeup EXCEPT ![t] = FALSE]
  /\ mutex' = <<t>> \o mutex
  /\ overtakes' = (overtakes \/ Overtakes(t))
  /\ TakeOrYield(t, mutex', "relock")
  /\ UNCHANGED fPolling

\* Yield comes back to the wait, which goes on to lock the mutex.
WaitOver(t) ==
  /\ pc[t] = "wait"
  /\ cond' = Removed(cond, t)
  /\ fWakeup' = [fWakeup EXCEPT ![t] = FALSE]
  /\ Join(t)
  /\ TakeOrYield(t, mutex', "relock")
  /\ UNCHANGED fPolling

\* The front is woken, and stays in the queue until it runs.
CondSignal(t) ==
  /\ pc[t] = "user"
  /\ fWakeup' = WakeFront(cond)
  /\ UNCHANGED <<mutex, fPolling, cond, pc, timer, holds, overtakes>>

CondBroadcast(t) ==
  /\ pc[t] = "user"
  /\ fWakeup' = [u \in Threads |-> fWakeup[u] \/ In(cond, u)]
  /\ UNCHANGED <<mutex, fPolling, cond, pc, timer, holds, overtakes>>

\* Mutant: the waiting threads are not woken.
CondDestroySilently(t) ==
  /\ pc[t] = "user"
  /\ cond' = <<>>
  /\ UNCHANGED <<mutex, fPolling, pc, fWakeup, timer, holds, overtakes>>

\* The next use of the variable creates a new queue.
CondDestroy(t) ==
  /\ pc[t] = "user"
  /\ fWakeup' = [u \in Threads |-> fWakeup[u] \/ In(cond, u)]
  /\ cond' = <<>>
  /\ UNCHANGED <<mutex, fPolling, pc, timer, holds, overtakes>>

-----------------------------------------------------------------------------
Init ==
  /\ mutex = <<>> /\ fPolling = FALSE
  /\ cond = <<>>
  /\ pc = [t \in Threads |-> "user"]
  /\ fWakeup = [t \in Threads |-> FALSE]
  /\ timer = [t \in Threads |-> "off"]
  /\ holds = [t \in Threads |-> 0]
  /\ overtakes = FALSE

UserCode(t) ==
  \/ Lock(t) \/ Trylock(t) \/ Unlock(t)
  \/ CondWait(t) \/ CondTimedwait(t)
  \/ CondSignal(t) \/ CondBroadcast(t) \/ CondDestroy(t)

Resume(t) == LockAgain(t) \/ WaitOver(t)

Next ==
  \E t \in Threads :
    UserCode(t) \/ Resume(t) \/ YieldOver(t) \/ TimerFires(t)

Spec == Init /\ [][Next]_vars

(***************************************************************************)
(* A context that has been woken comes back from Yield (WaitsEnd in module *)
(* GUSIContext); one that has not may be brought back by a signal, or      *)
(* never.  Whoever holds the lock gives it up in the end.                  *)
(***************************************************************************)
Fairness ==
  \A t \in Threads :
    /\ WF_vars(fWakeup[t] /\ Resume(t))
    /\ WF_vars(YieldOver(t))
    /\ SF_vars(Unlock(t))

FairSpec == Spec /\ Fairness

-----------------------------------------------------------------------------
TypeOK ==
  /\ mutex \in Seq(Threads) /\ cond \in Seq(Threads)
  /\ fPolling \in BOOLEAN
  /\ pc \in [Threads -> {"user", "lock", "relock", "yield", "wait"}]
  /\ fWakeup \in [Threads -> BOOLEAN]
  /\ timer \in [Threads -> {"off", "primed", "expired"}]
  /\ holds \in [Threads -> 0 .. MaxHolds]
  /\ overtakes \in BOOLEAN

(***************************************************************************)
(* "The frontmost context holding the lock": a thread whose lock has       *)
(* returned is at the front of the queue until it has unlocked as often as *)
(* it has locked, so that no two threads hold the mutex, whatever waits,   *)
(* times out or polls meanwhile -- unless a holder has overtaken others.   *)
(***************************************************************************)
HolderInFront ==
  ~overtakes => \A t \in Threads : holds[t] > 0 => Front(mutex, t)

(***************************************************************************)
(* "Unlocking pops us off the queue and wakes up the new lock owner": the  *)
(* front of the queue is never a thread that sleeps and has not been       *)
(* woken, so that the mutex cannot be free with everybody waiting for it.  *)
(***************************************************************************)
OwnerAwake ==
  \A t \in Threads :
    pc[t] \in {"lock", "relock"} /\ Front(mutex, t) => fWakeup[t]

(***************************************************************************)
(* A thread that waits for the condition and has not been woken is in the  *)
(* queue, where a signal, broadcast or destroy will find it.               *)
(***************************************************************************)
WaiterReachable ==
  \A t \in Threads : pc[t] = "wait" /\ ~fWakeup[t] => In(cond, t)

(***************************************************************************)
(* Every lock, and every condition wait that has been woken, returns,      *)
(* unless a thread waits for the condition with a lock that it keeps: a    *)
(* wait gives up one.                                                      *)
(***************************************************************************)
LockReturns ==
  \A t \in Threads :
    (pc[t] \in {"lock", "relock"} \/ (pc[t] = "wait" /\ fWakeup[t]))
      ~> \/ pc[t] = "user"
         \/ \E u \in Threads : pc[u] = "wait" /\ holds[u] > 0

Owner ==
  IF \E t \in Threads : holds[t] > 0
  THEN CHOOSE t \in Threads : holds[t] > 0
  ELSE Nobody

Depth == IF Owner = Nobody THEN 0 ELSE holds[Owner]

Waiting == {t \in Threads : pc[t] \in {"wait", "relock"}}

\* The mutex and the condition variable implement a monitor.
AbstractMonitor ==
  INSTANCE Monitor WITH owner <- Owner, depth <- Depth, waiting <- Waiting,
                        overtaken <- overtakes

ImplementsMonitor == AbstractMonitor!Spec
=============================================================================
