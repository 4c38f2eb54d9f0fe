---------------------------- MODULE GUSIContext ----------------------------
(***************************************************************************)
(* Contexts and the process: GUSIContext and GUSIProcess                   *)
(* (GUSIContext.cpp; the bodies of SwitchIn, Terminate and FinishSetup are *)
(* in original_nw/src/GUSIContext.nw).                                     *)
(*                                                                         *)
(* Contexts are cooperative threads.  At most one runs, and it keeps the   *)
(* processor until it calls Yield; interrupt code, which completes an      *)
(* asynchronous call and then calls Wakeup, runs between any two steps of  *)
(* it.  A context is followed through GUSIContext::Yield, the Thread       *)
(* Manager's switch procedures and, for the main context, through          *)
(* GUSIProcess::Yield, which puts the whole process to sleep, one step for *)
(* every access to state that Wakeup shares.  The signal check of Yield is *)
(* not part of this module.                                                *)
(***************************************************************************)
EXTENDS Naturals, FiniteSets, SequencesExt

CONSTANTS
  Main,       \* the context of the application thread
  Threads,    \* the other contexts
  Nobody,     \* no context
  RoundRobin  \* whether the Thread Manager serves ready threads in turn

ASSUME ContextsAssumption ==
  /\ Main \notin Threads /\ Nobody \notin Threads \cup {Main}
  /\ IsFiniteSet(Threads)
  /\ RoundRobin \in BOOLEAN

Contexts == Threads \cup {Main}

VARIABLES
  current,    \* the context that has the processor
  queue,      \* the ready contexts, as the Thread Manager queues them
  alive,      \* the contexts that have been set up and not terminated
  pc,         \* where a context is in Yield, or "user", or "unused"
  goal,       \* why it called Yield: "yield", "io", "join"
  target,     \* the context it joins
  fWakeup,
  asleep, finished, detached, \* the contexts with that bit in fFlags
  fJoin,
  io,         \* the parameter block of a context's asynchronous call
  fReadyThreads, fExistingThreads,
  fDontSleep, fWillSleep,
  wait,       \* the local wait of GUSIProcess::Yield
  roused      \* WakeUpProcess was called since the last WaitNextEvent

threadVars  == <<current, queue, alive, pc, goal, target>>
contextVars == <<fWakeup, asleep, finished, detached, fJoin, io>>
processVars == <<fReadyThreads, fExistingThreads, fDontSleep, fWillSleep,
                 wait, roused>>
vars == <<threadVars, contextVars, processVars>>

Queued == {queue[i] : i \in DOMAIN queue}

\* Between the call that stops a thread and its end, GUSIContext::SwitchOut.
Leaving == {"stopped", "seenStopped", "readyAgain", "fallAsleep"}

\* The Thread Manager's kStoppedThreadState.
Stopped(t) == t \in alive \ Queued /\ pc[t] \in Leaving \cup {"out"}

\* SetThreadReadyGivenTaskRef, which only applies to a thread that is stopped:
\* Wakeup calls it in whatever state the thread is.
ReadyQueue(t) == IF Stopped(t) THEN Append(queue, t) ELSE queue

At(t, label) == current = t /\ pc[t] = label

Goto(t, label) == pc' = [pc EXCEPT ![t] = label]

-----------------------------------------------------------------------------
\* GUSIContext::Wakeup, which calls GUSIProcess::Wakeup.
Wakeup(t) ==
  IF fWakeup[t]
  THEN UNCHANGED <<fWakeup, queue, fDontSleep, roused>>
  ELSE /\ fWakeup' = [fWakeup EXCEPT ![t] = TRUE]
       /\ queue' = ReadyQueue(t)
       /\ fDontSleep' = TRUE
       /\ roused' = (roused \/ (~fDontSleep /\ fWillSleep))

NoWakeup == UNCHANGED <<fWakeup, queue, fDontSleep, roused>>

(***************************************************************************)
(* What the code of a context does.                                        *)
(***************************************************************************)
Create(t, u, detach) ==
  /\ At(t, "user") /\ pc[u] = "unused"
  /\ alive' = alive \cup {u}
  /\ queue' = Append(queue, u)
  /\ pc' = [pc EXCEPT ![u] = "new"]
  /\ fWakeup' = [fWakeup EXCEPT ![u] = FALSE]
  /\ fJoin' = [fJoin EXCEPT ![u] = Nobody]
  /\ detached' = IF detach THEN detached \cup {u} ELSE detached
  /\ fReadyThreads' = fReadyThreads + 1
  /\ fExistingThreads' = fExistingThreads + 1
  /\ UNCHANGED <<current, goal, target, asleep, finished, io, fDontSleep,
                 fWillSleep, wait, roused>>

\* GUSIStartIO and the asynchronous call; Context(pb) is still nil.
StartIO(t) ==
  /\ At(t, "user") /\ io[t] = "none"
  /\ io' = [io EXCEPT ![t] = "started"]
  /\ UNCHANGED <<threadVars, fWakeup, asleep, finished, detached, fJoin,
                 processVars>>

\* GUSIFinishIO up to its loop.
FinishIO(t) ==
  /\ At(t, "user") /\ io[t] # "none"
  /\ io' = [io EXCEPT ![t] = IF @ = "started" THEN "awaited" ELSE @]
  /\ Goto(t, "check") /\ goal' = [goal EXCEPT ![t] = "io"]
  /\ UNCHANGED <<current, queue, alive, target, fWakeup, asleep, finished,
                 detached, fJoin, processVars>>

\* The interrupt at the end of an asynchronous call: GUSIIODone.
IODone(t) ==
  /\ io[t] \in {"started", "awaited"}
  /\ io' = [io EXCEPT ![t] = "done"]
  /\ IF io[t] = "awaited" THEN Wakeup(t) ELSE NoWakeup
  /\ UNCHANGED <<current, alive, pc, goal, target, asleep, finished, detached,
                 fJoin, fReadyThreads, fExistingThreads, fWillSleep, wait>>

Detach(t, u) ==
  /\ At(t, "user") /\ pc[u] # "unused" /\ fJoin[u] = Nobody
  /\ detached' = detached \cup {u}
  /\ UNCHANGED <<threadVars, fWakeup, asleep, finished, fJoin, io, processVars>>

\* pthread_join calls Done(true).  Where u is being joined by another context
\* Done fails at once and nothing changes; a program that joins a thread again
\* once it has terminated (undefined in POSIX) is left out.
Join(t, u) ==
  /\ At(t, "user") /\ u # t /\ pc[u] # "unused" /\ u \notin detached
  /\ fJoin[u] = Nobody
  /\ IF u \in finished THEN UNCHANGED fJoin
                       ELSE fJoin' = [fJoin EXCEPT ![u] = t]
  /\ Goto(t, "check")
  /\ goal' = [goal EXCEPT ![t] = "join"] /\ target' = [target EXCEPT ![t] = u]
  /\ UNCHANGED <<current, queue, alive, fWakeup, asleep, finished, detached,
                 io, processVars>>

\* The loop conditions of GUSIFinishIO and Done; a join ends in Liquidate.
CheckIO(t) ==
  /\ At(t, "check") /\ goal[t] = "io"
  /\ IF io[t] = "done"
     THEN Goto(t, "user") /\ io' = [io EXCEPT ![t] = "none"]
     ELSE Goto(t, "yield") /\ UNCHANGED io
  /\ UNCHANGED <<current, queue, alive, goal, target, fWakeup, asleep,
                 finished, detached, fJoin, processVars>>

CheckJoin(t) ==
  /\ At(t, "check") /\ goal[t] = "join"
  /\ IF target[t] \in finished
     THEN /\ pc' = [pc EXCEPT ![t] = "user", ![target[t]] = "unused"]
          /\ finished' = finished \ {target[t]}
          /\ target' = [target EXCEPT ![t] = Nobody]
     ELSE Goto(t, "yield") /\ UNCHANGED <<finished, target>>
  /\ UNCHANGED <<current, queue, alive, goal, fWakeup, asleep, detached,
                 fJoin, io, processVars>>

\* A voluntary Yield when the time slice of 12 ticks is over.
YieldSlice(t) ==
  /\ At(t, "user")
  /\ Goto(t, "yield") /\ goal' = [goal EXCEPT ![t] = "yield"]
  /\ UNCHANGED <<current, queue, alive, target, contextVars, processVars>>

\* Mutant: the joining context is not woken.
WakeJoinerNot(t) == NoWakeup

WakeJoiner(t) == IF fJoin[t] # Nobody THEN Wakeup(fJoin[t]) ELSE NoWakeup

\* DisposeThread by the thread itself, which calls GUSIContext::Terminate.
Terminate(t) ==
  /\ t # Main /\ At(t, "user") /\ io[t] = "none"
  /\ fExistingThreads' = fExistingThreads - 1
  /\ fReadyThreads' = IF t \in asleep THEN fReadyThreads ELSE fReadyThreads - 1
  /\ alive' = alive \ {t}
  /\ IF t \in detached
     THEN /\ Goto(t, "unused") /\ detached' = detached \ {t}
          /\ NoWakeup /\ UNCHANGED finished
     ELSE /\ Goto(t, "dead") /\ finished' = finished \cup {t}
          /\ WakeJoiner(t)
          /\ UNCHANGED detached
  /\ UNCHANGED <<current, goal, target, asleep, fJoin, io, fWillSleep, wait>>

-----------------------------------------------------------------------------
(***************************************************************************)
(* GUSIContext::Yield.  A thread that blocks is stopped; the main context  *)
(* goes through GUSIProcess::Yield and then yields to any thread.          *)
(***************************************************************************)
StopThread(t) ==
  /\ t # Main /\ At(t, "yield") /\ goal[t] # "yield"
  /\ Goto(t, "stopped")
  /\ UNCHANGED <<current, queue, alive, goal, target, contextVars, processVars>>

\* YieldToAnyThread, which leaves the caller ready.
YieldToAnyThread(t) ==
  /\ At(t, IF t = Main THEN "resumed" ELSE "yield")
  /\ t # Main => goal[t] = "yield"
  /\ IF queue = <<>>
     THEN Goto(t, "test") /\ UNCHANGED queue
     ELSE Goto(t, "out") /\ queue' = Append(queue, t)
  /\ UNCHANGED <<current, alive, goal, target, contextVars, processVars>>

\* GUSIContext::SwitchOut of a thread that has been stopped.  It looks at the
\* state of the thread, then at fWakeup, and acts on what it has seen; a Wakeup
\* from an interrupt may come before each of these steps.
ReadState(t) ==
  /\ At(t, "stopped")
  /\ Goto(t, IF Stopped(t) THEN "seenStopped" ELSE "out")
  /\ UNCHANGED <<current, queue, alive, goal, target, contextVars, processVars>>

\* Mutant: fWakeup is not looked at.
ReadWakeupNot(t) ==
  /\ At(t, "seenStopped")
  /\ Goto(t, "fallAsleep")
  /\ UNCHANGED <<current, queue, alive, goal, target, contextVars, processVars>>

ReadWakeup(t) ==
  /\ At(t, "seenStopped")
  /\ Goto(t, IF fWakeup[t] THEN "readyAgain" ELSE "fallAsleep")
  /\ UNCHANGED <<current, queue, alive, goal, target, contextVars, processVars>>

ReadyAgain(t) ==
  /\ At(t, "readyAgain")
  /\ Goto(t, "out")
  /\ queue' = ReadyQueue(t)
  /\ UNCHANGED <<current, alive, goal, target, contextVars, processVars>>

\* Mutant: the thread is counted out and the asleep flag not set.
FallAsleepUnmarked(t) ==
  /\ At(t, "fallAsleep")
  /\ Goto(t, "out")
  /\ fReadyThreads' = fReadyThreads - 1
  /\ UNCHANGED <<current, queue, alive, goal, target, contextVars,
                 fExistingThreads, fDontSleep, fWillSleep, wait, roused>>

FallAsleep(t) ==
  /\ At(t, "fallAsleep")
  /\ Goto(t, "out")
  /\ asleep' = asleep \cup {t}
  /\ fReadyThreads' = fReadyThreads - 1
  /\ UNCHANGED <<current, queue, alive, goal, target, fWakeup, finished,
                 detached, fJoin, io, fExistingThreads, fDontSleep, fWillSleep,
                 wait, roused>>

SwitchOut(t) == ReadState(t) \/ ReadWakeup(t) \/ ReadyAgain(t) \/ FallAsleep(t)

\* The Thread Manager gives the processor to a ready thread.
Dispatch(t) ==
  /\ pc[current] \in {"out", "dead", "unused"}
  /\ \E i \in DOMAIN queue :
       /\ queue[i] = t /\ (RoundRobin => i = 1)
       /\ queue' = RemoveAt(queue, i)
  /\ current' = t
  /\ Goto(t, IF pc[t] = "new" THEN "newIn" ELSE "in")
  /\ UNCHANGED <<alive, goal, target, contextVars, processVars>>

\* Mutant: the asleep flag is not reset.
SwitchInAsleep(t) ==
  /\ At(t, "in") \/ At(t, "newIn")
  /\ Goto(t, IF pc[t] = "newIn" THEN "user" ELSE "test")
  /\ IF t \in asleep
     THEN fReadyThreads' = fReadyThreads + 1 /\ fDontSleep' = FALSE
     ELSE UNCHANGED <<fReadyThreads, fDontSleep>>
  /\ UNCHANGED <<current, queue, alive, goal, target, asleep, fWakeup, finished,
                 detached, fJoin, io, fExistingThreads, fWillSleep, wait,
                 roused>>

SwitchIn(t) ==
  /\ At(t, "in") \/ At(t, "newIn")
  /\ Goto(t, IF pc[t] = "newIn" THEN "user" ELSE "test")
  /\ IF t \in asleep
     THEN /\ asleep' = asleep \ {t}
          /\ fReadyThreads' = fReadyThreads + 1
          /\ fDontSleep' = FALSE
     ELSE UNCHANGED <<asleep, fReadyThreads, fDontSleep>>
  /\ UNCHANGED <<current, queue, alive, goal, target, fWakeup, finished,
                 detached, fJoin, io, fExistingThreads, fWillSleep, wait,
                 roused>>

\* The loop condition of Yield, and its way out.
TestWakeup(t) ==
  /\ At(t, "test")
  /\ IF goal[t] = "yield" \/ fWakeup[t]
     THEN /\ Goto(t, IF goal[t] = "yield" THEN "user" ELSE "check")
          /\ fWakeup' = [fWakeup EXCEPT ![t] = FALSE]
     ELSE Goto(t, "yield") /\ UNCHANGED fWakeup
  /\ UNCHANGED <<current, queue, alive, goal, target, asleep, finished,
                 detached, fJoin, io, processVars>>

-----------------------------------------------------------------------------
(***************************************************************************)
(* GUSIProcess::Yield, called by the main context.                         *)
(***************************************************************************)
MainStep(from, to) == At(Main, from) /\ Goto(Main, to)

onlyProcess == <<current, queue, alive, goal, target, contextVars,
                 fReadyThreads, fExistingThreads>>

AnnounceSleep ==
  /\ MainStep("yield", IF goal[Main] = "yield" THEN "skipOnce" ELSE "decide")
  /\ wait' = IF goal[Main] = "yield" THEN "yield" ELSE "block"
  /\ fWillSleep' = (fWillSleep \/ goal[Main] # "yield")
  /\ UNCHANGED <<onlyProcess, fDontSleep, roused>>

\* Mutant: a wakeup that has already come is not looked at.
DecideSleepUnwarned ==
  /\ MainStep("decide", "skipOnce")
  /\ wait' = IF fReadyThreads > 1 THEN "yield" ELSE "block"
  /\ UNCHANGED <<onlyProcess, fDontSleep, fWillSleep, roused>>

DecideSleep ==
  /\ MainStep("decide", "skipOnce")
  /\ wait' = IF fReadyThreads > 1 \/ fDontSleep THEN "yield" ELSE "block"
  /\ UNCHANGED <<onlyProcess, fDontSleep, fWillSleep, roused>>

\* "Single threaded process skips sleep only once", before and after the event.
SkipSleepOnce(from, to) ==
  /\ MainStep(from, to)
  /\ fDontSleep' = (fDontSleep /\ fExistingThreads >= 2)

BeforeEvent ==
  /\ SkipSleepOnce("skipOnce", "event")
  /\ UNCHANGED <<onlyProcess, fWillSleep, wait, roused>>

\* Less than 20 ticks since the last event: no event is asked for.
SkipEvent ==
  /\ MainStep("event", "resumed") /\ wait = "yield"
  /\ fWillSleep' = FALSE
  /\ UNCHANGED <<onlyProcess, fDontSleep, wait, roused>>

\* WaitNextEvent returns: an event, WakeUpProcess, or 60 ticks without one.
NextEvent ==
  /\ MainStep("event", "handled")
  /\ roused' = FALSE
  /\ UNCHANGED <<onlyProcess, fDontSleep, fWillSleep, wait>>

AfterEvent ==
  /\ SkipSleepOnce("handled", "resumed")
  /\ fWillSleep' = FALSE
  /\ UNCHANGED <<onlyProcess, wait, roused>>

-----------------------------------------------------------------------------
Init ==
  /\ current = Main
  /\ queue = <<>>
  /\ alive = {Main}
  /\ pc = [t \in Contexts |-> IF t = Main THEN "user" ELSE "unused"]
  /\ goal = [t \in Contexts |-> "yield"]
  /\ target = [t \in Contexts |-> Nobody]
  /\ fWakeup = [t \in Contexts |-> FALSE]
  /\ asleep = {} /\ finished = {} /\ detached = {}
  /\ fJoin = [t \in Contexts |-> Nobody]
  /\ io = [t \in Contexts |-> "none"]
  /\ fReadyThreads = 1 /\ fExistingThreads = 1
  /\ fDontSleep = FALSE /\ fWillSleep = FALSE
  /\ wait = "yield" /\ roused = FALSE

UserCode(t) ==
  \/ StartIO(t) \/ FinishIO(t) \/ YieldSlice(t) \/ Terminate(t)
  \/ \E u \in Threads : Join(t, u) \/ Detach(t, u)
  \/ \E u \in Threads, detach \in BOOLEAN : Create(t, u, detach)

YieldCode(t) ==
  \/ CheckIO(t) \/ CheckJoin(t)
  \/ StopThread(t) \/ YieldToAnyThread(t)
  \/ SwitchOut(t) \/ SwitchIn(t) \/ TestWakeup(t)

ProcessYield ==
  \/ AnnounceSleep \/ DecideSleep \/ BeforeEvent
  \/ SkipEvent \/ NextEvent \/ AfterEvent

Next ==
  \/ ProcessYield
  \/ \E t \in Contexts :
       UserCode(t) \/ YieldCode(t) \/ IODone(t) \/ Dispatch(t)

Spec == Init /\ [][Next]_vars

(***************************************************************************)
(* The processor executes the code of the library, WaitNextEvent comes     *)
(* back after 60 ticks at the latest, and asynchronous calls complete.  A  *)
(* ready thread is not passed over for ever by the Thread Manager, and,    *)
(* threads being cooperative, the code of each yields from time to time.   *)
(***************************************************************************)
Fairness ==
  /\ WF_vars(ProcessYield)
  /\ \A t \in Contexts :
       /\ WF_vars(YieldCode(t)) /\ WF_vars(IODone(t))
       /\ SF_vars(Dispatch(t)) /\ SF_vars(YieldSlice(t))

FairSpec == Spec /\ Fairness

-----------------------------------------------------------------------------
Labels == {"unused", "new", "newIn", "user", "check", "yield", "out", "in",
           "test", "dead", "decide", "skipOnce", "event", "handled", "resumed"}
          \cup Leaving

TypeOK ==
  /\ current \in Contexts
  /\ queue \in Seq(Contexts) /\ IsInjective(queue)
  /\ alive \subseteq Contexts /\ Main \in alive
  /\ pc \in [Contexts -> Labels]
  /\ goal \in [Contexts -> {"yield", "io", "join"}]
  /\ target \in [Contexts -> Threads \cup {Nobody}]
  /\ fWakeup \in [Contexts -> BOOLEAN]
  /\ asleep \subseteq alive /\ finished \subseteq Threads
  /\ detached \subseteq Threads
  /\ fJoin \in [Contexts -> Contexts \cup {Nobody}]
  /\ io \in [Contexts -> {"none", "started", "awaited", "done"}]
  /\ fReadyThreads \in Nat /\ fExistingThreads \in Nat
  /\ fDontSleep \in BOOLEAN /\ fWillSleep \in BOOLEAN
  /\ wait \in {"yield", "block"} /\ roused \in BOOLEAN

(***************************************************************************)
(* fReadyThreads and fExistingThreads, which the switch procedures and     *)
(* Terminate keep up to date one by one and GUSIProcess::Yield relies on,  *)
(* are the numbers of contexts that are awake and that exist.              *)
(***************************************************************************)
CountsAgree ==
  /\ fExistingThreads = Cardinality(alive)
  /\ fReadyThreads = Cardinality(alive \ asleep)

\* Context t is inside the Yield of a GUSIFinishIO or Done.
Blocking(t) ==
  /\ goal[t] # "yield" /\ pc[t] \notin {"unused", "new", "newIn", "dead"}
  /\ pc[t] \notin {"user", "check"}

Fulfilled(t) == IF goal[t] = "io" THEN io[t] = "done" ELSE target[t] \in finished

(***************************************************************************)
(* The race that GUSIContext::Wakeup is written against: the call (or the  *)
(* thread that is joined) may complete at any time before the caller is    *)
(* asleep.  A context whose wait is over has been woken, and one that has  *)
(* been woken does not stay stopped.                                       *)
(***************************************************************************)
WakeupNotLost ==
  \A t \in alive :
    /\ Blocking(t) /\ Fulfilled(t) => fWakeup[t]
    /\ fWakeup[t] /\ pc[t] = "out" => t \in Queued

(***************************************************************************)
(* The same race for the process: WaitNextEvent does not sleep on a wakeup *)
(* of the main context, unless WakeUpProcess cuts that sleep short.        *)
(***************************************************************************)
MainSleepsUnwoken ==
  pc[Main] = "event" /\ wait = "block" /\ ~roused => ~fWakeup[Main]

\* What a context waits for is noticed: it leaves GUSIFinishIO, and Done.
WaitsEnd ==
  \A t \in Contexts : Blocking(t) /\ Fulfilled(t) ~> ~Blocking(t)
=============================================================================
