---------------------------- MODULE GUSISignal ----------------------------
(***************************************************************************)
(* Signals: GUSISigProcess, GUSISigContext and the POSIX functions         *)
(* (GUSISignal.cpp, and the signal part of GUSIContext.cpp; the bodies of  *)
(* SetAction, DefaultIsIgnore and DefaultAction are in GUSISignal.nw).     *)
(*                                                                         *)
(* A signal is pending against the process or against one context and is   *)
(* delivered by the contexts themselves, when they call Raise or wait in   *)
(* Yield, SigWait or SigSuspend.  A handler is code of the program, which  *)
(* runs on top of the loop that called it and may start such a loop of its *)
(* own: calls[c] is the stack of the loops context c is in.  The alarm is  *)
(* the only signal that is posted at interrupt level, between any two      *)
(* steps.  What GUSIContext models of Yield (the sleep of the process, the *)
(* counts) is one step here.                                               *)
(***************************************************************************)
EXTENDS Integers, FiniteSets, SequencesExt, FiniteSetsExt

CONSTANTS
  Contexts, Main,     \* the contexts, and that of the application thread
  Process,            \* the process, as what a signal is posted against
  Signals,            \* the signals, as the numbers they have
  Alarm,              \* SIGALRM
  Sent,               \* the signals the program sends
  CantBlock,          \* the signals that can not be blocked,
  CantChange,         \* that can be neither caught nor ignored,
  DefaultIsIgnore,    \* and that are ignored by default
  Actions,            \* the actions sigaction is called with for a signal
  Masks,              \* the masks the program uses
  MaxPosts, MaxCalls  \* bounds: posts of a behaviour, nested loops

ASSUME SignalAssumption ==
  /\ Main \in Contexts /\ Process \notin Contexts
  /\ Signals \subseteq Nat \ {0} /\ Alarm \in Signals
  /\ Sent \cup CantBlock \cup CantChange \cup DefaultIsIgnore \subseteq Signals
  /\ \A m \in Masks : m \subseteq Signals
  /\ MaxPosts \in Nat /\ MaxCalls \in Nat

\* struct sigaction.
Action(handler, mask, flags) ==
  [sa_handler |-> handler, sa_mask |-> mask, sa_flags |-> flags]

Dispositions == [sa_handler : {"ignore", "default", "catch"},
                 sa_mask : SUBSET Signals,
                 sa_flags : SUBSET {"restart", "resethand", "nodefer"}]

ASSUME ActionsAssumption == \A s \in Signals : Actions[s] \subseteq Dispositions

VARIABLES
  process,    \* "runs", "exited", or "wild": it has jumped to SIG_DFL
  current,    \* the context that has the processor
  ready,      \* the other contexts that may get it
  pc,         \* where a context is
  goal,       \* what it waits for: [op, sigs, save]
  fWakeup,
  procPending, ctxPending,   \* fPending of the process, of each context
  fBlocked, fAction,
  calls,      \* the loops of Raise and Interrupt a context is in
  alarm,      \* whether the alarm is primed
  posts,      \* how many signals have been posted
  credit,     \* history: posts of a signal less the times it was taken
  owed,       \* history: what was posted, and neither taken nor ignored since
  restarted,  \* history: the signals Interrupt has run with SA_RESTART
  base,       \* history: the mask the program has set, outside handlers,
  added       \* history: and the signals its handlers have blocked since

schedVars  == <<process, current, ready, pc, goal, fWakeup>>
signalVars == <<procPending, ctxPending, fBlocked, fAction, calls, alarm>>
maskVars   == <<base, added>>
history    == <<posts, credit, owed, restarted, maskVars>>
vars       == <<schedVars, signalVars, history>>

At(c, label) == process = "runs" /\ current = c /\ pc[c] = label
Goto(c, label) == pc' = [pc EXCEPT ![c] = label]

\* The program's own code runs, outside any handler.
Program(c) == At(c, "user") /\ calls[c] = <<>>

Lowest(sigs) == Min(sigs)

-----------------------------------------------------------------------------
(***************************************************************************)
(* Posting.  Contexts that have the signal unblocked are woken, or all.    *)
(***************************************************************************)
Wakeup(woken) ==
  /\ fWakeup' = [c \in Contexts |-> fWakeup[c] \/ c \in woken]
  /\ ready' = ready \cup {c \in woken : pc[c] \in {"out", "outAgain"} /\ ~fWakeup[c]}

WokenBy(s) ==
  LET open == {c \in Contexts : s \notin fBlocked[c]}
  IN IF open # {} THEN open ELSE Contexts

\* A primed alarm counts as a post: the bound leaves no alarm that can not fire.
Bounded(n, primed) == n + (IF primed THEN 1 ELSE 0) <= MaxPosts

Posted(target, s, new, primed) ==
  /\ posts' = posts + 1 /\ Bounded(posts + 1, primed)
  /\ credit' = [credit EXCEPT ![s] = @ + (IF new THEN 1 ELSE 0)]
  /\ owed' = owed \cup {<<target, s>>}

\* raise: GUSISigProcess::Post.
RaiseSignal(c, s) ==
  /\ At(c, "user")
  /\ procPending' = procPending \cup {s}
  /\ Wakeup(WokenBy(s))
  /\ Posted(Process, s, s \notin procPending, alarm)
  /\ UNCHANGED <<process, current, pc, goal, ctxPending, fBlocked, fAction,
                 calls, alarm, restarted, maskVars>>

PthreadKill(c, d, s) ==
  /\ At(c, "user")
  /\ ctxPending' = [ctxPending EXCEPT ![d] = @ \cup {s}]
  /\ Wakeup({d})
  /\ Posted(d, s, s \notin ctxPending[d], alarm)
  /\ UNCHANGED <<process, current, pc, goal, procPending, fBlocked, fAction,
                 calls, alarm, restarted, maskVars>>

\* alarm and ualarm: GUSIAlarm::Restart, and Sleep unless the delay is 0.
SetAlarm(c, delay) ==
  /\ Program(c) /\ alarm' = delay /\ Bounded(posts, delay)
  /\ UNCHANGED <<schedVars, procPending, ctxPending, fBlocked, fAction, calls,
                 history>>

\* GUSIAlarm::Wakeup, at interrupt level, which goes on if it has an interval.
\* fPending |= and &= are a load and a store: when the interrupt comes between
\* those of the program, its bit goes.
AlarmFires(lost, interval) ==
  /\ process = "runs" /\ alarm /\ alarm' = interval
  /\ procPending' = IF lost THEN procPending ELSE procPending \cup {Alarm}
  /\ Wakeup(WokenBy(Alarm))
  /\ Posted(Process, Alarm, Alarm \notin procPending, interval)
  /\ UNCHANGED <<process, current, pc, goal, ctxPending, fBlocked, fAction,
                 calls, restarted, maskVars>>

-----------------------------------------------------------------------------
(***************************************************************************)
(* The loops.  A frame is one call of GUSISigContext::Raise or Interrupt:  *)
(* the signals its loop has still to look at, and for the handler it runs  *)
(* the local variables of GUSISigProcess::Raise.                           *)
(***************************************************************************)
Ready(c) == (procPending \cup ctxPending[c]) \ fBlocked[c]

Frame(loop, todo, all) ==
  [loop |-> loop, todo |-> todo, all |-> all, interrupt |-> FALSE,
   handler |-> FALSE, blocksave |-> {}, blockset |-> {}]

Top(c) == Last(calls[c])
SetTop(c, frame) == calls' = [calls EXCEPT ![c] = Append(Front(@), frame)]
Push(c, frame) == calls' = [calls EXCEPT ![c] = Append(@, frame)]
Pop(c) == calls' = [calls EXCEPT ![c] = Front(@)]

\* Mutant: what is pending against the context is not cleared.
RaiseAgainClearsProcess(c) ==
  /\ At(c, "loop") /\ Top(c).loop = "raise" /\ Top(c).todo = {}
  /\ IF Ready(c) = {}
     THEN Pop(c) /\ Goto(c, "user") /\ UNCHANGED procPending
     ELSE /\ SetTop(c, [Top(c) EXCEPT !.todo = Ready(c)])
          /\ procPending' = procPending \ Ready(c)
          /\ UNCHANGED pc
  /\ UNCHANGED <<process, current, ready, goal, fWakeup, ctxPending, fBlocked,
                 fAction, alarm, history>>

\* GUSISigContext::Raise: another round, or the return from it.
RaiseAgain(c) ==
  /\ At(c, "loop") /\ Top(c).loop = "raise" /\ Top(c).todo = {}
  /\ LET todo == Ready(c) IN
       IF todo = {}
       THEN /\ Pop(c) /\ Goto(c, "user")
            /\ UNCHANGED <<procPending, ctxPending>>
       ELSE /\ SetTop(c, [Top(c) EXCEPT !.todo = todo])
            /\ procPending' = procPending \ todo
            /\ ctxPending' = [ctxPending EXCEPT ![c] = @ \ todo]
            /\ UNCHANGED pc
  /\ UNCHANGED <<process, current, ready, goal, fWakeup, fBlocked, fAction,
                 alarm, history>>

OwedTo(c, s) == {<<Process, s>>, <<c, s>>}

Taken(c, s) ==
  /\ credit' = [credit EXCEPT ![s] = IF @ < 0 THEN @ ELSE @ - 1]
  /\ owed' = owed \ OwedTo(c, s)

\* GUSISigProcess::Raise for the signal s that loop f of context c takes.  A
\* default action ends the process; for a signal that is ignored by default
\* DefaultAction returns false and SIG_DFL is called like any handler.
\* SA_RESETHAND leaves a default action, whose mask and flags nothing looks at.
Execute(c, s, f) ==
  LET act == fAction[s] IN
  CASE act.sa_handler = "ignore" ->
         /\ SetTop(c, f) /\ owed' = owed \ OwedTo(c, s)
         /\ UNCHANGED <<process, pc, fAction, credit>>
    [] act.sa_handler = "default" ->
         /\ process' = IF s \in DefaultIsIgnore THEN "wild" ELSE "exited"
         /\ SetTop(c, f) /\ Taken(c, s)
         /\ UNCHANGED <<pc, fAction>>
    [] OTHER ->
         /\ SetTop(c, [f EXCEPT !.handler = TRUE, !.blocksave = fBlocked[c],
              !.blockset = act.sa_mask \cup
                (IF act.sa_flags \cap {"resethand", "nodefer"} = {}
                 THEN {s} ELSE {})])
         /\ fAction' = IF "resethand" \in act.sa_flags
                       THEN [fAction EXCEPT ![s] = Action("default", {}, {})]
                       ELSE fAction
         /\ Goto(c, "user") /\ Taken(c, s)
         /\ UNCHANGED process

RaiseNext(c) ==
  /\ At(c, "loop") /\ Top(c).loop = "raise" /\ Top(c).todo # {}
  /\ LET s == Lowest(Top(c).todo)
     IN Execute(c, s, [Top(c) EXCEPT !.todo = @ \ {s}])
  /\ UNCHANGED <<current, ready, goal, fWakeup, procPending, ctxPending,
                 fBlocked, alarm, posts, restarted, maskVars>>

\* Mutant: a signal that interrupts is not left pending either.
InterruptNextClears(c) ==
  /\ At(c, "loop") /\ Top(c).loop = "interrupt" /\ Top(c).todo # {}
  /\ LET s    == Lowest(Top(c).todo)
         f    == [Top(c) EXCEPT !.todo = @ \ {s}]
     IN /\ procPending' = procPending \ {s}
        /\ SetTop(c, [f EXCEPT !.interrupt = TRUE])
  /\ UNCHANGED <<schedVars, ctxPending, fBlocked, fAction, alarm, history>>

\* One signal of GUSISigContext::Interrupt: one that is ignored is forgotten by
\* the process, one with SA_RESTART runs at once, any other is left pending.
InterruptNext(c) ==
  /\ At(c, "loop") /\ Top(c).loop = "interrupt" /\ Top(c).todo # {}
  /\ LET s       == Lowest(Top(c).todo)
         act     == fAction[s]
         f       == [Top(c) EXCEPT !.todo = @ \ {s}]
         hit(b)  == [f EXCEPT !.interrupt = b \/ @ \/ f.all]
         ignored == \/ act.sa_handler = "ignore"
                    \/ act.sa_handler = "default" /\ s \in DefaultIsIgnore
         restart == act.sa_handler = "catch" /\ "restart" \in act.sa_flags
     IN /\ procPending' = IF ignored \/ restart THEN procPending \ {s}
                                                ELSE procPending
        /\ restarted' = IF restart THEN restarted \cup {s} ELSE restarted
        /\ IF restart THEN Execute(c, s, hit(FALSE))
           ELSE /\ SetTop(c, hit(~ignored))
                /\ owed' = IF ignored THEN owed \ OwedTo(c, s) ELSE owed
                /\ UNCHANGED <<process, pc, fAction, credit>>
  /\ UNCHANGED <<current, ready, goal, fWakeup, ctxPending, fBlocked, alarm,
                 posts, maskVars>>

\* Mutant: every signal can be blocked.
SetBlockedAny(c, sigs) == fBlocked' = [fBlocked EXCEPT ![c] = sigs]

SetBlocked(c, sigs) ==
  fBlocked' = [fBlocked EXCEPT ![c] = sigs \ CantBlock]

\* The end of GUSISigProcess::Raise.
HandlerReturns(c) ==
  /\ At(c, "user") /\ calls[c] # <<>>
  /\ LET f == Top(c) IN
       /\ SetBlocked(c, f.blocksave \cup (fBlocked[c] \ f.blockset))
       /\ SetTop(c, [f EXCEPT !.handler = FALSE, !.blocksave = {},
                                !.blockset = {}])
  /\ Goto(c, "loop")
  /\ UNCHANGED <<process, current, ready, goal, fWakeup, procPending,
                 ctxPending, fAction, alarm, history>>

-----------------------------------------------------------------------------
(***************************************************************************)
(* The calls of the program.                                               *)
(***************************************************************************)
Idle == [op |-> "none", sigs |-> {}, save |-> {}]

\* The calls that end in GUSIContext::Raise.
RaiseFrame(c) == Push(c, Frame("raise", {}, FALSE)) /\ Goto(c, "loop")

\* pthread_sigmask, by the program or by a handler.
Sigmask(c, how, mask) ==
  /\ At(c, "user") /\ Len(calls[c]) < MaxCalls
  /\ LET sigs == CASE how = "block" -> fBlocked[c] \cup mask
                   [] how = "unblock" -> fBlocked[c] \ mask
                   [] how = "set" -> mask
     IN /\ SetBlocked(c, sigs)
        /\ IF calls[c] = <<>>
           THEN /\ base' = [base EXCEPT ![c] = sigs \ CantBlock]
                /\ added' = [added EXCEPT ![c] = {}]
           ELSE /\ added' = [added EXCEPT ![c] = @ \cup (sigs \ fBlocked[c])]
                /\ UNCHANGED base
  /\ RaiseFrame(c)
  /\ UNCHANGED <<process, current, ready, goal, fWakeup, procPending,
                 ctxPending, fAction, alarm, posts, credit, owed, restarted>>

\* sigaction and signal: GUSISigProcess::SetAction, which refuses to change
\* some signals, and ClearPending for the caller.
Sigaction(c, s, act) ==
  /\ Program(c)
  /\ act.sa_handler # "default" => s \notin CantChange
  /\ fAction' = [fAction EXCEPT ![s] = act]
  /\ IF act.sa_handler = "ignore"
     THEN /\ procPending' = procPending \ {s}
          /\ ctxPending' = [ctxPending EXCEPT ![c] = @ \ {s}]
          /\ owed' = owed \ OwedTo(c, s)
     ELSE UNCHANGED <<procPending, ctxPending, owed>>
  /\ UNCHANGED <<schedVars, fBlocked, calls, alarm, posts, credit, restarted,
                 maskVars>>

\* The beginning of a wait: sched_yield, a call that blocks (the pthread calls
\* and sleep: Yield, then Raise), sigwait, sigsuspend and pause.
Await(c, op, sigs, label) ==
  /\ Program(c)
  /\ goal' = [goal EXCEPT ![c] =
       [op |-> op, sigs |-> sigs,
        save |-> IF op = "sigsuspend" THEN fBlocked[c] ELSE {}]]
  /\ Goto(c, label)
  /\ UNCHANGED <<process, current, ready, fWakeup, procPending, ctxPending,
                 fAction, calls, alarm, history>>

YieldSlice(c) == Await(c, "slice", {}, "check") /\ UNCHANGED fBlocked
Block(c) == Await(c, "block", {}, "check") /\ UNCHANGED fBlocked

Sigwait(c, sigs) ==
  /\ sigs # {} /\ sigs \subseteq fBlocked[c]
  /\ Await(c, "sigwait", sigs, "check") /\ UNCHANGED fBlocked

\* SigSuspend gives the processor away before it looks at the signals.
Sigsuspend(c, mask) ==
  Await(c, "sigsuspend", mask, "stop") /\ SetBlocked(c, mask)

Pause(c) == Await(c, "pause", {}, "stop") /\ UNCHANGED fBlocked

-----------------------------------------------------------------------------
(***************************************************************************)
(* Yield, SigWait and SigSuspend.                                          *)
(***************************************************************************)
Suspends(c) == goal[c].op \in {"sigsuspend", "pause"}

\* Interrupt is called, unless SigWait sees what it waits for.
Check(c) ==
  /\ At(c, "check")
  /\ ~(goal[c].op = "sigwait"
       /\ goal[c].sigs \cap (procPending \cup ctxPending[c]) # {})
  /\ IF Ready(c) = {}
     THEN Goto(c, IF Suspends(c) THEN "stopAgain" ELSE "stop") /\ UNCHANGED calls
     ELSE Push(c, Frame("interrupt", Ready(c), Suspends(c))) /\ Goto(c, "loop")
  /\ UNCHANGED <<process, current, ready, goal, fWakeup, procPending,
                 ctxPending, fBlocked, fAction, alarm, history>>

\* The way out of Yield, to the Raise that follows it.
YieldReturns(c) ==
  /\ fWakeup' = [fWakeup EXCEPT ![c] = FALSE]
  /\ goal' = [goal EXCEPT ![c] = Idle]
  /\ calls' = [calls EXCEPT ![c] = <<Frame("raise", {}, FALSE)>>]
  /\ Goto(c, "loop")
  /\ UNCHANGED fBlocked

\* Mutant: sigsuspend forgets to restore the mask.
SuspendReturnsMasked(c) ==
  /\ fWakeup' = [fWakeup EXCEPT ![c] = FALSE]
  /\ goal' = [goal EXCEPT ![c] = Idle]
  /\ calls' = [calls EXCEPT ![c] = <<>>]
  /\ Goto(c, "user")
  /\ UNCHANGED fBlocked

\* The way out of SigSuspend, and for sigsuspend the mask the program had.
SuspendReturns(c) ==
  /\ fWakeup' = [fWakeup EXCEPT ![c] = FALSE]
  /\ goal' = [goal EXCEPT ![c] = Idle]
  /\ calls' = [calls EXCEPT ![c] = <<>>]
  /\ Goto(c, "user")
  /\ IF goal[c].op = "sigsuspend"
     THEN SetBlocked(c, goal[c].save \cup (fBlocked[c] \ goal[c].sigs))
     ELSE UNCHANGED fBlocked

\* Interrupt returns.
Interrupted(c) ==
  /\ At(c, "loop") /\ Top(c).loop = "interrupt" /\ Top(c).todo = {}
  /\ IF Top(c).interrupt /\ goal[c].op # "sigwait"
     THEN IF Suspends(c) THEN SuspendReturns(c) ELSE YieldReturns(c)
     ELSE /\ Pop(c) /\ Goto(c, IF Suspends(c) THEN "stopAgain" ELSE "stop")
          /\ UNCHANGED <<fWakeup, goal, fBlocked>>
  /\ UNCHANGED <<process, current, ready, procPending, ctxPending, fAction,
                 alarm, history>>

\* sigwait takes the lowest of its signals, wherever it is pending.
SigwaitReturns(c) ==
  /\ At(c, "check") /\ goal[c].op = "sigwait"
  /\ LET cursigs == goal[c].sigs \cap (procPending \cup ctxPending[c])
         signo   == Lowest(cursigs)
     IN /\ cursigs # {}
        /\ procPending' = procPending \ {signo}
        /\ ctxPending' = [ctxPending EXCEPT ![c] = @ \ {signo}]
        /\ Taken(c, signo)
  /\ fWakeup' = [fWakeup EXCEPT ![c] = FALSE]
  /\ goal' = [goal EXCEPT ![c] = Idle]
  /\ Goto(c, "user")
  /\ UNCHANGED <<process, current, ready, fBlocked, fAction, calls, alarm,
                 posts, restarted, maskVars>>

\* Mutant: SwitchOut does not look at fWakeup.
SwitchOutUnwoken(c) ==
  /\ At(c, "stop") \/ At(c, "stopAgain")
  /\ ready' = IF c = Main \/ goal[c].op = "slice" THEN ready \cup {c} ELSE ready
  /\ pc' = [pc EXCEPT ![c] = IF @ = "stop" THEN "out" ELSE "outAgain"]
  /\ UNCHANGED <<process, current, goal, fWakeup, signalVars, history>>

\* A thread is stopped, and made ready again by SwitchOut if it has been woken
\* by now; YieldToAnyThread leaves the main context and a slice ready.
SwitchOut(c) ==
  /\ At(c, "stop") \/ At(c, "stopAgain")
  /\ ready' = IF c = Main \/ goal[c].op = "slice" \/ fWakeup[c]
              THEN ready \cup {c} ELSE ready
  /\ pc' = [pc EXCEPT ![c] = IF @ = "stop" THEN "out" ELSE "outAgain"]
  /\ UNCHANGED <<process, current, goal, fWakeup, signalVars, history>>

\* The Thread Manager gives the processor to a ready context.
Dispatch(c) ==
  /\ process = "runs" /\ pc[current] \in {"out", "outAgain"} /\ c \in ready
  /\ current' = c /\ ready' = ready \ {c}
  /\ Goto(c, CASE pc[c] = "outAgain" -> "stop"
               [] pc[c] = "out" /\ goal[c].op \in {"slice", "block"} -> "test"
               [] pc[c] = "out" /\ goal[c].op \notin {"slice", "block"} -> "check"
               [] OTHER -> pc[c])
  /\ UNCHANGED <<process, goal, fWakeup, signalVars, history>>

\* The loop condition of Yield.
TestWakeup(c) ==
  /\ At(c, "test")
  /\ IF goal[c].op = "slice" \/ fWakeup[c]
     THEN YieldReturns(c)
     ELSE Goto(c, "check") /\ UNCHANGED <<fWakeup, goal, fBlocked, calls>>
  /\ UNCHANGED <<process, current, ready, procPending, ctxPending, fAction,
                 alarm, history>>

\* What context c is blocked for comes about.
Event(c) ==
  /\ process = "runs" /\ goal[c].op = "block"
  /\ Wakeup({c})
  /\ UNCHANGED <<process, current, pc, goal, signalVars, history>>

-----------------------------------------------------------------------------
Init ==
  /\ process = "runs" /\ current = Main
  /\ ready = Contexts \ {Main}
  /\ pc = [c \in Contexts |-> "user"]
  /\ goal = [c \in Contexts |-> Idle]
  /\ fWakeup = [c \in Contexts |-> FALSE]
  /\ procPending = {} /\ ctxPending = [c \in Contexts |-> {}]
  /\ fBlocked = [c \in Contexts |-> {}]
  /\ fAction = [s \in Signals |-> Action("default", {}, {})]
  /\ calls = [c \in Contexts |-> <<>>]
  /\ alarm = FALSE
  /\ posts = 0 /\ credit = [s \in Signals |-> 0]
  /\ owed = {} /\ restarted = {}
  /\ base = [c \in Contexts |-> {}] /\ added = [c \in Contexts |-> {}]

ProgramCalls(c) ==
  \/ \E s \in Sent : RaiseSignal(c, s)
  \/ \E d \in Contexts, s \in Sent : PthreadKill(c, d, s)
  \/ \E s \in Signals : \E act \in Actions[s] : Sigaction(c, s, act)
  \/ \E how \in {"block", "unblock", "set"}, m \in Masks : Sigmask(c, how, m)
  \/ \E delay \in BOOLEAN : SetAlarm(c, delay)
  \/ \E sigs \in SUBSET Sent : Sigwait(c, sigs)
  \/ \E m \in Masks : Sigsuspend(c, m)
  \/ YieldSlice(c) \/ Block(c) \/ Pause(c)

LibraryCode(c) ==
  \/ RaiseAgain(c) \/ RaiseNext(c) \/ InterruptNext(c) \/ Interrupted(c)
  \/ Check(c) \/ SigwaitReturns(c) \/ TestWakeup(c) \/ SwitchOut(c)

Next ==
  \/ \E lost, interval \in BOOLEAN : AlarmFires(lost, interval)
  \/ \E c \in Contexts :
       ProgramCalls(c) \/ HandlerReturns(c) \/ LibraryCode(c) \/ Dispatch(c)
       \/ Event(c)

Spec == Init /\ [][Next]_vars

-----------------------------------------------------------------------------
Labels == {"user", "loop", "check", "stop", "stopAgain", "out", "outAgain",
           "test"}

TypeOK ==
  /\ process \in {"runs", "exited", "wild"}
  /\ current \in Contexts /\ ready \subseteq Contexts
  /\ current \in ready => pc[current] \in {"out", "outAgain"}
  /\ pc \in [Contexts -> Labels]
  /\ fWakeup \in [Contexts -> BOOLEAN]
  /\ procPending \subseteq Signals
  /\ ctxPending \in [Contexts -> SUBSET Signals]
  /\ fBlocked \in [Contexts -> SUBSET (Signals \ CantBlock)]
  /\ \A c \in Contexts :
       /\ Len(calls[c]) <= MaxCalls + 1
       /\ \A i \in 1 .. Len(calls[c]) - 1 : calls[c][i].handler
  /\ \A s \in CantChange : fAction[s].sa_handler = "default"
  /\ alarm \in BOOLEAN
  /\ posts \in Nat /\ Bounded(posts, alarm)

(***************************************************************************)
(* A signal is taken, by a handler, a default action or a sigwait, at most *)
(* once for each time it was posted, whichever contexts have it unblocked  *)
(* and however the loops that look for it are nested.  A signal that       *)
(* Interrupt has run for SA_RESTART is left out: only its bit in the       *)
(* process is cleared there, and an outer loop may have it on its list.    *)
(***************************************************************************)
TakenOncePerPost == \A s \in Signals \ restarted : credit[s] >= 0

\* The signals the loops of context c have still to run.
ToDo(c) == UNION {calls[c][i].todo : i \in DOMAIN calls[c]}

(***************************************************************************)
(* A signal posted by the program stays pending where it was posted, or on *)
(* the list of a loop that has taken it off, until it is run or ignored.   *)
(* (An alarm may be lost: see AlarmFires.)                                 *)
(***************************************************************************)
SignalKept ==
  \A s \in Signals \ {Alarm} :
    /\ <<Process, s>> \in owed =>
         s \in procPending \cup UNION {ToDo(c) : c \in Contexts}
    /\ \A c \in Contexts : <<c, s>> \in owed => s \in ctxPending[c] \cup ToDo(c)

(***************************************************************************)
(* Handlers, and sigsuspend, give the program its mask back: to what it    *)
(* has blocked only a handler adds, and nothing is unblocked behind it.    *)
(***************************************************************************)
MaskKept ==
  \A c \in Contexts : calls[c] = <<>> /\ ~Suspends(c) =>
    base[c] \subseteq fBlocked[c] /\ fBlocked[c] \subseteq base[c] \cup added[c]

Sleeping(c) == pc[c] \in {"out", "outAgain"} /\ c \notin ready

(***************************************************************************)
(* No thread sleeps on a signal: one that blocks in Yield is woken by any  *)
(* that it does not block, one in sigwait by those sent to it.  A signal   *)
(* that a handler has blocked is left out: when it is raised then, and the *)
(* handler ran for SA_RESTART, GUSISigProcess::Raise unblocks it and       *)
(* nothing looks for it before the thread stops.                           *)
(***************************************************************************)
WokenForSignal ==
  \A c \in Contexts : Sleeping(c) => \A s \in Signals :
    /\ goal[c].op = "block" /\ s \in Ready(c) \ added[c] => owed \cap OwedTo(c, s) = {}
    /\ goal[c].op = "sigwait" /\ s \in goal[c].sigs => <<c, s>> \notin owed
=============================================================================
