-------------------------- MODULE GUSISignalProofs --------------------------
(***************************************************************************)
(* Signals, masks and handlers of GUSISignal, for any contexts, signals,   *)
(* actions and masks, any number of posts and any depth of handlers.       *)
(***************************************************************************)
EXTENDS GUSISignal, FiniteSetTheorems, WellFoundedInduction, TLAPS

-----------------------------------------------------------------------------
(***************************************************************************)
(* The inductive invariant.                                                *)
(***************************************************************************)
Goals == [op : {"none", "slice", "block", "sigwait", "sigsuspend", "pause"},
          sigs : SUBSET Signals, save : SUBSET (Signals \ CantBlock)]

Frames == [loop : {"raise", "interrupt"}, todo : SUBSET Signals, all : BOOLEAN,
           interrupt : BOOLEAN, handler : BOOLEAN,
           blocksave : SUBSET (Signals \ CantBlock), blockset : SUBSET Signals]

\* Only the loop on top is between two handlers, and only a loop of Raise can
\* be on top of another.
GoodStack(q) ==
  /\ Len(q) <= MaxCalls + 1
  /\ \A i \in 1 .. Len(q) - 1 : q[i].handler
  /\ \A i \in 2 .. Len(q) : q[i].loop = "raise"

SchedTypes ==
  /\ process \in {"runs", "exited", "wild"}
  /\ current \in Contexts /\ ready \subseteq Contexts
  /\ pc \in [Contexts -> Labels]
  /\ goal \in [Contexts -> Goals]
  /\ fWakeup \in [Contexts -> BOOLEAN]

SignalTypes ==
  /\ procPending \subseteq Signals
  /\ ctxPending \in [Contexts -> SUBSET Signals]
  /\ fBlocked \in [Contexts -> SUBSET (Signals \ CantBlock)]
  /\ fAction \in [Signals -> Dispositions]
  /\ \A s \in CantChange : fAction[s].sa_handler = "default"
  /\ calls \in [Contexts -> Seq(Frames)]
  /\ \A c \in Contexts : GoodStack(calls[c])
  /\ alarm \in BOOLEAN

HistoryTypes ==
  /\ posts \in Nat /\ Bounded(posts, alarm)
  /\ credit \in [Signals -> Int]
  /\ owed \subseteq (Contexts \cup {Process}) \X Signals
  /\ restarted \subseteq Signals
  /\ base \in [Contexts -> SUBSET (Signals \ CantBlock)]
  /\ added \in [Contexts -> SUBSET Signals]

Types == SchedTypes /\ SignalTypes /\ HistoryTypes

\* Where a context is says what is on its stack, and what it waits for.
Placed(c) ==
  LET q == calls[c]
  IN /\ pc[c] = "loop" => q # <<>> /\ ~q[Len(q)].handler
     /\ pc[c] = "user" => q = <<>> \/ q[Len(q)].handler
     /\ pc[c] \notin {"loop", "user"} => q = <<>> /\ goal[c].op # "none"
     /\ pc[c] = "user" /\ q = <<>> => goal[c].op = "none"
     /\ pc[c] = "test" => goal[c].op \in {"slice", "block"}
     /\ q # <<>> => (q[1].loop = "interrupt" <=> goal[c].op # "none")

\* Between two contexts it has the processor or waits to be dispatched.
Out == {"out", "outAgain"}

AwakeReady ==
  /\ current \in ready => pc[current] \in Out
  /\ \A c \in Contexts : pc[c] \in Out /\ fWakeup[c] => c \in ready

\* The mask the program will have again: what sigsuspend, or the lowest of the
\* handlers, has saved.
Restored(c) ==
  IF goal[c].op = "sigsuspend" THEN goal[c].save
  ELSE IF calls[c] # <<>> /\ calls[c][1].handler THEN calls[c][1].blocksave
  ELSE fBlocked[c]

\* What a handler may find blocked.
Allowed(c) ==
  base[c] \cup added[c]
  \cup (IF goal[c].op = "sigsuspend" THEN goal[c].sigs ELSE {})

Masked(c) ==
  /\ base[c] \subseteq Restored(c) /\ Restored(c) \subseteq base[c] \cup added[c]
  /\ fBlocked[c] \subseteq Allowed(c)
  /\ \A i \in 1 .. Len(calls[c]) : calls[c][i].blocksave \subseteq Allowed(c)

\* Signal s has been taken off for loop i of context c and waits to be run.  A
\* loop of Interrupt leaves its signals pending.
OnList(c, i, s) ==
  /\ i \in 1 .. Len(calls[c])
  /\ calls[c][i].loop = "raise" /\ s \in calls[c][i].todo

Levels == 0 .. MaxCalls + 1

Listed(c, s) == \E i \in Levels : OnList(c, i, s)

OwedFound ==
  /\ \A s \in Signals \ {Alarm} :
       <<Process, s>> \in owed =>
         s \in procPending \/ \E c \in Contexts : Listed(c, s)
  /\ \A c \in Contexts, s \in Signals :
       <<c, s>> \in owed => s \in ctxPending[c] \/ Listed(c, s)

\* The places where signal s can be taken from.
Places(s) ==
  {p \in (Contexts \cup {Process}) \X Levels :
     \/ p = <<Process, 0>> /\ s \in procPending
     \/ \E c \in Contexts : p = <<c, 0>> /\ s \in ctxPending[c]
     \/ \E c \in Contexts, i \in Levels : p = <<c, i>> /\ OnList(c, i, s)}

Counted ==
  \A s \in Signals \ restarted :
    IsFiniteSet(Places(s)) /\ Cardinality(Places(s)) <= credit[s]

\* A loop of Interrupt, the lowest of its context, has s still to look at or
\* has found that the wait is over.
Noticed(c, s) ==
  calls[c] # <<>> /\ (s \in calls[c][1].todo \/ calls[c][1].interrupt)

Answered(c) ==
  pc[c] \notin {"check", "test"} =>
    /\ goal[c].op = "block" => \A s \in Signals \ added[c] :
         /\ s \in (procPending \cup ctxPending[c]) \ Restored(c)
         /\ owed \cap OwedTo(c, s) # {}
         => fWakeup[c] \/ Noticed(c, s)
    /\ goal[c].op = "sigwait" => \A s \in goal[c].sigs :
         <<c, s>> \in owed => fWakeup[c]

IInv ==
  /\ Types /\ AwakeReady /\ OwedFound /\ Counted
  /\ \A c \in Contexts : Placed(c) /\ Masked(c) /\ Answered(c)

-----------------------------------------------------------------------------
(***************************************************************************)
(* Frames and stacks.                                                      *)
(***************************************************************************)
\* A loop looks at its signals from the lowest on.
LEMMA LowestMember ==
  ASSUME NEW S, S \subseteq Signals, S # {}
  PROVE  Lowest(S) \in S
<1>1. S \subseteq Nat
  BY SignalAssumption
<1>2. PICK x \in S : \A y \in S : ~ (<<y, x>> \in OpToRel(<, Nat))
  BY <1>1, NatLessThanWellFounded, WFMin
<1>3. \A y \in S : x =< y
  <2>1. SUFFICES ASSUME NEW y \in S, ~(x =< y) PROVE FALSE
    OBVIOUS
  <2>2. <<y, x>> \in OpToRel(<, Nat)
    BY <1>1, <2>1 DEF OpToRel
  <2>3. QED
    BY <1>2, <2>2
<1>4. QED
  BY <1>3, Zenon DEF Lowest, Min

LEMMA AboveOne == \A n \in Nat \ {0} : n # 1 => n \in 2 .. n /\ 1 \in 1 .. n - 1
OBVIOUS

LEMMA StackTop ==
  ASSUME NEW q \in Seq(Frames), q # <<>>
  PROVE  /\ Len(q) \in Nat \ {0}
         /\ Last(q) = q[Len(q)] /\ Last(q) \in Frames
         /\ Front(q) \in Seq(Frames) /\ Len(Front(q)) = Len(q) - 1
         /\ \A i \in 1 .. Len(q) - 1 : Front(q)[i] = q[i]
<1>1. Len(q) \in Nat \ {0}
  OBVIOUS
<1>2. Last(q) = q[Len(q)] /\ q[Len(q)] \in Frames
  BY <1>1 DEF Last
<1>3. /\ Front(q) \in Seq(Frames) /\ Len(Front(q)) = Len(q) - 1
      /\ \A i \in 1 .. Len(q) - 1 : Front(q)[i] = q[i]
  <2>1. PICK n \in Nat : n = Len(q) - 1
    BY <1>1
  <2>2. /\ SubSeq(q, 1, n) \in Seq(Frames) /\ Len(SubSeq(q, 1, n)) = n
        /\ \A i \in 1 .. n : SubSeq(q, 1, n)[i] = q[i]
    BY <1>1, <2>1
  <2>3. QED
    BY <2>1, <2>2 DEF Front
<1>4. QED
  BY <1>1, <1>2, <1>3

\* Another frame on top, of the same loop.
LEMMA TopReplaced ==
  ASSUME NEW q \in Seq(Frames), q # <<>>, NEW f \in Frames,
         NEW r, r = Append(Front(q), f)
  PROVE  /\ r \in Seq(Frames) /\ r # <<>> /\ Len(r) = Len(q) /\ r[Len(q)] = f
         /\ \A i \in 1 .. Len(q) - 1 : r[i] = q[i]
<1>1. /\ Len(q) \in Nat \ {0} /\ Front(q) \in Seq(Frames)
      /\ Len(Front(q)) = Len(q) - 1
      /\ \A i \in 1 .. Len(q) - 1 : Front(q)[i] = q[i]
  BY StackTop
<1>2. QED
  BY <1>1

LEMMA ReplacedGood ==
  ASSUME NEW q \in Seq(Frames), GoodStack(q), NEW r \in Seq(Frames),
         Len(q) \in Nat \ {0}, Len(r) = Len(q), r[Len(q)].loop = q[Len(q)].loop,
         \A i \in 1 .. Len(q) - 1 : r[i] = q[i]
  PROVE  GoodStack(r)
BY DEF GoodStack

LEMMA TopPushed ==
  ASSUME NEW q \in Seq(Frames), GoodStack(q), Len(q) <= MaxCalls,
         q # <<>> => q[Len(q)].handler,
         NEW f \in Frames, q # <<>> => f.loop = "raise",
         NEW r, r = Append(q, f)
  PROVE  /\ r \in Seq(Frames) /\ GoodStack(r) /\ r # <<>>
         /\ Len(r) = Len(q) + 1 /\ Len(q) \in Nat
         /\ r[Len(q) + 1] = f /\ \A i \in 1 .. Len(q) : r[i] = q[i]
<1>1. /\ r \in Seq(Frames) /\ Len(r) = Len(q) + 1 /\ Len(q) \in Nat /\ r # <<>>
      /\ r[Len(q) + 1] = f /\ \A i \in 1 .. Len(q) : r[i] = q[i]
  OBVIOUS
<1>2. q = <<>> <=> Len(q) = 0
  OBVIOUS
<1>3. GoodStack(r)
  BY <1>1, <1>2, SignalAssumption DEF GoodStack
<1>4. QED
  BY <1>1, <1>3

LEMMA TopPopped ==
  ASSUME NEW q \in Seq(Frames), GoodStack(q), q # <<>>, NEW r, r = Front(q)
  PROVE  /\ r \in Seq(Frames) /\ GoodStack(r) /\ Len(r) = Len(q) - 1
         /\ \A i \in 1 .. Len(q) - 1 : r[i] = q[i]
         /\ r # <<>> => r[Len(r)].handler
         /\ q[Len(q)].loop = "interrupt" => r = <<>>
<1>1. /\ Len(q) \in Nat \ {0} /\ r \in Seq(Frames) /\ Len(r) = Len(q) - 1
      /\ \A i \in 1 .. Len(q) - 1 : r[i] = q[i]
  BY StackTop
<1>2. r = <<>> <=> Len(r) = 0
  BY <1>1
<1>3. GoodStack(r)
  <2>1. Len(r) <= MaxCalls + 1
    BY <1>1, SignalAssumption DEF GoodStack
  <2>2. \A i \in 1 .. Len(r) - 1 : r[i].handler
    BY <1>1 DEF GoodStack
  <2>3. \A i \in 2 .. Len(r) : r[i].loop = "raise"
    BY <1>1 DEF GoodStack
  <2>4. QED
    BY <2>1, <2>2, <2>3 DEF GoodStack
<1>4. r # <<>> => r[Len(r)].handler
  BY <1>1, <1>2 DEF GoodStack
<1>5. q[Len(q)].loop = "interrupt" => r = <<>>
  BY <1>1, <1>2 DEF GoodStack
<1>6. QED
  BY <1>1, <1>3, <1>4, <1>5

-----------------------------------------------------------------------------
(***************************************************************************)
(* What a step leaves alone.                                               *)
(***************************************************************************)
\* A step of one context does not touch another.
Untouched(d) ==
  /\ pc'[d] = pc[d] /\ goal'[d] = goal[d] /\ calls'[d] = calls[d]
  /\ fBlocked'[d] = fBlocked[d] /\ base'[d] = base[d] /\ added'[d] = added[d]

SameLists(d) == \A i \in Levels, s \in Signals : OnList(d, i, s)' <=> OnList(d, i, s)

LEMMA StackChanged ==
  ASSUME Types, NEW c \in Contexts, NEW r \in Seq(Frames), GoodStack(r),
         calls' = [calls EXCEPT ![c] = r]
  PROVE  /\ calls' \in [Contexts -> Seq(Frames)]
         /\ \A d \in Contexts : GoodStack(calls'[d])
         /\ calls'[c] = r /\ \A d \in Contexts \ {c} : calls'[d] = calls[d]
BY DEF Types, SignalTypes

LEMMA Others ==
  ASSUME NEW d \in Contexts, Untouched(d)
  PROVE  /\ Placed(d) => Placed(d)'
         /\ Masked(d) => Masked(d)'
         /\ Restored(d)' = Restored(d)
         /\ \A s : Noticed(d, s)' <=> Noticed(d, s)
         /\ \A i, s : OnList(d, i, s)' <=> OnList(d, i, s)
<1>1. Placed(d) => Placed(d)'
  BY DEF Untouched, Placed
<1>2. Restored(d)' = Restored(d) /\ Allowed(d)' = Allowed(d)
  BY DEF Untouched, Restored, Allowed
<1>3. Masked(d) => Masked(d)'
  BY <1>2 DEF Untouched, Masked
<1>4. \A s : Noticed(d, s)' <=> Noticed(d, s)
  BY DEF Untouched, Noticed
<1>5. \A i, s : OnList(d, i, s)' <=> OnList(d, i, s)
  BY DEF Untouched, OnList
<1>6. QED
  BY <1>1, <1>2, <1>3, <1>4, <1>5

LEMMA AnsweredStays ==
  ASSUME NEW d \in Contexts, Untouched(d), Answered(d), fWakeup[d] => fWakeup'[d],
         procPending' \subseteq procPending, ctxPending'[d] \subseteq ctxPending[d],
         owed' \subseteq owed
  PROVE  Answered(d)'
<1>1. Restored(d)' = Restored(d) /\ \A s : Noticed(d, s)' <=> Noticed(d, s)
  BY Others
<1>2. \A s : owed' \cap OwedTo(d, s) # {} => owed \cap OwedTo(d, s) # {}
  OBVIOUS
<1>3. \A s : s \in procPending' \cup ctxPending'[d] =>
               s \in procPending \cup ctxPending[d]
  OBVIOUS
<1>4. pc'[d] = pc[d] /\ goal'[d] = goal[d] /\ added'[d] = added[d]
  BY DEF Untouched
<1>5. QED
  BY <1>1, <1>2, <1>3, <1>4 DEF Answered, OwedTo

LEMMA Assembled ==
  ASSUME NEW c \in Contexts, IInv, Types', AwakeReady', OwedFound', Counted',
         Placed(c)', Masked(c)', Answered(c)',
         \A d \in Contexts \ {c} : Untouched(d) /\ Answered(d)'
  PROVE  IInv'
<1>1. \A d \in Contexts : Placed(d)' /\ Masked(d)' /\ Answered(d)'
  <2>1. TAKE d \in Contexts
  <2>2. CASE d = c
    BY <2>2
  <2>3. CASE d # c
    BY <2>3, Others DEF IInv
  <2>4. QED
    BY <2>2, <2>3
<1>2. QED
  BY <1>1 DEF IInv

-----------------------------------------------------------------------------
(***************************************************************************)
(* Signals on their way.                                                   *)
(***************************************************************************)
LEMMA PlacesShrink ==
  ASSUME NEW s, s \in procPending' => s \in procPending,
         \A c \in Contexts : s \in ctxPending'[c] => s \in ctxPending[c],
         \A c \in Contexts, i \in Levels : OnList(c, i, s)' => OnList(c, i, s)
  PROVE  Places(s)' \subseteq Places(s)
BY DEF Places

LEMMA Quiet ==
  ASSUME OwedFound, Counted,
         UNCHANGED <<procPending, ctxPending, owed, credit, restarted>>,
         \A c \in Contexts : SameLists(c)
  PROVE  OwedFound' /\ Counted'
<1>1. \A c \in Contexts, s \in Signals : Listed(c, s)' <=> Listed(c, s)
  BY DEF SameLists, Listed
<1>2. OwedFound'
  BY <1>1, SignalAssumption DEF OwedFound
<1>3. \A s \in Signals : Places(s)' = Places(s)
  BY DEF Places, SameLists
<1>4. Counted'
  BY <1>3 DEF Counted
<1>5. QED
  BY <1>2, <1>4

\* A step of context c that neither posts nor takes a signal.
LEMMA QuietStep ==
  ASSUME NEW c \in Contexts, IInv, Types', AwakeReady',
         UNCHANGED <<procPending, ctxPending, owed, credit, restarted>>,
         Placed(c)', Masked(c)', Answered(c)', SameLists(c),
         \A d \in Contexts \ {c} : Untouched(d) /\ fWakeup'[d] = fWakeup[d]
  PROVE  IInv'
<1>1. \A d \in Contexts : SameLists(d)
  BY Others DEF SameLists
<1>2. OwedFound' /\ Counted'
  BY <1>1, Quiet DEF IInv
<1>3. \A d \in Contexts \ {c} : Untouched(d) /\ Answered(d)'
  BY AnsweredStays DEF IInv
<1>4. QED
  BY <1>2, <1>3, Assembled

\* Signals are woken for: nobody else moves.
LEMMA Woken ==
  ASSUME Types, AwakeReady, NEW woken, woken \subseteq Contexts, Wakeup(woken),
         UNCHANGED <<pc, current>>
  PROVE  /\ ready' \subseteq Contexts
         /\ fWakeup' \in [Contexts -> BOOLEAN]
         /\ \A d \in Contexts : fWakeup'[d] <=> fWakeup[d] \/ d \in woken
         /\ AwakeReady'
<1>1. fWakeup \in [Contexts -> BOOLEAN] /\ ready \subseteq Contexts
  BY DEF Types, SchedTypes
<1>2. /\ fWakeup' \in [Contexts -> BOOLEAN]
      /\ \A d \in Contexts : fWakeup'[d] <=> fWakeup[d] \/ d \in woken
  BY <1>1 DEF Wakeup
<1>3. ready' \subseteq Contexts
  BY <1>1 DEF Wakeup
<1>4. AwakeReady'
  BY <1>1, <1>2 DEF Wakeup, AwakeReady, Out
<1>5. QED
  BY <1>2, <1>3, <1>4

\* The context that runs, c, goes on, or back to its program.
LEMMA AwakeStays ==
  ASSUME Types, AwakeReady, NEW c \in Contexts, current = c, pc[c] \notin Out,
         NEW label, label \notin Out,
         pc' = [pc EXCEPT ![c] = label] \/ pc' = pc,
         fWakeup' = fWakeup \/ fWakeup' = [fWakeup EXCEPT ![c] = FALSE],
         UNCHANGED <<current, ready>>
  PROVE  AwakeReady'
<1>1. fWakeup \in [Contexts -> BOOLEAN] /\ pc \in [Contexts -> Labels]
  BY DEF Types, SchedTypes
<1>2. pc'[c] \notin Out /\ \A d \in Contexts \ {c} : pc'[d] = pc[d]
  BY <1>1
<1>3. \A d \in Contexts : fWakeup'[d] => fWakeup[d]
  BY <1>1
<1>4. QED
  BY <1>2, <1>3 DEF AwakeReady

-----------------------------------------------------------------------------
(***************************************************************************)
(* The stack of a context.                                                 *)
(***************************************************************************)
LEMMA TopOf ==
  ASSUME Types, NEW c \in Contexts, calls[c] # <<>>
  PROVE  /\ Len(calls[c]) \in 1 .. MaxCalls + 1 /\ Len(calls[c]) \in Nat \ {0}
         /\ Top(c) = calls[c][Len(calls[c])] /\ Top(c) \in Frames
         /\ Top(c).loop = "interrupt" => Len(calls[c]) = 1
<1>1. calls[c] \in Seq(Frames) /\ GoodStack(calls[c])
  BY DEF Types, SignalTypes
<1>2. /\ Len(calls[c]) \in Nat \ {0}
      /\ Top(c) = calls[c][Len(calls[c])] /\ Top(c) \in Frames
  BY <1>1, StackTop DEF Top
<1>3. Len(calls[c]) \in 1 .. MaxCalls + 1
  BY <1>1, <1>2, SignalAssumption DEF GoodStack
<1>4. Len(calls[c]) # 1 => Len(calls[c]) \in 2 .. Len(calls[c])
  BY <1>2, AboveOne
<1>5. Top(c).loop = "interrupt" => Len(calls[c]) = 1
  BY <1>1, <1>2, <1>4 DEF GoodStack
<1>6. QED
  BY <1>2, <1>3, <1>5

LEMMA TopChanged ==
  ASSUME Types, NEW c \in Contexts, calls[c] # <<>>,
         NEW f \in Frames, f.loop = Top(c).loop, SetTop(c, f)
  PROVE  /\ calls' \in [Contexts -> Seq(Frames)]
         /\ \A d \in Contexts : GoodStack(calls'[d])
         /\ \A d \in Contexts \ {c} : calls'[d] = calls[d]
         /\ calls'[c] # <<>> /\ Len(calls'[c]) = Len(calls[c])
         /\ calls'[c][Len(calls[c])] = f
         /\ \A i \in 1 .. Len(calls[c]) - 1 : calls'[c][i] = calls[c][i]
<1>1. calls \in [Contexts -> Seq(Frames)] /\ GoodStack(calls[c])
  BY DEF Types, SignalTypes
<1>2. PICK r : r = Append(Front(calls[c]), f)
  OBVIOUS
<1>3. /\ r \in Seq(Frames) /\ r # <<>> /\ Len(r) = Len(calls[c]) /\ r[Len(calls[c])] = f
      /\ \A i \in 1 .. Len(calls[c]) - 1 : r[i] = calls[c][i]
  <2> DEFINE q == calls[c]
  <2>1. q \in Seq(Frames) /\ q # <<>> /\ f \in Frames /\ r = Append(Front(q), f)
    BY <1>1, <1>2
  <2> HIDE DEF q
  <2>2. r \in Seq(Frames) /\ r # <<>> /\ Len(r) = Len(q)
    <3>1. r \in Seq(Frames)
      BY ONLY <2>1, TopReplaced
    <3>2. r # <<>>
      BY ONLY <2>1, TopReplaced
    <3>3. Len(r) = Len(q)
      BY ONLY <2>1, TopReplaced
    <3>4. QED
      BY <3>1, <3>2, <3>3
  <2>3. r[Len(q)] = f
    BY <2>1, TopReplaced
  <2>4. \A i \in 1 .. Len(q) - 1 : r[i] = q[i]
    BY <2>1, TopReplaced
  <2>5. QED
    BY <2>2, <2>3, <2>4 DEF q
<1>4. GoodStack(r) /\ calls' = [calls EXCEPT ![c] = r]
  <2>1. calls[c] \in Seq(Frames) /\ Len(calls[c]) \in Nat \ {0}
    BY <1>1, TopOf
  <2>2. r[Len(calls[c])].loop = calls[c][Len(calls[c])].loop
    BY <1>3, TopOf
  <2>3. GoodStack(r)
    BY <1>1, <1>3, <2>1, <2>2, ReplacedGood
  <2>4. QED
    BY <1>1, <1>2, <2>3 DEF SetTop
<1>5. QED
  BY <1>3, <1>4, StackChanged

\* A context that is in the middle of its loops stays there.
LEMMA TopPlaced ==
  ASSUME Types, NEW c \in Contexts, calls[c] # <<>>, Placed(c),
         NEW f \in Frames, f.loop = Top(c).loop, SetTop(c, f),
         goal'[c] = goal[c],
         \/ pc'[c] = "loop" /\ ~f.handler
         \/ pc'[c] = "user" /\ f.handler
  PROVE  Placed(c)'
<1>1. /\ calls'[c] # <<>> /\ Len(calls'[c]) = Len(calls[c])
      /\ calls'[c][Len(calls[c])] = f
      /\ \A i \in 1 .. Len(calls[c]) - 1 : calls'[c][i] = calls[c][i]
  BY TopChanged
<1>2. Len(calls[c]) \in 1 .. MaxCalls + 1 /\ Top(c) = calls[c][Len(calls[c])]
  BY TopOf
<1>3. calls'[c][1].loop = calls[c][1].loop
  <2>1. CASE Len(calls[c]) = 1
    BY <1>1, <1>2, <2>1
  <2>2. CASE Len(calls[c]) # 1
    BY <1>1, <1>2, <2>2, SignalAssumption
  <2>3. QED
    BY <2>1, <2>2
<1>4. QED
  BY <1>1, <1>3 DEF Placed

\* What is on the lists when the frame on top has another one.
LEMMA TopLists ==
  ASSUME Types, NEW c \in Contexts, calls[c] # <<>>,
         NEW f \in Frames, f.loop = Top(c).loop, SetTop(c, f)
  PROVE  \A i \in Levels, s \in Signals :
           OnList(c, i, s)' <=> \/ i # Len(calls[c]) /\ OnList(c, i, s)
                                \/ i = Len(calls[c]) /\ f.loop = "raise" /\ s \in f.todo
<1>1. /\ calls'[c] # <<>> /\ Len(calls'[c]) = Len(calls[c])
      /\ calls'[c][Len(calls[c])] = f
      /\ \A i \in 1 .. Len(calls[c]) - 1 : calls'[c][i] = calls[c][i]
  BY TopChanged
<1>2. Len(calls[c]) \in 1 .. MaxCalls + 1
  BY TopOf
<1>3. SUFFICES ASSUME NEW i \in Levels, NEW s \in Signals
               PROVE  OnList(c, i, s)' <=>
                        \/ i # Len(calls[c]) /\ OnList(c, i, s)
                        \/ i = Len(calls[c]) /\ f.loop = "raise" /\ s \in f.todo
  OBVIOUS
<1>4. CASE i = Len(calls[c])
  BY <1>1, <1>2, <1>4, SignalAssumption DEF OnList
<1>5. CASE i # Len(calls[c])
  <2>1. i \in 1 .. Len(calls[c]) => i \in 1 .. Len(calls[c]) - 1
    BY <1>2, <1>5, SignalAssumption DEF Levels
  <2>2. QED
    BY <1>1, <1>5, <2>1 DEF OnList
<1>6. QED
  BY <1>4, <1>5

\* Another loop on top of the others.
LEMMA StackPushed ==
  ASSUME Types, NEW c \in Contexts, Len(calls[c]) <= MaxCalls,
         calls[c] # <<>> => calls[c][Len(calls[c])].handler,
         NEW f \in Frames, calls[c] # <<>> => f.loop = "raise", Push(c, f),
         f.loop = "raise" => f.todo = {}
  PROVE  /\ calls' \in [Contexts -> Seq(Frames)]
         /\ \A d \in Contexts : GoodStack(calls'[d])
         /\ \A d \in Contexts \ {c} : calls'[d] = calls[d]
         /\ Len(calls[c]) \in Nat /\ Len(calls'[c]) = Len(calls[c]) + 1
         /\ calls'[c] # <<>> /\ calls'[c][Len(calls[c]) + 1] = f
         /\ \A i \in 1 .. Len(calls[c]) : calls'[c][i] = calls[c][i]
         /\ SameLists(c)
<1>1. calls \in [Contexts -> Seq(Frames)] /\ GoodStack(calls[c])
  BY DEF Types, SignalTypes
<1>2. PICK r : r = Append(calls[c], f)
  OBVIOUS
<1>3. /\ r \in Seq(Frames) /\ r # <<>> /\ GoodStack(r)
      /\ Len(r) = Len(calls[c]) + 1 /\ Len(calls[c]) \in Nat
      /\ r[Len(calls[c]) + 1] = f
      /\ \A i \in 1 .. Len(calls[c]) : r[i] = calls[c][i]
  <2>1. calls[c] \in Seq(Frames)
    BY <1>1
  <2>2. r \in Seq(Frames) /\ r # <<>> /\ GoodStack(r)
    BY <1>1, <1>2, <2>1, TopPushed
  <2>3. Len(r) = Len(calls[c]) + 1 /\ Len(calls[c]) \in Nat
    BY <1>1, <1>2, <2>1, TopPushed
  <2>4. r[Len(calls[c]) + 1] = f
    BY <1>1, <1>2, <2>1, TopPushed
  <2>5. \A i \in 1 .. Len(calls[c]) : r[i] = calls[c][i]
    BY <1>1, <1>2, <2>1, TopPushed
  <2>6. QED
    BY <2>2, <2>3, <2>4, <2>5
<1>4. calls' = [calls EXCEPT ![c] = r]
  BY <1>1, <1>2 DEF Push
<1>5. /\ calls' \in [Contexts -> Seq(Frames)]
      /\ \A d \in Contexts : GoodStack(calls'[d])
      /\ calls'[c] = r /\ \A d \in Contexts \ {c} : calls'[d] = calls[d]
  BY <1>3, <1>4, StackChanged
<1>6. SameLists(c)
  <2>1. SUFFICES ASSUME NEW i \in Levels, NEW s \in Signals
                 PROVE  OnList(c, i, s)' <=> OnList(c, i, s)
    BY DEF SameLists
  <2>2. CASE i = Len(calls[c]) + 1
    BY <1>3, <1>5, <2>2 DEF OnList
  <2>3. CASE i # Len(calls[c]) + 1
    <3>1. i \in 1 .. Len(calls[c]) + 1 <=> i \in 1 .. Len(calls[c])
      BY <1>3, <2>3 DEF Levels
    <3>2. QED
      BY <1>3, <1>5, <3>1 DEF OnList
  <2>4. QED
    BY <2>2, <2>3
<1>7. QED
  BY <1>3, <1>5, <1>6

\* A loop that is done with its list leaves the stack.
LEMMA StackPopped ==
  ASSUME Types, NEW c \in Contexts, calls[c] # <<>>, Top(c).todo = {}, Pop(c)
  PROVE  /\ calls' \in [Contexts -> Seq(Frames)]
         /\ \A d \in Contexts : GoodStack(calls'[d])
         /\ \A d \in Contexts \ {c} : calls'[d] = calls[d]
         /\ Len(calls'[c]) = Len(calls[c]) - 1
         /\ \A i \in 1 .. Len(calls[c]) - 1 : calls'[c][i] = calls[c][i]
         /\ calls'[c] # <<>> => calls'[c][Len(calls'[c])].handler
         /\ Top(c).loop = "interrupt" => calls'[c] = <<>>
         /\ SameLists(c)
<1>1. /\ calls \in [Contexts -> Seq(Frames)] /\ GoodStack(calls[c])
      /\ Len(calls[c]) \in Nat \ {0} /\ Top(c) = calls[c][Len(calls[c])]
  BY TopOf DEF Types, SignalTypes
<1>2. PICK r : r = Front(calls[c])
  OBVIOUS
<1>3. /\ r \in Seq(Frames) /\ GoodStack(r) /\ Len(r) = Len(calls[c]) - 1
      /\ \A i \in 1 .. Len(calls[c]) - 1 : r[i] = calls[c][i]
      /\ r # <<>> => r[Len(r)].handler
      /\ Top(c).loop = "interrupt" => r = <<>>
  <2>1. calls[c] \in Seq(Frames)
    BY <1>1
  <2>2. r \in Seq(Frames) /\ GoodStack(r) /\ Len(r) = Len(calls[c]) - 1
    BY <1>1, <1>2, <2>1, TopPopped
  <2>3. \A i \in 1 .. Len(calls[c]) - 1 : r[i] = calls[c][i]
    BY <1>1, <1>2, <2>1, TopPopped
  <2>4. r # <<>> => r[Len(r)].handler
    BY <1>1, <1>2, <2>1, TopPopped
  <2>5. Top(c).loop = "interrupt" => r = <<>>
    BY <1>1, <1>2, <2>1, TopPopped
  <2>6. QED
    BY <2>2, <2>3, <2>4, <2>5
<1>4. calls' = [calls EXCEPT ![c] = r]
  BY <1>1, <1>2 DEF Pop
<1>5. /\ calls' \in [Contexts -> Seq(Frames)]
      /\ \A d \in Contexts : GoodStack(calls'[d])
      /\ calls'[c] = r /\ \A d \in Contexts \ {c} : calls'[d] = calls[d]
  BY <1>3, <1>4, StackChanged
<1>6. SameLists(c)
  <2>1. SUFFICES ASSUME NEW i \in Levels, NEW s \in Signals
                 PROVE  OnList(c, i, s)' <=> OnList(c, i, s)
    BY DEF SameLists
  <2>2. CASE i = Len(calls[c])
    BY <1>1, <1>3, <1>5, <2>2 DEF OnList
  <2>3. CASE i # Len(calls[c])
    <3>1. i \in 1 .. Len(calls[c]) - 1 <=> i \in 1 .. Len(calls[c])
      BY <1>1, <2>3, SignalAssumption DEF Levels
    <3>2. QED
      BY <1>3, <1>5, <3>1 DEF OnList
  <2>4. QED
    BY <2>2, <2>3
<1>7. QED
  BY <1>3, <1>5, <1>6

\* A wait is over: what is left of the stack is one loop of Raise, or nothing.
LEMMA StackReset ==
  ASSUME Types, NEW c \in Contexts, NEW r \in {<<>>, <<Frame("raise", {}, FALSE)>>},
         calls' = [calls EXCEPT ![c] = r],
         calls[c] = <<>> \/ Top(c).loop = "interrupt"
  PROVE  /\ calls' \in [Contexts -> Seq(Frames)]
         /\ \A d \in Contexts : GoodStack(calls'[d])
         /\ \A d \in Contexts \ {c} : calls'[d] = calls[d]
         /\ calls'[c] = r /\ SameLists(c)
<1> DEFINE f == Frame("raise", {}, FALSE)
<1>1. /\ f \in Frames /\ f.loop = "raise" /\ f.todo = {} /\ ~f.handler
  BY DEF Frame, Frames
<1> HIDE DEF f
<1>2. r \in Seq(Frames) /\ GoodStack(r)
  <2>1. CASE r = <<>>
    BY <2>1, SignalAssumption DEF GoodStack
  <2>2. CASE r = <<f>>
    <3>1. f \in Frames
      BY <1>1
    <3>2. <<f>> \in Seq(Frames) /\ Len(<<f>>) = 1
      BY <3>1
    <3>3. GoodStack(<<f>>)
      BY <3>2, SignalAssumption DEF GoodStack
    <3>4. QED
      BY <2>2, <3>2, <3>3
  <2>3. QED
    BY <2>1, <2>2 DEF f
<1>3. /\ calls' \in [Contexts -> Seq(Frames)]
      /\ \A d \in Contexts : GoodStack(calls'[d])
      /\ calls'[c] = r /\ \A d \in Contexts \ {c} : calls'[d] = calls[d]
  BY <1>2, StackChanged
<1>4. \A i, s : ~OnList(c, i, s)
  <2>1. CASE calls[c] = <<>>
    BY <2>1 DEF OnList
  <2>2. CASE calls[c] # <<>>
    <3>1. Len(calls[c]) = 1 /\ calls[c][1].loop = "interrupt"
      BY <2>2, TopOf
    <3>2. QED
      BY <3>1 DEF OnList
  <2>3. QED
    BY <2>1, <2>2
<1>5. \A i, s : ~OnList(c, i, s)'
  <2>1. CASE r = <<>>
    BY <1>3, <2>1 DEF OnList
  <2>2. CASE r = <<f>>
    <3>1. Len(<<f>>) = 1 /\ <<f>>[1] = f
      OBVIOUS
    <3>2. calls'[c] = <<f>>
      BY <1>3, <2>2
    <3>3. QED
      BY <1>1, <3>1, <3>2 DEF OnList
  <2>3. QED
    BY <2>1, <2>2 DEF f
<1>6. QED
  BY <1>3, <1>4, <1>5 DEF SameLists

-----------------------------------------------------------------------------
(***************************************************************************)
(* The steps that neither post nor take a signal.                          *)
(***************************************************************************)
LEMMA SetAlarmKeeps ==
  ASSUME IInv, NEW c \in Contexts, NEW delay \in BOOLEAN, SetAlarm(c, delay)
  PROVE  IInv'
<1>1. Types'
  BY DEF IInv, Types, SchedTypes, SignalTypes, HistoryTypes, SetAlarm, schedVars,
         history, maskVars, GoodStack
<1>2. AwakeReady'
  BY DEF IInv, SetAlarm, schedVars, AwakeReady
<1>3. \A d \in Contexts : Untouched(d) /\ fWakeup'[d] = fWakeup[d]
  BY DEF SetAlarm, schedVars, history, maskVars, Untouched
<1>4. UNCHANGED <<procPending, ctxPending, owed, credit, restarted>>
  BY DEF SetAlarm, history
<1>5. Placed(c)' /\ Masked(c)' /\ SameLists(c)
  BY <1>3, Others DEF IInv, SameLists
<1>6. Answered(c)'
  BY <1>3, <1>4, AnsweredStays DEF IInv
<1>7. QED
  BY <1>1, <1>2, <1>3, <1>4, <1>5, <1>6, QuietStep

LEMMA HandlerReturnsKeeps ==
  ASSUME IInv, NEW c \in Contexts, HandlerReturns(c)
  PROVE  IInv'
<1> DEFINE n == Len(calls[c])
           t == calls[c][n]
           f == [t EXCEPT !.handler = FALSE, !.blocksave = {}, !.blockset = {}]
<1>1. /\ Types /\ AwakeReady /\ Placed(c) /\ Masked(c) /\ Answered(c)
      /\ calls[c] # <<>> /\ current = c /\ pc[c] = "user"
  BY DEF IInv, HandlerReturns, At
<1>2. n \in 1 .. MaxCalls + 1 /\ n \in Nat \ {0} /\ Top(c) = t /\ t \in Frames
  BY <1>1, TopOf
<1>3. f \in Frames /\ f.loop = t.loop /\ f.todo = t.todo /\ f.interrupt = t.interrupt
      /\ ~f.handler /\ f.blocksave = {}
  BY <1>2 DEF Frames
<1>4. t.handler
  BY <1>1 DEF Placed
<1>5. SetTop(c, f) /\ pc' = [pc EXCEPT ![c] = "loop"]
  BY <1>2 DEF HandlerReturns, Goto
<1>6. fBlocked' = [fBlocked EXCEPT ![c] =
                     (t.blocksave \cup (fBlocked[c] \ t.blockset)) \ CantBlock]
  BY <1>2 DEF HandlerReturns, SetBlocked
<1>7. UNCHANGED <<process, current, ready, goal, fWakeup, procPending,
                  ctxPending, fAction, alarm, posts, credit, owed, restarted,
                  base, added>>
  BY DEF HandlerReturns, history, maskVars
<1> HIDE DEF f
<1>8. /\ calls' \in [Contexts -> Seq(Frames)]
      /\ \A d \in Contexts : GoodStack(calls'[d])
      /\ \A d \in Contexts \ {c} : calls'[d] = calls[d]
      /\ calls'[c] # <<>> /\ Len(calls'[c]) = n /\ calls'[c][n] = f
      /\ \A i \in 1 .. n - 1 : calls'[c][i] = calls[c][i]
  BY <1>1, <1>2, <1>3, <1>5, TopChanged
<1>9. /\ t.blocksave \subseteq Signals \ CantBlock
      /\ fBlocked \in [Contexts -> SUBSET (Signals \ CantBlock)]
      /\ pc \in [Contexts -> Labels]
  BY <1>1, <1>2 DEF Types, SchedTypes, SignalTypes, Frames
<1>10. /\ fBlocked'[c] = t.blocksave \cup ((fBlocked[c] \ t.blockset) \ CantBlock)
       /\ fBlocked' \in [Contexts -> SUBSET (Signals \ CantBlock)]
       /\ \A d \in Contexts \ {c} : fBlocked'[d] = fBlocked[d]
  BY <1>6, <1>9
<1>11. Types'
  <2>1. pc' \in [Contexts -> Labels]
    BY <1>5, <1>9 DEF Labels
  <2>2. QED
    BY <1>1, <1>7, <1>8, <1>10, <2>1 DEF Types, SchedTypes, SignalTypes, HistoryTypes,
       Bounded
<1>12. AwakeReady'
  BY <1>1, <1>5, <1>7, AwakeStays DEF Out
<1>13. pc'[c] = "loop" /\ \A d \in Contexts \ {c} : pc'[d] = pc[d]
  BY <1>5, <1>9
<1>14. Placed(c)'
  BY <1>1, <1>2, <1>3, <1>5, <1>7, <1>13, TopPlaced
<1>15. SameLists(c)
  BY <1>1, <1>2, <1>3, <1>5, TopLists DEF SameLists, OnList
<1>16. Allowed(c)' = Allowed(c) /\ t.blocksave \subseteq Allowed(c)
  BY <1>1, <1>2, <1>7 DEF Allowed, Masked
<1>17. CASE n = 1 /\ goal[c].op # "sigsuspend"
  <2>1. Restored(c) = t.blocksave /\ Restored(c)' = fBlocked'[c]
    BY <1>1, <1>3, <1>4, <1>7, <1>8, <1>17 DEF Restored
  <2>2. Masked(c)'
    BY <1>1, <1>3, <1>7, <1>8, <1>10, <1>16, <1>17, <2>1 DEF Masked, Allowed
  <2>3. \A s : Noticed(c, s)' <=> Noticed(c, s)
    BY <1>1, <1>3, <1>8, <1>17 DEF Noticed
  <2>4. Answered(c)'
    BY <1>1, <1>7, <1>10, <1>13, <2>1, <2>3 DEF Answered, OwedTo
  <2>5. QED
    BY <1>7, <1>8, <1>10, <1>11, <1>12, <1>13, <1>14, <1>15, <2>2, <2>4,
       QuietStep DEF Untouched
<1>18. CASE n # 1 \/ goal[c].op = "sigsuspend"
  <2>1. Restored(c)' = Restored(c)
    <3>1. n # 1 => calls'[c][1] = calls[c][1] /\ calls[c][1].handler
      <4>1. n # 1 => 1 \in 1 .. n - 1
        BY <1>2, AboveOne
      <4>2. GoodStack(calls[c])
        BY <1>1 DEF Types, SignalTypes
      <4>3. QED
        BY <1>8, <4>1, <4>2 DEF GoodStack
    <3>2. QED
      BY <1>1, <1>7, <1>8, <1>18, <3>1 DEF Restored
  <2>2. \A i \in 1 .. n : calls'[c][i].blocksave \subseteq Allowed(c)
    <3>1. TAKE i \in 1 .. n
    <3>2. CASE i = n
      BY <1>3, <1>8, <3>2
    <3>3. CASE i # n
      <4>1. i \in 1 .. n - 1
        BY <1>2, <3>3
      <4>2. calls'[c][i] = calls[c][i] /\ calls[c][i].blocksave \subseteq Allowed(c)
        BY <1>1, <1>8, <4>1 DEF Masked
      <4>3. QED
        BY <4>2
    <3>4. QED
      BY <3>2, <3>3
  <2>3. Masked(c)'
    BY <1>1, <1>7, <1>8, <1>10, <1>16, <2>1, <2>2 DEF Masked
  <2>4. \A s : Noticed(c, s)' <=> Noticed(c, s)
    BY <1>1, <1>2, <1>3, <1>8, SignalAssumption DEF Noticed
  <2>5. Answered(c)'
    BY <1>1, <1>7, <1>10, <1>13, <2>1, <2>4 DEF Answered, OwedTo
  <2>6. QED
    BY <1>7, <1>8, <1>10, <1>11, <1>12, <1>13, <1>14, <1>15, <2>3, <2>5,
       QuietStep DEF Untouched, IInv
<1>19. QED
  BY <1>17, <1>18

LEMMA SigmaskKeeps ==
  ASSUME IInv, NEW c \in Contexts, NEW how \in {"block", "unblock", "set"},
         NEW m \in Masks, Sigmask(c, how, m)
  PROVE  IInv'
<1> DEFINE q == calls[c]
           f == Frame("raise", {}, FALSE)
<1>1. /\ Types /\ AwakeReady /\ Placed(c) /\ Masked(c) /\ Answered(c)
      /\ current = c /\ pc[c] = "user" /\ Len(q) <= MaxCalls
  BY SignalAssumption DEF IInv, Sigmask, At, Types, SignalTypes
<1>2. /\ f \in Frames /\ f.loop = "raise" /\ f.todo = {} /\ ~f.handler
      /\ f.blocksave = {}
  BY DEF Frame, Frames
<1>3. Push(c, f) /\ pc' = [pc EXCEPT ![c] = "loop"]
  BY DEF Sigmask, RaiseFrame, Goto
<1>4. UNCHANGED <<process, current, ready, goal, fWakeup, procPending,
                  ctxPending, fAction, alarm, posts, credit, owed, restarted>>
  BY DEF Sigmask
<1> HIDE DEF f
<1>5. PICK sigs :
        /\ sigs = CASE how = "block" -> fBlocked[c] \cup m
                    [] how = "unblock" -> fBlocked[c] \ m
                    [] how = "set" -> m
        /\ SetBlocked(c, sigs)
        /\ IF q = <<>>
           THEN /\ base' = [base EXCEPT ![c] = sigs \ CantBlock]
                /\ added' = [added EXCEPT ![c] = {}]
           ELSE /\ added' = [added EXCEPT ![c] = @ \cup (sigs \ fBlocked[c])]
                /\ UNCHANGED base
  BY DEF Sigmask
<1>6. /\ fBlocked \in [Contexts -> SUBSET (Signals \ CantBlock)]
      /\ base \in [Contexts -> SUBSET (Signals \ CantBlock)]
      /\ added \in [Contexts -> SUBSET Signals]
      /\ pc \in [Contexts -> Labels] /\ m \subseteq Signals
  BY <1>1, SignalAssumption DEF Types, SchedTypes, SignalTypes, HistoryTypes
<1>7. sigs \subseteq Signals
  <2>1. CASE how = "block"
    BY <1>5, <1>6, <2>1
  <2>2. CASE how = "unblock"
    BY <1>5, <1>6, <2>2
  <2>3. CASE how = "set"
    BY <1>5, <1>6, <2>3
  <2>4. QED
    BY <2>1, <2>2, <2>3
<1>8. /\ fBlocked'[c] = sigs \ CantBlock
      /\ fBlocked' \in [Contexts -> SUBSET (Signals \ CantBlock)]
      /\ \A d \in Contexts \ {c} : fBlocked'[d] = fBlocked[d]
  BY <1>5, <1>6, <1>7 DEF SetBlocked
<1>9. /\ base' \in [Contexts -> SUBSET (Signals \ CantBlock)]
      /\ added' \in [Contexts -> SUBSET Signals]
      /\ \A d \in Contexts \ {c} : base'[d] = base[d] /\ added'[d] = added[d]
  <2>1. CASE q = <<>>
    BY <1>5, <1>6, <1>7, <2>1
  <2>2. CASE q # <<>>
    BY <1>5, <1>6, <1>7, <2>2
  <2>3. QED
    BY <2>1, <2>2
<1>10. /\ calls' \in [Contexts -> Seq(Frames)]
       /\ \A d \in Contexts : GoodStack(calls'[d])
       /\ \A d \in Contexts \ {c} : calls'[d] = calls[d]
       /\ Len(q) \in Nat /\ Len(calls'[c]) = Len(q) + 1
       /\ calls'[c] # <<>> /\ calls'[c][Len(q) + 1] = f
       /\ \A i \in 1 .. Len(q) : calls'[c][i] = q[i]
       /\ SameLists(c)
  <2>1. q # <<>> => q[Len(q)].handler
    BY <1>1 DEF Placed
  <2>2. QED
    BY <1>1, <1>2, <1>3, <2>1, StackPushed
<1>11. pc'[c] = "loop" /\ \A d \in Contexts \ {c} : pc'[d] = pc[d]
  BY <1>3, <1>6
<1>12. Types'
  <2>1. pc' \in [Contexts -> Labels]
    BY <1>3, <1>6 DEF Labels
  <2>2. QED
    BY <1>1, <1>4, <1>8, <1>9, <1>10, <2>1
       DEF Types, SchedTypes, SignalTypes, HistoryTypes, Bounded
<1>13. AwakeReady'
  BY <1>1, <1>3, <1>4, AwakeStays DEF Out
<1>14. CASE q = <<>>
  <2>1. goal[c].op = "none"
    BY <1>1, <1>14 DEF Placed
  <2>2. Len(q) = 0
    BY <1>14
  <2>3. Len(calls'[c]) = 1 /\ calls'[c][1] = f
    BY <1>10, <2>2
  <2>4. Placed(c)'
    BY <1>2, <1>4, <1>10, <1>11, <2>1, <2>3 DEF Placed
  <2>5. base'[c] = fBlocked'[c] /\ added'[c] = {} /\ Restored(c)' = fBlocked'[c]
    BY <1>2, <1>4, <1>5, <1>6, <1>8, <1>14, <2>1, <2>3 DEF Restored
  <2>6. Masked(c)'
    BY <1>2, <1>4, <2>1, <2>3, <2>5 DEF Masked, Allowed
  <2>7. Answered(c)'
    BY <1>4, <2>1 DEF Answered
  <2>8. QED
    BY <1>4, <1>8, <1>9, <1>10, <1>11, <1>12, <1>13, <2>4, <2>6, <2>7,
       QuietStep DEF Untouched
<1>15. CASE q # <<>>
  <2>1. q \in Seq(Frames) /\ Len(q) \in Nat \ {0}
    BY <1>1, <1>15, TopOf DEF Types, SignalTypes
  <2>2. calls'[c][1] = q[1]
    BY <1>10, <2>1
  <2>3. q[1].handler
    <3>1. q[Len(q)].handler
      BY <1>1, <1>15 DEF Placed
    <3>2. Len(q) # 1 => 1 \in 1 .. Len(q) - 1
      BY <2>1, AboveOne
    <3>3. QED
      BY <1>1, <3>1, <3>2 DEF Types, SignalTypes, GoodStack
  <2>4. Placed(c)'
    BY <1>1, <1>2, <1>4, <1>10, <1>11, <1>15, <2>2 DEF Placed
  <2>5. Restored(c)' = Restored(c)
    BY <1>4, <1>10, <1>15, <2>2, <2>3 DEF Restored
  <2>6. /\ base'[c] = base[c] /\ added[c] \subseteq added'[c]
        /\ fBlocked'[c] \subseteq fBlocked[c] \cup added'[c]
    BY <1>5, <1>6, <1>8, <1>15
  <2>7. Allowed(c) \subseteq Allowed(c)' /\ added'[c] \subseteq Allowed(c)'
    BY <1>4, <2>6 DEF Allowed
  <2>8. \A i \in 1 .. Len(calls'[c]) : calls'[c][i].blocksave \subseteq Allowed(c)'
    <3>1. SUFFICES ASSUME NEW i \in 1 .. Len(calls'[c])
                   PROVE  calls'[c][i].blocksave \subseteq Allowed(c)'
      OBVIOUS
    <3>2. CASE i = Len(q) + 1
      BY <1>2, <1>10, <3>2
    <3>3. CASE i # Len(q) + 1
      <4>1. i \in 1 .. Len(q)
        BY <1>10, <3>3
      <4>2. QED
        BY <1>1, <1>10, <2>7, <4>1 DEF Masked
    <3>4. QED
      BY <3>2, <3>3
  <2>9. Masked(c)'
    BY <1>1, <2>5, <2>6, <2>7, <2>8 DEF Masked
  <2>10. \A s : Noticed(c, s)' <=> Noticed(c, s)
    BY <1>10, <1>15, <2>2 DEF Noticed
  <2>11. Answered(c)'
    BY <1>1, <1>4, <1>11, <2>5, <2>6, <2>10 DEF Answered, OwedTo
  <2>12. QED
    BY <1>4, <1>8, <1>9, <1>10, <1>11, <1>12, <1>13, <2>4, <2>9, <2>11,
       QuietStep DEF Untouched
<1>16. QED
  BY <1>14, <1>15

LEMMA AwaitKeeps ==
  ASSUME IInv, NEW c \in Contexts,
         NEW op \in {"slice", "block", "sigwait", "sigsuspend", "pause"},
         NEW sigs \in SUBSET Signals, NEW label \in {"check", "stop"},
         label = "stop" => op \in {"sigsuspend", "pause"},
         Await(c, op, sigs, label),
         IF op = "sigsuspend" THEN SetBlocked(c, sigs) ELSE UNCHANGED fBlocked
  PROVE  IInv'
<1> DEFINE g == [op |-> op, sigs |-> sigs,
                 save |-> IF op = "sigsuspend" THEN fBlocked[c] ELSE {}]
<1>1. /\ Types /\ AwakeReady /\ Placed(c) /\ Masked(c)
      /\ current = c /\ pc[c] = "user" /\ calls[c] = <<>>
  BY DEF IInv, Await, Program, At
<1>2. goal' = [goal EXCEPT ![c] = g] /\ pc' = [pc EXCEPT ![c] = label]
  BY DEF Await, Goto
<1>3. UNCHANGED <<process, current, ready, fWakeup, procPending, ctxPending,
                  fAction, calls, alarm, posts, credit, owed, restarted, base, added>>
  BY DEF Await, history, maskVars
<1>4. /\ fBlocked \in [Contexts -> SUBSET (Signals \ CantBlock)]
      /\ goal \in [Contexts -> Goals] /\ pc \in [Contexts -> Labels]
  BY <1>1 DEF Types, SchedTypes, SignalTypes
<1>5. /\ g \in Goals /\ g.op = op /\ g.sigs = sigs
      /\ op = "sigsuspend" => g.save = fBlocked[c]
  BY <1>4 DEF Goals
<1> HIDE DEF g
<1>6. /\ goal' \in [Contexts -> Goals] /\ pc' \in [Contexts -> Labels]
      /\ goal'[c] = g /\ pc'[c] = label
      /\ \A d \in Contexts \ {c} : goal'[d] = goal[d] /\ pc'[d] = pc[d]
  <2>1. g \in Goals /\ label \in Labels
    BY <1>5 DEF Labels
  <2>2. goal \in [Contexts -> Goals] /\ pc \in [Contexts -> Labels]
    BY <1>4
  <2>3. goal' \in [Contexts -> Goals] /\ goal'[c] = g
    BY <1>2, <2>1, <2>2, Zenon
  <2>4. pc' \in [Contexts -> Labels] /\ pc'[c] = label
    BY <1>2, <2>1, <2>2, Zenon
  <2>5. \A d \in Contexts \ {c} : goal'[d] = goal[d] /\ pc'[d] = pc[d]
    BY <1>2, <2>2
  <2>6. QED
    BY <2>3, <2>4, <2>5
<1>7. /\ fBlocked' \in [Contexts -> SUBSET (Signals \ CantBlock)]
      /\ fBlocked'[c] = IF op = "sigsuspend" THEN sigs \ CantBlock ELSE fBlocked[c]
      /\ \A d \in Contexts \ {c} : fBlocked'[d] = fBlocked[d]
  BY <1>4 DEF SetBlocked
<1>8. Types'
  BY <1>1, <1>3, <1>6, <1>7
     DEF Types, SchedTypes, SignalTypes, HistoryTypes, Bounded
<1>9. AwakeReady'
  BY <1>1, <1>2, <1>3, AwakeStays DEF Out
<1>10. /\ goal'[c].op = op /\ goal'[c].sigs = sigs
       /\ op = "sigsuspend" => goal'[c].save = fBlocked[c]
  BY <1>5, <1>6
<1>11. Placed(c)'
  BY <1>1, <1>3, <1>6, <1>10 DEF Placed
<1>12. goal[c].op = "none" /\ Restored(c) = fBlocked[c] /\ Restored(c)' = fBlocked[c]
  BY <1>1, <1>3, <1>6, <1>7, <1>10 DEF Placed, Restored
<1>13. Masked(c)'
  <2>1. fBlocked'[c] \subseteq Allowed(c)'
    BY <1>1, <1>3, <1>7, <1>12, <1>10 DEF Masked, Allowed
  <2>2. QED
    BY <1>1, <1>3, <1>12, <2>1 DEF Masked
<1>14. Answered(c)'
  BY <1>6, <1>10 DEF Answered
<1>15. SameLists(c)
  BY <1>3 DEF SameLists, OnList
<1>16. QED
  BY <1>3, <1>6, <1>7, <1>8, <1>9, <1>11, <1>13, <1>14, <1>15, QuietStep
     DEF Untouched

\* The calls that begin a wait.
LEMMA WaitsKeep ==
  ASSUME IInv, NEW c \in Contexts,
         \/ YieldSlice(c) \/ Block(c) \/ Pause(c)
         \/ \E sigs \in SUBSET Sent : Sigwait(c, sigs)
         \/ \E m \in Masks : Sigsuspend(c, m)
  PROVE  IInv'
<1>1. Sent \subseteq Signals /\ \A m \in Masks : m \subseteq Signals
  BY SignalAssumption
<1>2. CASE YieldSlice(c)
  BY <1>2, AwaitKeeps DEF YieldSlice
<1>3. CASE Block(c)
  BY <1>3, AwaitKeeps DEF Block
<1>4. CASE Pause(c)
  BY <1>4, AwaitKeeps DEF Pause
<1>5. CASE \E sigs \in SUBSET Sent : Sigwait(c, sigs)
  <2>1. PICK sigs \in SUBSET Signals : Sigwait(c, sigs)
    BY <1>1, <1>5
  <2>2. QED
    BY <2>1, AwaitKeeps DEF Sigwait
<1>6. CASE \E m \in Masks : Sigsuspend(c, m)
  <2>1. PICK m \in SUBSET Signals : Sigsuspend(c, m)
    BY <1>1, <1>6
  <2>2. QED
    BY <2>1, AwaitKeeps DEF Sigsuspend
<1>7. QED
  BY <1>2, <1>3, <1>4, <1>5, <1>6

LEMMA CheckKeeps ==
  ASSUME IInv, NEW c \in Contexts, Check(c)
  PROVE  IInv'
<1> DEFINE f == Frame("interrupt", Ready(c), Suspends(c))
<1>1. /\ Types /\ AwakeReady /\ Placed(c) /\ Masked(c)
      /\ current = c /\ pc[c] = "check" /\ calls[c] = <<>> /\ goal[c].op # "none"
  BY DEF IInv, Check, At, Placed
<1>2. /\ pc \in [Contexts -> Labels] /\ Ready(c) \subseteq Signals
      /\ goal[c].sigs \subseteq Signals
  BY <1>1 DEF Types, SchedTypes, SignalTypes, Ready, Goals
<1>3. /\ f \in Frames /\ f.loop = "interrupt" /\ f.todo = Ready(c) /\ ~f.handler
      /\ f.blocksave = {}
  BY <1>2 DEF Frame, Frames, Suspends
<1> HIDE DEF f
<1>4. /\ UNCHANGED <<process, current, ready, goal, fWakeup, procPending,
                     ctxPending, fBlocked, fAction, alarm, posts, credit, owed,
                     restarted, base, added>>
      /\ goal[c].op = "sigwait" => goal[c].sigs \cap (procPending \cup ctxPending[c]) = {}
  BY DEF Check, history, maskVars
<1>5. goal[c].op = "sigwait" => \A s \in goal[c].sigs : <<c, s>> \notin owed
  <2>1. \A s : ~Listed(c, s)
    BY <1>1 DEF Listed, OnList
  <2>2. QED
    BY <1>2, <1>4, <2>1 DEF IInv, OwedFound
<1>6. PICK label \in {"stop", "stopAgain", "loop"} :
        /\ pc' = [pc EXCEPT ![c] = label]
        /\ IF Ready(c) = {} THEN label # "loop" /\ UNCHANGED calls
           ELSE label = "loop" /\ Push(c, f)
  BY DEF Check, Goto, f
<1>7. pc'[c] = label /\ \A d \in Contexts \ {c} : pc'[d] = pc[d]
  BY <1>2, <1>6
<1>8. pc' \in [Contexts -> Labels]
  BY <1>2, <1>6 DEF Labels
<1>9. AwakeReady'
  BY <1>1, <1>4, <1>6, AwakeStays DEF Out
<1>10. Restored(c) = IF goal[c].op = "sigsuspend" THEN goal[c].save ELSE fBlocked[c]
  BY <1>1 DEF Restored
<1>11. CASE Ready(c) = {}
  <2>1. UNCHANGED calls /\ label \in {"stop", "stopAgain"}
    BY <1>6, <1>11
  <2>2. Types'
    BY <1>1, <1>4, <1>8, <2>1 DEF Types, SchedTypes, SignalTypes, HistoryTypes, Bounded
  <2>3. Restored(c)' = Restored(c)
    BY <1>4, <2>1 DEF Restored
  <2>4. Placed(c)' /\ Masked(c)' /\ SameLists(c)
    BY <1>1, <1>4, <1>7, <2>1, <2>3 DEF Placed, Masked, Allowed, SameLists, OnList
  <2>5. Answered(c)'
    BY <1>4, <1>5, <1>10, <1>11, <2>3 DEF Answered, Ready
  <2>6. QED
    BY <1>4, <1>7, <1>9, <2>1, <2>2, <2>4, <2>5, QuietStep DEF Untouched
<1>12. CASE Ready(c) # {}
  <2>1. Push(c, f) /\ pc'[c] = "loop"
    BY <1>6, <1>7, <1>12
  <2>2. Len(calls[c]) = 0
    BY <1>1
  <2>3. /\ calls' \in [Contexts -> Seq(Frames)]
        /\ \A d \in Contexts : GoodStack(calls'[d])
        /\ \A d \in Contexts \ {c} : calls'[d] = calls[d]
        /\ Len(calls'[c]) = 1 /\ calls'[c] # <<>> /\ calls'[c][1] = f /\ SameLists(c)
    <3>1. Len(calls[c]) <= MaxCalls
      BY <2>2, SignalAssumption
    <3>2. /\ calls' \in [Contexts -> Seq(Frames)]
          /\ \A d \in Contexts : GoodStack(calls'[d])
          /\ \A d \in Contexts \ {c} : calls'[d] = calls[d]
          /\ Len(calls'[c]) = Len(calls[c]) + 1 /\ calls'[c] # <<>>
          /\ calls'[c][Len(calls[c]) + 1] = f /\ SameLists(c)
      BY <1>1, <1>3, <2>1, <3>1, StackPushed
    <3>3. QED
      BY <2>2, <3>2
  <2>4. Types'
    BY <1>1, <1>4, <1>8, <2>3 DEF Types, SchedTypes, SignalTypes, HistoryTypes, Bounded
  <2>5. Restored(c)' = Restored(c)
    BY <1>3, <1>4, <1>10, <2>3 DEF Restored
  <2>6. Placed(c)'
    BY <1>1, <1>3, <1>4, <2>1, <2>3 DEF Placed
  <2>7. Masked(c)'
    BY <1>1, <1>3, <1>4, <2>3, <2>5 DEF Masked, Allowed
  <2>8. Answered(c)'
    BY <1>3, <1>4, <1>5, <1>10, <2>3, <2>5 DEF Answered, Ready, Noticed
  <2>9. QED
    BY <1>4, <1>7, <1>9, <2>3, <2>4, <2>6, <2>7, <2>8, QuietStep DEF Untouched
<1>13. QED
  BY <1>11, <1>12

\* A wait is over: the context goes back to its program, or to the Raise that
\* follows Yield, with the mask it has again.
LEMMA WaitOver ==
  ASSUME IInv, NEW c \in Contexts, current = c, pc[c] \notin Out,
         calls[c] = <<>> \/ (Top(c).loop = "interrupt" /\ ~Top(c).handler),
         NEW r \in {<<>>, <<Frame("raise", {}, FALSE)>>},
         calls' = [calls EXCEPT ![c] = r],
         pc' = [pc EXCEPT ![c] = IF r = <<>> THEN "user" ELSE "loop"],
         goal' = [goal EXCEPT ![c] = Idle],
         fWakeup' = [fWakeup EXCEPT ![c] = FALSE],
         IF goal[c].op = "sigsuspend"
         THEN SetBlocked(c, goal[c].save \cup (fBlocked[c] \ goal[c].sigs))
         ELSE UNCHANGED fBlocked,
         UNCHANGED <<process, current, ready, procPending, ctxPending, fAction,
                     alarm, posts, credit, owed, restarted, base, added>>
  PROVE  IInv'
<1> DEFINE f == Frame("raise", {}, FALSE)
<1>1. Types /\ AwakeReady /\ Masked(c)
  BY DEF IInv
<1>2. /\ f \in Frames /\ f.loop = "raise" /\ f.todo = {} /\ ~f.handler
      /\ f.blocksave = {} /\ ~f.interrupt
  BY DEF Frame, Frames
<1> HIDE DEF f
<1>3. /\ calls' \in [Contexts -> Seq(Frames)]
      /\ \A d \in Contexts : GoodStack(calls'[d])
      /\ \A d \in Contexts \ {c} : calls'[d] = calls[d]
      /\ calls'[c] = r /\ SameLists(c)
  BY <1>1, StackReset
<1>4. /\ pc \in [Contexts -> Labels] /\ goal \in [Contexts -> Goals]
      /\ fBlocked \in [Contexts -> SUBSET (Signals \ CantBlock)]
      /\ fWakeup \in [Contexts -> BOOLEAN]
  BY <1>1 DEF Types, SchedTypes, SignalTypes
<1>5. Idle \in Goals /\ Idle.op = "none"
  BY DEF Idle, Goals
<1>6. /\ goal' \in [Contexts -> Goals] /\ goal'[c].op = "none"
      /\ fWakeup' \in [Contexts -> BOOLEAN]
      /\ \A d \in Contexts \ {c} : goal'[d] = goal[d] /\ fWakeup'[d] = fWakeup[d]
  BY <1>4, <1>5
<1>7. /\ pc' \in [Contexts -> Labels] /\ pc'[c] = (IF r = <<>> THEN "user" ELSE "loop")
      /\ \A d \in Contexts \ {c} : pc'[d] = pc[d]
  BY <1>4 DEF Labels
<1>8. goal[c].save \subseteq Signals \ CantBlock
  BY <1>4 DEF Goals
<1>9. /\ fBlocked' \in [Contexts -> SUBSET (Signals \ CantBlock)]
      /\ \A d \in Contexts \ {c} : fBlocked'[d] = fBlocked[d]
      /\ fBlocked'[c] = IF goal[c].op = "sigsuspend"
                        THEN goal[c].save \cup (fBlocked[c] \ goal[c].sigs)
                        ELSE fBlocked[c]
  <2>1. CASE goal[c].op = "sigsuspend"
    <3> DEFINE mask == goal[c].save \cup (fBlocked[c] \ goal[c].sigs)
    <3>1. fBlocked' = [fBlocked EXCEPT ![c] = mask \ CantBlock]
      BY <2>1 DEF SetBlocked
    <3>2. mask \subseteq Signals \ CantBlock /\ mask \ CantBlock = mask
      BY <1>4, <1>8
    <3> HIDE DEF mask
    <3>3. /\ fBlocked' \in [Contexts -> SUBSET (Signals \ CantBlock)]
          /\ \A d \in Contexts \ {c} : fBlocked'[d] = fBlocked[d]
          /\ fBlocked'[c] = mask
      BY <1>4, <3>1, <3>2
    <3>4. QED
      BY <2>1, <3>3 DEF mask
  <2>2. CASE goal[c].op # "sigsuspend"
    <3>1. fBlocked' = fBlocked
      BY <2>2
    <3>2. QED
      BY <1>4, <2>2, <3>1
  <2>3. QED
    BY <2>1, <2>2
<1>10. Types'
  BY <1>1, <1>3, <1>6, <1>7, <1>9
     DEF Types, SchedTypes, SignalTypes, HistoryTypes, Bounded
<1>11. AwakeReady'
  <2>1. CASE r = <<>>
    BY <1>1, <2>1, AwakeStays DEF Out
  <2>2. CASE r # <<>>
    BY <1>1, <2>2, AwakeStays DEF Out
  <2>3. QED
    BY <2>1, <2>2
<1>12. calls[c] # <<>> => ~calls[c][1].handler
  BY <1>1, TopOf
<1>13. /\ Len(<<f>>) = 1 /\ <<f>>[1] = f /\ <<f>> # <<>>
       /\ r = <<>> \/ r = <<f>>
  BY DEF f
<1>14. Restored(c)' = fBlocked'[c]
  BY <1>2, <1>3, <1>6, <1>13 DEF Restored
<1>15. Placed(c)'
  BY <1>2, <1>3, <1>6, <1>7, <1>13 DEF Placed
<1>16. base[c] \subseteq fBlocked'[c] /\ fBlocked'[c] \subseteq base[c] \cup added[c]
  BY <1>1, <1>9, <1>12 DEF Masked, Restored, Allowed
<1>17. Masked(c)'
  BY <1>2, <1>3, <1>6, <1>13, <1>14, <1>16 DEF Masked, Allowed
<1>18. Answered(c)'
  BY <1>6 DEF Answered
<1>19. QED
  BY <1>3, <1>6, <1>7, <1>9, <1>10, <1>11, <1>15, <1>17, <1>18, QuietStep
     DEF Untouched

LEMMA InterruptedKeeps ==
  ASSUME IInv, NEW c \in Contexts, Interrupted(c)
  PROVE  IInv'
<1>1. /\ Types /\ AwakeReady /\ Placed(c) /\ Masked(c) /\ Answered(c)
      /\ current = c /\ pc[c] = "loop" /\ calls[c] # <<>>
      /\ Top(c).loop = "interrupt" /\ Top(c).todo = {}
  BY DEF IInv, Interrupted, At, Placed
<1>2. /\ Len(calls[c]) = 1 /\ Top(c) = calls[c][1] /\ ~Top(c).handler
      /\ goal[c].op # "none"
  BY <1>1, TopOf DEF Placed
<1>3. UNCHANGED <<process, current, ready, procPending, ctxPending, fAction,
                  alarm, posts, credit, owed, restarted, base, added>>
  BY DEF Interrupted, history, maskVars
<1>4. CASE Top(c).interrupt /\ goal[c].op # "sigwait"
  <2>1. IF Suspends(c) THEN SuspendReturns(c) ELSE YieldReturns(c)
    BY <1>4 DEF Interrupted
  <2>2. CASE Suspends(c)
    BY <1>1, <1>2, <1>3, <2>1, <2>2, WaitOver DEF SuspendReturns, Goto, Out
  <2>3. CASE ~Suspends(c)
    BY <1>1, <1>2, <1>3, <2>1, <2>3, WaitOver DEF YieldReturns, Goto, Out, Suspends
  <2>4. QED
    BY <2>2, <2>3
<1>5. CASE ~(Top(c).interrupt /\ goal[c].op # "sigwait")
  <2>1. PICK label \in {"stop", "stopAgain"} : pc' = [pc EXCEPT ![c] = label]
    BY <1>5 DEF Interrupted, Goto
  <2>2. Pop(c) /\ UNCHANGED <<fWakeup, goal, fBlocked>>
    BY <1>5 DEF Interrupted
  <2>3. /\ calls' \in [Contexts -> Seq(Frames)]
        /\ \A d \in Contexts : GoodStack(calls'[d])
        /\ \A d \in Contexts \ {c} : calls'[d] = calls[d]
        /\ calls'[c] = <<>> /\ SameLists(c)
    BY <1>1, <2>2, StackPopped
  <2>4. pc \in [Contexts -> Labels]
    BY <1>1 DEF Types, SchedTypes
  <2>5. /\ pc' \in [Contexts -> Labels] /\ pc'[c] = label
        /\ \A d \in Contexts \ {c} : pc'[d] = pc[d]
    BY <2>1, <2>4 DEF Labels
  <2>6. Types'
    BY <1>1, <1>3, <2>2, <2>3, <2>5
       DEF Types, SchedTypes, SignalTypes, HistoryTypes, Bounded
  <2>7. AwakeReady'
    BY <1>1, <1>3, <2>1, <2>2, AwakeStays DEF Out
  <2>8. Placed(c)'
    BY <1>2, <2>2, <2>3, <2>5 DEF Placed
  <2>9. Restored(c)' = Restored(c)
    BY <1>2, <2>2, <2>3 DEF Restored
  <2>10. Masked(c)'
    BY <1>1, <1>3, <2>2, <2>3, <2>9 DEF Masked, Allowed
  <2>12. Answered(c)'
    BY <1>1, <1>2, <1>3, <1>5, <2>2, <2>5, <2>9 DEF Answered, OwedTo, Noticed
  <2>13. QED
    BY <1>3, <2>2, <2>3, <2>5, <2>6, <2>7, <2>8, <2>10, <2>12, QuietStep
       DEF Untouched
<1>6. QED
  BY <1>4, <1>5

\* The next step of c, neither in its program nor in a loop, changes where it
\* is and nothing else of its own.
LEMMA Moved ==
  ASSUME IInv, NEW c \in Contexts, NEW label \in Labels \ {"user", "loop"},
         pc[c] \notin {"user", "loop"}, pc' = [pc EXCEPT ![c] = label],
         label = "test" => goal[c].op \in {"slice", "block"},
         label \in {"check", "test"} \/ pc[c] \notin {"check", "test"},
         current' \in Contexts, ready' \subseteq Contexts, AwakeReady',
         UNCHANGED <<process, goal, fWakeup, procPending, ctxPending, fBlocked,
                     fAction, calls, alarm, posts, credit, owed, restarted, base,
                     added>>
  PROVE  IInv'
<1>1. Types /\ Placed(c) /\ Masked(c) /\ Answered(c)
  BY DEF IInv
<1>2. pc \in [Contexts -> Labels]
  BY <1>1 DEF Types, SchedTypes
<1>3. /\ pc' \in [Contexts -> Labels] /\ pc'[c] = label
      /\ \A d \in Contexts \ {c} : pc'[d] = pc[d]
  BY <1>2
<1>4. Types'
  BY <1>1, <1>3 DEF Types, SchedTypes, SignalTypes, HistoryTypes, Bounded
<1>5. Placed(c)'
  BY <1>1, <1>3 DEF Placed
<1>6. Restored(c)' = Restored(c)
  BY DEF Restored
<1>7. Masked(c)'
  BY <1>1, <1>6 DEF Masked, Allowed
<1>8. Answered(c)'
  BY <1>1, <1>3, <1>6 DEF Answered, OwedTo, Noticed
<1>9. SameLists(c)
  BY DEF SameLists, OnList
<1>10. QED
  BY <1>3, <1>4, <1>5, <1>7, <1>8, <1>9, QuietStep DEF Untouched

LEMMA TestWakeupKeeps ==
  ASSUME IInv, NEW c \in Contexts, TestWakeup(c)
  PROVE  IInv'
<1>1. /\ Types /\ AwakeReady /\ Placed(c)
      /\ current = c /\ pc[c] = "test" /\ calls[c] = <<>>
  BY DEF IInv, TestWakeup, At, Placed
<1>2. UNCHANGED <<process, current, ready, procPending, ctxPending, fAction,
                  alarm, posts, credit, owed, restarted, base, added>>
  BY DEF TestWakeup, history, maskVars
<1>3. CASE goal[c].op = "slice" \/ fWakeup[c]
  <2>1. YieldReturns(c)
    BY <1>3 DEF TestWakeup
  <2>2. goal[c].op # "sigsuspend"
    BY <1>1 DEF Placed
  <2>3. QED
    <3>1. PICK r \in {<<>>, <<Frame("raise", {}, FALSE)>>} :
            r # <<>> /\ calls' = [calls EXCEPT ![c] = r]
      BY <2>1 DEF YieldReturns
    <3>2. /\ pc[c] \notin Out /\ pc' = [pc EXCEPT ![c] = "loop"]
          /\ goal' = [goal EXCEPT ![c] = Idle]
          /\ fWakeup' = [fWakeup EXCEPT ![c] = FALSE] /\ UNCHANGED fBlocked
      BY <1>1, <2>1 DEF YieldReturns, Goto, Out
    <3>3. QED
      BY <1>1, <1>2, <2>2, <3>1, <3>2, WaitOver
<1>4. CASE ~(goal[c].op = "slice" \/ fWakeup[c])
  <2>1. /\ pc' = [pc EXCEPT ![c] = "check"]
        /\ UNCHANGED <<fWakeup, goal, fBlocked, calls>>
    BY <1>4 DEF TestWakeup, Goto
  <2>2. AwakeReady'
    BY <1>1, <1>2, <2>1, AwakeStays DEF Out
  <2>3. current' \in Contexts /\ ready' \subseteq Contexts
    BY <1>1, <1>2 DEF Types, SchedTypes
  <2>4. QED
    BY <1>1, <1>2, <2>1, <2>2, <2>3, Moved DEF Labels
<1>5. QED
  BY <1>3, <1>4

LEMMA SwitchOutKeeps ==
  ASSUME IInv, NEW c \in Contexts, SwitchOut(c)
  PROVE  IInv'
<1>1. /\ Types /\ AwakeReady /\ current = c /\ pc[c] \in {"stop", "stopAgain"}
  BY DEF IInv, SwitchOut, At
<1>2. PICK label \in Out : pc' = [pc EXCEPT ![c] = label]
  BY DEF SwitchOut, Out
<1>3. UNCHANGED <<process, current, goal, fWakeup, procPending, ctxPending,
                  fBlocked, fAction, calls, alarm, posts, credit, owed, restarted,
                  base, added>>
  BY DEF SwitchOut, signalVars, history, maskVars
<1>4. /\ pc \in [Contexts -> Labels] /\ current \in Contexts /\ ready \subseteq Contexts
  BY <1>1 DEF Types, SchedTypes
<1>5. pc'[c] \in Out /\ \A d \in Contexts \ {c} : pc'[d] = pc[d]
  BY <1>2, <1>4
<1>6. /\ ready \subseteq ready' /\ ready' \subseteq Contexts
      /\ fWakeup[c] => c \in ready'
  BY <1>4 DEF SwitchOut
<1>7. AwakeReady'
  BY <1>1, <1>3, <1>5, <1>6 DEF AwakeReady
<1>8. QED
  BY <1>1, <1>2, <1>3, <1>4, <1>6, <1>7, Moved DEF Labels, Out

LEMMA DispatchKeeps ==
  ASSUME IInv, NEW c \in Contexts, Dispatch(c)
  PROVE  IInv'
<1>1. /\ Types /\ AwakeReady /\ Placed(c) /\ Masked(c) /\ Answered(c)
      /\ pc[current] \in Out
  BY DEF IInv, Dispatch, Out
<1>2. UNCHANGED <<process, goal, fWakeup, procPending, ctxPending,
                  fBlocked, fAction, calls, alarm, posts, credit, owed, restarted,
                  base, added>>
  BY DEF Dispatch, signalVars, history, maskVars
<1>3. /\ current' = c /\ ready' = ready \ {c} /\ current' \in Contexts
      /\ ready' \subseteq Contexts
  BY <1>1 DEF Dispatch, Types, SchedTypes
<1>4. pc \in [Contexts -> Labels]
  BY <1>1 DEF Types, SchedTypes
<1>5. CASE pc[c] \in Out
  <2>1. PICK label \in {"stop", "check", "test"} :
          /\ pc' = [pc EXCEPT ![c] = label]
          /\ label = "test" => goal[c].op \in {"slice", "block"}
    BY <1>5 DEF Dispatch, Goto, Out
  <2>2. pc'[c] \notin Out /\ \A d \in Contexts \ {c} : pc'[d] = pc[d]
    BY <1>4, <2>1 DEF Out
  <2>3. AwakeReady'
    BY <1>1, <1>2, <1>3, <2>2 DEF AwakeReady
  <2>4. QED
    BY <1>2, <1>3, <1>5, <2>1, <2>3, Moved DEF Labels, Out
<1>6. CASE pc[c] \notin Out
  <2>1. UNCHANGED pc
    BY <1>4, <1>6 DEF Dispatch, Goto, Out
  <2>2. AwakeReady'
    BY <1>1, <1>2, <1>3, <1>6, <2>1 DEF AwakeReady
  <2>3. Types'
    BY <1>1, <1>2, <1>3, <2>1
       DEF Types, SchedTypes, SignalTypes, HistoryTypes, Bounded
  <2>4. \A d \in Contexts : Untouched(d) /\ fWakeup'[d] = fWakeup[d]
    BY <1>2, <2>1 DEF Untouched
  <2>5. Placed(c)' /\ Masked(c)' /\ SameLists(c)
    BY <1>1, <2>4, Others DEF SameLists
  <2>6. Answered(c)'
    BY <1>1, <1>2, <2>4, AnsweredStays
  <2>7. QED
    BY <1>2, <2>2, <2>3, <2>4, <2>5, <2>6, QuietStep
<1>7. QED
  BY <1>5, <1>6

LEMMA EventKeeps ==
  ASSUME IInv, NEW c \in Contexts, Event(c)
  PROVE  IInv'
<1>1. /\ Types /\ AwakeReady /\ OwedFound /\ Counted
      /\ \A d \in Contexts : Placed(d) /\ Masked(d) /\ Answered(d)
  BY DEF IInv
<1>2. UNCHANGED <<process, current, pc, goal, procPending, ctxPending, fBlocked,
                  fAction, calls, alarm, posts, credit, owed, restarted, base, added>>
  BY DEF Event, signalVars, history, maskVars
<1>3. /\ ready' \subseteq Contexts /\ fWakeup' \in [Contexts -> BOOLEAN]
      /\ \A d \in Contexts : fWakeup[d] => fWakeup'[d]
      /\ AwakeReady'
  BY <1>1, <1>2, Woken DEF Event
<1>4. Types'
  BY <1>1, <1>2, <1>3 DEF Types, SchedTypes, SignalTypes, HistoryTypes, Bounded
<1>5. \A d \in Contexts : Untouched(d) /\ SameLists(d)
  BY <1>2 DEF Untouched, SameLists, OnList
<1>6. OwedFound' /\ Counted'
  BY <1>1, <1>2, <1>5, Quiet
<1>7. \A d \in Contexts : Answered(d)'
  BY <1>1, <1>2, <1>3, <1>5, AnsweredStays
<1>8. Placed(c)' /\ Masked(c)'
  BY <1>1, <1>5, Others
<1>9. QED
  BY <1>4, <1>3, <1>5, <1>6, <1>7, <1>8, Assembled

-----------------------------------------------------------------------------
(***************************************************************************)
(* A signal is posted.                                                     *)
(***************************************************************************)
LEMMA OneMore ==
  ASSUME NEW S, IsFiniteSet(S), NEW p, NEW T, T \subseteq S \cup {p}
  PROVE  /\ IsFiniteSet(T)
         /\ Cardinality(T) \in Nat /\ Cardinality(S) \in Nat
         /\ Cardinality(T) <= Cardinality(S) + (IF p \in S THEN 0 ELSE 1)
<1>1. /\ IsFiniteSet(S \cup {p})
      /\ Cardinality(S \cup {p}) =
           IF p \in S THEN Cardinality(S) ELSE Cardinality(S) + 1
  BY FS_AddElement
<1>2. IsFiniteSet(T) /\ Cardinality(T) <= Cardinality(S \cup {p})
  BY <1>1, FS_Subset
<1>3. Cardinality(T) \in Nat /\ Cardinality(S) \in Nat
  BY <1>2, FS_CardinalityType
<1>4. QED
  BY <1>1, <1>2, <1>3

LEMMA OneLess ==
  ASSUME NEW S, IsFiniteSet(S), NEW p \in S, NEW T, T \subseteq S \ {p}
  PROVE  /\ IsFiniteSet(T) /\ Cardinality(T) \in Nat /\ Cardinality(S) \in Nat
         /\ Cardinality(T) <= Cardinality(S) - 1
<1>1. IsFiniteSet(S \ {p}) /\ Cardinality(S \ {p}) = Cardinality(S) - 1
  BY FS_RemoveElement
<1>2. IsFiniteSet(T) /\ Cardinality(T) <= Cardinality(S \ {p})
  BY <1>1, FS_Subset
<1>3. Cardinality(T) \in Nat /\ Cardinality(S) \in Nat
  BY <1>2, FS_CardinalityType
<1>4. QED
  BY <1>1, <1>2, <1>3

Pending(t) == IF t = Process THEN procPending ELSE ctxPending[t]

LEMMA PostKeeps ==
  ASSUME IInv, NEW t \in Contexts \cup {Process}, NEW s \in Signals,
         NEW primed \in BOOLEAN, Posted(t, s, s \notin Pending(t), primed),
         alarm' = primed,
         NEW woken \in SUBSET Contexts, Wakeup(woken), t \in Contexts => t \in woken,
         t = Process => \A c \in Contexts : s \in fBlocked[c] \/ c \in woken,
         IF t = Process
         THEN /\ \/ procPending' = procPending \cup {s}
                 \/ s = Alarm /\ procPending' = procPending
              /\ UNCHANGED ctxPending
         ELSE /\ ctxPending' = [ctxPending EXCEPT ![t] = @ \cup {s}]
              /\ UNCHANGED procPending,
         UNCHANGED <<process, current, pc, goal, fBlocked, fAction, calls, restarted,
                     base, added>>
  PROVE  IInv'
<1>1. /\ Types /\ AwakeReady /\ OwedFound /\ Counted
      /\ \A d \in Contexts : Placed(d) /\ Masked(d) /\ Answered(d)
  BY DEF IInv
<1>2. /\ ready' \subseteq Contexts /\ fWakeup' \in [Contexts -> BOOLEAN]
      /\ \A d \in Contexts : fWakeup'[d] <=> (fWakeup[d] \/ d \in woken)
      /\ AwakeReady'
  BY <1>1, Woken
<1>3. /\ procPending \subseteq Signals
      /\ ctxPending \in [Contexts -> SUBSET Signals]
      /\ credit \in [Signals -> Int] /\ posts \in Nat
      /\ owed \subseteq (Contexts \cup {Process}) \X Signals
  BY <1>1 DEF Types, SignalTypes, HistoryTypes
<1>4. /\ posts' \in Nat /\ Bounded(posts', alarm')
      /\ owed' = owed \cup {<<t, s>>}
      /\ owed' \subseteq (Contexts \cup {Process}) \X Signals
  BY <1>3 DEF Posted
<1>5. /\ credit' \in [Signals -> Int]
      /\ \A x \in Signals \ {s} : credit'[x] = credit[x]
      /\ credit'[s] = credit[s] + (IF s \in Pending(t) THEN 0 ELSE 1)
  BY <1>3 DEF Posted
<1>6. /\ procPending' \subseteq Signals /\ procPending \subseteq procPending'
      /\ procPending' \subseteq procPending \cup {s}
      /\ t = Process /\ s # Alarm => s \in procPending'
      /\ t # Process => procPending' = procPending
  BY <1>3
<1>7. /\ ctxPending' \in [Contexts -> SUBSET Signals]
      /\ \A d \in Contexts : IF d = t THEN ctxPending'[d] = ctxPending[d] \cup {s}
                                      ELSE ctxPending'[d] = ctxPending[d]
  BY <1>3, SignalAssumption
<1>8. Types'
  BY <1>1, <1>2, <1>4, <1>5, <1>6, <1>7
     DEF Types, SchedTypes, SignalTypes, HistoryTypes
<1>9. \A d \in Contexts : Untouched(d)
  BY DEF Untouched
<1>10. \A d \in Contexts : \A i, x : OnList(d, i, x)' <=> OnList(d, i, x)
  BY DEF OnList
<1>11. \A d \in Contexts : \A x : Listed(d, x)' <=> Listed(d, x)
  BY <1>10 DEF Listed
<1>12. OwedFound'
  <2>1. ASSUME NEW x \in Signals \ {Alarm}, <<Process, x>> \in owed'
        PROVE  x \in procPending' \/ \E d \in Contexts : Listed(d, x)'
    <3>1. CASE <<Process, x>> = <<t, s>>
      BY <1>6, <2>1, <3>1
    <3>2. CASE <<Process, x>> \in owed
      BY <1>1, <1>6, <1>11, <3>2 DEF OwedFound
    <3>3. QED
      BY <1>4, <2>1, <3>1, <3>2
  <2>2. ASSUME NEW d \in Contexts, NEW x \in Signals, <<d, x>> \in owed'
        PROVE  x \in ctxPending'[d] \/ Listed(d, x)'
    <3>1. CASE <<d, x>> = <<t, s>>
      BY <1>7, <3>1
    <3>2. CASE <<d, x>> \in owed
      BY <1>1, <1>7, <1>11, <3>2 DEF OwedFound
    <3>3. QED
      BY <1>4, <2>2, <3>1, <3>2
  <2>3. QED
    BY <2>1, <2>2 DEF OwedFound
<1>13. Counted'
  <2>1. SUFFICES ASSUME NEW x \in Signals \ restarted
                 PROVE  /\ IsFiniteSet(Places(x)')
                        /\ Cardinality(Places(x)') <= credit'[x]
    BY DEF Counted
  <2>2. IsFiniteSet(Places(x)) /\ Cardinality(Places(x)) <= credit[x]
    BY <1>1 DEF Counted
  <2>3. CASE x # s
    <3>1. Places(x)' \subseteq Places(x)
      BY <1>6, <1>7, <1>10, <2>3, PlacesShrink
    <3>2. IsFiniteSet(Places(x)') /\ Cardinality(Places(x)') <= Cardinality(Places(x))
      BY <2>2, <3>1, FS_Subset
    <3>3. Cardinality(Places(x)) \in Nat /\ Cardinality(Places(x)') \in Nat
      BY <2>2, <3>2, FS_CardinalityType
    <3>4. QED
      BY <1>3, <1>5, <2>2, <2>3, <3>2, <3>3
  <2>4. CASE x = s
    <3>1. Places(s)' \subseteq Places(s) \cup {<<t, 0>>}
      BY <1>6, <1>7, <1>10 DEF Places
    <3>2. s \in Pending(t) => <<t, 0>> \in Places(s)
      BY SignalAssumption DEF Pending, Places, Levels
    <3>3. /\ IsFiniteSet(Places(s)')
          /\ Cardinality(Places(s)') \in Nat /\ Cardinality(Places(s)) \in Nat
          /\ Cardinality(Places(s)') <=
               Cardinality(Places(s)) + (IF <<t, 0>> \in Places(s) THEN 0 ELSE 1)
      BY <2>2, <2>4, <3>1, OneMore
    <3>4. QED
      BY <1>3, <1>5, <2>2, <2>4, <3>2, <3>3
  <2>5. QED
    BY <2>3, <2>4
<1>14. \A d \in Contexts : Answered(d)'
  <2>1. SUFFICES ASSUME NEW d \in Contexts, pc[d] \notin {"check", "test"}
                 PROVE  Answered(d)'
    BY DEF Answered
  <2>2. ASSUME goal[d].op = "block", NEW x \in Signals \ added[d],
               x \in (procPending' \cup ctxPending'[d]) \ Restored(d),
               owed' \cap OwedTo(d, x) # {}
        PROVE  fWakeup'[d] \/ Noticed(d, x)
    <3>1. CASE x = s /\ t \in {Process, d}
      <4>1. fBlocked[d] \subseteq base[d] \cup added[d] /\ base[d] \subseteq Restored(d)
        BY <1>1, <2>2 DEF Masked, Allowed
      <4>2. s \notin fBlocked[d]
        BY <2>2, <3>1, <4>1
      <4>3. d \in woken
        BY <3>1, <4>2
      <4>4. QED
        BY <1>2, <4>3
    <3>2. CASE ~(x = s /\ t \in {Process, d})
      <4>1. <<t, s>> \notin OwedTo(d, x)
        BY <3>2 DEF OwedTo
      <4>2. owed \cap OwedTo(d, x) # {}
        BY <1>4, <2>2, <4>1
      <4>3. x \in procPending \cup ctxPending[d]
        BY <1>6, <1>7, <2>2, <3>2
      <4>4. fWakeup[d] \/ Noticed(d, x)
        BY <1>1, <2>1, <2>2, <4>2, <4>3 DEF Answered
      <4>5. QED
        BY <1>2, <4>4
    <3>3. QED
      BY <3>1, <3>2
  <2>3. ASSUME goal[d].op = "sigwait", NEW x \in goal[d].sigs, <<d, x>> \in owed'
        PROVE  fWakeup'[d]
    <3>1. CASE <<d, x>> \in owed
      BY <1>1, <1>2, <2>1, <2>3, <3>1 DEF Answered
    <3>2. CASE <<d, x>> = <<t, s>>
      BY <1>2, <3>2
    <3>3. QED
      BY <1>4, <2>3, <3>1, <3>2
  <2>4. /\ Restored(d)' = Restored(d) /\ \A x : Noticed(d, x)' <=> Noticed(d, x)
    BY <1>9, Others
  <2>5. QED
    BY <2>2, <2>3, <2>4 DEF Answered, OwedTo
<1>15. QED
  <2>1. PICK d \in Contexts : TRUE
    BY SignalAssumption
  <2>2. Placed(d)' /\ Masked(d)'
    BY <1>1, <1>9, Others
  <2>3. QED
    BY <1>2, <1>8, <1>9, <1>12, <1>13, <1>14, <2>2, Assembled

LEMMA WokenByOpen ==
  ASSUME NEW s \in Signals
  PROVE  /\ WokenBy(s) \subseteq Contexts
         /\ \A c \in Contexts : s \in fBlocked[c] \/ c \in WokenBy(s)
BY DEF WokenBy

LEMMA PostsKeep ==
  ASSUME IInv,
         \/ \E c \in Contexts, s \in Sent : RaiseSignal(c, s)
         \/ \E c, d \in Contexts, s \in Sent : PthreadKill(c, d, s)
         \/ \E lost, interval \in BOOLEAN : AlarmFires(lost, interval)
  PROVE  IInv'
<1>1. Sent \subseteq Signals /\ Alarm \in Signals /\ Process \notin Contexts
  BY SignalAssumption
<1>2. alarm \in BOOLEAN
  BY DEF IInv, Types, SignalTypes
<1>3. CASE \E c \in Contexts, s \in Sent : RaiseSignal(c, s)
  <2>1. PICK c \in Contexts, s \in Sent : RaiseSignal(c, s)
    BY <1>3
  <2>2. s \in Signals /\ Pending(Process) = procPending
    BY <1>1 DEF Pending
  <2>3. QED
    BY <1>1, <1>2, <2>1, <2>2, WokenByOpen, PostKeeps DEF RaiseSignal, maskVars
<1>4. CASE \E c, d \in Contexts, s \in Sent : PthreadKill(c, d, s)
  <2>1. PICK c \in Contexts, d \in Contexts, s \in Sent : PthreadKill(c, d, s)
    BY <1>4
  <2>2. s \in Signals /\ d # Process /\ Pending(d) = ctxPending[d]
    BY <1>1 DEF Pending
  <2>3. PICK woken \in SUBSET Contexts : woken = {d} /\ Wakeup(woken)
    BY <2>1 DEF PthreadKill
  <2>4. /\ Posted(d, s, s \notin Pending(d), alarm) /\ UNCHANGED alarm
        /\ ctxPending' = [ctxPending EXCEPT ![d] = @ \cup {s}]
        /\ UNCHANGED <<process, current, pc, goal, procPending, fBlocked, fAction,
                       calls, restarted, base, added>>
    BY <2>1, <2>2 DEF PthreadKill, maskVars
  <2>5. QED
    BY <1>2, <2>2, <2>3, <2>4, PostKeeps
<1>5. CASE \E lost, interval \in BOOLEAN : AlarmFires(lost, interval)
  <2>1. PICK lost \in BOOLEAN, interval \in BOOLEAN : AlarmFires(lost, interval)
    BY <1>5
  <2>2. Pending(Process) = procPending
    BY DEF Pending
  <2>3. QED
    BY <1>1, <2>1, <2>2, WokenByOpen, PostKeeps DEF AlarmFires, maskVars
<1>6. QED
  BY <1>3, <1>4, <1>5

-----------------------------------------------------------------------------
(***************************************************************************)
(* A signal is taken, or forgotten.                                        *)
(***************************************************************************)
\* Nothing is owed of signal s to context c, or to the process, any more.
LEMMA OwedStays ==
  ASSUME OwedFound, NEW c \in Contexts, NEW s \in Signals,
         owed' = owed \ OwedTo(c, s),
         \A x \in procPending : x \in procPending' \/ x = s,
         \A d \in Contexts : \A x \in ctxPending[d] :
           x \in ctxPending'[d] \/ (d = c /\ x = s),
         \A d \in Contexts, i \in Levels, x \in Signals :
           OnList(d, i, x) => OnList(d, i, x)' \/ (d = c /\ x = s)
  PROVE  OwedFound'
<1>1. \A d \in Contexts, x \in Signals :
        Listed(d, x) => Listed(d, x)' \/ (d = c /\ x = s)
  BY DEF Listed
<1>2. ASSUME NEW x \in Signals \ {Alarm}, <<Process, x>> \in owed'
      PROVE  x \in procPending' \/ \E d \in Contexts : Listed(d, x)'
  <2>1. <<Process, x>> \in owed /\ x # s
    BY <1>2 DEF OwedTo
  <2>2. CASE x \in procPending
    BY <2>1, <2>2
  <2>3. CASE \E d \in Contexts : Listed(d, x)
    BY <1>1, <2>1, <2>3
  <2>4. QED
    BY <2>1, <2>2, <2>3 DEF OwedFound
<1>3. ASSUME NEW d \in Contexts, NEW x \in Signals, <<d, x>> \in owed'
      PROVE  x \in ctxPending'[d] \/ Listed(d, x)'
  <2>1. <<d, x>> \in owed /\ ~(d = c /\ x = s)
    BY <1>3 DEF OwedTo
  <2>2. QED
    BY <1>1, <2>1 DEF OwedFound
<1>4. QED
  BY <1>2, <1>3 DEF OwedFound

LEMMA CountStays ==
  ASSUME Types, Counted, NEW s \in Signals,
         credit' \in [Signals -> Int], restarted \subseteq restarted',
         \A x \in Signals \ {s} :
           Places(x)' \subseteq Places(x) /\ credit'[x] = credit[x],
         \/ s \in restarted'
         \/ Places(s)' \subseteq Places(s) /\ credit'[s] = credit[s]
         \/ /\ \E p \in Places(s) : Places(s)' \subseteq Places(s) \ {p}
            /\ credit'[s] >= credit[s] - 1
  PROVE  Counted'
<1>1. credit \in [Signals -> Int]
  BY DEF Types, HistoryTypes
<1>2. SUFFICES ASSUME NEW x \in Signals \ restarted'
               PROVE  /\ IsFiniteSet(Places(x)')
                      /\ Cardinality(Places(x)') <= credit'[x]
  BY DEF Counted
<1>3. IsFiniteSet(Places(x)) /\ Cardinality(Places(x)) <= credit[x]
  BY <1>2 DEF Counted
<1>4. CASE Places(x)' \subseteq Places(x) /\ credit'[x] = credit[x]
  <2>1. IsFiniteSet(Places(x)') /\ Cardinality(Places(x)') <= Cardinality(Places(x))
    BY <1>3, <1>4, FS_Subset
  <2>2. Cardinality(Places(x)) \in Nat /\ Cardinality(Places(x)') \in Nat
    BY <1>3, <2>1, FS_CardinalityType
  <2>3. QED
    BY <1>1, <1>3, <1>4, <2>1, <2>2
<1>5. CASE /\ \E p \in Places(x) : Places(x)' \subseteq Places(x) \ {p}
           /\ credit'[x] >= credit[x] - 1
  <2>1. PICK p \in Places(x) : Places(x)' \subseteq Places(x) \ {p}
    BY <1>5
  <2>2. /\ IsFiniteSet(Places(x)')
        /\ Cardinality(Places(x)') \in Nat /\ Cardinality(Places(x)) \in Nat
        /\ Cardinality(Places(x)') <= Cardinality(Places(x)) - 1
    BY <1>3, <2>1, OneLess
  <2>3. QED
    BY <1>1, <1>3, <1>5, <2>2
<1>6. QED
  BY <1>2, <1>4, <1>5

\* The loop on top of the running context looks at a signal.
LEMMA TopStep ==
  ASSUME IInv, NEW c \in Contexts, calls[c] # <<>>, current = c, pc[c] = "loop",
         NEW g \in Frames, g.loop = Top(c).loop, SetTop(c, g),
         \/ /\ g.handler /\ g.blocksave = fBlocked[c]
            /\ pc' = [pc EXCEPT ![c] = "user"]
         \/ /\ ~g.handler /\ g.blocksave = Top(c).blocksave
            /\ UNCHANGED pc,
         g.loop = "interrupt" =>
           /\ Top(c).interrupt => g.interrupt
           /\ \A x \in Top(c).todo :
                x \in g.todo \/ g.interrupt \/ owed' \cap OwedTo(c, x) = {},
         UNCHANGED <<current, ready, goal, fWakeup, fBlocked, alarm, posts, base,
                     added>>,
         procPending' \subseteq procPending,
         ctxPending' \in [Contexts -> SUBSET Signals],
         \A d \in Contexts : ctxPending'[d] \subseteq ctxPending[d],
         owed' \subseteq owed, restarted' \subseteq Signals,
         credit' \in [Signals -> Int], process' \in {"runs", "exited", "wild"},
         fAction' \in [Signals -> Dispositions],
         \A s \in CantChange : fAction'[s].sa_handler = "default",
         OwedFound', Counted'
  PROVE  IInv'
<1> DEFINE n == Len(calls[c])
<1>1. /\ Types /\ AwakeReady
      /\ \A d \in Contexts : Placed(d) /\ Masked(d) /\ Answered(d)
  BY DEF IInv
<1>2. n \in 1 .. MaxCalls + 1 /\ n \in Nat \ {0} /\ Top(c) = calls[c][n]
  BY <1>1, TopOf
<1>3. /\ calls' \in [Contexts -> Seq(Frames)]
      /\ \A d \in Contexts : GoodStack(calls'[d])
      /\ \A d \in Contexts \ {c} : calls'[d] = calls[d]
      /\ calls'[c] # <<>> /\ Len(calls'[c]) = n /\ calls'[c][n] = g
      /\ \A i \in 1 .. n - 1 : calls'[c][i] = calls[c][i]
  BY <1>1, TopChanged
<1>4. pc \in [Contexts -> Labels] /\ ~Top(c).handler
  BY <1>1, <1>2 DEF Types, SchedTypes, Placed
<1>5. /\ pc' \in [Contexts -> Labels] /\ pc'[c] \in {"user", "loop"}
      /\ \/ pc'[c] = "loop" /\ ~g.handler
         \/ pc'[c] = "user" /\ g.handler
      /\ \A d \in Contexts \ {c} : pc'[d] = pc[d]
  BY <1>4 DEF Labels
<1>6. Types'
  <2>1. SchedTypes'
    BY <1>1, <1>5 DEF Types, SchedTypes
  <2>2. SignalTypes'
    BY <1>1, <1>3 DEF Types, SignalTypes
  <2>3. HistoryTypes'
    BY <1>1 DEF Types, HistoryTypes, Bounded
  <2>4. QED
    BY <2>1, <2>2, <2>3 DEF Types
<1>7. AwakeReady'
  BY <1>1, AwakeStays DEF Out
<1>8. Placed(c)'
  BY <1>1, <1>5, TopPlaced
<1>9. n # 1 => calls'[c][1] = calls[c][1]
  BY <1>2, <1>3, AboveOne
<1>10. Restored(c)' = Restored(c)
  BY <1>2, <1>3, <1>4, <1>9 DEF Restored
<1>11. Masked(c)'
  <2>1. Allowed(c)' = Allowed(c)
    BY DEF Allowed
  <2>2. \A i \in 1 .. n : calls'[c][i].blocksave \subseteq Allowed(c)
    <3>1. calls'[c][n].blocksave \subseteq Allowed(c)
      BY <1>1, <1>2, <1>3 DEF Masked
    <3>2. \A i \in 1 .. n - 1 : calls'[c][i].blocksave \subseteq Allowed(c)
      <4>1. TAKE i \in 1 .. n - 1
      <4>2. i \in 1 .. n /\ calls'[c][i] = calls[c][i]
        BY <1>2, <1>3
      <4>3. QED
        BY <1>1, <4>2 DEF Masked
    <3>3. QED
      BY <1>2, <3>1, <3>2
  <2>3. QED
    BY <1>1, <1>3, <1>10, <2>1, <2>2 DEF Masked
<1>12. Answered(c)'
  <2>1. ASSUME goal[c].op = "block", NEW s \in Signals \ added[c],
               s \in (procPending' \cup ctxPending'[c]) \ Restored(c),
               owed' \cap OwedTo(c, s) # {}
        PROVE  fWakeup[c] \/ Noticed(c, s)'
    <3>1. fWakeup[c] \/ Noticed(c, s)
      BY <1>1, <2>1 DEF Answered
    <3>2. CASE n # 1
      BY <1>3, <1>9, <3>1, <3>2 DEF Noticed
    <3>3. CASE n = 1
      <4>1. g.loop = "interrupt"
        BY <1>1, <1>2, <2>1, <3>3 DEF Placed
      <4>2. QED
        BY <1>2, <1>3, <2>1, <3>1, <3>3, <4>1 DEF Noticed
    <3>4. QED
      BY <3>2, <3>3
  <2>2. goal[c].op = "sigwait" => \A s \in goal[c].sigs : <<c, s>> \in owed' => fWakeup[c]
    BY <1>1 DEF Answered
  <2>3. QED
    BY <1>10, <2>1, <2>2 DEF Answered, OwedTo
<1>13. \A d \in Contexts \ {c} : Untouched(d) /\ Answered(d)'
  <2>1. \A d \in Contexts \ {c} : Untouched(d)
    BY <1>3, <1>5 DEF Untouched
  <2>2. QED
    BY <1>1, <2>1, AnsweredStays
<1>14. QED
  BY <1>6, <1>7, <1>8, <1>11, <1>12, <1>13, Assembled

LEMMA RaiseAgainKeeps ==
  ASSUME IInv, NEW c \in Contexts, RaiseAgain(c)
  PROVE  IInv'
<1> DEFINE n == Len(calls[c])
<1>1. /\ Types /\ AwakeReady /\ Placed(c) /\ Masked(c) /\ Answered(c)
      /\ OwedFound /\ Counted /\ current = c /\ pc[c] = "loop" /\ calls[c] # <<>>
      /\ Top(c).loop = "raise" /\ Top(c).todo = {}
  BY DEF IInv, RaiseAgain, At, Placed
<1>2. /\ n \in 1 .. MaxCalls + 1 /\ n \in Nat \ {0} /\ Top(c) = calls[c][n]
      /\ Top(c) \in Frames
  BY <1>1, TopOf
<1>3. ~Top(c).handler
  BY <1>1, <1>2 DEF Placed
<1>4. UNCHANGED <<process, current, ready, goal, fWakeup, fBlocked, fAction, alarm,
                  posts, credit, owed, restarted, base, added>>
  BY DEF RaiseAgain, history, maskVars
<1>5. /\ procPending \subseteq Signals /\ pc \in [Contexts -> Labels]
      /\ ctxPending \in [Contexts -> SUBSET Signals]
  BY <1>1 DEF Types, SchedTypes, SignalTypes
<1>6. CASE Ready(c) = {}
  <2>1. /\ Pop(c) /\ pc' = [pc EXCEPT ![c] = "user"]
        /\ UNCHANGED <<procPending, ctxPending>>
    BY <1>6 DEF RaiseAgain, Goto
  <2>2. /\ calls' \in [Contexts -> Seq(Frames)]
        /\ \A d \in Contexts : GoodStack(calls'[d])
        /\ \A d \in Contexts \ {c} : calls'[d] = calls[d]
        /\ Len(calls'[c]) = n - 1
        /\ \A i \in 1 .. n - 1 : calls'[c][i] = calls[c][i]
        /\ calls'[c] # <<>> => calls'[c][Len(calls'[c])].handler
        /\ SameLists(c)
    BY <1>1, <2>1, StackPopped
  <2>3. /\ pc' \in [Contexts -> Labels] /\ pc'[c] = "user"
        /\ \A d \in Contexts \ {c} : pc'[d] = pc[d]
    BY <1>5, <2>1 DEF Labels
  <2>4. Types'
    BY <1>1, <1>4, <2>1, <2>2, <2>3
       DEF Types, SchedTypes, SignalTypes, HistoryTypes, Bounded
  <2>5. AwakeReady'
    <3> DEFINE label == "user"
    <3>1. label \notin Out /\ pc[c] \notin Out /\ pc' = [pc EXCEPT ![c] = label]
      BY <1>1, <2>1 DEF Out
    <3>2. /\ Types /\ AwakeReady /\ current = c /\ fWakeup' = fWakeup
          /\ UNCHANGED <<current, ready>>
      BY <1>1, <1>4
    <3> HIDE DEF label
    <3>3. QED
      BY <3>1, <3>2, AwakeStays
  <2>6. /\ calls'[c] = <<>> <=> n = 1
        /\ calls'[c] # <<>> => calls'[c][1] = calls[c][1]
    <3>1. calls'[c] \in Seq(Frames)
      BY <2>2
    <3>2. calls'[c] = <<>> <=> Len(calls'[c]) = 0
      BY <3>1
    <3>3. n # 1 => 1 \in 1 .. n - 1
      BY <1>2, AboveOne
    <3>4. QED
      BY <1>2, <2>2, <3>2, <3>3
  <2>7. n = 1 => goal[c].op = "none"
    BY <1>1, <1>2 DEF Placed
  <2>8. Placed(c)'
    BY <1>1, <1>4, <2>2, <2>3, <2>6, <2>7 DEF Placed
  <2>9. Restored(c)' = Restored(c)
    BY <1>1, <1>2, <1>3, <1>4, <2>6 DEF Restored
  <2>10. Masked(c)'
    <3>1. Allowed(c)' = Allowed(c)
      BY <1>4 DEF Allowed
    <3>2. \A i \in 1 .. Len(calls'[c]) : calls'[c][i].blocksave \subseteq Allowed(c)
      <4>1. TAKE i \in 1 .. Len(calls'[c])
      <4>2. i \in 1 .. n /\ calls'[c][i] = calls[c][i]
        BY <1>2, <2>2
      <4>3. QED
        BY <1>1, <4>2 DEF Masked
    <3>3. QED
      BY <1>1, <1>4, <2>9, <3>1, <3>2 DEF Masked
  <2>11. Answered(c)'
    BY <1>1, <1>4, <2>1, <2>3, <2>6, <2>7, <2>9 DEF Answered, OwedTo, Noticed
  <2>12. QED
    BY <1>4, <2>1, <2>2, <2>3, <2>4, <2>5, <2>8, <2>10, <2>11, QuietStep
       DEF Untouched
<1>7. CASE Ready(c) # {}
  <2> DEFINE g == [Top(c) EXCEPT !.todo = Ready(c)]
  <2>1. Ready(c) \subseteq Signals
    BY <1>5 DEF Ready
  <2>2. /\ g \in Frames /\ g.loop = "raise" /\ g.todo = Ready(c) /\ ~g.handler
        /\ g.blocksave = Top(c).blocksave
    BY <1>1, <1>2, <1>3, <2>1 DEF Frames
  <2>3. /\ SetTop(c, g) /\ UNCHANGED pc /\ procPending' = procPending \ Ready(c)
        /\ ctxPending' = [ctxPending EXCEPT ![c] = @ \ Ready(c)]
    BY <1>7 DEF RaiseAgain
  <2> HIDE DEF g
  <2>4. /\ ctxPending' \in [Contexts -> SUBSET Signals]
        /\ ctxPending'[c] = ctxPending[c] \ Ready(c)
        /\ \A d \in Contexts \ {c} : ctxPending'[d] = ctxPending[d]
    BY <1>5, <2>3
  <2>5. \A i \in Levels, s \in Signals :
          OnList(c, i, s)' <=> (OnList(c, i, s) \/ (i = n /\ s \in Ready(c)))
    <3>1. \A i \in Levels, s \in Signals :
            OnList(c, i, s)' <=> \/ i # n /\ OnList(c, i, s)
                                 \/ i = n /\ g.loop = "raise" /\ s \in g.todo
      BY <1>1, <2>2, <2>3, TopLists
    <3>2. \A s : ~OnList(c, n, s)
      BY <1>1, <1>2 DEF OnList
    <3>3. QED
      BY <2>2, <3>1, <3>2
  <2>6. \A d \in Contexts \ {c} : \A i, s : OnList(d, i, s)' <=> OnList(d, i, s)
    <3>1. \A d \in Contexts \ {c} : calls'[d] = calls[d]
      BY <1>1, <2>2, <2>3, TopChanged
    <3>2. QED
      BY <3>1 DEF OnList
  <2>7. n \in Levels
    BY <1>2, SignalAssumption DEF Levels
  <2>8. OwedFound'
    <3>1. \A d \in Contexts, s \in Signals : Listed(d, s) => Listed(d, s)'
      BY <2>5, <2>6 DEF Listed
    <3>2. \A s \in Ready(c) : Listed(c, s)'
      BY <2>1, <2>5, <2>7 DEF Listed
    <3>3. \A s \in procPending : s \in procPending' \/ s \in Ready(c)
      BY <2>3
    <3>4. \A d \in Contexts : \A s \in ctxPending[d] :
            s \in ctxPending'[d] \/ (d = c /\ s \in Ready(c))
      BY <2>4
    <3>5. QED
      BY <1>1, <1>4, <3>1, <3>2, <3>3, <3>4 DEF OwedFound
  <2>9. Counted'
    <3>1. SUFFICES ASSUME NEW s \in Signals \ restarted
                   PROVE  /\ IsFiniteSet(Places(s)')
                          /\ Cardinality(Places(s)') <= credit[s]
      BY <1>4 DEF Counted
    <3>2. IsFiniteSet(Places(s)) /\ Cardinality(Places(s)) <= credit[s]
      BY <1>1 DEF Counted
    <3>3. credit[s] \in Int
      BY <1>1 DEF Types, HistoryTypes
    <3>4. CASE s \in Ready(c)
      <4>1. PICK p \in {<<Process, 0>>, <<c, 0>>} :
              /\ p \in Places(s)
              /\ p = <<Process, 0>> => s \in procPending
              /\ p = <<c, 0>> => s \in ctxPending[c]
        BY <3>4, SignalAssumption DEF Ready, Places, Levels
      <4>2. Places(s)' \subseteq (Places(s) \ {p}) \cup {<<c, n>>}
        BY <1>2, <2>3, <2>4, <2>5, <2>6, <3>4, <4>1, SignalAssumption
           DEF Places, OnList
      <4>3. /\ IsFiniteSet(Places(s) \ {p})
            /\ Cardinality(Places(s) \ {p}) = Cardinality(Places(s)) - 1
        BY <3>2, <4>1, FS_RemoveElement
      <4>4. /\ IsFiniteSet(Places(s)') /\ Cardinality(Places(s)') \in Nat
            /\ Cardinality(Places(s) \ {p}) \in Nat
            /\ Cardinality(Places(s)') <=
                 Cardinality(Places(s) \ {p})
                 + (IF <<c, n>> \in Places(s) \ {p} THEN 0 ELSE 1)
        BY <4>2, <4>3, OneMore
      <4>5. Cardinality(Places(s)) \in Nat
        BY <3>2, FS_CardinalityType
      <4>6. QED
        BY <3>2, <3>3, <4>3, <4>4, <4>5
    <3>5. CASE s \notin Ready(c)
      <4>1. Places(s)' \subseteq Places(s)
        <5>1. \A d \in Contexts, i \in Levels : OnList(d, i, s)' => OnList(d, i, s)
          BY <2>5, <2>6, <3>5
        <5>2. QED
          BY <2>3, <2>4, <5>1, PlacesShrink
      <4>2. /\ IsFiniteSet(Places(s)')
            /\ Cardinality(Places(s)') <= Cardinality(Places(s))
        BY <3>2, <4>1, FS_Subset
      <4>3. Cardinality(Places(s)) \in Nat /\ Cardinality(Places(s)') \in Nat
        BY <3>2, <4>2, FS_CardinalityType
      <4>4. QED
        BY <3>2, <3>3, <4>2, <4>3
    <3>6. QED
      BY <3>4, <3>5
  <2>10. /\ process' \in {"runs", "exited", "wild"} /\ credit' \in [Signals -> Int]
         /\ fAction' \in [Signals -> Dispositions] /\ restarted' \subseteq Signals
         /\ \A s \in CantChange : fAction'[s].sa_handler = "default"
    BY <1>1, <1>4 DEF Types, SchedTypes, SignalTypes, HistoryTypes
  <2>11. /\ procPending' \subseteq procPending /\ owed' \subseteq owed
         /\ \A d \in Contexts : ctxPending'[d] \subseteq ctxPending[d]
    BY <1>4, <2>3, <2>4
  <2>12. QED
    BY <1>1, <1>4, <2>2, <2>3, <2>4, <2>8, <2>9, <2>10, <2>11, TopStep
<1>8. QED
  BY <1>6, <1>7

\* The frame that Execute leaves on top: with a handler that has saved the mask,
\* or as it was.
Executed(c, s, f, g) ==
  /\ SetTop(c, g) /\ g.loop = f.loop /\ g.todo = f.todo /\ g.interrupt = f.interrupt
  /\ \/ /\ g.handler /\ g.blocksave = fBlocked[c]
        /\ pc' = [pc EXCEPT ![c] = "user"]
     \/ /\ ~g.handler /\ g.blocksave = f.blocksave
        /\ UNCHANGED pc

LEMMA TakenCredit ==
  ASSUME Types, NEW c \in Contexts, NEW s \in Signals, Taken(c, s)
  PROVE  /\ owed' = owed \ OwedTo(c, s)
         /\ credit' \in [Signals -> Int] /\ credit'[s] >= credit[s] - 1
         /\ \A x \in Signals \ {s} : credit'[x] = credit[x]
BY DEF Types, HistoryTypes, Taken

LEMMA ExecuteEffect ==
  ASSUME Types, NEW c \in Contexts, NEW s \in Signals, NEW f \in Frames, ~f.handler,
         Execute(c, s, f), process = "runs"
  PROVE  /\ \E g \in Frames : Executed(c, s, f, g)
         /\ owed' = owed \ OwedTo(c, s)
         /\ credit' \in [Signals -> Int] /\ credit'[s] >= credit[s] - 1
         /\ \A x \in Signals \ {s} : credit'[x] = credit[x]
         /\ process' \in {"runs", "exited", "wild"}
         /\ fAction' \in [Signals -> Dispositions]
         /\ \A x \in CantChange : fAction'[x].sa_handler = "default"
<1> DEFINE act == fAction[s]
<1>1. /\ fAction \in [Signals -> Dispositions]
      /\ \A x \in CantChange : fAction[x].sa_handler = "default"
      /\ fBlocked[c] \subseteq Signals \ CantBlock
      /\ credit \in [Signals -> Int]
  BY DEF Types, SignalTypes, HistoryTypes
<1>2. /\ act.sa_handler \in {"ignore", "default", "catch"}
      /\ act.sa_mask \subseteq Signals
  BY <1>1 DEF Dispositions
<1>3. CASE act.sa_handler = "ignore"
  <2>1. /\ SetTop(c, f) /\ owed' = owed \ OwedTo(c, s)
        /\ UNCHANGED <<process, pc, fAction, credit>>
    BY <1>3 DEF Execute
  <2>2. Executed(c, s, f, f)
    BY <2>1 DEF Executed
  <2>3. QED
    BY <1>1, <2>1, <2>2
<1>4. CASE act.sa_handler = "default"
  <2>1. /\ process' \in {"exited", "wild"} /\ SetTop(c, f) /\ Taken(c, s)
        /\ UNCHANGED <<pc, fAction>>
    BY <1>4 DEF Execute
  <2>2. Executed(c, s, f, f)
    BY <2>1 DEF Executed
  <2>3. QED
    BY <1>1, <2>1, <2>2, TakenCredit
<1>5. CASE act.sa_handler = "catch"
  <2> DEFINE blockset == act.sa_mask \cup
                (IF act.sa_flags \cap {"resethand", "nodefer"} = {} THEN {s} ELSE {})
             g == [f EXCEPT !.handler = TRUE, !.blocksave = fBlocked[c],
                            !.blockset = blockset]
  <2>1. /\ SetTop(c, g) /\ pc' = [pc EXCEPT ![c] = "user"] /\ Taken(c, s)
        /\ fAction' = (IF "resethand" \in act.sa_flags
                       THEN [fAction EXCEPT ![s] = Action("default", {}, {})]
                       ELSE fAction)
        /\ UNCHANGED process
    BY <1>5 DEF Execute, Goto
  <2>2. blockset \subseteq Signals
    BY <1>2
  <2> HIDE DEF blockset
  <2>3. /\ g \in Frames /\ g.loop = f.loop /\ g.todo = f.todo
        /\ g.interrupt = f.interrupt /\ g.handler /\ g.blocksave = fBlocked[c]
    BY <1>1, <2>2 DEF Frames
  <2> HIDE DEF g
  <2>4. Executed(c, s, f, g)
    BY <2>1, <2>3 DEF Executed
  <2>5. Action("default", {}, {}) \in Dispositions
        /\ Action("default", {}, {}).sa_handler = "default"
    BY DEF Action, Dispositions
  <2>6. /\ fAction' \in [Signals -> Dispositions]
        /\ \A x \in CantChange : fAction'[x].sa_handler = "default"
    <3>1. CASE "resethand" \in act.sa_flags
      <4>1. fAction' = [fAction EXCEPT ![s] = Action("default", {}, {})]
        BY <2>1, <3>1
      <4>2. QED
        BY <1>1, <2>5, <4>1, SignalAssumption
    <3>2. CASE "resethand" \notin act.sa_flags
      BY <1>1, <2>1, <3>2
    <3>3. QED
      BY <3>1, <3>2
  <2>7. QED
    BY <2>1, <2>3, <2>4, <2>6, TakenCredit
<1>6. QED
  BY <1>2, <1>3, <1>4, <1>5

LEMMA RaiseNextKeeps ==
  ASSUME IInv, NEW c \in Contexts, RaiseNext(c)
  PROVE  IInv'
<1> DEFINE n == Len(calls[c])
<1>1. /\ Types /\ Placed(c) /\ OwedFound /\ Counted /\ current = c /\ pc[c] = "loop"
      /\ calls[c] # <<>> /\ Top(c).loop = "raise" /\ Top(c).todo # {}
      /\ process = "runs"
  BY DEF IInv, RaiseNext, At, Placed
<1>2. /\ n \in 1 .. MaxCalls + 1 /\ n \in Nat \ {0} /\ Top(c) = calls[c][n]
      /\ Top(c) \in Frames
  BY <1>1, TopOf
<1>3. Top(c).todo \subseteq Signals /\ ~Top(c).handler
  BY <1>1, <1>2 DEF Placed, Frames
<1>4. PICK s \in Signals : s \in Top(c).todo /\ s = Lowest(Top(c).todo)
  BY <1>1, <1>3, LowestMember
<1> DEFINE f == [Top(c) EXCEPT !.todo = @ \ {s}]
<1>5. Execute(c, s, f)
  BY <1>4 DEF RaiseNext
<1>6. UNCHANGED <<current, ready, goal, fWakeup, procPending, ctxPending, fBlocked,
                  alarm, posts, restarted, base, added>>
  BY DEF RaiseNext, maskVars
<1>7. /\ f \in Frames /\ f.loop = "raise" /\ f.todo = Top(c).todo \ {s} /\ ~f.handler
      /\ f.blocksave = Top(c).blocksave
  BY <1>1, <1>2, <1>3 DEF Frames
<1> HIDE DEF f
<1>8. /\ \E g \in Frames : Executed(c, s, f, g)
      /\ owed' = owed \ OwedTo(c, s)
      /\ credit' \in [Signals -> Int] /\ credit'[s] >= credit[s] - 1
      /\ \A x \in Signals \ {s} : credit'[x] = credit[x]
      /\ process' \in {"runs", "exited", "wild"}
      /\ fAction' \in [Signals -> Dispositions]
      /\ \A x \in CantChange : fAction'[x].sa_handler = "default"
  BY <1>1, <1>4, <1>5, <1>7, ExecuteEffect
<1>9. PICK g \in Frames : Executed(c, s, f, g)
  BY <1>8
<1>10. SetTop(c, g) /\ g.loop = Top(c).loop /\ g.loop = "raise" /\ g.todo = f.todo
  BY <1>1, <1>7, <1>9 DEF Executed
<1>11. \A i \in Levels, x \in Signals :
         OnList(c, i, x)' <=> OnList(c, i, x) /\ ~(i = n /\ x = s)
  <2>1. \A i \in Levels, x \in Signals :
          OnList(c, i, x)' <=> \/ i # n /\ OnList(c, i, x)
                               \/ i = n /\ g.loop = "raise" /\ x \in g.todo
    BY <1>1, <1>10, TopLists
  <2>2. \A x : OnList(c, n, x) <=> x \in Top(c).todo
    BY <1>1, <1>2 DEF OnList
  <2>3. QED
    BY <1>7, <1>10, <2>1, <2>2
<1>12. \A d \in Contexts \ {c} : \A i, x : OnList(d, i, x)' <=> OnList(d, i, x)
  <2>1. \A d \in Contexts \ {c} : calls'[d] = calls[d]
    BY <1>1, <1>10, TopChanged
  <2>2. QED
    BY <2>1 DEF OnList
<1>13. OwedFound'
  BY <1>1, <1>4, <1>6, <1>8, <1>11, <1>12, OwedStays
<1>14. Counted'
  <2>1. \A x \in Signals : Places(x)' \subseteq Places(x)
    <3>1. TAKE x \in Signals
    <3>2. \A d \in Contexts, i \in Levels : OnList(d, i, x)' => OnList(d, i, x)
      BY <1>11, <1>12
    <3>3. QED
      BY <1>6, <3>2, PlacesShrink
  <2>2. <<c, n>> \in Places(s)
    <3>1. OnList(c, n, s) /\ n \in Levels
      BY <1>1, <1>2, <1>4, SignalAssumption DEF OnList, Levels
    <3>2. QED
      BY <3>1 DEF Places
  <2>3. <<c, n>> \notin Places(s)'
    BY <1>2, <1>4, <1>11, SignalAssumption DEF Places
  <2>4. QED
    BY <1>1, <1>4, <1>6, <1>8, <2>1, <2>2, <2>3, CountStays
<1>15. /\ ctxPending' \in [Contexts -> SUBSET Signals]
       /\ restarted' \subseteq Signals
  BY <1>1, <1>6 DEF Types, SignalTypes, HistoryTypes
<1>16. QED
  BY <1>1, <1>6, <1>7, <1>8, <1>9, <1>10, <1>13, <1>14, <1>15, TopStep DEF Executed

LEMMA InterruptNextKeeps ==
  ASSUME IInv, NEW c \in Contexts, InterruptNext(c)
  PROVE  IInv'
<1>1. /\ Types /\ Placed(c) /\ OwedFound /\ Counted /\ current = c /\ pc[c] = "loop"
      /\ calls[c] # <<>> /\ Top(c).loop = "interrupt" /\ Top(c).todo # {}
      /\ process = "runs"
  BY DEF IInv, InterruptNext, At, Placed
<1>2. Top(c) = calls[c][Len(calls[c])] /\ Top(c) \in Frames
  BY <1>1, TopOf
<1>3. Top(c).todo \subseteq Signals /\ ~Top(c).handler
  BY <1>1, <1>2 DEF Placed, Frames
<1>4. PICK s \in Signals : s \in Top(c).todo /\ s = Lowest(Top(c).todo)
  BY <1>1, <1>3, LowestMember
<1> DEFINE act == fAction[s]
           f == [Top(c) EXCEPT !.todo = @ \ {s}]
           hit(b) == [f EXCEPT !.interrupt = b \/ @ \/ f.all]
           ignored == \/ act.sa_handler = "ignore"
                      \/ act.sa_handler = "default" /\ s \in DefaultIsIgnore
           restart == act.sa_handler = "catch" /\ "restart" \in act.sa_flags
<1>5. /\ procPending' = IF ignored \/ restart THEN procPending \ {s} ELSE procPending
      /\ restarted' = IF restart THEN restarted \cup {s} ELSE restarted
      /\ IF restart THEN Execute(c, s, hit(FALSE))
         ELSE /\ SetTop(c, hit(~ignored))
              /\ owed' = IF ignored THEN owed \ OwedTo(c, s) ELSE owed
              /\ UNCHANGED <<process, pc, fAction, credit>>
  BY <1>4 DEF InterruptNext
<1>6. UNCHANGED <<current, ready, goal, fWakeup, ctxPending, fBlocked, alarm, posts,
                  base, added>>
  BY DEF InterruptNext, maskVars
<1>7. f \in Frames
  BY <1>2, <1>3 DEF Frames
<1>8. /\ f.loop = "interrupt" /\ f.todo = Top(c).todo \ {s} /\ ~f.handler
      /\ f.blocksave = Top(c).blocksave /\ f.interrupt = Top(c).interrupt
  BY <1>1, <1>2, <1>3 DEF Frames
<1> HIDE DEF f
<1>9. \A b \in BOOLEAN :
        /\ hit(b) \in Frames /\ hit(b).loop = "interrupt"
        /\ hit(b).todo = Top(c).todo \ {s} /\ ~hit(b).handler
        /\ hit(b).blocksave = Top(c).blocksave
        /\ b \/ Top(c).interrupt => hit(b).interrupt
  BY <1>7, <1>8 DEF Frames
<1> HIDE DEF hit, ignored, restart
<1>10. ignored \in BOOLEAN /\ restart \in BOOLEAN
  BY DEF ignored, restart
<1>11. PICK g \in Frames :
         /\ SetTop(c, g) /\ g.loop = "interrupt" /\ g.todo = Top(c).todo \ {s}
         /\ Top(c).interrupt \/ ~(ignored \/ restart) => g.interrupt
         /\ \/ /\ g.handler /\ g.blocksave = fBlocked[c]
               /\ pc' = [pc EXCEPT ![c] = "user"]
            \/ /\ ~g.handler /\ g.blocksave = Top(c).blocksave
               /\ UNCHANGED pc
  <2>1. CASE restart
    <3>1. Execute(c, s, hit(FALSE))
      BY <1>5, <2>1
    <3>2. PICK g \in Frames : Executed(c, s, hit(FALSE), g)
      BY <1>1, <1>9, <3>1, ExecuteEffect
    <3>3. QED
      BY <1>9, <2>1, <3>2 DEF Executed
  <2>2. CASE ~restart
    <3>1. SetTop(c, hit(~ignored)) /\ UNCHANGED pc
      BY <1>5, <2>2
    <3>2. QED
      BY <1>9, <1>10, <2>2, <3>1
  <2>3. QED
    BY <2>1, <2>2
<1>12. /\ owed' = IF ignored \/ restart THEN owed \ OwedTo(c, s) ELSE owed
       /\ credit' \in [Signals -> Int]
       /\ \A x \in Signals \ {s} : credit'[x] = credit[x]
       /\ ~restart => credit' = credit
       /\ process' \in {"runs", "exited", "wild"}
       /\ fAction' \in [Signals -> Dispositions]
       /\ \A x \in CantChange : fAction'[x].sa_handler = "default"
  <2>1. CASE restart
    BY <1>1, <1>5, <1>9, <2>1, ExecuteEffect
  <2>2. CASE ~restart
    BY <1>1, <1>5, <2>2 DEF Types, SchedTypes, SignalTypes, HistoryTypes
  <2>3. QED
    BY <2>1, <2>2
<1>13. \A d \in Contexts, i \in Levels, x \in Signals :
         OnList(d, i, x)' <=> OnList(d, i, x)
  <2>1. \A i \in Levels, x \in Signals :
          OnList(c, i, x)' <=> \/ i # Len(calls[c]) /\ OnList(c, i, x)
                               \/ i = Len(calls[c]) /\ g.loop = "raise" /\ x \in g.todo
    BY <1>1, <1>11, TopLists
  <2>2. \A x : ~OnList(c, Len(calls[c]), x)
    BY <1>1, <1>2 DEF OnList
  <2>3. \A d \in Contexts \ {c} : calls'[d] = calls[d]
    BY <1>1, <1>11, TopChanged
  <2>4. \A d \in Contexts \ {c} : \A i, x : OnList(d, i, x)' <=> OnList(d, i, x)
    BY <2>3 DEF OnList
  <2>5. QED
    BY <1>11, <2>1, <2>2, <2>4
<1>14. OwedFound'
  <2>1. CASE ignored \/ restart
    BY <1>1, <1>5, <1>6, <1>12, <1>13, <2>1, OwedStays
  <2>2. CASE ~(ignored \/ restart)
    <3>1. UNCHANGED <<procPending, ctxPending, owed>>
      BY <1>5, <1>6, <1>12, <2>2
    <3>2. \A d \in Contexts, x \in Signals : Listed(d, x)' <=> Listed(d, x)
      BY <1>13 DEF Listed
    <3>3. QED
      BY <1>1, <3>1, <3>2 DEF OwedFound
  <2>3. QED
    BY <2>1, <2>2
<1>15. Counted'
  <2>1. \A x \in Signals : Places(x)' \subseteq Places(x)
    BY <1>5, <1>6, <1>13, PlacesShrink
  <2>2. s \in restarted' \/ credit' = credit
    BY <1>5, <1>12
  <2>3. restarted \subseteq restarted'
    BY <1>5
  <2>4. QED
    BY <1>1, <1>12, <2>1, <2>2, <2>3, CountStays
<1>16. /\ ctxPending' \in [Contexts -> SUBSET Signals]
       /\ restarted' \subseteq Signals
       /\ procPending' \subseteq procPending /\ owed' \subseteq owed
  BY <1>1, <1>5, <1>6, <1>12 DEF Types, SignalTypes, HistoryTypes
<1>17. \A x \in Top(c).todo :
         x \in g.todo \/ g.interrupt \/ owed' \cap OwedTo(c, x) = {}
  BY <1>11, <1>12
<1>18. QED
  BY <1>1, <1>6, <1>11, <1>12, <1>14, <1>15, <1>16, <1>17, TopStep

LEMMA SigactionKeeps ==
  ASSUME IInv, NEW c \in Contexts, NEW s \in Signals, NEW act \in Actions[s],
         Sigaction(c, s, act)
  PROVE  IInv'
<1>1. /\ Types /\ AwakeReady /\ OwedFound /\ Counted
      /\ \A d \in Contexts : Placed(d) /\ Masked(d) /\ Answered(d)
  BY DEF IInv
<1>2. UNCHANGED <<process, current, ready, pc, goal, fWakeup, fBlocked, calls, alarm,
                  posts, credit, restarted, base, added>>
  BY DEF Sigaction, schedVars, maskVars
<1>3. /\ fAction' \in [Signals -> Dispositions]
      /\ \A x \in CantChange : fAction'[x].sa_handler = "default"
  BY <1>1, ActionsAssumption DEF Sigaction, Types, SignalTypes
<1>4. /\ procPending \subseteq Signals /\ ctxPending \in [Contexts -> SUBSET Signals]
  BY <1>1 DEF Types, SignalTypes
<1>5. \A d \in Contexts : Untouched(d)
  BY <1>2 DEF Untouched
<1>6. \A d \in Contexts : \A i, x : OnList(d, i, x)' <=> OnList(d, i, x)
  BY <1>2 DEF OnList
<1>7. CASE act.sa_handler = "ignore"
  <2>1. /\ procPending' = procPending \ {s} /\ owed' = owed \ OwedTo(c, s)
        /\ ctxPending' \in [Contexts -> SUBSET Signals]
        /\ ctxPending'[c] = ctxPending[c] \ {s}
        /\ \A d \in Contexts \ {c} : ctxPending'[d] = ctxPending[d]
    BY <1>4, <1>7 DEF Sigaction
  <2>2. OwedFound'
    BY <1>1, <1>6, <2>1, OwedStays
  <2>3. \A d \in Contexts : ctxPending'[d] \subseteq ctxPending[d]
    BY <2>1
  <2>4. \A x \in Signals : Places(x)' \subseteq Places(x)
    BY <1>6, <2>1, <2>3, PlacesShrink
  <2>5. Types'
    <3>1. SchedTypes' /\ HistoryTypes'
      BY <1>1, <1>2, <2>1 DEF Types, SchedTypes, HistoryTypes, Bounded
    <3>2. SignalTypes'
      BY <1>1, <1>2, <1>3, <2>1 DEF Types, SignalTypes
    <3>3. QED
      BY <3>1, <3>2 DEF Types
  <2>6. Counted'
    <3>1. credit \in [Signals -> Int]
      BY <1>1 DEF Types, HistoryTypes
    <3>2. QED
      BY <1>1, <1>2, <2>4, <3>1, CountStays
  <2>7. \A d \in Contexts : Answered(d)'
    BY <1>1, <1>2, <1>5, <2>1, <2>3, AnsweredStays
  <2>8. Placed(c)' /\ Masked(c)' /\ AwakeReady'
    BY <1>1, <1>2, <1>5, Others DEF AwakeReady
  <2>9. QED
    BY <1>5, <2>2, <2>5, <2>6, <2>7, <2>8, Assembled
<1>8. CASE act.sa_handler # "ignore"
  <2>1. UNCHANGED <<procPending, ctxPending, owed>>
    BY <1>8 DEF Sigaction
  <2>2. Types'
    <3>1. SchedTypes' /\ HistoryTypes'
      BY <1>1, <1>2, <2>1 DEF Types, SchedTypes, HistoryTypes, Bounded
    <3>2. SignalTypes'
      BY <1>1, <1>2, <1>3, <2>1 DEF Types, SignalTypes
    <3>3. QED
      BY <3>1, <3>2 DEF Types
  <2>3. Answered(c)' /\ Placed(c)' /\ Masked(c)'
    BY <1>1, <1>2, <1>5, <2>1, Others, AnsweredStays
  <2>4. SameLists(c) /\ AwakeReady'
    BY <1>1, <1>2, <1>6 DEF SameLists, AwakeReady
  <2>5. QED
    BY <1>2, <1>5, <2>1, <2>2, <2>3, <2>4, QuietStep
<1>9. QED
  BY <1>7, <1>8

LEMMA SigwaitReturnsKeeps ==
  ASSUME IInv, NEW c \in Contexts, SigwaitReturns(c)
  PROVE  IInv'
<1>1. /\ Types /\ AwakeReady /\ OwedFound /\ Counted
      /\ \A d \in Contexts : Placed(d) /\ Masked(d) /\ Answered(d)
      /\ current = c /\ pc[c] = "check" /\ calls[c] = <<>>
      /\ goal[c].op = "sigwait"
  BY DEF IInv, SigwaitReturns, At, Placed
<1>2. UNCHANGED <<process, current, ready, fBlocked, fAction, calls, alarm, posts,
                  restarted, base, added>>
  BY DEF SigwaitReturns, maskVars
<1>3. /\ procPending \subseteq Signals /\ ctxPending \in [Contexts -> SUBSET Signals]
      /\ pc \in [Contexts -> Labels] /\ goal \in [Contexts -> Goals]
      /\ fWakeup \in [Contexts -> BOOLEAN]
  BY <1>1 DEF Types, SchedTypes, SignalTypes
<1>4. PICK s \in Signals :
        /\ s \in procPending \cup ctxPending[c]
        /\ procPending' = procPending \ {s}
        /\ ctxPending' = [ctxPending EXCEPT ![c] = @ \ {s}]
        /\ Taken(c, s)
  <2> DEFINE cursigs == goal[c].sigs \cap (procPending \cup ctxPending[c])
  <2>1. cursigs \subseteq Signals /\ cursigs # {}
    BY <1>3 DEF SigwaitReturns
  <2>2. Lowest(cursigs) \in cursigs
    BY <2>1, LowestMember
  <2>3. QED
    BY <2>1, <2>2 DEF SigwaitReturns
<1>5. /\ ctxPending' \in [Contexts -> SUBSET Signals]
      /\ ctxPending'[c] = ctxPending[c] \ {s}
      /\ \A d \in Contexts \ {c} : ctxPending'[d] = ctxPending[d]
      /\ \A d \in Contexts : ctxPending'[d] \subseteq ctxPending[d]
  BY <1>3, <1>4
<1>6. /\ owed' = owed \ OwedTo(c, s)
      /\ credit' \in [Signals -> Int] /\ credit'[s] >= credit[s] - 1
      /\ \A x \in Signals \ {s} : credit'[x] = credit[x]
  BY <1>1, <1>4, TakenCredit
<1>7. /\ fWakeup' = [fWakeup EXCEPT ![c] = FALSE]
      /\ goal' = [goal EXCEPT ![c] = Idle] /\ pc' = [pc EXCEPT ![c] = "user"]
  BY DEF SigwaitReturns, Goto
<1>8. Idle \in Goals /\ Idle.op = "none"
  BY DEF Idle, Goals
<1>9. /\ goal' \in [Contexts -> Goals] /\ goal'[c].op = "none"
      /\ fWakeup' \in [Contexts -> BOOLEAN]
      /\ \A d \in Contexts \ {c} : goal'[d] = goal[d] /\ fWakeup'[d] = fWakeup[d]
  BY <1>3, <1>7, <1>8
<1>10. /\ pc' \in [Contexts -> Labels] /\ pc'[c] = "user"
       /\ \A d \in Contexts \ {c} : pc'[d] = pc[d]
  BY <1>3, <1>7 DEF Labels
<1>11. Types'
  <2>1. SchedTypes'
    BY <1>1, <1>2, <1>9, <1>10 DEF Types, SchedTypes
  <2>2. SignalTypes' /\ HistoryTypes'
    BY <1>1, <1>2, <1>4, <1>5, <1>6 DEF Types, SignalTypes, HistoryTypes, Bounded
  <2>3. QED
    BY <2>1, <2>2 DEF Types
<1>12. AwakeReady'
  BY <1>1, <1>2, <1>7, AwakeStays DEF Out
<1>13. Placed(c)'
  BY <1>1, <1>2, <1>9, <1>10 DEF Placed
<1>14. Masked(c)'
  <2>1. Restored(c) = fBlocked[c] /\ Restored(c)' = fBlocked[c]
    BY <1>1, <1>2, <1>9 DEF Restored
  <2>2. Allowed(c)' = Allowed(c)
    BY <1>1, <1>2, <1>9 DEF Allowed
  <2>3. QED
    BY <1>1, <1>2, <2>1, <2>2 DEF Masked
<1>15. Answered(c)'
  BY <1>9 DEF Answered
<1>16. \A d \in Contexts \ {c} : Untouched(d) /\ Answered(d)'
  <2>1. \A d \in Contexts \ {c} : Untouched(d)
    BY <1>2, <1>9, <1>10 DEF Untouched
  <2>2. QED
    BY <1>1, <1>4, <1>5, <1>6, <1>9, <2>1, AnsweredStays
<1>17. \A d \in Contexts : \A i, x : OnList(d, i, x)' <=> OnList(d, i, x)
  BY <1>2 DEF OnList
<1>18. OwedFound'
  BY <1>1, <1>4, <1>5, <1>6, <1>17, OwedStays
<1>19. Counted'
  <2>1. \A x \in Signals : Places(x)' \subseteq Places(x)
    BY <1>4, <1>5, <1>17, PlacesShrink
  <2>2. PICK p \in {<<Process, 0>>, <<c, 0>>} :
          /\ p \in Places(s)
          /\ p = <<Process, 0>> => s \in procPending
          /\ p = <<c, 0>> => s \in ctxPending[c]
    BY <1>4, SignalAssumption DEF Places, Levels
  <2>3. p \notin Places(s)'
    BY <1>4, <1>5, <2>2, SignalAssumption DEF Places, OnList
  <2>4. QED
    BY <1>1, <1>2, <1>6, <2>1, <2>2, <2>3, CountStays
<1>20. QED
  BY <1>11, <1>12, <1>13, <1>14, <1>15, <1>16, <1>18, <1>19, Assembled

-----------------------------------------------------------------------------
(***************************************************************************)
(* The theorems.                                                           *)
(***************************************************************************)
LEMMA InitHolds == Init => IInv
<1> SUFFICES ASSUME Init PROVE IInv
  OBVIOUS
<1>1. Idle \in Goals /\ Idle.op = "none"
  BY DEF Idle, Goals
<1>2. Action("default", {}, {}) \in Dispositions
      /\ Action("default", {}, {}).sa_handler = "default"
  BY DEF Action, Dispositions
<1>3. <<>> \in Seq(Frames) /\ GoodStack(<<>>)
  BY SignalAssumption DEF GoodStack
<1>4. SchedTypes
  BY <1>1, SignalAssumption DEF Init, SchedTypes, Labels
<1>5. SignalTypes
  BY <1>2, <1>3, SignalAssumption DEF Init, SignalTypes
<1>6. HistoryTypes
  BY SignalAssumption DEF Init, HistoryTypes, Bounded
<1>7. AwakeReady
  BY DEF Init, AwakeReady, Out
<1>8. OwedFound
  BY DEF Init, OwedFound
<1>9. Counted
  <2>1. \A c \in Contexts : \A i, s : ~OnList(c, i, s)
    BY DEF Init, OnList
  <2>2. \A s \in Signals : Places(s) = {}
    BY <2>1 DEF Init, Places
  <2>3. IsFiniteSet({}) /\ Cardinality({}) = 0
    BY FS_EmptySet
  <2>4. \A s \in Signals : credit[s] = 0
    BY DEF Init
  <2>5. QED
    BY <2>2, <2>3, <2>4 DEF Counted
<1>10. \A c \in Contexts : Placed(c) /\ Masked(c) /\ Answered(c)
  <2>1. TAKE c \in Contexts
  <2>2. Placed(c) /\ Answered(c)
    BY <1>1 DEF Init, Placed, Answered
  <2>3. Masked(c)
    BY <1>1 DEF Init, Masked, Restored, Allowed
  <2>4. QED
    BY <2>2, <2>3
<1>11. QED
  BY <1>4, <1>5, <1>6, <1>7, <1>8, <1>9, <1>10 DEF IInv, Types

LEMMA StepKeeps == IInv /\ [Next]_vars => IInv'
<1> SUFFICES ASSUME IInv, [Next]_vars PROVE IInv'
  OBVIOUS
<1>1. CASE \E lost, interval \in BOOLEAN : AlarmFires(lost, interval)
  BY <1>1, PostsKeep
<1>2. ASSUME NEW c \in Contexts, ProgramCalls(c)
      PROVE  IInv'
  <2>1. CASE \E s \in Sent : RaiseSignal(c, s)
    BY <2>1, PostsKeep
  <2>2. CASE \E d \in Contexts, s \in Sent : PthreadKill(c, d, s)
    BY <2>2, PostsKeep
  <2>3. CASE \E s \in Signals : \E act \in Actions[s] : Sigaction(c, s, act)
    BY <2>3, SigactionKeeps
  <2>4. CASE \E how \in {"block", "unblock", "set"}, m \in Masks : Sigmask(c, how, m)
    BY <2>4, SigmaskKeeps
  <2>5. CASE \E delay \in BOOLEAN : SetAlarm(c, delay)
    BY <2>5, SetAlarmKeeps
  <2>6. CASE \/ \E sigs \in SUBSET Sent : Sigwait(c, sigs)
             \/ \E m \in Masks : Sigsuspend(c, m)
             \/ YieldSlice(c) \/ Block(c) \/ Pause(c)
    BY <2>6, WaitsKeep
  <2>7. QED
    BY <1>2, <2>1, <2>2, <2>3, <2>4, <2>5, <2>6 DEF ProgramCalls
<1>3. ASSUME NEW c \in Contexts, LibraryCode(c)
      PROVE  IInv'
  <2>1. CASE RaiseAgain(c)
    BY <2>1, RaiseAgainKeeps
  <2>2. CASE RaiseNext(c)
    BY <2>2, RaiseNextKeeps
  <2>3. CASE InterruptNext(c)
    BY <2>3, InterruptNextKeeps
  <2>4. CASE Interrupted(c)
    BY <2>4, InterruptedKeeps
  <2>5. CASE Check(c)
    BY <2>5, CheckKeeps
  <2>6. CASE SigwaitReturns(c)
    BY <2>6, SigwaitReturnsKeeps
  <2>7. CASE TestWakeup(c)
    BY <2>7, TestWakeupKeeps
  <2>8. CASE SwitchOut(c)
    BY <2>8, SwitchOutKeeps
  <2>9. QED
    BY <1>3, <2>1, <2>2, <2>3, <2>4, <2>5, <2>6, <2>7, <2>8 DEF LibraryCode
<1>4. ASSUME NEW c \in Contexts, HandlerReturns(c) \/ Dispatch(c) \/ Event(c)
      PROVE  IInv'
  BY <1>4, HandlerReturnsKeeps, DispatchKeeps, EventKeeps
<1>5. CASE UNCHANGED vars
  <2>1. UNCHANGED <<process, current, ready, pc, goal, fWakeup, procPending,
                    ctxPending, fBlocked, fAction, calls, alarm, posts, credit, owed,
                    restarted, base, added>>
    BY <1>5 DEF vars, schedVars, signalVars, history, maskVars
  <2>2. \A c \in Contexts : Untouched(c) /\ SameLists(c)
    BY <2>1 DEF Untouched, SameLists, OnList
  <2>3. Types' /\ AwakeReady'
    BY <2>1 DEF IInv, Types, SchedTypes, SignalTypes, HistoryTypes, AwakeReady, Bounded
  <2>4. OwedFound' /\ Counted'
    BY <2>1, <2>2, Quiet DEF IInv
  <2>5. \A c \in Contexts : Placed(c)' /\ Masked(c)'
    BY <2>2, Others DEF IInv
  <2>6. \A c \in Contexts : Answered(c)'
    BY <2>1, <2>2, AnsweredStays DEF IInv
  <2>7. QED
    BY <2>3, <2>4, <2>5, <2>6 DEF IInv
<1>6. QED
  BY <1>1, <1>2, <1>3, <1>4, <1>5 DEF Next

\* The inductive invariant holds in every state of the signal code, for any
\* contexts, signals, dispositions and masks, and whatever the bounds.
THEOREM Invariance == Spec => []IInv
<1>1. Init => IInv
  BY InitHolds
<1>2. IInv /\ [Next]_vars => IInv'
  BY StepKeeps
<1>3. QED
  BY <1>1, <1>2, PTL DEF Spec

LEMMA IInvTypes == IInv => TypeOK
<1> SUFFICES ASSUME IInv PROVE TypeOK
  OBVIOUS
<1>1. Types /\ AwakeReady
  BY DEF IInv
<1>2. \A c \in Contexts : /\ Len(calls[c]) <= MaxCalls + 1
                          /\ \A i \in 1 .. Len(calls[c]) - 1 : calls[c][i].handler
  BY <1>1 DEF Types, SignalTypes, GoodStack
<1>3. QED
  BY <1>1, <1>2 DEF TypeOK, Types, SchedTypes, SignalTypes, HistoryTypes, AwakeReady, Out

\* The loops nest no deeper than MaxCalls and one more, every loop below the
\* top one is in a handler, no signal that can not be blocked is ever in a mask,
\* and none that can not be caught has a handler.
THEOREM TypeCorrect == Spec => []TypeOK
<1>1. QED
  BY Invariance, IInvTypes, PTL

LEMMA IInvCounts == IInv => TakenOncePerPost
<1> SUFFICES ASSUME IInv, NEW s \in Signals \ restarted PROVE credit[s] >= 0
  BY DEF TakenOncePerPost
<1>1. /\ IsFiniteSet(Places(s)) /\ Cardinality(Places(s)) <= credit[s]
      /\ credit[s] \in Int
  BY DEF IInv, Counted, Types, HistoryTypes
<1>2. Cardinality(Places(s)) \in Nat
  BY <1>1, FS_CardinalityType
<1>3. QED
  BY <1>1, <1>2

\* No signal is taken more often than it was posted: the places it can be taken
\* from, the two kinds of pending sets and the lists of the loops of Raise, are
\* never more than the posts that no one has taken.
THEOREM TakenOnce == Spec => []TakenOncePerPost
<1>1. QED
  BY Invariance, IInvCounts, PTL

LEMMA IInvKept == IInv => SignalKept
<1> SUFFICES ASSUME IInv PROVE SignalKept
  OBVIOUS
<1>1. \A c \in Contexts, s \in Signals : Listed(c, s) => s \in ToDo(c)
  BY DEF IInv, Types, SignalTypes, Listed, OnList, ToDo
<1>2. QED
  BY <1>1 DEF IInv, OwedFound, SignalKept

\* What the program posts is pending where it was posted, or on a list, until a
\* context takes it or it is ignored: no loop, wait or sigaction drops it.
THEOREM SignalsKept == Spec => []SignalKept
<1>1. QED
  BY Invariance, IInvKept, PTL

LEMMA IInvMask == IInv => MaskKept
<1> SUFFICES ASSUME IInv, NEW c \in Contexts, calls[c] = <<>>, ~Suspends(c)
             PROVE  base[c] \subseteq fBlocked[c] /\ fBlocked[c] \subseteq base[c] \cup added[c]
  BY DEF MaskKept
<1>1. Restored(c) = fBlocked[c]
  BY DEF Restored, Suspends
<1>2. QED
  BY <1>1 DEF IInv, Masked

\* Handlers and sigsuspend give the program back the mask it had, but for what a
\* handler has blocked by itself, whatever the handlers nest and the order in
\* which they restore what they have saved.
THEOREM MasksKept == Spec => []MaskKept
<1>1. QED
  BY Invariance, IInvMask, PTL

LEMMA IInvWoken == IInv => WokenForSignal
<1> SUFFICES ASSUME IInv, NEW c \in Contexts, Sleeping(c), NEW s \in Signals
             PROVE
               /\ goal[c].op = "block" /\ s \in Ready(c) \ added[c] =>
                    owed \cap OwedTo(c, s) = {}
               /\ goal[c].op = "sigwait" /\ s \in goal[c].sigs => <<c, s>> \notin owed
  BY DEF WokenForSignal
<1>1. pc[c] \in Out /\ ~fWakeup[c]
  BY DEF IInv, AwakeReady, Sleeping, Out
<1>2. calls[c] = <<>> /\ pc[c] \notin {"check", "test"}
  BY <1>1 DEF IInv, Placed, Out
<1>3. ~Noticed(c, s)
  BY <1>2 DEF Noticed
<1>4. goal[c].op = "block" => Restored(c) = fBlocked[c]
  BY <1>2 DEF Restored
<1>5. QED
  BY <1>1, <1>2, <1>3, <1>4 DEF IInv, Answered, Ready

\* No thread sleeps in Yield on a signal it has unblocked, nor in sigwait on one
\* sent to it: the signal was seen before the thread stopped, or fWakeup was set.
THEOREM SleepersWoken == Spec => []WokenForSignal
<1>1. QED
  BY Invariance, IInvWoken, PTL
=============================================================================
