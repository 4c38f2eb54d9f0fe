------------------------- MODULE GUSIContextProofs -------------------------
(***************************************************************************)
(* Contexts and the process of GUSIContext, for any finite set of threads  *)
(* and either way the Thread Manager may serve them.                       *)
(***************************************************************************)
EXTENDS GUSIContext, FiniteSetTheorems, TLAPS

-----------------------------------------------------------------------------
(***************************************************************************)
(* The inductive invariant.                                                *)
(***************************************************************************)
\* Where a context is that has given the processor away, or has none.
Parked == {"unused", "new", "out", "dead"}

\* Where a context can be in the call it made with goal "io" or "join".
Waiting == {"check", "yield", "out", "in", "test", "decide", "skipOnce",
            "event", "handled", "resumed"} \cup Leaving

MainOnly == {"decide", "skipOnce", "event", "handled", "resumed"}

\* Only the current context is in the middle of something.
OneRuns ==
  /\ \A t \in Contexts : t # current => pc[t] \in Parked
  /\ pc[current] # "new"

\* What the sets of contexts say of a context is where it is.
Lives ==
  /\ \A t \in Contexts : t \in alive <=> pc[t] \notin {"unused", "dead"}
  /\ \A t \in Threads : t \in finished <=> pc[t] = "dead"
  /\ \A t \in Threads : pc[t] \notin MainOnly
  /\ pc[Main] \notin {"unused", "dead", "new", "newIn"} \cup Leaving
  /\ \A t \in Contexts : pc[t] \in Leaving => goal[t] # "yield"
  /\ \A t \in asleep : t \in Threads /\ pc[t] \in {"out", "in"}

\* A context that does not run is in the Thread Manager's queue, unless it is
\* stopped and nobody has woken it.
ReadyQueued ==
  \A t \in Contexts :
    /\ t \in Queued => pc[t] \in {"new", "out"} \cup Leaving
    /\ pc[t] = "readyAgain" => fWakeup[t]
    /\ pc[t] = "fallAsleep" /\ fWakeup[t] => t \in Queued
    /\ pc[t] = "new" => t \in Queued
    /\ pc[t] = "out" /\ t \notin Queued =>
         t # Main /\ goal[t] # "yield" /\ ~fWakeup[t]

\* Who waits for a call, or for another thread, is known to it.
InJoin(t) == goal[t] = "join" /\ pc[t] \in Waiting

JoinersKnown ==
  \A t \in Contexts :
    /\ goal[t] = "io" /\ pc[t] \in Waiting =>
         /\ io[t] \in {"awaited", "done"}
         /\ io[t] = "done" /\ pc[t] # "check" => fWakeup[t]
    /\ InJoin(t) =>
         /\ target[t] \in Threads /\ target[t] # t
         /\ pc[target[t]] # "unused"
         /\ \/ fJoin[target[t]] = t
            \/ pc[t] = "check" /\ fJoin[target[t]] = Nobody
         /\ target[t] \notin finished =>
              fJoin[target[t]] = t /\ target[t] \notin detached
         /\ target[t] \in finished /\ pc[t] # "check" => fWakeup[t]
    /\ t \in alive /\ fJoin[t] # Nobody =>
         InJoin(fJoin[t]) /\ target[fJoin[t]] = t

\* What the main context has been told is not forgotten on the way to
\* WaitNextEvent.
Warnable ==
  \/ pc[Main] \in {"user", "check"}
  \/ pc[Main] \in {"yield", "decide"} /\ goal[Main] # "yield"

MainWarned ==
  /\ Warnable /\ fWakeup[Main] => fDontSleep
  /\ pc[Main] = "decide" => fWillSleep /\ goal[Main] # "yield"
  /\ pc[Main] \in {"skipOnce", "event"} /\ wait = "block" =>
       /\ fWillSleep
       /\ fDontSleep \/ fWakeup[Main] => roused

IInv ==
  /\ TypeOK /\ CountsAgree
  /\ OneRuns /\ Lives /\ ReadyQueued /\ JoinersKnown /\ MainWarned

-----------------------------------------------------------------------------
(***************************************************************************)
(* The Thread Manager's queue.                                             *)
(***************************************************************************)
Members(q) == {q[i] : i \in DOMAIN q}

LEMMA AppendMember ==
  ASSUME NEW S, NEW q \in Seq(S), IsInjective(q), NEW t \in S, t \notin Members(q)
  PROVE  /\ Append(q, t) \in Seq(S) /\ IsInjective(Append(q, t))
         /\ Members(Append(q, t)) = Members(q) \cup {t}
<1> DEFINE a == Append(q, t)
<1>1. a \in Seq(S) /\ DOMAIN a = 1 .. Len(q) + 1
  OBVIOUS
<1>2. a[Len(q) + 1] = t /\ \A i \in 1 .. Len(q) : a[i] = q[i]
  OBVIOUS
<1>3. DOMAIN q = 1 .. Len(q) /\ Len(q) \in Nat
  OBVIOUS
<1> HIDE DEF a
<1>4. IsInjective(a)
  BY <1>1, <1>2, <1>3 DEF IsInjective, Members
<1>5. \A u : u \in Members(a) <=> u \in Members(q) \/ u = t
  BY <1>1, <1>2, <1>3 DEF Members
<1>6. QED
  BY <1>1, <1>4, <1>5 DEF a

LEMMA Concatenated ==
  ASSUME NEW S, NEW l \in Seq(S), NEW r \in Seq(S)
  PROVE  /\ l \o r \in Seq(S) /\ Len(l \o r) = Len(l) + Len(r)
         /\ \A i \in 1 .. Len(l) : (l \o r)[i] = l[i]
         /\ \A i \in Len(l) + 1 .. Len(l) + Len(r) : (l \o r)[i] = r[i - Len(l)]
OBVIOUS

LEMMA RemoveMember ==
  ASSUME NEW S, NEW q \in Seq(S), IsInjective(q), NEW k \in DOMAIN q
  PROVE  /\ RemoveAt(q, k) \in Seq(S) /\ IsInjective(RemoveAt(q, k))
         /\ Members(RemoveAt(q, k)) = Members(q) \ {q[k]}
<1> DEFINE l == SubSeq(q, 1, k - 1)
           r == SubSeq(q, k + 1, Len(q))
           b == l \o r
<1>1. DOMAIN q = 1 .. Len(q) /\ Len(q) \in Nat /\ k \in 1 .. Len(q)
  OBVIOUS
<1>2. l \in Seq(S) /\ Len(l) = k - 1 /\ \A i \in 1 .. k - 1 : l[i] = q[i]
  BY <1>1
<1>3. /\ r \in Seq(S) /\ Len(r) = Len(q) - k
      /\ \A i \in 1 .. Len(q) - k : r[i] = q[k + i]
  BY <1>1
<1> HIDE DEF l, r
<1>4. /\ b \in Seq(S) /\ Len(b) = Len(l) + Len(r)
      /\ \A i \in 1 .. Len(l) : b[i] = l[i]
      /\ \A i \in Len(l) + 1 .. Len(l) + Len(r) : b[i] = r[i - Len(l)]
  BY <1>2, <1>3, Concatenated
<1>5. DOMAIN b = 1 .. Len(q) - 1
  <2>1. Len(l) + Len(r) = Len(q) - 1
    BY <1>1, <1>2, <1>3
  <2>2. QED
    BY <1>4, <2>1
<1> HIDE DEF b
<1>6. ASSUME NEW i \in 1 .. Len(q) - 1
      PROVE  b[i] = IF i < k THEN q[i] ELSE q[i + 1]
  <2>1. CASE i < k
    BY <1>1, <1>2, <1>4, <2>1
  <2>2. CASE ~(i < k)
    <3>1. i \in Len(l) + 1 .. Len(l) + Len(r) /\ i - Len(l) \in 1 .. Len(q) - k
          /\ k + (i - Len(l)) = i + 1
      BY <1>1, <1>2, <1>3, <2>2
    <3>2. QED
      BY <1>3, <1>4, <2>2, <3>1
  <2>3. QED
    BY <2>1, <2>2
<1>7. IsInjective(b)
  <2>1. ASSUME NEW x \in 1 .. Len(q) - 1, NEW y \in 1 .. Len(q) - 1, b[x] = b[y]
        PROVE  x = y
    <3> DEFINE at(i) == IF i < k THEN i ELSE i + 1
    <3>1. b[x] = q[at(x)] /\ b[y] = q[at(y)]
      BY <1>6
    <3>2. at(x) \in DOMAIN q /\ at(y) \in DOMAIN q
      BY <1>1
    <3>3. at(x) = at(y)
      BY <2>1, <3>1, <3>2 DEF IsInjective
    <3>4. QED
      BY <1>1, <3>3
  <2>2. QED
    BY <1>5, <2>1 DEF IsInjective
<1>8. ASSUME NEW u PROVE u \in Members(b) <=> u \in Members(q) /\ u # q[k]
  <2>1. ASSUME u \in Members(b) PROVE u \in Members(q) /\ u # q[k]
    BY <1>1, <1>5, <1>6, <2>1 DEF IsInjective, Members
  <2>2. ASSUME u \in Members(q), u # q[k] PROVE u \in Members(b)
    <3>1. PICK i \in 1 .. Len(q) : q[i] = u /\ i # k
      BY <1>1, <2>2 DEF Members
    <3>2. CASE i < k
      BY <1>1, <1>5, <1>6, <3>1, <3>2 DEF Members
    <3>3. CASE i > k
      <4>1. i - 1 \in 1 .. Len(q) - 1 /\ b[i - 1] = u
        BY <1>1, <1>6, <3>1, <3>3
      <4>2. QED
        BY <1>5, <4>1 DEF Members
    <3>4. QED
      BY <1>1, <3>1, <3>2, <3>3
  <2>3. QED
    BY <2>1, <2>2
<1>9. RemoveAt(q, k) = b
  BY DEF RemoveAt, b, l, r
<1>10. QED
  BY <1>4, <1>7, <1>8, <1>9 DEF b

-----------------------------------------------------------------------------
(***************************************************************************)
(* The invariant holds at the start, and every step keeps it.              *)
(***************************************************************************)
USE ContextsAssumption DEF Contexts, Leaving

\* The sets whose cardinality counts.
LEMMA AliveFinite ==
  ASSUME TypeOK
  PROVE  /\ IsFiniteSet(alive) /\ IsFiniteSet(alive \ asleep)
         /\ Cardinality(alive) \in Nat /\ Cardinality(alive \ asleep) \in Nat
<1>1. IsFiniteSet(Contexts)
  BY FS_AddElement
<1>2. alive \subseteq Contexts /\ alive \ asleep \subseteq Contexts
  BY DEF TypeOK
<1>3. IsFiniteSet(alive) /\ IsFiniteSet(alive \ asleep)
  BY <1>1, <1>2, FS_Subset
<1>4. QED
  BY <1>3, FS_CardinalityType

LEMMA StartIOKeeps ==
  ASSUME IInv, NEW t \in Contexts, StartIO(t)
  PROVE  IInv'
<1>1. TypeOK'
  BY DEF IInv, TypeOK, Labels, StartIO, threadVars, processVars
<1>2. CountsAgree'
  BY DEF IInv, CountsAgree, StartIO, threadVars, processVars
<1>3. OneRuns'
  BY DEF IInv, TypeOK, OneRuns, Parked, StartIO, threadVars, processVars
<1>4. Lives'
  BY DEF IInv, TypeOK, Lives, StartIO, threadVars, processVars
<1>5. ReadyQueued'
  BY DEF IInv, TypeOK, ReadyQueued, Queued, StartIO, threadVars, processVars
<1>6. JoinersKnown'
  BY DEF IInv, TypeOK, JoinersKnown, InJoin, Waiting, StartIO, threadVars,
         processVars
<1>7. MainWarned'
  BY DEF IInv, TypeOK, MainWarned, Warnable, StartIO, threadVars, processVars
<1>8. QED
  BY <1>1, <1>2, <1>3, <1>4, <1>5, <1>6, <1>7 DEF IInv

LEMMA FinishIOKeeps ==
  ASSUME IInv, NEW t \in Contexts, FinishIO(t)
  PROVE  IInv'
<1>1. TypeOK'
  BY DEF IInv, TypeOK, Labels, FinishIO, Goto, processVars
<1>2. CountsAgree'
  BY DEF IInv, CountsAgree, FinishIO, processVars
<1>3. OneRuns'
  BY DEF IInv, TypeOK, OneRuns, Parked, FinishIO, At, Goto, processVars
<1>4. Lives'
  BY DEF IInv, TypeOK, Lives, MainOnly, FinishIO, At, Goto, processVars
<1>5. ReadyQueued'
  BY DEF IInv, TypeOK, ReadyQueued, Queued, FinishIO, At, Goto, processVars
<1>6. JoinersKnown'
  BY DEF IInv, TypeOK, JoinersKnown, InJoin, Waiting, FinishIO, At, Goto,
         processVars
<1>7. MainWarned'
  BY DEF IInv, TypeOK, MainWarned, Warnable, FinishIO, At, Goto, processVars
<1>8. QED
  BY <1>1, <1>2, <1>3, <1>4, <1>5, <1>6, <1>7 DEF IInv

LEMMA DetachKeeps ==
  ASSUME IInv, NEW t \in Contexts, NEW u \in Threads, Detach(t, u)
  PROVE  IInv'
<1>1. TypeOK'
  BY DEF IInv, TypeOK, Labels, Detach, threadVars, processVars
<1>2. CountsAgree'
  BY DEF IInv, CountsAgree, Detach, threadVars, processVars
<1>3. OneRuns'
  BY DEF IInv, TypeOK, OneRuns, Parked, Detach, threadVars, processVars
<1>4. Lives'
  BY DEF IInv, TypeOK, Lives, Detach, threadVars, processVars
<1>5. ReadyQueued'
  BY DEF IInv, TypeOK, ReadyQueued, Queued, Detach, threadVars, processVars
<1>6. JoinersKnown'
  BY DEF IInv, TypeOK, JoinersKnown, InJoin, Waiting, Detach, threadVars,
         processVars
<1>7. MainWarned'
  BY DEF IInv, TypeOK, MainWarned, Warnable, Detach, threadVars, processVars
<1>8. QED
  BY <1>1, <1>2, <1>3, <1>4, <1>5, <1>6, <1>7 DEF IInv

LEMMA JoinKeeps ==
  ASSUME IInv, NEW t \in Contexts, NEW u \in Threads, Join(t, u)
  PROVE  IInv'
<1>1. TypeOK'
  <2>1. "check" \in Labels /\ pc' = [pc EXCEPT ![t] = "check"]
    BY DEF Join, Goto, Labels
  <2>2. pc' \in [Contexts -> Labels]
    BY <2>1 DEF IInv, TypeOK
  <2>3. fJoin' \in [Contexts -> Contexts \cup {Nobody}]
    BY DEF IInv, TypeOK, Join
  <2>4. QED
    BY <2>2, <2>3 DEF IInv, TypeOK, Join, processVars
<1>2. CountsAgree'
  BY DEF IInv, CountsAgree, Join, processVars
<1>3. OneRuns'
  BY DEF IInv, TypeOK, OneRuns, Parked, Join, At, Goto, processVars
<1>4. Lives'
  BY DEF IInv, TypeOK, Lives, MainOnly, Join, At, Goto, processVars
<1>5. ReadyQueued'
  BY DEF IInv, TypeOK, ReadyQueued, Queued, Join, At, Goto, processVars
<1>6. JoinersKnown'
  BY DEF IInv, TypeOK, JoinersKnown, InJoin, Waiting, Join, At, Goto,
         processVars
<1>7. MainWarned'
  BY DEF IInv, TypeOK, MainWarned, Warnable, Join, At, Goto, processVars
<1>8. QED
  BY <1>1, <1>2, <1>3, <1>4, <1>5, <1>6, <1>7 DEF IInv

LEMMA CheckIOKeeps ==
  ASSUME IInv, NEW t \in Contexts, CheckIO(t)
  PROVE  IInv'
<1>1. TypeOK'
  BY DEF IInv, TypeOK, Labels, CheckIO, Goto, processVars
<1>2. CountsAgree'
  BY DEF IInv, CountsAgree, CheckIO, processVars
<1>3. OneRuns'
  BY DEF IInv, TypeOK, OneRuns, Parked, CheckIO, At, Goto, processVars
<1>4. Lives'
  BY DEF IInv, TypeOK, Lives, MainOnly, CheckIO, At, Goto, processVars
<1>5. ReadyQueued'
  BY DEF IInv, TypeOK, ReadyQueued, Queued, CheckIO, At, Goto, processVars
<1>6. JoinersKnown'
  BY DEF IInv, TypeOK, JoinersKnown, InJoin, Waiting, CheckIO, At, Goto,
         processVars
<1>7. MainWarned'
  BY DEF IInv, TypeOK, MainWarned, Warnable, CheckIO, At, Goto, processVars
<1>8. QED
  BY <1>1, <1>2, <1>3, <1>4, <1>5, <1>6, <1>7 DEF IInv

LEMMA CheckJoinKeeps ==
  ASSUME IInv, NEW t \in Contexts, CheckJoin(t)
  PROVE  IInv'
<1>1. TypeOK'
  BY DEF IInv, TypeOK, Labels, CheckJoin, Goto, processVars
<1>2. CountsAgree'
  BY DEF IInv, CountsAgree, CheckJoin, processVars
<1>3. OneRuns'
  BY DEF IInv, TypeOK, OneRuns, Parked, CheckJoin, At, Goto, processVars
<1>4. Lives'
  BY DEF IInv, TypeOK, Lives, MainOnly, CheckJoin, At, Goto, processVars
<1>5. ReadyQueued'
  BY DEF IInv, TypeOK, ReadyQueued, Queued, Lives, OneRuns, Parked, CheckJoin,
         At, Goto, processVars
<1>6. JoinersKnown'
  BY DEF IInv, TypeOK, JoinersKnown, InJoin, Waiting, Lives, OneRuns, Parked,
         CheckJoin, At, Goto, processVars
<1>7. MainWarned'
  BY DEF IInv, TypeOK, MainWarned, Warnable, CheckJoin, At, Goto, processVars
<1>8. QED
  BY <1>1, <1>2, <1>3, <1>4, <1>5, <1>6, <1>7 DEF IInv

LEMMA YieldSliceKeeps ==
  ASSUME IInv, NEW t \in Contexts, YieldSlice(t)
  PROVE  IInv'
<1>1. TypeOK'
  BY DEF IInv, TypeOK, Labels, YieldSlice, Goto, contextVars, processVars
<1>2. CountsAgree'
  BY DEF IInv, CountsAgree, YieldSlice, contextVars, processVars
<1>3. OneRuns'
  BY DEF IInv, TypeOK, OneRuns, Parked, YieldSlice, At, Goto, contextVars,
         processVars
<1>4. Lives'
  BY DEF IInv, TypeOK, Lives, MainOnly, YieldSlice, At, Goto, contextVars,
         processVars
<1>5. ReadyQueued'
  BY DEF IInv, TypeOK, ReadyQueued, Queued, YieldSlice, At, Goto, contextVars,
         processVars
<1>6. JoinersKnown'
  BY DEF IInv, TypeOK, JoinersKnown, InJoin, Waiting, YieldSlice, At, Goto,
         contextVars, processVars
<1>7. MainWarned'
  BY DEF IInv, TypeOK, MainWarned, Warnable, YieldSlice, Goto, contextVars,
         processVars
<1>8. QED
  BY <1>1, <1>2, <1>3, <1>4, <1>5, <1>6, <1>7 DEF IInv

LEMMA StopThreadKeeps ==
  ASSUME IInv, NEW t \in Contexts, StopThread(t)
  PROVE  IInv'
<1>1. TypeOK'
  BY DEF IInv, TypeOK, Labels, StopThread, Goto, contextVars, processVars
<1>2. CountsAgree'
  BY DEF IInv, CountsAgree, StopThread, contextVars, processVars
<1>3. OneRuns'
  BY DEF IInv, TypeOK, OneRuns, Parked, StopThread, At, Goto, contextVars,
         processVars
<1>4. Lives'
  BY DEF IInv, TypeOK, Lives, MainOnly, StopThread, At, Goto, contextVars,
         processVars
<1>5. ReadyQueued'
  BY DEF IInv, TypeOK, ReadyQueued, Queued, StopThread, Goto, contextVars,
         processVars
<1>6. JoinersKnown'
  BY DEF IInv, TypeOK, JoinersKnown, InJoin, Waiting, StopThread, At, Goto,
         contextVars, processVars
<1>7. MainWarned'
  BY DEF IInv, TypeOK, MainWarned, Warnable, StopThread, Goto, contextVars,
         processVars
<1>8. QED
  BY <1>1, <1>2, <1>3, <1>4, <1>5, <1>6, <1>7 DEF IInv

LEMMA SwitchInKeeps ==
  ASSUME IInv, NEW t \in Contexts, SwitchIn(t)
  PROVE  IInv'
<1>1. TypeOK'
  <2>1. \E label \in Labels : pc' = [pc EXCEPT ![t] = label]
    BY DEF SwitchIn, Goto, Labels
  <2>2. asleep' \subseteq asleep /\ fReadyThreads' \in Nat /\ fDontSleep' \in BOOLEAN
    <3>1. CASE t \in asleep
      <4>1. asleep' = asleep \ {t} /\ fReadyThreads' = fReadyThreads + 1 /\ ~fDontSleep'
        BY <3>1 DEF SwitchIn
      <4>2. fReadyThreads \in Nat
        BY DEF IInv, TypeOK
      <4>3. fDontSleep' \in BOOLEAN
        BY <3>1 DEF SwitchIn
      <4>4. QED
        BY <4>1, <4>2, <4>3
    <3>2. CASE t \notin asleep
      BY <3>2 DEF IInv, TypeOK, SwitchIn
    <3>3. QED
      BY <3>1, <3>2
  <2>3. QED
    BY <2>1, <2>2 DEF IInv, TypeOK, SwitchIn
<1>2. CountsAgree'
  <2>1. CASE t \in asleep
    <3>1. alive \ asleep' = (alive \ asleep) \cup {t}
      BY <2>1 DEF IInv, TypeOK, SwitchIn
    <3>2. IsFiniteSet(alive \ asleep) /\ t \notin alive \ asleep
      BY <2>1, AliveFinite DEF IInv
    <3>3. Cardinality(alive \ asleep') = Cardinality(alive \ asleep) + 1
      BY <3>1, <3>2, FS_AddElement
    <3>4. QED
      BY <2>1, <3>3 DEF IInv, CountsAgree, SwitchIn
  <2>2. CASE t \notin asleep
    BY <2>2 DEF IInv, CountsAgree, SwitchIn
  <2>3. QED
    BY <2>1, <2>2
<1>3. OneRuns'
  BY DEF IInv, TypeOK, OneRuns, Parked, SwitchIn, At, Goto
<1>4. Lives'
  BY DEF IInv, TypeOK, Lives, MainOnly, SwitchIn, At, Goto
<1>5. ReadyQueued'
  BY DEF IInv, TypeOK, ReadyQueued, Queued, SwitchIn, At, Goto
<1>6. JoinersKnown'
  BY DEF IInv, TypeOK, JoinersKnown, InJoin, Waiting, SwitchIn, At, Goto
<1>7. MainWarned'
  BY DEF IInv, TypeOK, MainWarned, Warnable, OneRuns, Parked, Lives, SwitchIn,
         At, Goto
<1>8. QED
  BY <1>1, <1>2, <1>3, <1>4, <1>5, <1>6, <1>7 DEF IInv

LEMMA TestWakeupKeeps ==
  ASSUME IInv, NEW t \in Contexts, TestWakeup(t)
  PROVE  IInv'
<1>1. TypeOK'
  <2>1. \E label \in Labels : pc' = [pc EXCEPT ![t] = label]
    BY DEF TestWakeup, Goto, Labels
  <2>2. fWakeup' \in [Contexts -> BOOLEAN]
    BY DEF IInv, TypeOK, TestWakeup
  <2>3. QED
    BY <2>1, <2>2 DEF IInv, TypeOK, TestWakeup, processVars
<1>2. CountsAgree'
  BY DEF IInv, CountsAgree, TestWakeup, processVars
<1>3. OneRuns'
  BY DEF IInv, TypeOK, OneRuns, Parked, TestWakeup, At, Goto, processVars
<1>4. Lives'
  BY DEF IInv, TypeOK, Lives, MainOnly, TestWakeup, At, Goto, processVars
<1>5. ReadyQueued'
  BY DEF IInv, TypeOK, ReadyQueued, Queued, TestWakeup, At, Goto, processVars
<1>6. JoinersKnown'
  BY DEF IInv, TypeOK, JoinersKnown, InJoin, Waiting, TestWakeup, At, Goto,
         processVars
<1>7. MainWarned'
  BY DEF IInv, TypeOK, MainWarned, Warnable, TestWakeup, Goto, processVars
<1>8. QED
  BY <1>1, <1>2, <1>3, <1>4, <1>5, <1>6, <1>7 DEF IInv

LEMMA AnnounceSleepKeeps ==
  ASSUME IInv, AnnounceSleep
  PROVE  IInv'
<1>1. TypeOK'
  BY DEF IInv, TypeOK, Labels, AnnounceSleep, MainStep, Goto, onlyProcess,
         contextVars
<1>2. CountsAgree'
  BY DEF IInv, CountsAgree, AnnounceSleep, MainStep, onlyProcess, contextVars
<1>3. OneRuns'
  BY DEF IInv, TypeOK, OneRuns, Parked, AnnounceSleep, MainStep, At, Goto,
         onlyProcess, contextVars
<1>4. Lives'
  BY DEF IInv, TypeOK, Lives, AnnounceSleep, MainStep, Goto, onlyProcess,
         contextVars
<1>5. ReadyQueued'
  BY DEF IInv, TypeOK, ReadyQueued, Queued, AnnounceSleep, MainStep, At, Goto,
         onlyProcess, contextVars
<1>6. JoinersKnown'
  BY DEF IInv, TypeOK, JoinersKnown, InJoin, Waiting, AnnounceSleep, MainStep,
         At, Goto, onlyProcess, contextVars
<1>7. MainWarned'
  BY DEF IInv, TypeOK, MainWarned, Warnable, AnnounceSleep, MainStep, At, Goto,
         onlyProcess, contextVars
<1>8. QED
  BY <1>1, <1>2, <1>3, <1>4, <1>5, <1>6, <1>7 DEF IInv

LEMMA DecideSleepKeeps ==
  ASSUME IInv, DecideSleep
  PROVE  IInv'
<1>1. TypeOK'
  BY DEF IInv, TypeOK, Labels, DecideSleep, MainStep, Goto, onlyProcess,
         contextVars
<1>2. CountsAgree'
  BY DEF IInv, CountsAgree, DecideSleep, MainStep, onlyProcess, contextVars
<1>3. OneRuns'
  BY DEF IInv, TypeOK, OneRuns, Parked, DecideSleep, MainStep, At, Goto,
         onlyProcess, contextVars
<1>4. Lives'
  BY DEF IInv, TypeOK, Lives, DecideSleep, MainStep, Goto, onlyProcess,
         contextVars
<1>5. ReadyQueued'
  BY DEF IInv, TypeOK, ReadyQueued, Queued, DecideSleep, MainStep, At, Goto,
         onlyProcess, contextVars
<1>6. JoinersKnown'
  BY DEF IInv, TypeOK, JoinersKnown, InJoin, Waiting, DecideSleep, MainStep,
         At, Goto, onlyProcess, contextVars
<1>7. MainWarned'
  <2>1. pc[Main] = "decide" /\ pc'[Main] = "skipOnce"
    BY DEF IInv, TypeOK, DecideSleep, MainStep, At, Goto
  <2>2. fWillSleep /\ (fWakeup[Main] => fDontSleep)
    BY <2>1 DEF IInv, MainWarned, Warnable
  <2>3. UNCHANGED <<fWakeup, fDontSleep, fWillSleep, roused>>
    BY DEF DecideSleep, onlyProcess, contextVars
  <2>4. wait' = "block" => ~fDontSleep
    BY DEF IInv, TypeOK, DecideSleep
  <2>5. QED
    BY <2>1, <2>2, <2>3, <2>4 DEF MainWarned, Warnable
<1>8. QED
  BY <1>1, <1>2, <1>3, <1>4, <1>5, <1>6, <1>7 DEF IInv

LEMMA BeforeEventKeeps ==
  ASSUME IInv, BeforeEvent
  PROVE  IInv'
<1>1. TypeOK'
  BY DEF IInv, TypeOK, Labels, BeforeEvent, SkipSleepOnce, MainStep, Goto,
         onlyProcess, contextVars
<1>2. CountsAgree'
  BY DEF IInv, CountsAgree, BeforeEvent, SkipSleepOnce, MainStep, onlyProcess,
         contextVars
<1>3. OneRuns'
  BY DEF IInv, TypeOK, OneRuns, Parked, BeforeEvent, SkipSleepOnce, MainStep,
         At, Goto, onlyProcess, contextVars
<1>4. Lives'
  BY DEF IInv, TypeOK, Lives, BeforeEvent, SkipSleepOnce, MainStep, Goto,
         onlyProcess, contextVars
<1>5. ReadyQueued'
  BY DEF IInv, TypeOK, ReadyQueued, Queued, BeforeEvent, SkipSleepOnce,
         MainStep, At, Goto, onlyProcess, contextVars
<1>6. JoinersKnown'
  BY DEF IInv, TypeOK, JoinersKnown, InJoin, Waiting, BeforeEvent,
         SkipSleepOnce, MainStep, At, Goto, onlyProcess, contextVars
<1>7. MainWarned'
  BY DEF IInv, TypeOK, MainWarned, Warnable, BeforeEvent, SkipSleepOnce,
         MainStep, At, Goto, onlyProcess, contextVars
<1>8. QED
  BY <1>1, <1>2, <1>3, <1>4, <1>5, <1>6, <1>7 DEF IInv

LEMMA SkipEventKeeps ==
  ASSUME IInv, SkipEvent
  PROVE  IInv'
<1>1. TypeOK'
  BY DEF IInv, TypeOK, Labels, SkipEvent, MainStep, Goto, onlyProcess,
         contextVars
<1>2. CountsAgree'
  BY DEF IInv, CountsAgree, SkipEvent, MainStep, onlyProcess, contextVars
<1>3. OneRuns'
  BY DEF IInv, TypeOK, OneRuns, Parked, SkipEvent, MainStep, At, Goto,
         onlyProcess, contextVars
<1>4. Lives'
  BY DEF IInv, TypeOK, Lives, SkipEvent, MainStep, Goto, onlyProcess,
         contextVars
<1>5. ReadyQueued'
  BY DEF IInv, TypeOK, ReadyQueued, Queued, SkipEvent, MainStep, At, Goto,
         onlyProcess, contextVars
<1>6. JoinersKnown'
  BY DEF IInv, TypeOK, JoinersKnown, InJoin, Waiting, SkipEvent, MainStep, At,
         Goto, onlyProcess, contextVars
<1>7. MainWarned'
  BY DEF IInv, TypeOK, MainWarned, Warnable, SkipEvent, MainStep, Goto,
         onlyProcess, contextVars
<1>8. QED
  BY <1>1, <1>2, <1>3, <1>4, <1>5, <1>6, <1>7 DEF IInv

LEMMA NextEventKeeps ==
  ASSUME IInv, NextEvent
  PROVE  IInv'
<1>1. TypeOK'
  BY DEF IInv, TypeOK, Labels, NextEvent, MainStep, Goto, onlyProcess,
         contextVars
<1>2. CountsAgree'
  BY DEF IInv, CountsAgree, NextEvent, MainStep, onlyProcess, contextVars
<1>3. OneRuns'
  BY DEF IInv, TypeOK, OneRuns, Parked, NextEvent, MainStep, At, Goto,
         onlyProcess, contextVars
<1>4. Lives'
  BY DEF IInv, TypeOK, Lives, NextEvent, MainStep, Goto, onlyProcess,
         contextVars
<1>5. ReadyQueued'
  BY DEF IInv, TypeOK, ReadyQueued, Queued, NextEvent, MainStep, At, Goto,
         onlyProcess, contextVars
<1>6. JoinersKnown'
  BY DEF IInv, TypeOK, JoinersKnown, InJoin, Waiting, NextEvent, MainStep, At,
         Goto, onlyProcess, contextVars
<1>7. MainWarned'
  BY DEF IInv, TypeOK, MainWarned, Warnable, NextEvent, MainStep, Goto,
         onlyProcess, contextVars
<1>8. QED
  BY <1>1, <1>2, <1>3, <1>4, <1>5, <1>6, <1>7 DEF IInv

LEMMA AfterEventKeeps ==
  ASSUME IInv, AfterEvent
  PROVE  IInv'
<1>1. TypeOK'
  BY DEF IInv, TypeOK, Labels, AfterEvent, SkipSleepOnce, MainStep, Goto,
         onlyProcess, contextVars
<1>2. CountsAgree'
  BY DEF IInv, CountsAgree, AfterEvent, SkipSleepOnce, MainStep, onlyProcess,
         contextVars
<1>3. OneRuns'
  BY DEF IInv, TypeOK, OneRuns, Parked, AfterEvent, SkipSleepOnce, MainStep,
         At, Goto, onlyProcess, contextVars
<1>4. Lives'
  BY DEF IInv, TypeOK, Lives, AfterEvent, SkipSleepOnce, MainStep, Goto,
         onlyProcess, contextVars
<1>5. ReadyQueued'
  BY DEF IInv, TypeOK, ReadyQueued, Queued, AfterEvent, SkipSleepOnce,
         MainStep, At, Goto, onlyProcess, contextVars
<1>6. JoinersKnown'
  BY DEF IInv, TypeOK, JoinersKnown, InJoin, Waiting, AfterEvent,
         SkipSleepOnce, MainStep, At, Goto, onlyProcess, contextVars
<1>7. MainWarned'
  BY DEF IInv, TypeOK, MainWarned, Warnable, AfterEvent, SkipSleepOnce,
         MainStep, Goto, onlyProcess, contextVars
<1>8. QED
  BY <1>1, <1>2, <1>3, <1>4, <1>5, <1>6, <1>7 DEF IInv

(***************************************************************************)
(* Wakeup(u) queues u exactly if it was asleep and unwoken, warns the      *)
(* process of every wakeup that is new, and rouses it if it has announced  *)
(* its sleep and knew of no other wakeup.                                  *)
(***************************************************************************)
LEMMA WakeupEffect ==
  ASSUME TypeOK, NEW u \in Contexts, Wakeup(u)
  PROVE  /\ queue' \in Seq(Contexts) /\ IsInjective(queue')
         /\ \A t : t \in Queued' <=> \/ t \in Queued
                                     \/ t = u /\ Stopped(u) /\ ~fWakeup[u]
         /\ fWakeup' = [fWakeup EXCEPT ![u] = TRUE]
         /\ fDontSleep' \in BOOLEAN /\ roused' \in BOOLEAN
         /\ fDontSleep \/ ~fWakeup[u] <=> fDontSleep'
         /\ roused => roused'
         /\ fWillSleep /\ fDontSleep' /\ ~fDontSleep => roused'
<1>1. CASE fWakeup[u]
  <2>1. UNCHANGED <<fWakeup, queue, fDontSleep, roused>>
    BY <1>1 DEF Wakeup
  <2>2. fWakeup' = [fWakeup EXCEPT ![u] = TRUE]
    BY <1>1, <2>1 DEF TypeOK
  <2>3. /\ queue' = queue /\ fDontSleep' = fDontSleep /\ roused' = roused
        /\ Queued' = Queued
    BY <2>1 DEF Queued
  <2>4. /\ queue \in Seq(Contexts) /\ IsInjective(queue)
        /\ fDontSleep \in BOOLEAN /\ roused \in BOOLEAN
    BY DEF TypeOK
  <2>5. /\ queue' \in Seq(Contexts) /\ IsInjective(queue')
        /\ fDontSleep' \in BOOLEAN /\ roused' \in BOOLEAN
    BY <2>3, <2>4
  <2>6. \A t : t \in Queued' <=> \/ t \in Queued
                                 \/ t = u /\ Stopped(u) /\ ~fWakeup[u]
    BY <1>1, <2>3
  <2>7. /\ fDontSleep \/ ~fWakeup[u] <=> fDontSleep'
        /\ roused => roused'
        /\ fWillSleep /\ fDontSleep' /\ ~fDontSleep => roused'
    BY <1>1, <2>3, <2>4
  <2>8. QED
    BY <2>2, <2>5, <2>6, <2>7
<1>2. CASE ~fWakeup[u]
  <2>1. /\ fWakeup' = [fWakeup EXCEPT ![u] = TRUE]
        /\ queue' = IF Stopped(u) THEN Append(queue, u) ELSE queue
        /\ fDontSleep' = TRUE
        /\ roused' = (roused \/ (~fDontSleep /\ fWillSleep))
    BY <1>2 DEF Wakeup, ReadyQueue
  <2>2. queue' \in Seq(Contexts) /\ IsInjective(queue')
        /\ \A t : t \in Queued' <=> t \in Queued \/ (t = u /\ Stopped(u))
    <3>1. CASE Stopped(u)
      <4>1. u \notin Members(queue)
        BY <3>1 DEF Stopped, Queued, Members
      <4>2. Queued = Members(queue) /\ Queued' = Members(queue')
        BY DEF Queued, Members
      <4>3. queue \in Seq(Contexts) /\ IsInjective(queue)
        BY DEF TypeOK
      <4>4. QED
        BY <2>1, <3>1, <4>1, <4>2, <4>3, AppendMember
    <3>2. CASE ~Stopped(u)
      <4>1. queue' = queue
        BY <2>1, <3>2
      <4>2. Queued' = Queued
        BY <4>1 DEF Queued
      <4>3. QED
        BY <3>2, <4>1, <4>2 DEF TypeOK
    <3>3. QED
      BY <3>1, <3>2
  <2>3. fDontSleep' \in BOOLEAN /\ roused' \in BOOLEAN
    BY <2>1 DEF TypeOK
  <2>4. /\ fDontSleep \/ ~fWakeup[u] <=> fDontSleep'
        /\ roused => roused'
        /\ fWillSleep /\ fDontSleep' /\ ~fDontSleep => roused'
    BY <1>2, <2>1 DEF TypeOK
  <2>5. \A t : t \in Queued' <=> \/ t \in Queued
                                 \/ t = u /\ Stopped(u) /\ ~fWakeup[u]
    BY <1>2, <2>2
  <2>6. QED
    BY <2>1, <2>2, <2>3, <2>4, <2>5
<1>3. QED
  BY <1>1, <1>2

LEMMA IODoneKeeps ==
  ASSUME IInv, NEW t \in Contexts, IODone(t)
  PROVE  IInv'
<1>1. CASE io[t] = "started"
  <2>1. /\ io' = [io EXCEPT ![t] = "done"]
        /\ UNCHANGED <<queue, fWakeup, fDontSleep, roused, current, alive, pc,
                       goal, target, asleep, finished, detached, fJoin, wait,
                       fReadyThreads, fExistingThreads, fWillSleep>>
    BY <1>1 DEF IODone, NoWakeup
  <2>2. TypeOK' /\ CountsAgree' /\ OneRuns' /\ Lives' /\ ReadyQueued' /\ MainWarned'
    BY <2>1 DEF IInv, TypeOK, CountsAgree, OneRuns, Lives, ReadyQueued, Queued,
                MainWarned, Warnable
  <2>3. JoinersKnown'
    BY <1>1, <2>1 DEF IInv, TypeOK, JoinersKnown, InJoin
  <2>4. QED
    BY <2>2, <2>3 DEF IInv
<1>2. CASE io[t] = "awaited"
  <2>1. /\ io' = [io EXCEPT ![t] = "done"] /\ Wakeup(t)
        /\ UNCHANGED <<current, alive, pc, goal, target, asleep, finished,
                       detached, fJoin, wait, fReadyThreads, fExistingThreads,
                       fWillSleep>>
    BY <1>2 DEF IODone
  <2>2. /\ queue' \in Seq(Contexts) /\ IsInjective(queue')
        /\ \A u : u \in Queued' <=> \/ u \in Queued
                                    \/ u = t /\ Stopped(t) /\ ~fWakeup[t]
        /\ fWakeup' = [fWakeup EXCEPT ![t] = TRUE]
        /\ fDontSleep' \in BOOLEAN /\ roused' \in BOOLEAN
        /\ fDontSleep \/ ~fWakeup[t] <=> fDontSleep'
        /\ roused => roused'
        /\ fWillSleep /\ fDontSleep' /\ ~fDontSleep => roused'
    BY <2>1, WakeupEffect DEF IInv
  <2>3. TypeOK' /\ CountsAgree' /\ OneRuns' /\ Lives'
    BY <2>1, <2>2 DEF IInv, TypeOK, CountsAgree, OneRuns, Lives
  <2>4. ReadyQueued'
    BY <2>1, <2>2 DEF IInv, TypeOK, ReadyQueued, Lives, Stopped
  <2>5. JoinersKnown'
    BY <1>2, <2>1, <2>2 DEF IInv, TypeOK, JoinersKnown, InJoin
  <2>6. MainWarned'
    BY <2>1, <2>2 DEF IInv, TypeOK, MainWarned, Warnable
  <2>7. QED
    BY <2>3, <2>4, <2>5, <2>6 DEF IInv
<1>3. QED
  BY <1>1, <1>2 DEF IODone

LEMMA CreateKeeps ==
  ASSUME IInv, NEW t \in Contexts, NEW u \in Threads, NEW detach \in BOOLEAN,
         Create(t, u, detach)
  PROVE  IInv'
<1>1. /\ current = t /\ pc[t] = "user" /\ pc[u] = "unused" /\ u # t
      /\ u \notin alive /\ u \notin asleep /\ u \notin Queued
  BY DEF IInv, TypeOK, Lives, ReadyQueued, Create, At
<1>2. /\ queue' \in Seq(Contexts) /\ IsInjective(queue')
      /\ Queued' = Queued \cup {u}
  <2>1. Queued = Members(queue) /\ Queued' = Members(queue')
    BY DEF Queued, Members
  <2>2. queue \in Seq(Contexts) /\ IsInjective(queue)
    BY DEF IInv, TypeOK
  <2>3. QED
    BY <1>1, <2>1, <2>2, AppendMember DEF Create
<1>3. TypeOK'
  <2>1. pc' \in [Contexts -> Labels] /\ detached' \subseteq Threads
    BY DEF IInv, TypeOK, Labels, Create
  <2>2. QED
    BY <1>2, <2>1 DEF IInv, TypeOK, Create
<1>4. CountsAgree'
  <2>1. alive' \ asleep' = (alive \ asleep) \cup {u} /\ alive' = alive \cup {u}
    BY <1>1 DEF Create
  <2>2. /\ Cardinality(alive \cup {u}) = Cardinality(alive) + 1
        /\ Cardinality((alive \ asleep) \cup {u}) = Cardinality(alive \ asleep) + 1
    BY <1>1, AliveFinite, FS_AddElement DEF IInv
  <2>3. QED
    BY <2>1, <2>2 DEF IInv, CountsAgree, Create
<1>5. OneRuns' /\ Lives' /\ ReadyQueued'
  BY <1>1, <1>2 DEF IInv, TypeOK, OneRuns, Parked, Lives, MainOnly, ReadyQueued, Create
<1>6. JoinersKnown'
  BY <1>1 DEF IInv, TypeOK, JoinersKnown, InJoin, Waiting, Lives, Create
<1>7. MainWarned'
  BY <1>1 DEF IInv, TypeOK, MainWarned, Warnable, Create
<1>8. QED
  BY <1>3, <1>4, <1>5, <1>6, <1>7 DEF IInv

LEMMA TerminateKeeps ==
  ASSUME IInv, NEW t \in Contexts, Terminate(t)
  PROVE  IInv'
<1>1. /\ t \in Threads /\ current = t /\ pc[t] = "user"
      /\ t \in alive /\ t \notin asleep /\ t \notin Queued /\ t \notin finished
  BY DEF IInv, TypeOK, Lives, ReadyQueued, Terminate, At
<1>2. alive' = alive \ {t} /\ UNCHANGED <<current, goal, target, asleep, fJoin,
                                          io, fWillSleep, wait>>
  BY DEF Terminate
<1>3. CountsAgree' /\ fExistingThreads' \in Nat /\ fReadyThreads' \in Nat
  <2>1. alive' \ asleep' = (alive \ asleep) \ {t}
    BY <1>2
  <2>2. /\ IsFiniteSet(alive) /\ IsFiniteSet(alive \ asleep)
        /\ t \in alive \ asleep
    BY <1>1, AliveFinite DEF IInv
  <2>3. /\ Cardinality(alive \ {t}) = Cardinality(alive) - 1
        /\ Cardinality((alive \ asleep) \ {t}) = Cardinality(alive \ asleep) - 1
    BY <2>2, FS_RemoveElement
  <2>4. /\ Cardinality(alive \ {t}) \in Nat
        /\ Cardinality((alive \ asleep) \ {t}) \in Nat
    BY <2>2, FS_RemoveElement, FS_CardinalityType
  <2>5. /\ fExistingThreads' = fExistingThreads - 1
        /\ fReadyThreads' = fReadyThreads - 1
    BY <1>1 DEF Terminate
  <2>6. QED
    BY <1>2, <2>1, <2>3, <2>4, <2>5 DEF IInv, CountsAgree
<1>4. CASE t \in detached
  <2>1. /\ pc' = [pc EXCEPT ![t] = "unused"] /\ detached' = detached \ {t}
        /\ UNCHANGED <<fWakeup, queue, fDontSleep, roused, finished>>
    BY <1>4 DEF Terminate, Goto, NoWakeup
  <2>2. TypeOK'
    BY <1>1, <1>2, <1>3, <2>1 DEF IInv, TypeOK, Labels
  <2>3. OneRuns' /\ Lives' /\ ReadyQueued'
    BY <1>1, <1>2, <2>1 DEF IInv, TypeOK, OneRuns, Parked, Lives, MainOnly,
                            ReadyQueued, Queued
  <2>4. JoinersKnown'
    BY <1>1, <1>2, <1>4, <2>1 DEF IInv, TypeOK, JoinersKnown, InJoin, Waiting
  <2>5. MainWarned'
    BY <1>1, <1>2, <2>1 DEF IInv, TypeOK, MainWarned, Warnable
  <2>6. QED
    BY <1>3, <2>2, <2>3, <2>4, <2>5 DEF IInv
<1>5. CASE t \notin detached /\ fJoin[t] = Nobody
  <2>1. /\ pc' = [pc EXCEPT ![t] = "dead"] /\ finished' = finished \cup {t}
        /\ UNCHANGED <<fWakeup, queue, fDontSleep, roused, detached>>
    BY <1>5 DEF Terminate, Goto, WakeJoiner, NoWakeup
  <2>2. TypeOK'
    BY <1>1, <1>2, <1>3, <2>1 DEF IInv, TypeOK, Labels
  <2>3. OneRuns' /\ Lives' /\ ReadyQueued'
    BY <1>1, <1>2, <2>1 DEF IInv, TypeOK, OneRuns, Parked, Lives, MainOnly,
                            ReadyQueued, Queued
  <2>4. JoinersKnown'
    BY <1>1, <1>2, <1>5, <2>1 DEF IInv, TypeOK, JoinersKnown, InJoin, Waiting
  <2>5. MainWarned'
    BY <1>1, <1>2, <2>1 DEF IInv, TypeOK, MainWarned, Warnable
  <2>6. QED
    BY <1>3, <2>2, <2>3, <2>4, <2>5 DEF IInv
<1>6. CASE t \notin detached /\ fJoin[t] # Nobody
  <2> DEFINE j == fJoin[t]
  <2>1. /\ pc' = [pc EXCEPT ![t] = "dead"] /\ finished' = finished \cup {t}
        /\ Wakeup(j) /\ UNCHANGED detached
    BY <1>6 DEF Terminate, Goto, WakeJoiner
  <2>2. j \in Contexts /\ InJoin(j) /\ target[j] = t /\ j # t
    BY <1>1, <1>6 DEF IInv, TypeOK, JoinersKnown
  <2> HIDE DEF j
  <2>3. /\ queue' \in Seq(Contexts) /\ IsInjective(queue')
        /\ \A u : u \in Queued' <=> \/ u \in Queued
                                    \/ u = j /\ Stopped(j) /\ ~fWakeup[j]
        /\ fWakeup' = [fWakeup EXCEPT ![j] = TRUE]
        /\ fDontSleep' \in BOOLEAN /\ roused' \in BOOLEAN
        /\ fDontSleep \/ ~fWakeup[j] <=> fDontSleep'
        /\ roused => roused'
        /\ fWillSleep /\ fDontSleep' /\ ~fDontSleep => roused'
    BY <2>1, <2>2, WakeupEffect DEF IInv
  <2>4. TypeOK'
    BY <1>1, <1>2, <1>3, <2>1, <2>3 DEF IInv, TypeOK, Labels
  <2>5. OneRuns' /\ Lives'
    BY <1>1, <1>2, <2>1 DEF IInv, TypeOK, OneRuns, Parked, Lives, MainOnly
  <2>6. ReadyQueued'
    BY <1>1, <1>2, <2>1, <2>2, <2>3 DEF IInv, TypeOK, ReadyQueued, Lives, Stopped
  <2>7. JoinersKnown'
    BY <1>1, <1>2, <2>1, <2>2, <2>3 DEF IInv, TypeOK, JoinersKnown, InJoin, Waiting, j
  <2>8. MainWarned'
    BY <1>1, <1>2, <2>1, <2>3 DEF IInv, TypeOK, MainWarned, Warnable
  <2>9. QED
    BY <1>3, <2>4, <2>5, <2>6, <2>7, <2>8 DEF IInv
<1>7. QED
  BY <1>4, <1>5, <1>6

LEMMA YieldToAnyThreadKeeps ==
  ASSUME IInv, NEW t \in Contexts, YieldToAnyThread(t)
  PROVE  IInv'
<1>1. /\ current = t /\ pc[t] = (IF t = Main THEN "resumed" ELSE "yield")
      /\ t # Main => goal[t] = "yield"
      /\ t \notin Queued /\ t \notin asleep /\ t \in alive
  BY DEF IInv, TypeOK, Lives, ReadyQueued, YieldToAnyThread, At
<1>2. UNCHANGED <<current, alive, goal, target, fWakeup, asleep, finished,
                  detached, fJoin, io, fReadyThreads, fExistingThreads,
                  fDontSleep, fWillSleep, wait, roused>>
  BY DEF YieldToAnyThread, contextVars, processVars
<1>3. PICK label \in {"test", "out"} : pc' = [pc EXCEPT ![t] = label]
  BY DEF YieldToAnyThread, Goto
<1>4. /\ queue' \in Seq(Contexts) /\ IsInjective(queue')
      /\ Queued' = IF label = "out" THEN Queued \cup {t} ELSE Queued
  <2>1. pc \in [Contexts -> Labels] /\ queue \in Seq(Contexts) /\ IsInjective(queue)
    BY DEF IInv, TypeOK
  <2>2. queue' = IF label = "out" THEN Append(queue, t) ELSE queue
    BY <1>3, <2>1 DEF YieldToAnyThread, Goto
  <2>3. Queued = Members(queue) /\ Queued' = Members(queue')
    BY DEF Queued, Members
  <2>4. CASE label = "out"
    BY <1>1, <2>1, <2>2, <2>3, <2>4, AppendMember
  <2>5. CASE label # "out"
    BY <2>1, <2>2, <2>3, <2>5
  <2>6. QED
    BY <2>4, <2>5
<1>5. TypeOK' /\ CountsAgree'
  BY <1>2, <1>3, <1>4 DEF IInv, TypeOK, Labels, CountsAgree
<1>6. OneRuns' /\ Lives' /\ ReadyQueued'
  BY <1>1, <1>2, <1>3, <1>4 DEF IInv, TypeOK, OneRuns, Parked, Lives, MainOnly, ReadyQueued
<1>7. JoinersKnown'
  BY <1>1, <1>2, <1>3 DEF IInv, TypeOK, JoinersKnown, InJoin, Waiting
<1>8. MainWarned'
  BY <1>1, <1>2, <1>3 DEF IInv, TypeOK, MainWarned, Warnable
<1>9. QED
  BY <1>5, <1>6, <1>7, <1>8 DEF IInv

(***************************************************************************)
(* The steps of SwitchOut.                                                 *)
(***************************************************************************)
LEMMA LeavingFacts ==
  ASSUME IInv, NEW t \in Contexts, current = t, pc[t] \in Leaving
  PROVE  /\ t \in Threads /\ t \in alive /\ t \notin asleep
         /\ goal[t] # "yield" /\ (Stopped(t) <=> t \notin Queued)
BY DEF IInv, TypeOK, Lives, Stopped

\* The thread goes on to the next label and nothing else changes.
LEMMA LeavingGoes ==
  ASSUME IInv, NEW t \in Contexts, current = t, pc[t] \in Leaving,
         NEW l \in Leaving \cup {"out"}, pc' = [pc EXCEPT ![t] = l],
         UNCHANGED <<current, queue, alive, goal, target, contextVars, processVars>>,
         l = "out" /\ t \notin Queued => ~fWakeup[t],
         l = "readyAgain" => fWakeup[t],
         l = "fallAsleep" /\ fWakeup[t] => t \in Queued
  PROVE  IInv'
<1>1. t \in Threads /\ t \in alive /\ t \notin asleep /\ goal[t] # "yield"
  BY LeavingFacts
<1>2. TypeOK' /\ CountsAgree'
  BY DEF IInv, TypeOK, Labels, CountsAgree, contextVars, processVars
<1>3. OneRuns' /\ Lives'
  BY <1>1 DEF IInv, TypeOK, OneRuns, Parked, Lives, MainOnly, contextVars
<1>4. ReadyQueued'
  <2>1. Queued' = Queued /\ fWakeup' = fWakeup /\ goal' = goal
    BY DEF Queued, contextVars
  <2>2. QED
    BY <1>1, <2>1 DEF IInv, TypeOK, ReadyQueued
<1>5. JoinersKnown'
  BY <1>1 DEF IInv, TypeOK, JoinersKnown, InJoin, Waiting, contextVars
<1>6. MainWarned'
  BY <1>1 DEF IInv, TypeOK, MainWarned, Warnable, contextVars, processVars
<1>7. QED
  BY <1>2, <1>3, <1>4, <1>5, <1>6 DEF IInv

LEMMA ReadStateKeeps ==
  ASSUME IInv, NEW t \in Contexts, ReadState(t)
  PROVE  IInv'
<1>1. current = t /\ pc[t] \in Leaving
  BY DEF ReadState, At
<1>2. UNCHANGED <<current, queue, alive, goal, target, contextVars, processVars>>
  BY DEF ReadState
<1>3. CASE Stopped(t)
  <2>1. pc' = [pc EXCEPT ![t] = "seenStopped"]
    BY <1>3 DEF ReadState, Goto
  <2>2. QED
    BY <1>1, <1>2, <2>1, LeavingGoes
<1>4. CASE ~Stopped(t)
  <2>1. pc' = [pc EXCEPT ![t] = "out"] /\ t \in Queued
    BY <1>1, <1>4, LeavingFacts DEF ReadState, Goto
  <2>2. QED
    BY <1>1, <1>2, <2>1, LeavingGoes
<1>5. QED
  BY <1>3, <1>4

LEMMA ReadWakeupKeeps ==
  ASSUME IInv, NEW t \in Contexts, ReadWakeup(t)
  PROVE  IInv'
<1>1. current = t /\ pc[t] \in Leaving
  BY DEF ReadWakeup, At
<1>2. UNCHANGED <<current, queue, alive, goal, target, contextVars, processVars>>
  BY DEF ReadWakeup
<1>3. CASE fWakeup[t]
  <2>1. pc' = [pc EXCEPT ![t] = "readyAgain"]
    BY <1>3 DEF ReadWakeup, Goto
  <2>2. QED
    BY <1>1, <1>2, <1>3, <2>1, LeavingGoes
<1>4. CASE ~fWakeup[t]
  <2>1. pc' = [pc EXCEPT ![t] = "fallAsleep"]
    BY <1>4 DEF ReadWakeup, Goto
  <2>2. QED
    BY <1>1, <1>2, <1>4, <2>1, LeavingGoes
<1>5. QED
  BY <1>3, <1>4

\* A wakeup between the look at the state and this step has made the thread
\* ready, which it stays.
LEMMA ReadyAgainKeeps ==
  ASSUME IInv, NEW t \in Contexts, ReadyAgain(t)
  PROVE  IInv'
<1>1. /\ current = t /\ pc[t] = "readyAgain" /\ fWakeup[t] /\ t \in Threads
      /\ t \in alive /\ t \notin asleep /\ goal[t] # "yield"
      /\ Stopped(t) <=> t \notin Queued
  BY LeavingFacts DEF IInv, ReadyQueued, ReadyAgain, At
<1>2. /\ pc' = [pc EXCEPT ![t] = "out"] /\ queue' = ReadyQueue(t)
      /\ UNCHANGED <<current, alive, goal, target, contextVars, processVars>>
  BY DEF ReadyAgain, Goto
<1>3. /\ queue' \in Seq(Contexts) /\ IsInjective(queue')
      /\ Queued' = Queued \cup {t}
  <2>1. queue \in Seq(Contexts) /\ IsInjective(queue)
    BY DEF IInv, TypeOK
  <2>2. Queued = Members(queue) /\ Queued' = Members(queue')
    BY DEF Queued, Members
  <2>3. CASE t \notin Queued
    <3>1. queue' = Append(queue, t)
      BY <1>1, <1>2, <2>3 DEF ReadyQueue
    <3>2. QED
      BY <2>1, <2>2, <2>3, <3>1, AppendMember
  <2>4. CASE t \in Queued
    <3>1. queue' = queue
      BY <1>1, <1>2, <2>4 DEF ReadyQueue
    <3>2. QED
      BY <2>1, <2>2, <2>4, <3>1
  <2>5. QED
    BY <2>3, <2>4
<1>4. TypeOK' /\ CountsAgree'
  BY <1>1, <1>2, <1>3
  DEF IInv, TypeOK, Labels, CountsAgree, contextVars, processVars
<1>5. OneRuns' /\ Lives'
  BY <1>1, <1>2
  DEF IInv, TypeOK, OneRuns, Parked, Lives, MainOnly, contextVars
<1>6. ReadyQueued'
  BY <1>1, <1>2, <1>3 DEF IInv, TypeOK, ReadyQueued, contextVars
<1>7. JoinersKnown'
  BY <1>1, <1>2
  DEF IInv, TypeOK, JoinersKnown, InJoin, Waiting, contextVars
<1>8. MainWarned'
  BY <1>1, <1>2 DEF IInv, TypeOK, MainWarned, Warnable, contextVars, processVars
<1>9. QED
  BY <1>4, <1>5, <1>6, <1>7, <1>8 DEF IInv

LEMMA FallAsleepKeeps ==
  ASSUME IInv, NEW t \in Contexts, FallAsleep(t)
  PROVE  IInv'
<1>1. /\ current = t /\ pc[t] = "fallAsleep" /\ t \in Threads
      /\ t \in alive /\ t \notin asleep /\ goal[t] # "yield"
      /\ fWakeup[t] => t \in Queued
  BY LeavingFacts DEF IInv, ReadyQueued, FallAsleep, At
<1>2. /\ pc' = [pc EXCEPT ![t] = "out"]
      /\ asleep' = asleep \cup {t} /\ fReadyThreads' = fReadyThreads - 1
      /\ UNCHANGED <<current, queue, alive, goal, target, fWakeup, finished,
                     detached, fJoin, io, fExistingThreads, fDontSleep,
                     fWillSleep, wait, roused>>
  BY DEF FallAsleep, Goto
<1>3. CountsAgree' /\ fReadyThreads' \in Nat
  <2>1. alive' \ asleep' = (alive \ asleep) \ {t} /\ alive' = alive
    BY <1>2
  <2>2. IsFiniteSet(alive \ asleep) /\ t \in alive \ asleep
    BY <1>1, AliveFinite DEF IInv
  <2>3. /\ Cardinality((alive \ asleep) \ {t}) = Cardinality(alive \ asleep) - 1
        /\ Cardinality((alive \ asleep) \ {t}) \in Nat
    BY <2>2, FS_RemoveElement, FS_CardinalityType
  <2>4. QED
    BY <1>2, <2>1, <2>3 DEF IInv, CountsAgree
<1>4. TypeOK'
  BY <1>1, <1>2, <1>3 DEF IInv, TypeOK, Labels
<1>5. OneRuns' /\ Lives'
  BY <1>1, <1>2 DEF IInv, TypeOK, OneRuns, Parked, Lives, MainOnly
<1>6. ReadyQueued'
  <2>1. Queued' = Queued
    BY <1>2 DEF Queued
  <2>2. QED
    BY <1>1, <1>2, <2>1 DEF IInv, TypeOK, ReadyQueued
<1>7. JoinersKnown' /\ MainWarned'
  BY <1>1, <1>2
  DEF IInv, TypeOK, JoinersKnown, InJoin, Waiting, MainWarned, Warnable
<1>8. QED
  BY <1>3, <1>4, <1>5, <1>6, <1>7 DEF IInv

LEMMA DispatchKeeps ==
  ASSUME IInv, NEW t \in Contexts, Dispatch(t)
  PROVE  IInv'
<1>1. /\ queue' \in Seq(Contexts) /\ IsInjective(queue')
      /\ Queued' = Queued \ {t} /\ t \in Queued
  <2>1. PICK i \in DOMAIN queue : queue[i] = t /\ queue' = RemoveAt(queue, i)
    BY DEF Dispatch
  <2>2. Queued = Members(queue) /\ Queued' = Members(queue')
    BY DEF Queued, Members
  <2>3. QED
    BY <2>1, <2>2, RemoveMember DEF IInv, TypeOK, Queued
<1>2. current' = t /\ UNCHANGED <<alive, goal, target, contextVars, processVars>>
  BY DEF Dispatch
<1>3. pc[current] \in {"out", "dead", "unused"} /\ pc[t] \in {"new", "out"}
  BY <1>1 DEF IInv, TypeOK, OneRuns, Parked, ReadyQueued, Dispatch
<1>4. pc' = [pc EXCEPT ![t] = IF pc[t] = "new" THEN "newIn" ELSE "in"]
  BY DEF Dispatch, Goto
<1>5. TypeOK' /\ CountsAgree'
  BY <1>1, <1>2, <1>3, <1>4
  DEF IInv, TypeOK, Labels, CountsAgree, contextVars, processVars
<1>6. OneRuns'
  BY <1>1, <1>2, <1>3, <1>4 DEF IInv, TypeOK, OneRuns, Parked
<1>7. Lives' /\ ReadyQueued'
  BY <1>1, <1>2, <1>3, <1>4
  DEF IInv, TypeOK, Lives, MainOnly, ReadyQueued, contextVars
<1>8. JoinersKnown'
  BY <1>2, <1>3, <1>4 DEF IInv, TypeOK, JoinersKnown, InJoin, Waiting, contextVars
<1>9. MainWarned'
  BY <1>2, <1>3, <1>4
  DEF IInv, TypeOK, MainWarned, Warnable, contextVars, processVars
<1>10. QED
  BY <1>5, <1>6, <1>7, <1>8, <1>9 DEF IInv

-----------------------------------------------------------------------------
LEMMA InitHolds == Init => IInv
<1> SUFFICES ASSUME Init PROVE IInv
  OBVIOUS
<1>1. TypeOK
  <2>1. queue \in Seq(Contexts) /\ IsInjective(queue)
    BY DEF Init, IsInjective
  <2>2. QED
    BY <2>1 DEF Init, TypeOK, Labels
<1>2. CountsAgree
  <2>1. alive \ asleep = {Main} /\ Cardinality({Main}) = 1
    BY FS_Singleton DEF Init
  <2>2. QED
    BY <2>1 DEF Init, CountsAgree
<1>3. OneRuns /\ Lives /\ ReadyQueued /\ JoinersKnown /\ MainWarned
  BY DEF Init, OneRuns, Parked, Lives, MainOnly, ReadyQueued, Queued,
         JoinersKnown, InJoin, Waiting, MainWarned, Warnable
<1>4. QED
  BY <1>1, <1>2, <1>3 DEF IInv

LEMMA StepKeeps == IInv /\ [Next]_vars => IInv'
<1> SUFFICES ASSUME IInv, [Next]_vars PROVE IInv'
  OBVIOUS
<1>1. CASE ProcessYield
  BY <1>1, AnnounceSleepKeeps, DecideSleepKeeps, BeforeEventKeeps,
     SkipEventKeeps, NextEventKeeps, AfterEventKeeps DEF ProcessYield
<1>2. ASSUME NEW t \in Contexts, UserCode(t) PROVE IInv'
  BY <1>2, StartIOKeeps, FinishIOKeeps, YieldSliceKeeps, TerminateKeeps,
     JoinKeeps, DetachKeeps, CreateKeeps DEF UserCode
<1>3. ASSUME NEW t \in Contexts, YieldCode(t) PROVE IInv'
  BY <1>3, CheckIOKeeps, CheckJoinKeeps, StopThreadKeeps, YieldToAnyThreadKeeps,
     ReadStateKeeps, ReadWakeupKeeps, ReadyAgainKeeps, FallAsleepKeeps,
     SwitchInKeeps, TestWakeupKeeps DEF YieldCode, SwitchOut
<1>4. ASSUME NEW t \in Contexts, IODone(t) \/ Dispatch(t) PROVE IInv'
  BY <1>4, IODoneKeeps, DispatchKeeps
<1>5. CASE UNCHANGED vars
  BY <1>5 DEF IInv, TypeOK, CountsAgree, OneRuns, Lives, ReadyQueued, Queued,
              JoinersKnown, InJoin, MainWarned, Warnable, vars, threadVars,
              contextVars, processVars
<1>6. QED
  BY <1>1, <1>2, <1>3, <1>4, <1>5 DEF Next

-----------------------------------------------------------------------------
(***************************************************************************)
(* The invariant holds in every state of every behaviour.                  *)
(***************************************************************************)
THEOREM Invariance == Spec => []IInv
<1>1. QED
  BY InitHolds, StepKeeps, PTL DEF Spec

(***************************************************************************)
(* Contexts, flags and counters keep their types, whatever the threads do  *)
(* and whichever two steps of SwitchOut an interrupt comes between.        *)
(***************************************************************************)
THEOREM TypeCorrect == Spec => []TypeOK
<1>1. IInv => TypeOK
  BY DEF IInv
<1>2. QED
  BY <1>1, Invariance, PTL

(***************************************************************************)
(* The two counts GUSIProcess::Yield decides by, which SwitchOut, SwitchIn *)
(* and Terminate update one by one, are those of the contexts that are     *)
(* awake and that exist.                                                   *)
(***************************************************************************)
THEOREM CountsRight == Spec => []CountsAgree
<1>1. IInv => CountsAgree
  BY DEF IInv
<1>2. QED
  BY <1>1, Invariance, PTL

(***************************************************************************)
(* GUSIContext::Wakeup loses no wakeup, at whatever moment between the     *)
(* test of its caller's wait and SwitchOut the completion comes: a context *)
(* whose wait is over is marked, and one that is marked is in the queue.   *)
(***************************************************************************)
THEOREM NoWakeupLost == Spec => []WakeupNotLost
<1>1. IInv => WakeupNotLost
  <2> SUFFICES ASSUME IInv, NEW t \in Contexts, t \in alive
               PROVE  /\ Blocking(t) /\ Fulfilled(t) => fWakeup[t]
                      /\ fWakeup[t] /\ pc[t] = "out" => t \in Queued
    BY DEF IInv, TypeOK, WakeupNotLost
  <2>1. Blocking(t) => pc[t] \in Waiting /\ pc[t] # "check" /\ goal[t] \in {"io", "join"}
    BY DEF IInv, TypeOK, Labels, Blocking, Waiting
  <2>2. Blocking(t) /\ Fulfilled(t) => fWakeup[t]
    BY <2>1 DEF IInv, JoinersKnown, InJoin, Fulfilled
  <2>3. fWakeup[t] /\ pc[t] = "out" => t \in Queued
    BY DEF IInv, ReadyQueued
  <2>4. QED
    BY <2>2, <2>3
<1>2. QED
  BY <1>1, Invariance, PTL

(***************************************************************************)
(* GUSIProcess::Yield and GUSIProcess::Wakeup agree through fDontSleep and *)
(* fWillSleep: WaitNextEvent does not sleep on a wakeup of the main        *)
(* context without having been cut short by WakeUpProcess.                 *)
(***************************************************************************)
THEOREM MainAwake == Spec => []MainSleepsUnwoken
<1>1. IInv => MainSleepsUnwoken
  BY DEF IInv, MainWarned, MainSleepsUnwoken
<1>2. QED
  BY <1>1, Invariance, PTL

=============================================================================
