------------------------- MODULE GUSIPThreadProofs -------------------------
(***************************************************************************)
(* The mutex and the condition variable of GUSIPThread are a monitor with  *)
(* recursive locks, for any set of threads and any number of locks of      *)
(* each, until a thread that holds the mutex locks it while others wait.   *)
(***************************************************************************)
EXTENDS GUSIPThread, FiniteSetTheorems, TLAPS

(***************************************************************************)
(* The inductive invariant.  HolderInFront speaks of the front only; what  *)
(* a step makes the front was somewhere in the queue before, so that the   *)
(* whole queue has to be known.  A thread is in it once for every lock it  *)
(* holds and once more if it waits for one (Counts): who calls unlock at   *)
(* the front has a lock to give up.  Unless somebody has overtaken others, *)
(* the entries of the holder come first (HoldersFirst).                    *)
(***************************************************************************)
Places(q, t) == {i \in DOMAIN q : q[i] = t}
Times(q, t) == Cardinality(Places(q, t))

Locking == {"lock", "relock"}
Entries(t) == IF pc[t] \in Locking THEN holds[t] + 1 ELSE holds[t]

Counts == \A t \in Threads : Times(mutex, t) = Entries(t)

RoomLeft == \A t \in Threads : pc[t] \in Locking \cup {"wait"} => holds[t] < MaxHolds

HoldersFirst ==
  ~overtakes =>
    \A t \in Threads : holds[t] > 0 =>
      /\ pc[t] \notin Locking /\ holds[t] <= Len(mutex)
      /\ \A i \in 1 .. holds[t] : mutex[i] = t

IInv ==
  /\ TypeOK /\ Counts /\ RoomLeft /\ HoldersFirst
  /\ OwnerAwake /\ WaiterReachable

Places5 == {"user", "lock", "relock", "yield", "wait"}
Timers == {"off", "primed", "expired"}

-----------------------------------------------------------------------------
(***************************************************************************)
(* Queues.                                                                 *)
(***************************************************************************)
LEMMA FrontIsIn ==
  ASSUME NEW S, NEW q \in Seq(S), NEW t, Front(q, t)
  PROVE  In(q, t)
BY DEF Front, In

LEMMA FrontIsOne ==
  ASSUME NEW q, NEW t, NEW u, Front(q, t), Front(q, u)
  PROVE  t = u
BY DEF Front

LEMMA AppendQueue ==
  ASSUME NEW S, NEW q \in Seq(S), NEW t \in S
  PROVE  /\ Append(q, t) \in Seq(S) /\ Len(Append(q, t)) = Len(q) + 1
         /\ \A i \in 1 .. Len(q) : Append(q, t)[i] = q[i]
         /\ Append(q, t)[Len(q) + 1] = t
         /\ \A u : In(Append(q, t), u) <=> In(q, u) \/ u = t
         /\ \A u : Front(Append(q, t), u) <=> IF q = <<>> THEN u = t ELSE Front(q, u)
<1> DEFINE a == Append(q, t)
<1>1. a \in Seq(S) /\ Len(a) = Len(q) + 1
  OBVIOUS
<1>2. \A i \in 1 .. Len(q) : a[i] = q[i]
  OBVIOUS
<1>3. a[Len(q) + 1] = t
  OBVIOUS
<1>4. DOMAIN a = 1 .. Len(q) + 1 /\ DOMAIN q = 1 .. Len(q) /\ Len(q) \in Nat
  OBVIOUS
<1> HIDE DEF a
<1>5. \A u : In(a, u) <=> In(q, u) \/ u = t
  BY <1>2, <1>3, <1>4 DEF In
<1>6. \A u : Front(a, u) <=> IF q = <<>> THEN u = t ELSE Front(q, u)
  <2>1. Head(a) = IF q = <<>> THEN t ELSE Head(q)
    BY DEF a
  <2>2. a # <<>>
    BY <1>1, <1>4
  <2>3. QED
    BY <2>1, <2>2 DEF Front
<1>7. QED
  BY <1>1, <1>2, <1>3, <1>5, <1>6 DEF a

LEMMA TailQueue ==
  ASSUME NEW S, NEW q \in Seq(S), NEW t, Front(q, t)
  PROVE  /\ Tail(q) \in Seq(S) /\ Len(Tail(q)) = Len(q) - 1 /\ Len(q) > 0
         /\ q[1] = t
         /\ \A i \in 1 .. Len(q) - 1 : Tail(q)[i] = q[i + 1]
BY DEF Front

LEMMA TimesType ==
  ASSUME NEW S, NEW q \in Seq(S), NEW t
  PROVE  IsFiniteSet(Places(q, t)) /\ Times(q, t) \in Nat
<1>1. Places(q, t) \in SUBSET (1 .. Len(q)) /\ Len(q) \in Nat
  BY DEF Places
<1>2. IsFiniteSet(1 .. Len(q))
  BY <1>1, FS_Interval
<1>3. IsFiniteSet(Places(q, t))
  BY <1>1, <1>2, FS_Subset
<1>4. QED
  BY <1>3, FS_CardinalityType DEF Times

LEMMA TimesNone ==
  ASSUME NEW S, NEW q \in Seq(S), NEW t
  PROVE  Times(q, t) = 0 <=> ~In(q, t)
<1>1. Times(q, t) = 0 <=> Places(q, t) = {}
  BY TimesType, FS_EmptySet DEF Times
<1>2. QED
  BY <1>1 DEF Places, In

LEMMA TimesAppend ==
  ASSUME NEW S, NEW q \in Seq(S), NEW t \in S, NEW u
  PROVE  Times(Append(q, t), u) = IF u = t THEN Times(q, u) + 1 ELSE Times(q, u)
<1> DEFINE a == Append(q, t)
<1>1. /\ DOMAIN a = 1 .. Len(q) + 1 /\ DOMAIN q = 1 .. Len(q) /\ Len(q) \in Nat
      /\ a[Len(q) + 1] = t /\ \A i \in 1 .. Len(q) : a[i] = q[i]
  BY AppendQueue
<1> HIDE DEF a
<1>2. IsFiniteSet(Places(q, u)) /\ Len(q) + 1 \notin Places(q, u)
  <2>1. Len(q) + 1 \notin Places(q, u)
    BY <1>1 DEF Places
  <2>2. QED
    BY <2>1, TimesType
<1>3. CASE u = t
  <2>1. Places(a, u) = Places(q, u) \cup {Len(q) + 1}
    BY <1>1, <1>3 DEF Places
  <2>2. Cardinality(Places(q, u) \cup {Len(q) + 1}) = Cardinality(Places(q, u)) + 1
    BY <1>2, FS_AddElement
  <2>3. QED
    BY <1>3, <2>1, <2>2 DEF Times, a
<1>4. CASE u # t
  <2>1. Places(a, u) = Places(q, u)
    BY <1>1, <1>4 DEF Places
  <2>2. QED
    BY <1>4, <2>1 DEF Times, a
<1>5. QED
  BY <1>3, <1>4

LEMMA TimesTail ==
  ASSUME NEW S, NEW q \in Seq(S), NEW t, Front(q, t), NEW u
  PROVE  Times(Tail(q), u) = IF u = t THEN Times(q, u) - 1 ELSE Times(q, u)
<1> DEFINE b == Tail(q)
           P == Places(q, u) \ {1}
           f == [i \in P |-> i - 1]
<1>1. /\ DOMAIN b = 1 .. Len(q) - 1 /\ DOMAIN q = 1 .. Len(q) /\ Len(q) \in Nat
      /\ Len(q) > 0 /\ q[1] = t /\ \A i \in 1 .. Len(q) - 1 : b[i] = q[i + 1]
  <2>1. b \in Seq(S) /\ Len(b) = Len(q) - 1 /\ Len(q) > 0 /\ q[1] = t
    BY TailQueue
  <2>2. \A i \in 1 .. Len(q) - 1 : b[i] = q[i + 1]
    BY TailQueue
  <2> HIDE DEF b
  <2>3. QED
    BY <2>1, <2>2
<1> HIDE DEF b
<1>2. IsFiniteSet(Places(q, u)) /\ Times(q, u) \in Nat
  BY TimesType
<1>3. \A i \in P : i \in 2 .. Len(q) /\ q[i] = u
  BY <1>1 DEF Places
<1>4. ExistsBijection(P, Places(b, u))
  <2>1. \A i \in P : i - 1 \in Places(b, u)
    <3>1. SUFFICES ASSUME NEW i \in P PROVE i - 1 \in Places(b, u)
      OBVIOUS
    <3>2. i \in 2 .. Len(q) /\ q[i] = u
      BY <1>3
    <3>3. i - 1 \in 1 .. Len(q) - 1 /\ i - 1 + 1 = i
      BY <1>1, <3>2
    <3>4. QED
      BY <1>1, <3>2, <3>3 DEF Places
  <2>2. \A j \in Places(b, u) : j + 1 \in P /\ j \in Nat
    BY <1>1 DEF Places
  <2> HIDE DEF P
  <2>3. f \in [P -> Places(b, u)]
    BY <2>1
  <2>4. \A i, j \in P : f[i] = f[j] => i = j
    BY <1>1, <1>3
  <2>5. \A j \in Places(b, u) : \E i \in P : f[i] = j
    <3>1. SUFFICES ASSUME NEW j \in Places(b, u) PROVE \E i \in P : f[i] = j
      OBVIOUS
    <3>2. j + 1 \in P /\ j \in Nat /\ f[j + 1] = j
      BY <2>2
    <3>3. QED
      BY <3>2
  <2> HIDE DEF f
  <2>6. QED
    BY <2>3, <2>4, <2>5
       DEF ExistsBijection, Bijection, Injection, IsInjective, Surjection
<1>5. /\ IsFiniteSet(P)
      /\ Cardinality(P) = IF 1 \in Places(q, u) THEN Cardinality(Places(q, u)) - 1
                                                ELSE Cardinality(Places(q, u))
  BY <1>2, FS_RemoveElement
<1>6. Cardinality(Places(b, u)) = Cardinality(P)
  BY <1>4, <1>5, FS_Bijection
<1>7. 1 \in Places(q, u) <=> u = t
  BY <1>1 DEF Places
<1>8. QED
  BY <1>5, <1>6, <1>7 DEF Times, b

\* A queue in which nobody else is.
LEMMA TimesAll ==
  ASSUME NEW S, NEW q \in Seq(S), NEW t, \A u \in S \ {t} : ~In(q, u)
  PROVE  Times(q, t) = Len(q) /\ \A i \in 1 .. Len(q) : q[i] = t
<1>1. DOMAIN q = 1 .. Len(q) /\ Len(q) \in Nat /\ \A i \in 1 .. Len(q) : q[i] \in S
  OBVIOUS
<1>2. \A i \in 1 .. Len(q) : q[i] = t
  BY <1>1 DEF In
<1>3. Places(q, t) = 1 .. Len(q)
  BY <1>1, <1>2 DEF Places
<1>4. Cardinality(1 .. Len(q)) = IF 1 > Len(q) THEN 0 ELSE Len(q) - 1 + 1
  BY <1>1, FS_Interval
<1>5. QED
  BY <1>1, <1>2, <1>3, <1>4 DEF Times

LEMMA LeastOf ==
  ASSUME NEW L, L \subseteq Nat, L # {}
  PROVE  \E g \in L : \A h \in L : g <= h
<1>1. PICK g \in L : \A h \in L : ~ (<<h, g>> \in OpToRel(<, Nat))
  BY NatLessThanWellFounded, WFMin
<1>2. ASSUME NEW h \in L, ~ (g <= h) PROVE FALSE
  <2>1. <<h, g>> \in OpToRel(<, Nat)
    BY <1>2 DEF OpToRel
  <2>2. QED
    BY <1>1, <2>1
<1>3. QED
  BY <1>2

LEMMA Concatenated ==
  ASSUME NEW S, NEW l \in Seq(S), NEW r \in Seq(S)
  PROVE  /\ l \o r \in Seq(S) /\ Len(l \o r) = Len(l) + Len(r)
         /\ \A i \in 1 .. Len(l) : (l \o r)[i] = l[i]
         /\ \A i \in Len(l) + 1 .. Len(l) + Len(r) : (l \o r)[i] = r[i - Len(l)]
OBVIOUS

LEMMA RemovedQueue ==
  ASSUME NEW S, NEW q \in Seq(S), NEW t
  PROVE  /\ Removed(q, t) \in Seq(S)
         /\ \A u : In(q, u) /\ u # t => In(Removed(q, t), u)
<1>1. CASE ~In(q, t)
  BY <1>1 DEF Removed
<1>2. CASE In(q, t)
  <2> DEFINE Is(i) == q[i] = t /\ \A j \in 1 .. i - 1 : q[j] # t
             k == CHOOSE i \in DOMAIN q : Is(i)
             l == SubSeq(q, 1, k - 1)
             r == SubSeq(q, k + 1, Len(q))
  <2>1. Len(q) \in Nat /\ DOMAIN q = 1 .. Len(q)
    OBVIOUS
  <2>2. \E i \in DOMAIN q : Is(i)
    <3>1. {i \in DOMAIN q : q[i] = t} \subseteq Nat
          /\ {i \in DOMAIN q : q[i] = t} # {}
      BY <1>2, <2>1 DEF In
    <3>2. PICK i \in {j \in DOMAIN q : q[j] = t} :
                \A j \in {j \in DOMAIN q : q[j] = t} : i <= j
      BY <3>1, LeastOf
    <3>3. \A j \in 1 .. i - 1 : q[j] # t
      BY <2>1, <3>2
    <3>4. QED
      BY <3>2, <3>3
  <2>3. k \in 1 .. Len(q) /\ q[k] = t
    BY <2>1, <2>2
  <2>4. Removed(q, t) = l \o r
    BY <1>2 DEF Removed
  <2> HIDE DEF k
  <2>5. l \in Seq(S) /\ Len(l) = k - 1 /\ \A i \in 1 .. k - 1 : l[i] = q[i]
    BY <2>1, <2>3
  <2>6. /\ r \in Seq(S) /\ Len(r) = Len(q) - k
        /\ \A i \in 1 .. Len(q) - k : r[i] = q[k + i]
    BY <2>1, <2>3
  <2> HIDE DEF l, r
  <2>7. l \o r \in Seq(S) /\ DOMAIN (l \o r) = 1 .. Len(q) - 1
    <3>1. l \o r \in Seq(S) /\ Len(l \o r) = Len(l) + Len(r)
      BY <2>5, <2>6, Concatenated
    <3>2. Len(l) + Len(r) = Len(q) - 1
      BY <2>1, <2>3, <2>5, <2>6
    <3>3. QED
      BY <3>1, <3>2
  <2>8. ASSUME NEW u, In(q, u), u # t PROVE In(l \o r, u)
    <3>1. PICK i \in 1 .. Len(q) : q[i] = u /\ i # k
      BY <2>1, <2>3, <2>8 DEF In
    <3>2. CASE i < k
      <4>1. i \in 1 .. k - 1 /\ (l \o r)[i] = u
        BY <2>3, <2>5, <2>6, <3>1, <3>2, Concatenated
      <4>2. i \in 1 .. Len(q) - 1
        BY <2>1, <2>3, <4>1
      <4>3. QED
        BY <2>7, <4>1, <4>2 DEF In
    <3>3. CASE k < i
      <4>1. i - k \in 1 .. Len(q) - k /\ (l \o r)[i - 1] = r[i - k]
        BY <2>1, <2>3, <2>5, <2>6, <3>1, <3>3, Concatenated
      <4>2. i - 1 \in 1 .. Len(q) - 1 /\ (l \o r)[i - 1] = u
        BY <2>1, <2>3, <2>6, <3>1, <3>3, <4>1
      <4>3. QED
        BY <2>7, <4>2 DEF In
    <3>4. QED
      BY <2>1, <2>3, <3>1, <3>2, <3>3
  <2>9. QED
    BY <2>4, <2>7, <2>8
<1>3. QED
  BY <1>1, <1>2

-----------------------------------------------------------------------------
(***************************************************************************)
(* The invariant holds at the start, and every step keeps it.              *)
(***************************************************************************)
LEMMA InitIsFine == Init => IInv
<1> SUFFICES ASSUME Init PROVE IInv
  OBVIOUS
<1>1. TypeOK
  <2>1. mutex \in Seq(Threads) /\ cond \in Seq(Threads)
    BY DEF Init
  <2>2. holds \in [Threads -> 0 .. MaxHolds]
    BY HoldsAssumption DEF Init
  <2>3. QED
    BY <2>1, <2>2 DEF Init, TypeOK
<1>2. \A t : ~In(mutex, t) /\ Times(mutex, t) = 0
  <2>1. mutex = <<>>
    BY DEF Init
  <2>2. \A t : ~In(mutex, t)
    BY <2>1 DEF In
  <2>3. QED
    BY <1>1, <2>2, TimesNone DEF TypeOK
<1>3. Counts /\ RoomLeft /\ HoldersFirst /\ OwnerAwake /\ WaiterReachable
  BY <1>2 DEF Init, Counts, Entries, Locking, RoomLeft, HoldersFirst, OwnerAwake,
              WaiterReachable
<1>4. QED
  BY <1>1, <1>3 DEF IInv

(***************************************************************************)
(* Thread t has just entered the queue, and goes on or waits in the loop   *)
(* of the lock, as the queue stands in mutex'.                             *)
(***************************************************************************)
LEMMA JoinQueue ==
  ASSUME IInv, NEW t \in Threads,
         pc[t] \in {"user", "wait"}, holds[t] < MaxHolds, Join(t),
         NEW label \in Locking,
         IF Front(mutex', t)
         THEN /\ pc' = [pc EXCEPT ![t] = "user"]
              /\ holds' = [holds EXCEPT ![t] = @ + 1]
         ELSE pc' = [pc EXCEPT ![t] = label] /\ UNCHANGED holds,
         timer' \in [Threads -> Timers],
         \A u \in Threads \ {t} : fWakeup'[u] = fWakeup[u],
         fWakeup' \in [Threads -> BOOLEAN], cond' \in Seq(Threads),
         \A u \in Threads \ {t} : In(cond, u) => In(cond', u),
         UNCHANGED fPolling
  PROVE  IInv'
<1>1. /\ mutex \in Seq(Threads) /\ holds \in [Threads -> 0 .. MaxHolds]
      /\ pc \in [Threads -> Places5] /\ MaxHolds \in Nat
      /\ overtakes' \in BOOLEAN /\ fPolling' \in BOOLEAN
  BY HoldsAssumption DEF IInv, TypeOK, Places5, Join, Overtakes
<1>2. /\ mutex' \in Seq(Threads) /\ Len(mutex') = Len(mutex) + 1
      /\ Len(mutex) \in Nat /\ \A i \in 1 .. Len(mutex) : mutex'[i] = mutex[i]
      /\ mutex'[Len(mutex) + 1] = t
      /\ \A u : Front(mutex', u) <=> IF mutex = <<>> THEN u = t ELSE Front(mutex, u)
      /\ \A u : Times(mutex', u) = IF u = t THEN Times(mutex, u) + 1
                                            ELSE Times(mutex, u)
  BY <1>1, AppendQueue, TimesAppend DEF Join
<1>3. \A u \in Threads \ {t} : holds'[u] = holds[u] /\ pc'[u] = pc[u]
  BY <1>1
<1>4. /\ holds' \in [Threads -> 0 .. MaxHolds] /\ pc' \in [Threads -> Places5]
      /\ IF Front(mutex', t) THEN pc'[t] = "user" /\ holds'[t] = holds[t] + 1
                             ELSE pc'[t] = label /\ holds'[t] = holds[t]
  <2>1. CASE Front(mutex', t)
    <3>1. holds[t] + 1 \in 0 .. MaxHolds
      BY <1>1
    <3>2. QED
      BY <1>1, <2>1, <3>1 DEF Places5
  <2>2. CASE ~Front(mutex', t)
    BY <1>1, <2>2 DEF Places5, Locking
  <2>3. QED
    BY <2>1, <2>2
<1>5. Times(mutex, t) = holds[t]
  BY DEF IInv, Counts, Entries, Locking
<1>6. TypeOK'
  BY <1>1, <1>2, <1>4 DEF TypeOK, Places5, Timers
<1>7. Counts'
  <2>1. SUFFICES ASSUME NEW u \in Threads PROVE Times(mutex', u) = Entries(u)'
    BY DEF Counts
  <2>2. CASE u = t
    BY <1>2, <1>4, <1>5, <2>2 DEF Entries, Locking
  <2>3. CASE u # t
    BY <1>2, <1>3, <2>3 DEF IInv, Counts, Entries
  <2>4. QED
    BY <2>2, <2>3
<1>8. RoomLeft'
  BY <1>3, <1>4 DEF IInv, RoomLeft, Locking
<1>9. HoldersFirst'
  <2>1. SUFFICES ASSUME ~overtakes', NEW u \in Threads, holds'[u] > 0
                 PROVE  /\ pc'[u] \notin Locking /\ holds'[u] <= Len(mutex')
                        /\ \A i \in 1 .. holds'[u] : mutex'[i] = u
    BY DEF HoldersFirst
  <2>2. ~overtakes /\ ~Overtakes(t)
    BY <2>1 DEF Join
  <2>3. CASE u # t
    <3>1. holds'[u] = holds[u] /\ pc'[u] = pc[u] /\ holds[u] \in Nat
      BY <1>1, <1>3, <2>3
    <3>2. /\ pc[u] \notin Locking /\ holds[u] <= Len(mutex)
          /\ \A i \in 1 .. holds[u] : mutex[i] = u
      BY <2>1, <2>2, <3>1 DEF IInv, HoldersFirst
    <3>3. \A i \in 1 .. holds[u] : i \in 1 .. Len(mutex)
      BY <1>2, <3>1, <3>2
    <3>4. \A i \in 1 .. holds[u] : mutex'[i] = u
      BY <1>2, <3>2, <3>3
    <3>5. holds[u] <= Len(mutex')
      BY <1>2, <3>1, <3>2
    <3>6. QED
      BY <3>1, <3>2, <3>4, <3>5
  <2>4. CASE u = t /\ holds[t] > 0
    <3>1. \A v \in Threads \ {t} : ~In(mutex, v)
      BY <2>2, <2>4 DEF Overtakes
    <3>2. holds[t] = Len(mutex) /\ \A i \in 1 .. Len(mutex) : mutex[i] = t
      BY <1>1, <1>5, <3>1, TimesAll
    <3>3. Front(mutex', t)
      <4>1. mutex # <<>> /\ mutex[1] = t
        BY <1>1, <2>4, <3>2
      <4>2. Front(mutex, t)
        BY <1>1, <4>1 DEF Front
      <4>3. QED
        BY <1>2, <4>1, <4>2
    <3>4. \A i \in 1 .. Len(mutex) + 1 : mutex'[i] = t
      BY <1>2, <3>2
    <3>5. QED
      BY <1>2, <1>4, <2>4, <3>2, <3>3, <3>4 DEF Locking
  <2>5. CASE u = t /\ ~(holds[t] > 0)
    <3>1. holds[t] = 0 /\ Front(mutex', t) /\ holds'[t] = 1 /\ pc'[t] = "user"
      BY <1>1, <1>4, <2>1, <2>5
    <3>2. mutex'[1] = t /\ Len(mutex') >= 1
      BY <1>2, <3>1 DEF Front
    <3>3. QED
      BY <2>5, <3>1, <3>2 DEF Locking
  <2>6. QED
    BY <2>3, <2>4, <2>5
<1>10. OwnerAwake'
  <2>1. SUFFICES ASSUME NEW u \in Threads, pc'[u] \in Locking, Front(mutex', u)
                 PROVE  fWakeup'[u]
    BY DEF OwnerAwake, Locking
  <2>2. u # t
    BY <1>4, <2>1 DEF Locking
  <2>3. QED
    BY <1>2, <1>3, <2>1, <2>2 DEF IInv, OwnerAwake, Locking
<1>11. WaiterReachable'
  BY <1>3, <1>4 DEF IInv, WaiterReachable, Locking
<1>12. QED
  BY <1>6, <1>7, <1>8, <1>9, <1>10, <1>11 DEF IInv

(***************************************************************************)
(* Who calls unlock or waits at the front has a lock to give up.           *)
(***************************************************************************)
LEMMA FrontHolds ==
  ASSUME IInv, NEW t \in Threads, pc[t] \notin Locking, Front(mutex, t)
  PROVE  holds[t] \in 1 .. MaxHolds /\ Times(mutex, t) = holds[t]
<1>1. mutex \in Seq(Threads) /\ holds[t] \in 0 .. MaxHolds /\ MaxHolds \in Nat
  BY HoldsAssumption DEF IInv, TypeOK
<1>2. Times(mutex, t) = holds[t] /\ Times(mutex, t) # 0
  BY <1>1, FrontIsIn, TimesNone DEF IInv, Counts, Entries
<1>3. QED
  BY <1>1, <1>2

(***************************************************************************)
(* Thread t gives a lock up, and the next one in the queue is woken.       *)
(***************************************************************************)
LEMMA LeaveQueue ==
  ASSUME IInv, NEW t \in Threads,
         pc[t] = "user", Front(mutex, t), mutex' = Tail(mutex),
         holds' = [holds EXCEPT ![t] = @ - 1],
         NEW label \in {"user", "yield", "wait"}, Goto(t, label),
         \A u \in Threads \ {t} :
           fWakeup[u] \/ Front(mutex', u) => fWakeup'[u],
         fWakeup' \in [Threads -> BOOLEAN], cond' \in Seq(Threads),
         timer' \in [Threads -> Timers],
         fPolling' \in BOOLEAN, UNCHANGED overtakes,
         \A u \in Threads : In(cond, u) => In(cond', u),
         label = "wait" => In(cond', t)
  PROVE  IInv'
<1>1. /\ mutex \in Seq(Threads) /\ holds \in [Threads -> 0 .. MaxHolds]
      /\ pc \in [Threads -> Places5] /\ MaxHolds \in Nat /\ overtakes' \in BOOLEAN
  BY HoldsAssumption DEF IInv, TypeOK, Places5
<1>2. holds[t] \in 1 .. MaxHolds /\ Times(mutex, t) = holds[t]
  BY FrontHolds DEF Locking
<1>3. /\ mutex' \in Seq(Threads) /\ Len(mutex') = Len(mutex) - 1
      /\ Len(mutex) \in Nat \ {0} /\ mutex[1] = t
      /\ \A i \in 1 .. Len(mutex) - 1 : mutex'[i] = mutex[i + 1]
      /\ \A u : Times(mutex', u) = IF u = t THEN Times(mutex, u) - 1
                                            ELSE Times(mutex, u)
  BY <1>1, TailQueue, TimesTail
<1>4. /\ holds' \in [Threads -> 0 .. MaxHolds] /\ holds'[t] = holds[t] - 1
      /\ pc' \in [Threads -> Places5] /\ pc'[t] = label
      /\ \A u \in Threads \ {t} : holds'[u] = holds[u] /\ pc'[u] = pc[u]
  BY <1>1, <1>2 DEF Goto, Places5
<1>5. TypeOK'
  BY <1>1, <1>3, <1>4 DEF TypeOK, Places5, Timers
<1>6. Counts'
  <2>1. SUFFICES ASSUME NEW u \in Threads PROVE Times(mutex', u) = Entries(u)'
    BY DEF Counts
  <2>2. CASE u = t
    BY <1>2, <1>3, <1>4, <2>2 DEF Entries, Locking
  <2>3. CASE u # t
    BY <1>3, <1>4, <2>3 DEF IInv, Counts, Entries
  <2>4. QED
    BY <2>2, <2>3
<1>7. RoomLeft'
  BY <1>1, <1>2, <1>4 DEF IInv, RoomLeft, Locking
<1>8. HoldersFirst'
  <2>1. SUFFICES ASSUME ~overtakes, NEW u \in Threads, holds'[u] > 0
                 PROVE  /\ pc'[u] \notin Locking /\ holds'[u] <= Len(mutex')
                        /\ \A i \in 1 .. holds'[u] : mutex'[i] = u
    BY DEF HoldersFirst
  <2>2. holds[u] > 0 /\ holds[u] \in Nat
    BY <1>1, <1>2, <1>4, <2>1
  <2>3. holds[u] <= Len(mutex) /\ \A i \in 1 .. holds[u] : mutex[i] = u
    BY <2>1, <2>2 DEF IInv, HoldersFirst
  <2>4. u = t
    BY <1>3, <2>2, <2>3
  <2>5. \A i \in 1 .. holds[t] - 1 :
          i \in 1 .. Len(mutex) - 1 /\ i + 1 \in 1 .. holds[t]
    BY <1>2, <1>3, <2>3, <2>4
  <2>6. QED
    BY <1>2, <1>3, <1>4, <2>3, <2>4, <2>5 DEF Locking
<1>9. OwnerAwake'
  BY <1>4 DEF IInv, OwnerAwake
<1>10. WaiterReachable'
  BY <1>4 DEF IInv, WaiterReachable
<1>11. QED
  BY <1>5, <1>6, <1>7, <1>8, <1>9, <1>10 DEF IInv

(***************************************************************************)
(* A step that leaves the queue of the mutex, its holders and the places   *)
(* of all threads alone, and takes no wakeup back.                         *)
(***************************************************************************)
LEMMA QueueStays ==
  ASSUME IInv, UNCHANGED <<mutex, holds, overtakes>>,
         \A u \in Threads :
           \/ pc'[u] = pc[u]
           \/ pc[u] \in {"user", "yield"} /\ pc'[u] \in {"user", "yield"}
  PROVE  Counts' /\ RoomLeft' /\ HoldersFirst'
<1>1. \A u \in Threads :
        /\ (pc'[u] \in Locking) <=> (pc[u] \in Locking)
        /\ (pc'[u] = "wait") <=> (pc[u] = "wait")
  BY DEF Locking
<1>2. \A u \in Threads : Entries(u)' = Entries(u)
  BY <1>1 DEF Entries
<1>3. Counts'
  BY <1>2 DEF IInv, Counts, Times, Places
<1>4. RoomLeft'
  BY <1>1 DEF IInv, RoomLeft
<1>5. HoldersFirst'
  BY <1>1 DEF IInv, HoldersFirst
<1>6. QED
  BY <1>3, <1>4, <1>5

LEMMA OnlyWakes ==
  ASSUME IInv, UNCHANGED <<mutex, pc, holds, overtakes>>,
         \A u \in Threads : fWakeup[u] => fWakeup'[u],
         fWakeup' \in [Threads -> BOOLEAN], cond' \in Seq(Threads),
         timer' \in [Threads -> Timers],
         fPolling' \in BOOLEAN,
         \A u \in Threads : In(cond, u) => In(cond', u) \/ fWakeup'[u]
  PROVE  IInv'
<1>1. TypeOK'
  BY DEF IInv, TypeOK, Timers
<1>2. Counts' /\ RoomLeft' /\ HoldersFirst'
  BY QueueStays
<1>3. OwnerAwake'
  BY DEF IInv, OwnerAwake, Front
<1>4. WaiterReachable'
  BY DEF IInv, WaiterReachable
<1>5. QED
  BY <1>1, <1>2, <1>3, <1>4 DEF IInv

LEMMA StutterIsFine == IInv /\ UNCHANGED vars => IInv'
BY OnlyWakes DEF IInv, vars, TypeOK, Timers

(***************************************************************************)
(* Thread t goes into the Yield of Trylock or comes back from one.         *)
(***************************************************************************)
LEMMA Turns ==
  ASSUME IInv, NEW t \in Threads, pc[t] \in {"user", "yield"},
         NEW label \in {"user", "yield"}, Goto(t, label),
         UNCHANGED <<mutex, cond, timer, holds, overtakes>>,
         fPolling' \in BOOLEAN, fWakeup' \in [Threads -> BOOLEAN],
         \A u \in Threads \ {t} : fWakeup'[u] = fWakeup[u]
  PROVE  IInv'
<1>1. /\ pc' \in [Threads -> Places5] /\ pc'[t] = label
      /\ \A u \in Threads \ {t} : pc'[u] = pc[u]
  BY DEF IInv, TypeOK, Goto, Places5
<1>2. TypeOK'
  BY <1>1 DEF IInv, TypeOK, Places5
<1>3. Counts' /\ RoomLeft' /\ HoldersFirst'
  BY <1>1, QueueStays
<1>4. OwnerAwake' /\ WaiterReachable'
  BY <1>1 DEF IInv, OwnerAwake, WaiterReachable, Front, In
<1>5. QED
  BY <1>2, <1>3, <1>4 DEF IInv

(***************************************************************************)
(* Thread t comes back to the loop of the lock, and stays in it unless it  *)
(* has come to the front.                                                  *)
(***************************************************************************)
LEMMA LoopKeeps ==
  ASSUME IInv, NEW t \in Threads, LockAgain(t)
  PROVE  IInv'
<1>1. /\ pc \in [Threads -> Places5] /\ mutex \in Seq(Threads)
      /\ holds \in [Threads -> 0 .. MaxHolds] /\ fWakeup \in [Threads -> BOOLEAN]
      /\ timer \in [Threads -> Timers] /\ MaxHolds \in Nat
  BY HoldsAssumption DEF IInv, TypeOK, Places5, Timers
<1>2. /\ pc[t] \in Locking /\ holds[t] < MaxHolds
      /\ UNCHANGED <<mutex, fPolling, cond, overtakes>>
      /\ fWakeup' \in [Threads -> BOOLEAN]
      /\ \A u \in Threads \ {t} : fWakeup'[u] = fWakeup[u]
      /\ timer' \in [Threads -> Timers]
  BY <1>1 DEF LockAgain, TakeOrYield, IInv, RoomLeft, Locking, Timers
<1>3. CASE Front(mutex, t)
  <2>1. /\ pc' = [pc EXCEPT ![t] = "user"]
        /\ holds' = [holds EXCEPT ![t] = @ + 1]
    BY <1>3 DEF LockAgain, TakeOrYield, Goto
  <2>2. /\ pc'[t] = "user" /\ holds'[t] = holds[t] + 1
        /\ holds' \in [Threads -> 0 .. MaxHolds] /\ pc' \in [Threads -> Places5]
        /\ \A u \in Threads \ {t} : pc'[u] = pc[u] /\ holds'[u] = holds[u]
    BY <1>1, <1>2, <2>1 DEF Places5
  <2>3. TypeOK'
    BY <1>2, <2>2 DEF IInv, TypeOK, Places5, Timers
  <2>4. Counts'
    <3>1. SUFFICES ASSUME NEW u \in Threads PROVE Times(mutex', u) = Entries(u)'
      BY DEF Counts
    <3>2. Times(mutex', u) = Times(mutex, u) /\ Times(mutex, u) = Entries(u)
      BY <1>2 DEF IInv, Counts
    <3>3. Entries(u)' = Entries(u)
      BY <1>2, <2>2 DEF Entries, Locking
    <3>4. QED
      BY <3>2, <3>3
  <2>5. RoomLeft'
    BY <2>2 DEF IInv, RoomLeft, Locking
  <2>6. HoldersFirst'
    <3>1. SUFFICES ASSUME ~overtakes, NEW u \in Threads, holds'[u] > 0
                   PROVE  /\ pc'[u] \notin Locking /\ holds'[u] <= Len(mutex')
                          /\ \A i \in 1 .. holds'[u] : mutex'[i] = u
      BY <1>2 DEF HoldersFirst
    <3>2. CASE u = t
      <4>1. holds[t] = 0
        BY <1>1, <1>2, <3>1 DEF IInv, HoldersFirst
      <4>2. mutex[1] = t /\ Len(mutex) >= 1
        BY <1>1, <1>3 DEF Front
      <4>3. QED
        BY <1>2, <2>2, <3>2, <4>1, <4>2 DEF Locking
    <3>3. CASE u # t
      BY <1>2, <2>2, <3>1, <3>3 DEF IInv, HoldersFirst
    <3>4. QED
      BY <3>2, <3>3
  <2>7. OwnerAwake' /\ WaiterReachable'
    BY <1>2, <2>2 DEF IInv, OwnerAwake, WaiterReachable, In, Front
  <2>8. QED
    BY <2>3, <2>4, <2>5, <2>6, <2>7 DEF IInv
<1>4. CASE ~Front(mutex, t)
  <2>1. UNCHANGED <<pc, holds, timer>>
    BY <1>1, <1>2, <1>4 DEF LockAgain, TakeOrYield, Goto
  <2>2. TypeOK'
    BY <1>2, <2>1 DEF IInv, TypeOK
  <2>3. Counts' /\ RoomLeft' /\ HoldersFirst'
    BY <1>2, <2>1, QueueStays
  <2>4. OwnerAwake' /\ WaiterReachable'
    BY <1>2, <1>4, <2>1 DEF IInv, OwnerAwake, WaiterReachable, In, Front, Locking
  <2>5. QED
    BY <2>2, <2>3, <2>4 DEF IInv
<1>5. QED
  BY <1>3, <1>4

LEMMA WakeFrontType ==
  ASSUME NEW q \in Seq(Threads), fWakeup \in [Threads -> BOOLEAN]
  PROVE  /\ WakeFront(q) \in [Threads -> BOOLEAN]
         /\ \A u \in Threads : fWakeup[u] \/ Front(q, u) => WakeFront(q)[u]
<1>1. CASE q = <<>>
  BY <1>1 DEF WakeFront, Front
<1>2. CASE q # <<>>
  <2>1. Head(q) \in Threads
    BY <1>2
  <2>2. QED
    BY <1>2, <2>1 DEF WakeFront, Front
<1>3. QED
  BY <1>1, <1>2

-----------------------------------------------------------------------------
LEMMA NextKeeps == IInv /\ [Next]_vars => IInv'
<1> SUFFICES ASSUME IInv, [Next]_vars PROVE IInv'
  OBVIOUS
<1>1. /\ mutex \in Seq(Threads) /\ cond \in Seq(Threads) /\ fPolling \in BOOLEAN
      /\ pc \in [Threads -> Places5] /\ fWakeup \in [Threads -> BOOLEAN]
      /\ timer \in [Threads -> Timers] /\ holds \in [Threads -> 0 .. MaxHolds]
  BY DEF IInv, TypeOK, Places5, Timers
<1>2. ASSUME NEW t \in Threads, Lock(t) PROVE IInv'
  <2>1. pc[t] = "user" /\ holds[t] < MaxHolds /\ Join(t)
    BY <1>2 DEF Lock
  <2>2. timer' \in [Threads -> Timers]
    BY <1>1, <1>2 DEF Lock, TakeOrYield, Timers
  <2>3. UNCHANGED <<fPolling, cond, fWakeup>>
    BY <1>2 DEF Lock
  <2>4. IF Front(mutex', t)
        THEN /\ pc' = [pc EXCEPT ![t] = "user"]
             /\ holds' = [holds EXCEPT ![t] = @ + 1]
        ELSE pc' = [pc EXCEPT ![t] = "lock"] /\ UNCHANGED holds
    BY <1>2 DEF Lock, TakeOrYield, Goto
  <2>5. QED
    BY <1>1, <2>1, <2>2, <2>3, <2>4, JoinQueue DEF Locking
<1>3. ASSUME NEW t \in Threads, Trylock(t) PROVE IInv'
  <2>1. pc[t] = "user" /\ holds[t] < MaxHolds /\ UNCHANGED <<cond, fWakeup, timer>>
    BY <1>3 DEF Trylock
  <2>2. CASE mutex = <<>> \/ Front(mutex, t)
    <3>1. /\ Join(t) /\ UNCHANGED <<fPolling, pc>>
          /\ holds' = [holds EXCEPT ![t] = @ + 1]
      BY <1>3, <2>2 DEF Trylock
    <3>2. Front(mutex', t)
      BY <1>1, <2>2, <3>1, AppendQueue DEF Join
    <3>3. pc' = [pc EXCEPT ![t] = "user"]
      BY <1>1, <2>1, <3>1
    <3>4. QED
      BY <1>1, <2>1, <3>1, <3>2, <3>3, JoinQueue DEF Locking
  <2>3. CASE ~(mutex = <<>> \/ Front(mutex, t))
    <3>1. fPolling' = TRUE /\ Goto(t, "yield") /\ UNCHANGED <<mutex, holds, overtakes>>
      BY <1>3, <2>3 DEF Trylock
    <3>2. QED
      BY <1>1, <2>1, <3>1, Turns
  <2>4. QED
    BY <2>2, <2>3
<1>4. ASSUME NEW t \in Threads, Unlock(t) PROVE IInv'
  <2>1. Tail(mutex) \in Seq(Threads)
    BY <1>1, <1>4 DEF Unlock, Front
  <2>2. /\ WakeFront(Tail(mutex)) \in [Threads -> BOOLEAN]
        /\ \A u \in Threads : fWakeup[u] \/ Front(Tail(mutex), u)
                                => WakeFront(Tail(mutex))[u]
    BY <1>1, <2>1, WakeFrontType
  <2>3. CASE fPolling
    BY <1>1, <1>4, <2>2, <2>3, LeaveQueue DEF Unlock
  <2>4. CASE ~fPolling
    BY <1>1, <1>4, <2>2, <2>4, LeaveQueue DEF Unlock
  <2>5. QED
    BY <2>3, <2>4
<1>5. ASSUME NEW t \in Threads, CondWait(t) \/ CondTimedwait(t) PROVE IInv'
  <2>1. Tail(mutex) \in Seq(Threads)
    BY <1>1, <1>5 DEF CondWait, CondTimedwait, Front
  <2>2. /\ WakeFront(Tail(mutex)) \in [Threads -> BOOLEAN]
        /\ \A u \in Threads : fWakeup[u] \/ Front(Tail(mutex), u)
                                => WakeFront(Tail(mutex))[u]
    BY <1>1, <2>1, WakeFrontType
  <2>3. /\ fWakeup' \in [Threads -> BOOLEAN]
        /\ \A u \in Threads \ {t} :
             fWakeup[u] \/ Front(Tail(mutex), u) => fWakeup'[u]
    <3>1. CASE CondWait(t)
      BY <2>2, <3>1 DEF CondWait
    <3>2. CASE CondTimedwait(t)
      <4>1. fWakeup' = [WakeFront(Tail(mutex)) EXCEPT ![t] = FALSE]
        BY <3>2 DEF CondTimedwait
      <4>2. QED
        BY <2>2, <4>1
    <3>3. QED
      BY <1>5, <3>1, <3>2
  <2>4. /\ cond' = Append(cond, t) /\ cond' \in Seq(Threads)
        /\ \A u : In(cond', u) <=> In(cond, u) \/ u = t
    <3>1. cond' = Append(cond, t)
      BY <1>5 DEF CondWait, CondTimedwait
    <3>2. QED
      BY <1>1, <3>1, AppendQueue
  <2>5. timer' \in [Threads -> Timers]
    BY <1>1, <1>5 DEF CondWait, CondTimedwait, Timers
  <2>6. /\ pc[t] = "user" /\ Front(mutex, t) /\ mutex' = Tail(mutex)
        /\ holds' = [holds EXCEPT ![t] = @ - 1] /\ Goto(t, "wait")
        /\ UNCHANGED <<fPolling, overtakes>>
    BY <1>5 DEF CondWait, CondTimedwait
  <2>7. QED
    BY <1>1, <2>3, <2>4, <2>5, <2>6, LeaveQueue
<1>6. ASSUME NEW t \in Threads, CondSignal(t) PROVE IInv'
  BY <1>1, <1>6, WakeFrontType, OnlyWakes DEF CondSignal
<1>7. ASSUME NEW t \in Threads, CondBroadcast(t) \/ CondDestroy(t) PROVE IInv'
  <2>1. /\ fWakeup' = [u \in Threads |-> fWakeup[u] \/ In(cond, u)]
        /\ fWakeup' \in [Threads -> BOOLEAN]
        /\ \A u \in Threads : fWakeup[u] \/ In(cond, u) => fWakeup'[u]
    <3>1. fWakeup' = [u \in Threads |-> fWakeup[u] \/ In(cond, u)]
      BY <1>7 DEF CondBroadcast, CondDestroy
    <3>2. fWakeup' \in [Threads -> BOOLEAN]
      BY <3>1, Zenon
    <3>3. \A u \in Threads : fWakeup[u] \/ In(cond, u) => fWakeup'[u]
      BY <3>1, Zenon
    <3>4. QED
      BY <3>1, <3>2, <3>3
  <2>2. cond' \in Seq(Threads) /\ UNCHANGED <<mutex, fPolling, pc, timer, holds, overtakes>>
    <3>1. cond' = cond \/ cond' = <<>>
      BY <1>7 DEF CondBroadcast, CondDestroy
    <3>2. UNCHANGED <<mutex, fPolling, pc, timer, holds, overtakes>>
      BY <1>7 DEF CondBroadcast, CondDestroy
    <3>3. cond' \in Seq(Threads)
      <4>1. <<>> \in Seq(Threads)
        OBVIOUS
      <4>2. QED
        BY <1>1, <3>1, <4>1
    <3>4. QED
      BY <3>2, <3>3
  <2>3. QED
    BY <1>1, <2>1, <2>2, OnlyWakes
<1>8. ASSUME NEW t \in Threads, TimerFires(t) PROVE IInv'
  BY <1>1, <1>8, OnlyWakes DEF TimerFires, Timers
<1>9. ASSUME NEW t \in Threads, WaitOver(t) PROVE IInv'
  <2>1. pc[t] = "wait" /\ holds[t] < MaxHolds /\ Join(t)
    BY <1>9 DEF WaitOver, IInv, RoomLeft
  <2>2. /\ cond' \in Seq(Threads)
        /\ \A u : In(cond, u) /\ u # t => In(cond', u)
    BY <1>1, <1>9, RemovedQueue DEF WaitOver
  <2>3. /\ fWakeup' \in [Threads -> BOOLEAN]
        /\ \A u \in Threads \ {t} : fWakeup'[u] = fWakeup[u]
        /\ UNCHANGED fPolling
    BY <1>1, <1>9 DEF WaitOver
  <2>4. IF Front(mutex', t)
        THEN /\ pc' = [pc EXCEPT ![t] = "user"]
             /\ holds' = [holds EXCEPT ![t] = @ + 1]
        ELSE pc' = [pc EXCEPT ![t] = "relock"] /\ UNCHANGED holds
    BY <1>9 DEF WaitOver, TakeOrYield, Goto
  <2>5. timer' \in [Threads -> Timers]
    BY <1>1, <1>9 DEF WaitOver, TakeOrYield, Timers
  <2>6. QED
    BY <1>1, <2>1, <2>2, <2>3, <2>4, <2>5, JoinQueue DEF Locking
<1>10. ASSUME NEW t \in Threads, LockAgain(t) PROVE IInv'
  BY <1>10, LoopKeeps
<1>11. ASSUME NEW t \in Threads, YieldOver(t) PROVE IInv'
  BY <1>1, <1>11, Turns DEF YieldOver
<1>12. CASE UNCHANGED vars
  BY <1>12, StutterIsFine
<1>13. QED
  BY <1>2, <1>3, <1>4, <1>5, <1>6, <1>7, <1>8, <1>9, <1>10, <1>11, <1>12
     DEF Next, UserCode, Resume

LEMMA Invariance == Spec => []IInv
BY InitIsFine, NextKeeps, PTL DEF Spec

(***************************************************************************)
(* Every variable keeps its type; in particular no thread unlocks more     *)
(* often than it has locked, also when it shares the lock with others.     *)
(***************************************************************************)
THEOREM TypeCorrect == Spec => []TypeOK
<1>1. IInv => TypeOK
  BY DEF IInv
<1>2. QED
  BY Invariance, <1>1, PTL

(***************************************************************************)
(* Whose pthread_mutex_lock, trylock or condition wait has returned is at  *)
(* the front of the queue until it has unlocked as often, whatever the     *)
(* number of threads that lock, poll, wait, time out or are signalled      *)
(* meanwhile, until a holder locks again while others wait.                *)
(***************************************************************************)
THEOREM HolderSafe == Spec => []HolderInFront
<1>1. IInv => HolderInFront
  <2> SUFFICES ASSUME IInv, ~overtakes, NEW t \in Threads, holds[t] > 0
               PROVE  Front(mutex, t)
    BY DEF HolderInFront
  <2>1. mutex \in Seq(Threads) /\ holds[t] \in Nat
    BY HoldsAssumption DEF IInv, TypeOK
  <2>2. holds[t] <= Len(mutex) /\ mutex[1] = t
    BY <2>1 DEF IInv, HoldersFirst
  <2>3. QED
    BY <2>1, <2>2 DEF Front
<1>2. QED
  BY Invariance, <1>1, PTL

(***************************************************************************)
(* pthread_mutex_unlock and pthread_cond_wait wake the next owner, and no  *)
(* other step takes that wakeup back before the owner has run: a free      *)
(* mutex is never left with all who want it asleep.                        *)
(***************************************************************************)
THEOREM OwnerIsAwake == Spec => []OwnerAwake
<1>1. IInv => OwnerAwake
  BY DEF IInv
<1>2. QED
  BY Invariance, <1>1, PTL

(***************************************************************************)
(* A thread asleep in pthread_cond_wait is in the queue that signal,       *)
(* broadcast and destroy look at, also after others have left that queue   *)
(* or the condition variable has been destroyed and used again.            *)
(***************************************************************************)
THEOREM WaitersReachable == Spec => []WaiterReachable
<1>1. IInv => WaiterReachable
  BY DEF IInv
<1>2. QED
  BY Invariance, <1>1, PTL

-----------------------------------------------------------------------------
(***************************************************************************)
(* The refinement: the owner of the monitor is the thread whose lock has   *)
(* returned, its waiters are the threads inside a condition wait.          *)
(***************************************************************************)
Holds(h, t) == h[t] > 0

OwnerOf(h) ==
  IF \E t \in Threads : Holds(h, t)
  THEN CHOOSE t \in Threads : Holds(h, t)
  ELSE Nobody

DepthOf(h) == IF OwnerOf(h) = Nobody THEN 0 ELSE h[OwnerOf(h)]

LEMMA OwnerIs ==
  /\ Owner = OwnerOf(holds) /\ Owner' = OwnerOf(holds')
  /\ Depth = DepthOf(holds) /\ Depth' = DepthOf(holds')
BY DEF Owner, OwnerOf, Depth, DepthOf, Holds

\* When nobody but t has a lock.
LEMMA OwnerOfOne ==
  ASSUME NEW h \in [Threads -> Nat], NEW t \in Threads,
         \A u \in Threads \ {t} : h[u] = 0
  PROVE  /\ OwnerOf(h) = IF h[t] = 0 THEN Nobody ELSE t
         /\ DepthOf(h) = h[t]
<1>1. \A u \in Threads : Holds(h, u) <=> (u = t /\ h[t] # 0)
  <2>1. SUFFICES ASSUME NEW u \in Threads PROVE Holds(h, u) <=> (u = t /\ h[t] # 0)
    OBVIOUS
  <2>2. h[u] \in Nat
    OBVIOUS
  <2>3. QED
    BY <2>2 DEF Holds
<1>2. OwnerOf(h) = IF h[t] = 0 THEN Nobody ELSE t
  <2>1. CASE h[t] = 0
    BY <1>1, <2>1 DEF OwnerOf
  <2>2. CASE h[t] # 0
    BY <1>1, <2>2 DEF OwnerOf
  <2>3. QED
    BY <2>1, <2>2
<1>3. QED
  BY <1>2, ThreadsAssumption DEF DepthOf, ThreadsAssumption

\* Whoever is at the front is the only one that may have a lock.
FrontAlone ==
  \A t \in Threads : Front(mutex, t) => \A u \in Threads \ {t} : holds[u] = 0

LEMMA OnlyFront == IInv /\ ~overtakes => FrontAlone
<1> SUFFICES ASSUME IInv, ~overtakes, NEW t \in Threads, Front(mutex, t)
             PROVE  \A u \in Threads \ {t} : holds[u] = 0
  BY DEF FrontAlone
<1>1. mutex \in Seq(Threads) /\ holds \in [Threads -> 0 .. MaxHolds]
  BY DEF IInv, TypeOK
<1>2. mutex[1] = t
  BY <1>1 DEF Front
<1>3. SUFFICES ASSUME NEW u \in Threads \ {t}, holds[u] # 0 PROVE FALSE
  OBVIOUS
<1>4. holds[u] > 0 /\ 1 \in 1 .. holds[u]
  BY <1>1, <1>3
<1>5. mutex[1] = u
  BY <1>4 DEF IInv, HoldersFirst
<1>6. QED
  BY <1>2, <1>3, <1>5

\* Thread t gets a lock: its first, or one more.
LEMMA Acquires ==
  ASSUME IInv, IInv', ~overtakes', NEW t \in Threads,
         Front(mutex', t), holds' = [holds EXCEPT ![t] = @ + 1]
  PROVE  AbstractMonitor!Takes(t)
<1>1. holds \in [Threads -> Nat] /\ holds' \in [Threads -> Nat]
  BY HoldsAssumption DEF IInv, TypeOK
<1>2. \A u \in Threads \ {t} : holds'[u] = 0
  <2>1. (IInv /\ ~overtakes)' => FrontAlone'
    BY OnlyFront, PTL
  <2>2. QED
    BY <2>1 DEF FrontAlone
<1>3. (\A u \in Threads \ {t} : holds[u] = 0) /\ holds'[t] = holds[t] + 1
  BY <1>1, <1>2
<1>4. /\ Owner = (IF holds[t] = 0 THEN Nobody ELSE t) /\ Depth = holds[t]
      /\ Owner' = (IF holds'[t] = 0 THEN Nobody ELSE t) /\ Depth' = holds'[t]
  <2>1. OwnerOf(holds) = (IF holds[t] = 0 THEN Nobody ELSE t) /\ DepthOf(holds) = holds[t]
    BY <1>1, <1>3, OwnerOfOne
  <2>2. /\ OwnerOf(holds') = IF holds'[t] = 0 THEN Nobody ELSE t
        /\ DepthOf(holds') = holds'[t]
    BY <1>1, <1>2, OwnerOfOne
  <2>3. QED
    BY <2>1, <2>2, OwnerIs
<1>5. QED
  BY <1>1, <1>3, <1>4 DEF AbstractMonitor!Takes

\* Thread t gives up one of its locks.
LEMMA Gives ==
  ASSUME IInv, ~overtakes, NEW t \in Threads, pc[t] = "user",
         Front(mutex, t), holds' = [holds EXCEPT ![t] = @ - 1]
  PROVE  AbstractMonitor!Gives(t)
<1>1. holds \in [Threads -> Nat] /\ holds[t] \in Nat \ {0}
  <2>1. holds \in [Threads -> 0 .. MaxHolds] /\ MaxHolds \in Nat
    BY HoldsAssumption DEF IInv, TypeOK
  <2>2. holds[t] \in 1 .. MaxHolds
    BY FrontHolds DEF Locking
  <2>3. QED
    BY <2>1, <2>2
<1>2. \A u \in Threads \ {t} : holds[u] = 0
  BY OnlyFront DEF FrontAlone
<1>3. /\ holds' \in [Threads -> Nat] /\ holds'[t] = holds[t] - 1
      /\ \A u \in Threads \ {t} : holds'[u] = 0
  BY <1>1, <1>2
<1>4. /\ Owner = (IF holds[t] = 0 THEN Nobody ELSE t) /\ Depth = holds[t]
      /\ Owner' = (IF holds'[t] = 0 THEN Nobody ELSE t) /\ Depth' = holds'[t]
  <2>1. OwnerOf(holds) = (IF holds[t] = 0 THEN Nobody ELSE t) /\ DepthOf(holds) = holds[t]
    BY <1>1, <1>2, OwnerOfOne
  <2>2. /\ OwnerOf(holds') = IF holds'[t] = 0 THEN Nobody ELSE t
        /\ DepthOf(holds') = holds'[t]
    BY <1>3, OwnerOfOne
  <2>3. QED
    BY <2>1, <2>2, OwnerIs
<1>5. QED
  BY <1>1, <1>3, <1>4 DEF AbstractMonitor!Gives

\* The owner stays when nobody gets or gives up a lock.
LEMMA Keeps == ASSUME UNCHANGED holds PROVE UNCHANGED <<Owner, Depth>>
BY OwnerIs

(***************************************************************************)
(* A thread comes to the loop of the lock at queue mutex', from the        *)
(* program, the loop itself or a wait, and goes on or stays at label.      *)
(***************************************************************************)
LEMMA TakesOrYields ==
  ASSUME IInv, IInv', ~overtakes, ~overtakes', NEW t \in Threads,
         NEW label \in Locking, TakeOrYield(t, mutex', label),
         \/ pc[t] = "user" /\ label = "lock"
         \/ pc[t] = "wait" /\ label = "relock"
         \/ pc[t] = label
  PROVE  \/ AbstractMonitor!Next
         \/ UNCHANGED <<Owner, Depth, Waiting, overtakes>>
<1>1. pc \in [Threads -> Places5] /\ overtakes' = overtakes
  BY DEF IInv, TypeOK, Places5
<1>2. CASE Front(mutex', t)
  <2>1. holds' = [holds EXCEPT ![t] = @ + 1] /\ pc' = [pc EXCEPT ![t] = "user"]
    BY <1>2 DEF TakeOrYield, Goto
  <2>2. AbstractMonitor!Takes(t)
    BY <1>2, <2>1, Acquires
  <2>3. CASE t \in Waiting
    <3>1. Waiting' = Waiting \ {t}
      BY <1>1, <2>1 DEF Waiting
    <3>2. QED
      BY <1>1, <2>2, <2>3, <3>1 DEF AbstractMonitor!Next, AbstractMonitor!Return
  <2>4. CASE t \notin Waiting
    <3>1. UNCHANGED Waiting
      BY <1>1, <2>1, <2>4 DEF Waiting
    <3>2. QED
      BY <1>1, <2>2, <2>4, <3>1 DEF AbstractMonitor!Next, AbstractMonitor!Acquire
  <2>5. QED
    BY <2>3, <2>4
<1>3. CASE ~Front(mutex', t)
  <2>1. UNCHANGED holds /\ pc' = [pc EXCEPT ![t] = label]
    BY <1>3 DEF TakeOrYield, Goto
  <2>2. UNCHANGED Waiting
    BY <1>1, <2>1 DEF Waiting, Locking
  <2>3. QED
    BY <1>1, <2>1, <2>2, Keeps
<1>4. QED
  BY <1>2, <1>3

LEMMA StepSimulation ==
  IInv /\ IInv' /\ [Next]_vars => [AbstractMonitor!Next]_(AbstractMonitor!vars)
<1> SUFFICES ASSUME IInv, IInv', [Next]_vars
             PROVE  \/ AbstractMonitor!Next
                    \/ UNCHANGED <<Owner, Depth, Waiting, overtakes>>
  BY DEF AbstractMonitor!vars
<1> DEFINE Simulated == \/ AbstractMonitor!Next
                        \/ UNCHANGED <<Owner, Depth, Waiting, overtakes>>
<1>1. mutex \in Seq(Threads) /\ pc \in [Threads -> Places5] /\ overtakes \in BOOLEAN
  BY DEF IInv, TypeOK, Places5
<1>2. CASE overtakes'
  BY <1>2 DEF AbstractMonitor!Next, AbstractMonitor!Overtake
<1>3. CASE ~overtakes'
  <2>1. ~overtakes
    BY <1>3 DEF Next, UserCode, Resume, Lock, LockAgain, Trylock, Join, Unlock, CondWait,
                CondTimedwait, WaitOver, CondSignal, CondBroadcast, CondDestroy,
                TimerFires, YieldOver, vars
  <2>12. UNCHANGED overtakes
    BY <1>3, <2>1 DEF IInv, TypeOK
  <2>2. ASSUME NEW t \in Threads, Lock(t) PROVE Simulated
    BY <1>3, <2>1, <2>2, TakesOrYields DEF Lock, Locking
  <2>3. ASSUME NEW t \in Threads, LockAgain(t) PROVE Simulated
    BY <1>3, <2>1, <2>3, TakesOrYields DEF LockAgain, Locking
  <2>4. ASSUME NEW t \in Threads, WaitOver(t) PROVE Simulated
    BY <1>3, <2>1, <2>4, TakesOrYields DEF WaitOver, Locking
  <2>5. ASSUME NEW t \in Threads, Trylock(t) PROVE Simulated
    <3>1. pc[t] = "user"
      BY <2>5 DEF Trylock
    <3>2. CASE mutex = <<>> \/ Front(mutex, t)
      <4>1. /\ Join(t) /\ UNCHANGED pc
            /\ holds' = [holds EXCEPT ![t] = @ + 1]
        BY <2>5, <3>2 DEF Trylock
      <4>2. Front(mutex', t)
        BY <1>1, <3>2, <4>1, AppendQueue DEF Join
      <4>3. AbstractMonitor!Takes(t)
        BY <1>3, <4>1, <4>2, Acquires
      <4>4. UNCHANGED Waiting /\ t \notin Waiting
        BY <3>1, <4>1 DEF Waiting
      <4>5. QED
        BY <1>3, <2>1, <2>12, <4>3, <4>4 DEF AbstractMonitor!Next, AbstractMonitor!Acquire
    <3>3. CASE ~(mutex = <<>> \/ Front(mutex, t))
      <4>1. UNCHANGED <<holds, overtakes>> /\ pc' = [pc EXCEPT ![t] = "yield"]
        BY <2>5, <3>3 DEF Trylock, Goto
      <4>2. UNCHANGED Waiting
        BY <1>1, <3>1, <4>1 DEF Waiting
      <4>3. QED
        BY <4>1, <4>2, Keeps
    <3>4. QED
      BY <3>2, <3>3
  <2>6. ASSUME NEW t \in Threads, Unlock(t) PROVE Simulated
    <3>1. /\ pc[t] = "user" /\ Front(mutex, t) /\ UNCHANGED overtakes
          /\ holds' = [holds EXCEPT ![t] = @ - 1]
      BY <2>6 DEF Unlock
    <3>2. AbstractMonitor!Gives(t)
      BY <2>1, <3>1, Gives
    <3>3. UNCHANGED Waiting /\ t \notin Waiting
      BY <1>1, <2>6 DEF Unlock, Goto, Waiting
    <3>4. QED
      BY <3>1, <3>2, <3>3 DEF AbstractMonitor!Next, AbstractMonitor!Release
  <2>7. ASSUME NEW t \in Threads, CondWait(t) \/ CondTimedwait(t) PROVE Simulated
    <3>1. /\ pc[t] = "user" /\ Front(mutex, t) /\ pc' = [pc EXCEPT ![t] = "wait"]
          /\ holds' = [holds EXCEPT ![t] = @ - 1] /\ UNCHANGED overtakes
      BY <2>7 DEF CondWait, CondTimedwait, Goto
    <3>2. AbstractMonitor!Gives(t)
      BY <2>1, <3>1, Gives
    <3>3. Waiting' = Waiting \cup {t} /\ t \notin Waiting
      BY <1>1, <3>1 DEF Waiting
    <3>4. QED
      BY <3>1, <3>2, <3>3 DEF AbstractMonitor!Next, AbstractMonitor!Wait
  <2>8. ASSUME NEW t \in Threads,
               \/ CondSignal(t) \/ CondBroadcast(t) \/ CondDestroy(t)
               \/ TimerFires(t)
        PROVE  Simulated
    <3>1. UNCHANGED <<holds, pc, overtakes>>
      BY <2>8 DEF CondSignal, CondBroadcast, CondDestroy, TimerFires
    <3>2. QED
      BY <3>1, Keeps DEF Waiting
  <2>9. ASSUME NEW t \in Threads, YieldOver(t) PROVE Simulated
    <3>1. UNCHANGED <<holds, overtakes>> /\ pc[t] = "yield"
          /\ pc' = [pc EXCEPT ![t] = "user"]
      BY <2>9 DEF YieldOver, Goto
    <3>2. UNCHANGED Waiting
      BY <1>1, <3>1 DEF Waiting
    <3>3. QED
      BY <3>1, <3>2, Keeps
  <2>10. CASE UNCHANGED vars
    BY <2>10, Keeps DEF vars, Waiting
  <2>11. QED
    BY <2>2, <2>3, <2>4, <2>5, <2>6, <2>7, <2>8, <2>9, <2>10
       DEF Next, UserCode, Resume
<1>4. QED
  BY <1>2, <1>3

(***************************************************************************)
(* The mutex and the condition variable implement a monitor: mutual        *)
(* exclusion of lock, trylock and of what follows a condition wait, with   *)
(* as many unlocks as locks of the owner, and no thread comes out of a     *)
(* wait without the lock, until an owner overtakes those who wait.         *)
(***************************************************************************)
THEOREM IsMonitor == Spec => ImplementsMonitor
<1>1. Init => AbstractMonitor!Init
  <2> SUFFICES ASSUME Init
               PROVE  Owner = Nobody /\ Depth = 0 /\ Waiting = {} /\ overtakes = FALSE
    BY DEF AbstractMonitor!Init
  <2>1. \A t \in Threads : ~Holds(holds, t)
    <3>1. SUFFICES ASSUME NEW t \in Threads PROVE ~Holds(holds, t)
      OBVIOUS
    <3>2. holds[t] = 0
      BY DEF Init
    <3>3. QED
      BY <3>2 DEF Holds
  <2>2. OwnerOf(holds) = Nobody /\ DepthOf(holds) = 0
    BY <2>1 DEF OwnerOf, DepthOf
  <2>3. QED
    BY <2>2, OwnerIs DEF Init, Waiting
<1>2. QED
  BY <1>1, Invariance, StepSimulation, PTL
     DEF Spec, ImplementsMonitor, AbstractMonitor!Spec
=============================================================================
