-------------------------- MODULE GUSISocketProofs --------------------------
(***************************************************************************)
(* The descriptors, pipes and select, for any threads, contexts and        *)
(* sockets, tables of every length and buffers of every size.              *)
(***************************************************************************)
EXTENDS GUSIPipe, GUSISelect, GUSIRingProofs, FiniteSetTheorems,
        WellFoundedInduction, TLAPS

-----------------------------------------------------------------------------
(***************************************************************************)
(* The descriptor table counts its references right, for tables of every   *)
(* size and any set of sockets.                                            *)
(*                                                                         *)
(* dup2 and pipe change the table more than once, so that the invariant is *)
(* stated of a table rather than of a state: GoodTable(T).  A socket's     *)
(* count is a cardinality, and each change moves one slot in or out of it. *)
(***************************************************************************)

SlotsIn(T, s) == {fd \in Descriptors : T.fSocket[fd] = s}

CountedTable == [fSocket : [Descriptors -> Sockets \cup {NoSocket, Garbage}],
                 fInvalidDescriptor : 0 .. SIZE,
                 fRefCount : [Sockets -> Nat]]

\* What every change of the table keeps.  CountedTable does not bound the counts:
\* that they fit is a consequence of what they count.
GoodTable(T) ==
  /\ T \in CountedTable
  /\ \A fd \in Descriptors :
       T.fSocket[fd] = Garbage <=> fd >= T.fInvalidDescriptor
  /\ \A s \in Sockets : T.fRefCount[s] = Cardinality(SlotsIn(T, s))

-----------------------------------------------------------------------------
LEMMA LowestIsLeast ==
  ASSUME NEW S, S \subseteq Nat, S # {}
  PROVE  Lowest(S) \in S /\ \A fd \in S : Lowest(S) <= fd
<1>1. PICK fd \in S : \A other \in S : ~ (<<other, fd>> \in OpToRel(<, Nat))
  BY NatLessThanWellFounded, WFMin
<1>2. \A other \in S : fd <= other
  <2>1. SUFFICES ASSUME NEW other \in S, ~(fd <= other) PROVE FALSE
    OBVIOUS
  <2>2. <<other, fd>> \in OpToRel(<, Nat)
    BY <2>1 DEF OpToRel
  <2>3. QED
    BY <1>1, <2>2
<1>3. QED
  BY <1>2, Zenon DEF Lowest

LEMMA DescriptorsFinite ==
  /\ Descriptors \subseteq Nat
  /\ IsFiniteSet(Descriptors) /\ Cardinality(Descriptors) = SIZE
<1>1. /\ 0 \in Int /\ SIZE - 1 \in Int /\ SIZE \in Nat
  BY SizeAssumption
<1>2. /\ IsFiniteSet(0 .. SIZE - 1)
      /\ Cardinality(0 .. SIZE - 1) = IF 0 > SIZE - 1 THEN 0 ELSE SIZE - 1 - 0 + 1
  BY <1>1, FS_Interval
<1>3. QED
  BY <1>1, <1>2, SizeAssumption DEF Descriptors

LEMMA SlotsFinite ==
  ASSUME NEW T, NEW s
  PROVE  /\ IsFiniteSet(SlotsIn(T, s))
         /\ Cardinality(SlotsIn(T, s)) \in 0 .. SIZE
         /\ Cardinality(SlotsIn(T, s)) = 0 <=> SlotsIn(T, s) = {}
<1>1. SlotsIn(T, s) \subseteq Descriptors
  BY DEF SlotsIn
<1>2. /\ IsFiniteSet(SlotsIn(T, s))
      /\ Cardinality(SlotsIn(T, s)) <= Cardinality(Descriptors)
  BY <1>1, DescriptorsFinite, FS_Subset
<1>3. Cardinality(SlotsIn(T, s)) \in Nat
  BY <1>2, FS_CardinalityType
<1>4. Cardinality(SlotsIn(T, s)) = 0 <=> SlotsIn(T, s) = {}
  BY <1>2, FS_EmptySet
<1>5. QED
  BY <1>2, <1>3, <1>4, DescriptorsFinite, SizeAssumption

\* The counts fit in the table.
LEMMA GoodIsTyped ==
  ASSUME NEW T, GoodTable(T)
  PROVE  T \in Table
<1>1. \A s \in Sockets : T.fRefCount[s] \in 0 .. SIZE
  BY SlotsFinite DEF GoodTable
<1>2. /\ T.fRefCount \in [Sockets -> Nat]
      /\ T = [fSocket |-> T.fSocket, fInvalidDescriptor |-> T.fInvalidDescriptor,
              fRefCount |-> T.fRefCount]
      /\ T.fSocket \in [Descriptors -> Sockets \cup {NoSocket, Garbage}]
      /\ T.fInvalidDescriptor \in 0 .. SIZE
  BY DEF GoodTable, CountedTable
<1>3. T.fRefCount \in [Sockets -> 0 .. SIZE]
  BY <1>1, <1>2
<1>4. QED
  BY <1>2, <1>3 DEF Table

-----------------------------------------------------------------------------
(***************************************************************************)
(* InstallSocket and RemoveSocket.                                         *)
(***************************************************************************)
LEMMA LowestRoom ==
  ASSUME NEW T, GoodTable(T), NEW start \in Descriptors, Room(T, start) # {}
  PROVE  LET fd == Lowest(Room(T, start))
         IN  /\ fd \in Room(T, start) /\ fd \in Descriptors
             /\ start <= fd
             /\ T.fSocket[fd] \in {NoSocket, Garbage}
             /\ \A other \in Room(T, start) : fd <= other
<1> DEFINE fd == Lowest(Room(T, start))
<1>1. Room(T, start) \subseteq Descriptors /\ Room(T, start) \subseteq Nat
  BY SizeAssumption DEF Room, Descriptors
<1>2. fd \in Room(T, start) /\ \A other \in Room(T, start) : fd <= other
  BY <1>1, LowestIsLeast
<1> HIDE DEF fd
<1>3. fd \in Descriptors /\ start <= fd /\ Socket(T, fd) = NoSocket
  BY <1>1, <1>2 DEF Room
<1>4. T.fSocket[fd] \in {NoSocket, Garbage}
  BY <1>3, SizeAssumption DEF Socket, GoodTable, CountedTable, Descriptors
<1>5. QED
  BY <1>2, <1>3, <1>4 DEF fd

LEMMA InstalledGood ==
  ASSUME NEW T, GoodTable(T), NEW s \in Sockets, NEW start \in Descriptors,
         Room(T, start) # {}
  PROVE  /\ GoodTable(Installed(T, s, start))
         /\ Installed(T, s, start).fRefCount
              = [T.fRefCount EXCEPT ![s] = @ + 1]
<1> DEFINE fd == Lowest(Room(T, start))
           N == Installed(T, s, start)
<1>1. /\ fd \in Room(T, start) /\ fd \in Descriptors /\ start <= fd
      /\ T.fSocket[fd] \in {NoSocket, Garbage}
  BY LowestRoom
<1>2. /\ N.fSocket = [[other \in Descriptors |->
                         IF other \in T.fInvalidDescriptor .. fd - 1
                         THEN NoSocket ELSE T.fSocket[other]] EXCEPT ![fd] = s]
      /\ N.fInvalidDescriptor
           = IF fd < T.fInvalidDescriptor THEN T.fInvalidDescriptor ELSE fd + 1
      /\ N.fRefCount = [T.fRefCount EXCEPT ![s] = @ + 1]
      /\ N = [fSocket |-> N.fSocket, fInvalidDescriptor |-> N.fInvalidDescriptor,
              fRefCount |-> N.fRefCount]
  BY DEF Installed
<1> HIDE DEF fd, N
<1>3. /\ T.fSocket \in [Descriptors -> Sockets \cup {NoSocket, Garbage}]
      /\ T.fInvalidDescriptor \in 0 .. SIZE /\ T.fRefCount \in [Sockets -> Nat]
      /\ SIZE \in Nat /\ fd \in 0 .. SIZE - 1
      /\ \A other \in Descriptors :
           T.fSocket[other] = Garbage <=> other >= T.fInvalidDescriptor
  BY <1>1, SizeAssumption DEF GoodTable, CountedTable, Descriptors
<1>4. \A other \in Descriptors :
        /\ other = fd => N.fSocket[other] = s
        /\ other # fd /\ other \in T.fInvalidDescriptor .. fd - 1
             => N.fSocket[other] = NoSocket
        /\ other # fd /\ other \notin T.fInvalidDescriptor .. fd - 1
             => N.fSocket[other] = T.fSocket[other]
  BY <1>2, <1>3
<1>5. N \in CountedTable
  <2>1. N.fSocket \in [Descriptors -> Sockets \cup {NoSocket, Garbage}]
    <3>1. \A other \in Descriptors :
            N.fSocket[other] \in Sockets \cup {NoSocket, Garbage}
      BY <1>3, <1>4
    <3>2. QED
      BY <3>1, <1>2
  <2>2. N.fInvalidDescriptor \in 0 .. SIZE
    BY <1>2, <1>3
  <2>3. N.fRefCount \in [Sockets -> Nat]
    BY <1>2, <1>3
  <2>4. QED
    BY <1>2, <2>1, <2>2, <2>3 DEF CountedTable
<1>6. \A other \in Descriptors :
        N.fSocket[other] = Garbage <=> other >= N.fInvalidDescriptor
  <2>1. SUFFICES ASSUME NEW other \in Descriptors
                 PROVE  N.fSocket[other] = Garbage <=> other >= N.fInvalidDescriptor
    OBVIOUS
  <2>2. /\ other \in Nat /\ T.fInvalidDescriptor \in Nat /\ fd \in Nat
        /\ s # Garbage /\ NoSocket # Garbage
    BY <1>3, DescriptorsFinite, SocketsAssumption
  <2>3. CASE other = fd
    BY <2>2, <2>3, <1>2, <1>4
  <2>4. CASE other # fd /\ other \in T.fInvalidDescriptor .. fd - 1
    BY <2>2, <2>4, <1>2, <1>4
  <2>5. CASE other # fd /\ other \notin T.fInvalidDescriptor .. fd - 1
    BY <2>2, <2>5, <1>2, <1>3, <1>4
  <2>6. QED
    BY <2>3, <2>4, <2>5
<1>7. \A x \in Sockets : N.fRefCount[x] = Cardinality(SlotsIn(N, x))
  <2>1. SUFFICES ASSUME NEW x \in Sockets
                 PROVE  N.fRefCount[x] = Cardinality(SlotsIn(N, x))
    OBVIOUS
  <2>2. T.fRefCount[x] = Cardinality(SlotsIn(T, x)) /\ T.fRefCount[x] \in Nat
    BY <1>3 DEF GoodTable
  <2>3. /\ NoSocket # x /\ Garbage # x
        /\ \A other \in Descriptors : other >= T.fInvalidDescriptor
              => T.fSocket[other] # x
    BY <1>3, SocketsAssumption
  <2>4. \A other \in Descriptors : other # fd =>
          (N.fSocket[other] = x <=> T.fSocket[other] = x)
    <3>1. SUFFICES ASSUME NEW other \in Descriptors, other # fd
                   PROVE  N.fSocket[other] = x <=> T.fSocket[other] = x
      OBVIOUS
    <3>2. CASE other \in T.fInvalidDescriptor .. fd - 1
      <4>1. other >= T.fInvalidDescriptor
        BY <3>2
      <4>2. QED
        BY <3>1, <3>2, <4>1, <2>3, <1>4
    <3>3. CASE other \notin T.fInvalidDescriptor .. fd - 1
      BY <3>1, <3>3, <1>4
    <3>4. QED
      BY <3>2, <3>3
  <2>5. fd \notin SlotsIn(T, x)
    BY <1>1, <2>3 DEF SlotsIn
  <2>6. CASE x = s
    <3>1. SlotsIn(N, x) = SlotsIn(T, x) \cup {fd}
      BY <2>4, <2>6, <1>1, <1>4 DEF SlotsIn
    <3>2. Cardinality(SlotsIn(T, x) \cup {fd}) = Cardinality(SlotsIn(T, x)) + 1
      BY <2>5, SlotsFinite, FS_AddElement
    <3>3. N.fRefCount[x] = T.fRefCount[x] + 1
      BY <2>6, <1>2, <1>3
    <3>4. QED
      BY <3>1, <3>2, <3>3, <2>2
  <2>7. CASE x # s
    <3>1. SlotsIn(N, x) = SlotsIn(T, x)
      BY <2>4, <2>5, <2>7, <1>1, <1>4 DEF SlotsIn
    <3>2. N.fRefCount[x] = T.fRefCount[x]
      BY <2>7, <1>2, <1>3
    <3>3. QED
      BY <3>1, <3>2, <2>2
  <2>8. QED
    BY <2>6, <2>7
<1>8. QED
  BY <1>2, <1>5, <1>6, <1>7 DEF GoodTable, N

LEMMA RemovedGood ==
  ASSUME NEW T, GoodTable(T), NEW fd \in Descriptors, IsOpen(T, fd)
  PROVE  /\ GoodTable(Removed(T, fd))
         /\ T.fSocket[fd] = Socket(T, fd) /\ T.fRefCount[Socket(T, fd)] > 0
         /\ Removed(T, fd).fRefCount
              = [T.fRefCount EXCEPT ![Socket(T, fd)] = @ - 1]
         /\ Socket(Removed(T, fd), fd) = NoSocket
<1> DEFINE s == T.fSocket[fd]
           N == Removed(T, fd)
<1>1. /\ T.fSocket \in [Descriptors -> Sockets \cup {NoSocket, Garbage}]
      /\ T.fInvalidDescriptor \in 0 .. SIZE /\ T.fRefCount \in [Sockets -> Nat]
      /\ SIZE \in Nat /\ fd \in 0 .. SIZE - 1
      /\ T \in [fSocket : [Descriptors -> Sockets \cup {NoSocket, Garbage}],
                fInvalidDescriptor : 0 .. SIZE, fRefCount : [Sockets -> Nat]]
      /\ NoSocket # Garbage /\ NoSocket \notin Sockets /\ Garbage \notin Sockets
  BY SizeAssumption, SocketsAssumption DEF GoodTable, CountedTable, Descriptors
<1>2. /\ fd < T.fInvalidDescriptor /\ s \in Sockets /\ Socket(T, fd) = s
  BY <1>1 DEF IsOpen, Socket
<1>3. /\ fd \in SlotsIn(T, s) /\ T.fRefCount[s] = Cardinality(SlotsIn(T, s))
      /\ T.fRefCount[s] \in Nat
  BY <1>1, <1>2 DEF SlotsIn, GoodTable
<1>4. T.fRefCount[s] > 0
  BY <1>3, SlotsFinite
<1>5. /\ N.fSocket = [T.fSocket EXCEPT ![fd] = NoSocket]
      /\ N.fInvalidDescriptor = T.fInvalidDescriptor
      /\ N.fRefCount = [T.fRefCount EXCEPT ![s] = @ - 1]
      /\ N \in CountedTable
  <2>1. N = [T EXCEPT !.fSocket = [T.fSocket EXCEPT ![fd] = NoSocket],
                      !.fRefCount = [T.fRefCount EXCEPT ![s] = T.fRefCount[s] - 1]]
    BY <1>1 DEF Removed
  <2>2. /\ [T.fSocket EXCEPT ![fd] = NoSocket]
              \in [Descriptors -> Sockets \cup {NoSocket, Garbage}]
        /\ [T.fRefCount EXCEPT ![s] = @ - 1] \in [Sockets -> Nat]
    <3>1. /\ s \in Sockets /\ T.fRefCount[s] - 1 \in Nat
          /\ NoSocket \in Sockets \cup {NoSocket, Garbage}
      BY <1>2, <1>3, <1>4
    <3> HIDE DEF s
    <3>2. QED
      BY <1>1, <3>1
  <2> HIDE DEF N, s
  <2>3. QED
    BY <1>1, <2>1, <2>2 DEF CountedTable
<1> HIDE DEF N, s
<1>6. \A other \in Descriptors :
        N.fSocket[other] = Garbage <=> other >= N.fInvalidDescriptor
  <2>1. \A other \in Descriptors :
          T.fSocket[other] = Garbage <=> other >= T.fInvalidDescriptor
    BY DEF GoodTable
  <2>2. fd \in Nat /\ ~(fd >= T.fInvalidDescriptor)
    BY <1>1, <1>2
  <2>3. QED
    BY <1>1, <1>5, <2>1, <2>2
<1>7. \A x \in Sockets : N.fRefCount[x] = Cardinality(SlotsIn(N, x))
  <2>1. SUFFICES ASSUME NEW x \in Sockets
                 PROVE  N.fRefCount[x] = Cardinality(SlotsIn(N, x))
    OBVIOUS
  <2>2. SlotsIn(N, x) = SlotsIn(T, x) \ {fd}
    BY <1>1, <1>5 DEF SlotsIn
  <2>3. /\ T.fRefCount[x] = Cardinality(SlotsIn(T, x))
        /\ fd \in SlotsIn(T, x) <=> x = s
    BY <1>1 DEF GoodTable, SlotsIn, s
  <2>4. Cardinality(SlotsIn(T, x) \ {fd})
          = IF x = s THEN Cardinality(SlotsIn(T, x)) - 1
                     ELSE Cardinality(SlotsIn(T, x))
    BY <2>3, SlotsFinite, FS_RemoveElement
  <2>5. N.fRefCount[x] = IF x = s THEN T.fRefCount[x] - 1 ELSE T.fRefCount[x]
    BY <1>1, <1>5
  <2>6. QED
    BY <2>2, <2>3, <2>4, <2>5
<1>8. Socket(N, fd) = NoSocket
  BY <1>1, <1>5 DEF Socket
<1>9. QED
  BY <1>2, <1>4, <1>5, <1>6, <1>7, <1>8 DEF GoodTable, N, s

\* With more than one free slot, a second socket finds room as well.
LEMMA RoomForSecond ==
  ASSUME NEW T, GoodTable(T), NEW s \in Sockets, Cardinality(Room(T, 0)) > 1
  PROVE  /\ 0 \in Descriptors /\ Room(T, 0) # {}
         /\ Room(Installed(T, s, 0), 0) # {}
<1> DEFINE fd == Lowest(Room(T, 0))
           N == Installed(T, s, 0)
<1>1. 0 \in Descriptors /\ Room(T, 0) \subseteq Descriptors
  BY SizeAssumption DEF Descriptors, Room
<1>2. IsFiniteSet(Room(T, 0)) /\ Room(T, 0) # {}
  BY <1>1, DescriptorsFinite, FS_Subset, FS_EmptySet
<1>3. /\ fd \in Room(T, 0) /\ fd \in Descriptors
      /\ \A other \in Room(T, 0) : fd <= other
  BY <1>1, <1>2, LowestRoom
<1>4. PICK other \in Room(T, 0) : other # fd
  <2>1. SUFFICES ASSUME \A other \in Room(T, 0) : other = fd PROVE FALSE
    OBVIOUS
  <2>2. Room(T, 0) = {fd}
    BY <1>3, <2>1
  <2>3. Cardinality(Room(T, 0)) = 1
    BY <2>2, FS_Singleton
  <2>4. QED
    BY <2>3
<1>5. /\ N.fSocket = [[x \in Descriptors |->
                         IF x \in T.fInvalidDescriptor .. fd - 1
                         THEN NoSocket ELSE T.fSocket[x]] EXCEPT ![fd] = s]
      /\ N.fInvalidDescriptor
           = IF fd < T.fInvalidDescriptor THEN T.fInvalidDescriptor ELSE fd + 1
  BY DEF Installed
<1> HIDE DEF fd, N
<1>6. /\ fd \in Nat /\ other \in Nat /\ fd < other /\ other \in Descriptors
      /\ T.fInvalidDescriptor \in Nat
      /\ Socket(T, other) = NoSocket /\ other \in 0 .. SIZE - 1
  BY <1>1, <1>3, <1>4, DescriptorsFinite, SizeAssumption
    DEF Room, GoodTable, CountedTable
<1>7. Socket(N, other) = NoSocket
  <2>1. CASE other < N.fInvalidDescriptor
    <3>1. other < T.fInvalidDescriptor /\ T.fSocket[other] = NoSocket
      BY <2>1, <1>5, <1>6 DEF Socket
    <3>2. N.fSocket[other] = T.fSocket[other]
      BY <1>3, <1>5, <1>6, <3>1
    <3>3. QED
      BY <3>1, <3>2, <2>1 DEF Socket
  <2>2. CASE ~(other < N.fInvalidDescriptor)
    BY <2>2 DEF Socket
  <2>3. QED
    BY <2>1, <2>2
<1>8. other \in Room(N, 0)
  BY <1>6, <1>7 DEF Room
<1>9. QED
  BY <1>1, <1>2, <1>8 DEF N

\* dup2 finds its descriptor empty, one way or the other.
LEMMA Emptied ==
  ASSUME NEW T, GoodTable(T), NEW to \in Descriptors
  PROVE  LET E == IF IsOpen(T, to) THEN Removed(T, to) ELSE T
         IN  GoodTable(E) /\ Room(E, to) # {}
<1> DEFINE E == IF IsOpen(T, to) THEN Removed(T, to) ELSE T
<1>1. GoodTable(E) /\ Socket(E, to) = NoSocket
  <2>1. CASE IsOpen(T, to)
    BY <2>1, RemovedGood
  <2>2. CASE ~IsOpen(T, to)
    <3>1. /\ Socket(T, to) \notin Sockets
          /\ T.fSocket[to] \in Sockets \cup {NoSocket, Garbage}
          /\ T.fSocket[to] = Garbage => ~(to < T.fInvalidDescriptor)
      BY <2>2, DescriptorsFinite DEF IsOpen, GoodTable, CountedTable
    <3>2. Socket(T, to) = NoSocket
      BY <3>1 DEF Socket
    <3>3. QED
      BY <2>2, <3>2
  <2>3. QED
    BY <2>1, <2>2
<1> HIDE DEF E
<1>2. to \in to .. SIZE - 1
  BY SizeAssumption DEF Descriptors
<1>3. Room(E, to) # {}
  BY <1>1, <1>2 DEF Room
<1>4. QED
  BY <1>1, <1>3 DEF E

-----------------------------------------------------------------------------
(***************************************************************************)
(* The calls.                                                              *)
(***************************************************************************)
TableInv == GoodTable(table) /\ corrupt \in BOOLEAN

LEMMA TableInitInv == TableInit => TableInv
<1> SUFFICES ASSUME TableInit PROVE TableInv
  OBVIOUS
<1>1. /\ table = [fSocket |-> [fd \in Descriptors |->
                                 IF fd < Consoles THEN Console ELSE Garbage],
                  fInvalidDescriptor |-> Consoles,
                  fRefCount |-> [s \in Sockets |->
                                   IF s = Console THEN Consoles ELSE 0]]
      /\ corrupt = FALSE
  BY DEF TableInit
<1>2. /\ Console \in Sockets /\ Garbage \notin Sockets /\ NoSocket \notin Sockets
      /\ Consoles \in 0 .. SIZE /\ Consoles \in Nat \ {0} /\ Descriptors \subseteq Nat
  BY SocketsAssumption, SizeAssumption, DescriptorsFinite DEF Descriptors
<1>3. table \in CountedTable
  BY <1>1, <1>2 DEF CountedTable
<1>4. \A fd \in Descriptors :
        table.fSocket[fd] = Garbage <=> fd >= table.fInvalidDescriptor
  BY <1>1, <1>2
<1>5. \A s \in Sockets : table.fRefCount[s] = Cardinality(SlotsIn(table, s))
  <2>1. SlotsIn(table, Console) = 0 .. Consoles - 1
    <3>1. SlotsIn(table, Console) = {fd \in 0 .. SIZE - 1 : fd < Consoles}
      BY <1>1, <1>2 DEF SlotsIn, Descriptors
    <3>2. QED
      BY <1>2, <3>1, SizeAssumption
  <2>2. \A s \in Sockets : s # Console => SlotsIn(table, s) = {}
    BY <1>1, <1>2 DEF SlotsIn
  <2>3. Cardinality(0 .. Consoles - 1) = Consoles /\ Cardinality({}) = 0
    <3>1. 0 \in Int /\ Consoles - 1 \in Int
      BY <1>2
    <3>2. Cardinality(0 .. Consoles - 1)
            = IF 0 > Consoles - 1 THEN 0 ELSE Consoles - 1 - 0 + 1
      BY <3>1, FS_Interval
    <3>3. QED
      BY <1>2, <3>2, FS_EmptySet
  <2>4. QED
    BY <1>1, <2>1, <2>2, <2>3
<1>6. QED
  BY <1>1, <1>3, <1>4, <1>5 DEF TableInv, GoodTable

LEMMA TableNextInv == TableInv /\ [TableNext]_tableVars => TableInv'
<1> SUFFICES ASSUME TableInv, [TableNext]_tableVars PROVE TableInv'
  OBVIOUS
<1>1. GoodTable(table) /\ corrupt \in BOOLEAN
  BY DEF TableInv
<1>2. SUFFICES GoodTable(table') /\ corrupt' \in BOOLEAN
  BY DEF TableInv, GoodTable, SlotsIn
<1>3. ASSUME NEW first \in Sockets \ {Console}, NEW second \in Sockets \ {Console},
             OpenPair(first, second)
      PROVE  GoodTable(table') /\ corrupt' \in BOOLEAN
  <2>1. CASE /\ Cardinality(Room(table, 0)) > 1
             /\ table' = Installed(Installed(table, first, 0), second, 0)
             /\ UNCHANGED corrupt
    <3>1. 0 \in Descriptors /\ Room(table, 0) # {}
      BY <1>1, <2>1, RoomForSecond
    <3>2. GoodTable(Installed(table, first, 0))
      BY <1>1, <3>1, InstalledGood
    <3>3. Room(Installed(table, first, 0), 0) # {}
      BY <1>1, <2>1, RoomForSecond
    <3>4. QED
      BY <1>1, <2>1, <3>1, <3>2, <3>3, InstalledGood
  <2>2. CASE Corrupted
    BY <1>1, <2>2 DEF Corrupted
  <2>3. CASE UNCHANGED tableVars
    BY <1>1, <2>3 DEF tableVars
  <2>4. QED
    BY <1>3, <2>1, <2>2, <2>3 DEF OpenPair
<1>4. ASSUME NEW fd \in Descriptors, Close(fd)
      PROVE  GoodTable(table') /\ corrupt' \in BOOLEAN
  BY <1>1, <1>4, RemovedGood DEF Close
<1>5. ASSUME NEW fd \in Descriptors, NEW start \in Descriptors, Dup(fd, start)
      PROVE  GoodTable(table') /\ corrupt' \in BOOLEAN
  <2>1. Socket(table, fd) \in Sockets
    BY <1>5 DEF Dup, IsOpen
  <2>2. QED
    BY <1>1, <1>5, <2>1, InstalledGood DEF Dup
<1>6. ASSUME NEW fd \in Descriptors, NEW to \in Descriptors, Dup2(fd, to)
      PROVE  GoodTable(table') /\ corrupt' \in BOOLEAN
  <2> DEFINE s == Socket(table, fd)
             emptied == IF IsOpen(table, to) THEN Removed(table, to) ELSE table
  <2>1. s \in Sockets
    BY <1>6 DEF Dup2, IsOpen
  <2>2. GoodTable(emptied) /\ Room(emptied, to) # {}
    BY <1>1, Emptied
  <2>3. \/ Corrupted
        \/ table' = Installed(emptied, s, to) /\ UNCHANGED corrupt
    BY <1>6 DEF Dup2
  <2> HIDE DEF s, emptied
  <2>5. GoodTable(Installed(emptied, s, to))
    BY <2>1, <2>2, InstalledGood
  <2>6. QED
    BY <1>1, <2>3, <2>5 DEF Corrupted
<1>7. CASE UseDeleted
  BY <1>1, <1>7 DEF UseDeleted, Corrupted
<1>8. CASE UNCHANGED tableVars
  BY <1>1, <1>8 DEF tableVars
<1>9. QED
  BY <1>3, <1>4, <1>5, <1>6, <1>7, <1>8 DEF TableNext

LEMMA TableInvariant == TableSpec => []TableInv
<1>1. QED
  BY TableInitInv, TableNextInv, PTL DEF TableSpec

\* What the table promises follows from TableInv.
LEMMA GoodPromises ==
  ASSUME TableInv
  PROVE  TableTypeOK /\ RefsAgree
BY GoodIsTyped DEF TableInv, TableTypeOK, RefsAgree, Slots, GoodTable, SlotsIn

\* The table, its unwritten slots included, keeps its type (GUSIDescriptor.cpp:34).
THEOREM TableTyped == TableSpec => []TableTypeOK
<1>1. TableInv => TableTypeOK
  BY GoodPromises
<1>2. QED
  BY <1>1, TableInvariant, PTL

\* After any calls of pipe, socketpair, close, dup, dup2 and fcntl a socket has as
\* many references as descriptors (RemoveReference, GUSISocket.h:139).
THEOREM ReferencesCounted == TableSpec => []RefsAgree
<1>1. TableInv => RefsAgree
  BY GoodPromises
<1>2. QED
  BY <1>1, TableInvariant, PTL
-----------------------------------------------------------------------------

-----------------------------------------------------------------------------
(***************************************************************************)
(* Produce and Consume, as the loops they are.                             *)
(***************************************************************************)
\* Obtaining a block never finds more room than the counter says.
LEMMA GrantingFree ==
  ASSUME NEW r \in Ring, RingShape(r), NEW n \in Nat
  PROVE  /\ Granting(r, n).free <= r.free
         /\ r.size = 0 => r.free = 0
<1>0. /\ r.size \in Nat /\ r.consume \in Nat /\ r.produce \in Nat
      /\ r.free \in Nat /\ r.valid \in Nat /\ r.spare \in Nat
  BY RingFields
<1> DEFINE w == Rewind(r)
<1>1. w \in Ring /\ RingShape(w) /\ w.free = r.free
  <2>1. w \in Ring /\ RingShape(w)
    BY RewindShape
  <2>2. CASE r.valid = 0
    <3>1. r.free = r.size
      BY <1>0, <2>2 DEF RingShape, Shape, Plain, Skipping
    <3>2. w = [r EXCEPT !.produce = 0, !.consume = 0, !.spare = 0, !.free = r.size]
      BY <2>2 DEF Rewind
    <3>3. w.free = r.size
      BY <3>2 DEF Ring
    <3>4. QED
      BY <2>1, <3>1, <3>3
  <2>3. CASE r.valid # 0
    BY <2>1, <2>3 DEF Rewind
  <2>4. QED
    BY <2>2, <2>3
<1> HIDE DEF w
<1>2. /\ w.size \in Nat /\ w.produce \in Nat /\ w.free \in Nat
      /\ w.produce <= w.size
  BY <1>1, RingFields DEF RingShape, Shape
<1>3. SkipEnd(w, n).free <= w.free
  <2>1. CASE SkipsEnd(w, n)
    <3>1. SkipEnd(w, n).free = w.free - (w.size - w.produce)
      BY <1>1, <2>1 DEF SkipEnd, Ring
    <3>2. QED
      BY <1>2, <3>1
  <2>2. CASE ~SkipsEnd(w, n)
    BY <1>2, <2>2 DEF SkipEnd
  <2>3. QED
    BY <2>1, <2>2
<1>4. Granting(r, n) = [SkipEnd(w, n) EXCEPT !.inUse = TRUE]
  BY DEF Granting, w
<1>4a. /\ SkipEnd(w, n) \in Ring
       /\ w.valid = 0 => w.produce = 0
  <2>1. w.valid = 0 => w.produce = 0
    BY RewindShape DEF w
  <2>2. QED
    BY <1>1, <2>1, SkipEndShape
<1>5. Granting(r, n).free = SkipEnd(w, n).free
  BY <1>4, <1>4a DEF Ring
<1>6. r.size = 0 => r.free = 0
  BY <1>0 DEF RingShape, Shape
<1>7. QED
  BY <1>1, <1>3, <1>5, <1>6

\* One turn of the loop of Produce: done, or full, or at the start of the memory.
LEMMA ProduceTurnShape ==
  ASSUME NEW r \in Ring, RingShape(r), NEW n \in Nat, r.free > 0
  PROVE  LET t == ProduceTurn(r, n)
         IN  /\ t.ring \in Ring /\ RingShape(t.ring) /\ t.ring.size = r.size
             /\ t.rest \in 0 .. n
             /\ t.ring.free + (n - t.rest) <= r.free
             /\ \/ t.rest = 0 \/ t.ring.free = 0
                \/ t.ring.produce = 0 /\ t.ring.valid > 0
<1> DEFINE g == Granting(r, n)
           part == GrantLength(r, n)
           v == Validated(g, part)
<1>1. /\ g \in Ring /\ RingShape(g) /\ g.size = r.size /\ part \in 0 .. n
      /\ part <= g.free /\ g.produce + part <= g.size
  BY GrantingShape
<1>2. part = Smaller(n, Smaller(g.size - g.produce, g.free))
  BY DEF GrantLength
<1>3. g.free <= r.free /\ g.size > 0
  BY <1>1, GrantingFree, RingFields
<1>4. ProduceTurn(r, n).ring = v /\ ProduceTurn(r, n).rest = n - part
  BY DEF ProduceTurn
<1> HIDE DEF g, part
<1>5. /\ g.size \in Nat /\ g.produce \in Nat /\ g.free \in Nat /\ g.valid \in Nat
      /\ r.free \in Nat /\ part \in Nat /\ g.produce < g.size
  BY <1>1, <1>3, RingFields DEF RingShape, Shape
<1>6. v \in Ring /\ RingShape(v) /\ v.size = r.size /\ v.valid = g.valid + part
  BY <1>1, <1>5, ValidatedShape
<1>7. /\ v.free = g.free - part
      /\ v.produce = IF g.produce + part = g.size THEN 0 ELSE g.produce + part
  BY <1>1 DEF Validated, Ring
<1> HIDE DEF v
<1>8. CASE part = n
  BY <1>1, <1>3, <1>4, <1>5, <1>6, <1>7, <1>8
<1>9. CASE part = g.free
  BY <1>1, <1>3, <1>4, <1>5, <1>6, <1>7, <1>9
<1>10. CASE part = g.size - g.produce
  <2>1. v.produce = 0 /\ v.valid > 0
    BY <1>5, <1>6, <1>7, <1>10
  <2>2. QED
    BY <1>1, <1>3, <1>4, <1>5, <1>6, <1>7, <2>1
<1>11. QED
  BY <1>2, <1>5, <1>8, <1>9, <1>10 DEF Smaller

\* The turn that begins at the start of the memory is the last.
LEMMA SecondTurn ==
  ASSUME NEW r \in Ring, RingShape(r), NEW n \in Nat,
         r.free > 0, r.produce = 0, r.valid > 0
  PROVE  LET t == ProduceTurn(r, n) IN t.rest = 0 \/ t.ring.free = 0
<1>0. /\ r.size \in Nat /\ r.free \in Nat /\ r.valid \in Nat /\ r.spare \in Nat
      /\ r.free + r.valid + r.spare = r.size
  BY RingFields DEF RingShape, Shape
<1>1. Rewind(r) = r /\ ~SkipsEnd(r, n)
  BY <1>0 DEF Rewind, SkipsEnd
<1>2. Granting(r, n) = [r EXCEPT !.inUse = TRUE]
  BY <1>1 DEF Granting, SkipEnd
<1>3. /\ Granting(r, n) \in Ring /\ Granting(r, n).free = r.free
      /\ Granting(r, n).size = r.size /\ Granting(r, n).produce = 0
  BY <1>2 DEF Ring
<1>4. GrantLength(r, n) = Smaller(n, r.free)
  BY <1>0, <1>3 DEF GrantLength, Smaller
<1>5. Validated(Granting(r, n), GrantLength(r, n)).free = r.free - GrantLength(r, n)
  BY <1>3 DEF Validated, Ring
<1>6. QED
  BY <1>0, <1>4, <1>5 DEF ProduceTurn, Smaller

\* Produce stores everything or leaves no room; what does not fit stays.
LEMMA ProducedShape ==
  ASSUME NEW r \in Ring, RingShape(r), NEW n \in Nat
  PROVE  LET w == Produced(r, n)
         IN  /\ w.ring \in Ring /\ RingShape(w.ring) /\ w.ring.size = r.size
             /\ w.rest \in 0 .. n
             /\ r.free = 0 => w.ring.free = 0
             /\ w.rest = 0 \/ w.ring.free = 0
             /\ r.free < n => w.rest > 0
<1> DEFINE first == ProduceTurn(r, n)
           second == ProduceTurn(first.ring, first.rest)
           w == Produced(r, n)
<1>0. r.free \in Nat
  BY RingFields
<1>1. CASE r.free = 0
  <2>1. w = [ring |-> r, rest |-> n]
    BY <1>1 DEF Produced
  <2>2. QED
    BY <1>0, <1>1, <2>1
<1>2. CASE r.free > 0
  <2>1. /\ first.ring \in Ring /\ RingShape(first.ring)
        /\ first.ring.size = r.size /\ first.rest \in 0 .. n
        /\ first.ring.free + (n - first.rest) <= r.free
        /\ \/ first.rest = 0 \/ first.ring.free = 0
           \/ first.ring.produce = 0 /\ first.ring.valid > 0
    BY <1>2, ProduceTurnShape
  <2>2. w = IF first.rest = 0 \/ first.ring.free = 0 THEN first ELSE second
    BY <1>0, <1>2 DEF Produced
  <2> HIDE DEF first, w
  <2>3. first.ring.free \in Nat
    BY <2>1, RingFields
  <2>4. CASE first.rest = 0 \/ first.ring.free = 0
    BY <1>0, <1>2, <2>1, <2>2, <2>3, <2>4 DEF w
  <2>5. CASE ~(first.rest = 0 \/ first.ring.free = 0)
    <3>1. /\ second.ring \in Ring /\ RingShape(second.ring)
          /\ second.ring.size = first.ring.size /\ second.rest \in 0 .. first.rest
          /\ second.ring.free + (first.rest - second.rest) <= first.ring.free
      BY <2>1, <2>3, <2>5, ProduceTurnShape
    <3>2. second.rest = 0 \/ second.ring.free = 0
      BY <2>1, <2>3, <2>5, SecondTurn
    <3> HIDE DEF second
    <3>3. second.ring.free \in Nat
      BY <3>1, RingFields
    <3>4. QED
      BY <1>0, <1>2, <2>1, <2>2, <2>3, <2>5, <3>1, <3>2, <3>3 DEF w
  <2>6. QED
    BY <2>4, <2>5 DEF w
<1>3. QED
  BY <1>0, <1>1, <1>2

\* Consume takes bytes away and adds none.
LEMMA ConsumedShape ==
  ASSUME NEW r \in Ring, RingShape(r), NEW n \in Nat
  PROVE  /\ Consumed(r, n) \in Ring /\ RingShape(Consumed(r, n))
         /\ Consumed(r, n).size = r.size
         /\ r.valid = 0 => Consumed(r, n).valid = 0
<1> DEFINE first == ConsumeTurn(r, n)
           second == ConsumeTurn(first.ring, first.rest)
<1>1. /\ first.ring \in Ring /\ RingShape(first.ring)
      /\ first.ring.size = r.size /\ first.rest \in Nat
  BY LoanLengthBounds, FreedShape DEF ConsumeTurn
<1> HIDE DEF first
<1>2. /\ second.ring \in Ring /\ RingShape(second.ring)
      /\ second.ring.size = r.size
  BY <1>1, LoanLengthBounds, FreedShape DEF ConsumeTurn
<1> HIDE DEF second
<1>3. /\ r.valid = 0 => Consumed(r, n) = r
      /\ Consumed(r, n) \in {r, first.ring, second.ring}
  BY DEF Consumed, first, second
<1>4. QED
  BY <1>1, <1>2, <1>3

-----------------------------------------------------------------------------
(***************************************************************************)
(* The inductive invariant.  A sleeper waits for its peer, and the peer    *)
(* wakes whoever sleeps in the socket it knows: that these are the same    *)
(* threads is what PeersMutual says, so the two are proved together.       *)
(***************************************************************************)
PipeRecord ==
  [fBuffer : Ring, fWriteShutdown : BOOLEAN, fPeer : PipeSockets \cup {NoSocket}]

Sleeping ==
  [op : {"read", "write"}, sock : PipeSockets, left : Nat \ {0}, woken : BOOLEAN]

\* The buffer of a pipe has memory, for it is never switched.
PipeRing(r) == RingShape(r) /\ r.size > 0

PipesGood ==
  /\ pipe \in [PipeSockets -> PipeRecord]
  /\ \A s \in PipeSockets : PipeRing(pipe[s].fBuffer)

CallsGood ==
  /\ call \in [Threads -> Sleeping \cup {Idle}]
  /\ \A t \in Threads :
       call[t].op # "none" => table.fRefCount[call[t].sock] > 0

\* Call c, over the sockets P, has something to wait for.
Waiting(P, c) ==
  /\ P[c.sock].fPeer # NoSocket
  /\ c.op = "read" => P[c.sock].fBuffer.valid = 0
  /\ c.op = "write" => P[P[c.sock].fPeer].fBuffer.free = 0

Patient ==
  \A t \in Threads :
    call[t].op # "none" /\ ~call[t].woken => Waiting(pipe, call[t])

PipeInv == PipesGood /\ PeersMutual /\ CallsGood /\ Patient

IInv == TableInv /\ PipeInv

-----------------------------------------------------------------------------
LEMMA PipeNames ==
  /\ PipeSockets \subseteq Sockets /\ NoSocket \notin PipeSockets
  /\ Idle.op = "none" /\ Idle.sock = NoSocket /\ Idle \notin Sleeping
BY SocketsAssumption DEF PipeSockets, Idle, Sleeping

LEMMA PipeFields ==
  ASSUME PipesGood, NEW s \in PipeSockets
  PROVE  /\ pipe[s] \in PipeRecord
         /\ pipe[s].fBuffer \in Ring /\ PipeRing(pipe[s].fBuffer)
         /\ pipe[s].fBuffer.valid \in Nat /\ pipe[s].fBuffer.free \in Nat
         /\ pipe[s].fPeer \in PipeSockets \cup {NoSocket}
         /\ pipe[s].fWriteShutdown \in BOOLEAN
<1>1. pipe[s] \in PipeRecord /\ PipeRing(pipe[s].fBuffer)
  BY DEF PipesGood
<1>2. QED
  BY <1>1, RingFields DEF PipeRecord

LEMMA CallFields ==
  ASSUME CallsGood, NEW t \in Threads
  PROVE  /\ call[t] \in Sleeping \cup {Idle}
         /\ call[t].op # "none" =>
              /\ call[t] \in Sleeping /\ call[t].op \in {"read", "write"}
              /\ call[t].sock \in PipeSockets /\ call[t].left \in Nat \ {0}
              /\ table.fRefCount[call[t].sock] > 0
         /\ call[t].op = "none" => call[t] = Idle
BY PipeNames DEF CallsGood, Sleeping

\* Wakeup changes nothing about a call but its fWakeup.
LEMMA WokenCalls ==
  ASSUME NEW C \in [Threads -> Sleeping \cup {Idle}], NEW S
  PROVE  /\ Woken(C, S) \in [Threads -> Sleeping \cup {Idle}]
         /\ \A u \in Threads :
              /\ Woken(C, S)[u].op = C[u].op
              /\ Woken(C, S)[u].sock = C[u].sock
              /\ C[u].op # "none" /\ ~Woken(C, S)[u].woken =>
                   /\ C[u].sock \notin S
                   /\ Woken(C, S)[u] = C[u]
<1>1. \A u \in Threads :
        Woken(C, S)[u] = IF C[u].op # "none" /\ C[u].sock \in S
                         THEN [C[u] EXCEPT !.woken = TRUE] ELSE C[u]
  BY DEF Woken
<1>2. SUFFICES ASSUME NEW u \in Threads
               PROVE  /\ Woken(C, S)[u] \in Sleeping \cup {Idle}
                      /\ Woken(C, S)[u].op = C[u].op
                      /\ Woken(C, S)[u].sock = C[u].sock
                      /\ C[u].op # "none" /\ ~Woken(C, S)[u].woken =>
                           /\ C[u].sock \notin S
                           /\ Woken(C, S)[u] = C[u]
  BY <1>2 DEF Woken
<1>3. CASE C[u].op # "none" /\ C[u].sock \in S
  <2>1. C[u] \in Sleeping
    BY <1>3, PipeNames
  <2>2. Woken(C, S)[u] = [C[u] EXCEPT !.woken = TRUE]
    BY <1>1, <1>3
  <2>3. QED
    BY <2>1, <2>2 DEF Sleeping
<1>4. CASE ~(C[u].op # "none" /\ C[u].sock \in S)
  <2>1. Woken(C, S)[u] = C[u]
    BY <1>1, <1>4
  <2>2. QED
    BY <1>4, <2>1
<1>5. QED
  BY <1>3, <1>4

\* The invariant of the sockets speaks of the table through its counts only.
LEMMA LinksKept ==
  ASSUME PeersMutual, \A s \in PipeSockets : pipe'[s].fPeer = pipe[s].fPeer,
         table' = table, PipesGood
  PROVE  PeersMutual'
BY PipeFields, PipeNames DEF PeersMutual, HasPeer, Peer, Exists

-----------------------------------------------------------------------------
(***************************************************************************)
(* One lemma for each way a call ends or goes on.                          *)
(***************************************************************************)
LEMMA ReadDoneKeeps ==
  ASSUME PipeInv, NEW t \in Threads, NEW s \in PipeSockets, NEW len \in Nat,
         ReadDone(t, s, len), table' = table
  PROVE  PipeInv'
<1> DEFINE b == Consumed(pipe[s].fBuffer, len)
           C == [call EXCEPT ![t] = Idle]
<1>1. /\ b \in Ring /\ PipeRing(b)
      /\ pipe[s].fBuffer.valid = 0 => b.valid = 0
  BY PipeFields, ConsumedShape DEF PipeInv, PipeRing
<1>2. /\ pipe' = [pipe EXCEPT ![s].fBuffer = b]
      /\ call' = Woken(C, {Peer(s)})
  BY DEF ReadDone
<1>3. C \in [Threads -> Sleeping \cup {Idle}]
  BY DEF PipeInv, CallsGood
<1> HIDE DEF b, C
<1>4. /\ pipe' \in [PipeSockets -> PipeRecord]
      /\ \A q \in PipeSockets :
           /\ pipe'[q].fPeer = pipe[q].fPeer
           /\ pipe'[q].fBuffer = IF q = s THEN b ELSE pipe[q].fBuffer
  BY <1>1, <1>2 DEF PipeInv, PipesGood, PipeRecord
<1>5. PipesGood'
  BY <1>1, <1>4 DEF PipeInv, PipesGood
<1>6. PeersMutual'
  BY <1>4, LinksKept DEF PipeInv
<1>7. \A u \in Threads : call'[u].op # "none" => u # t /\ C[u] = call[u]
  <2>1. C[t] = Idle /\ \A u \in Threads \ {t} : C[u] = call[u]
    BY DEF C, PipeInv, CallsGood
  <2>2. \A u \in Threads : call'[u].op = C[u].op
    BY <1>2, <1>3, WokenCalls
  <2>3. QED
    BY <2>1, <2>2, PipeNames
<1>8. CallsGood'
  BY <1>2, <1>3, <1>7, WokenCalls DEF PipeInv, CallsGood
<1>9. Patient'
  <2>1. SUFFICES ASSUME NEW u \in Threads, call'[u].op # "none", ~call'[u].woken
                 PROVE  Waiting(pipe', call'[u])
    BY DEF Patient
  <2>2. call'[u] = call[u] /\ call[u].sock # Peer(s)
    BY <1>2, <1>3, <1>7, <2>1, WokenCalls
  <2> DEFINE q == call[u].sock
  <2>3. q \in PipeSockets /\ Waiting(pipe, call[u])
    BY <2>1, <2>2, CallFields DEF PipeInv, Patient
  <2>4. pipe[q].fPeer \in PipeSockets /\ pipe[q].fPeer # s
    BY <2>2, <2>3, PipeFields, PipeNames
      DEF PipeInv, PeersMutual, HasPeer, Peer, Waiting
  <2>5. QED
    BY <1>1, <1>4, <2>2, <2>3, <2>4 DEF Waiting
<1>10. QED
  BY <1>5, <1>6, <1>8, <1>9 DEF PipeInv

LEMMA WriteTurnKeeps ==
  ASSUME PipeInv, NEW t \in Threads, NEW s \in PipeSockets, NEW len \in Nat \ {0},
         table.fRefCount[s] > 0, WriteTurn(t, s, len), table' = table
  PROVE  PipeInv'
<1> DEFINE p == Peer(s)
           stored == Produced(pipe[p].fBuffer, len)
<1>1. CASE Shutdown(s)
  <2>1. call' = [call EXCEPT ![t] = Idle] /\ pipe' = pipe
    BY <1>1 DEF WriteTurn
  <2>2. /\ call' \in [Threads -> Sleeping \cup {Idle}]
        /\ \A u \in Threads : call'[u].op # "none" => call'[u] = call[u]
    BY <2>1, PipeNames DEF PipeInv, CallsGood
  <2>3. CallsGood' /\ Patient'
    BY <2>1, <2>2 DEF PipeInv, CallsGood, Patient
  <2>4. QED
    BY <2>1, <2>3, LinksKept DEF PipeInv, PipesGood
<1>2. CASE ~Shutdown(s)
  <2>1. p \in PipeSockets
    BY <1>2, PipeFields DEF Shutdown, HasPeer, Peer, PipeInv
  <2>2. /\ pipe' = [pipe EXCEPT ![p].fBuffer = stored.ring]
        /\ IF pipe[p].fBuffer.free < len
           THEN call' \in Waits(Woken(call, {p}), t, "write", s, stored.rest)
           ELSE call' = Woken([call EXCEPT ![t] = Idle], {p})
    BY <1>2 DEF WriteTurn, FreeAtPeer
  <2>3. /\ stored.ring \in Ring /\ PipeRing(stored.ring)
        /\ stored.rest \in 0 .. len
        /\ pipe[p].fBuffer.free = 0 => stored.ring.free = 0
        /\ stored.rest = 0 \/ stored.ring.free = 0
        /\ pipe[p].fBuffer.free < len => stored.rest > 0
    BY <2>1, PipeFields, ProducedShape DEF PipeInv, PipeRing
  <2>4. HasPeer(s) /\ pipe[s].fPeer = p
    BY <1>2 DEF Shutdown, Peer
  <2> HIDE DEF p, stored
  <2>5. /\ pipe' \in [PipeSockets -> PipeRecord]
        /\ \A q \in PipeSockets :
             /\ pipe'[q].fPeer = pipe[q].fPeer
             /\ pipe'[q].fBuffer = IF q = p THEN stored.ring ELSE pipe[q].fBuffer
    BY <2>1, <2>2, <2>3 DEF PipeInv, PipesGood, PipeRecord
  <2>6. PipesGood'
    BY <2>3, <2>5 DEF PipeInv, PipesGood
  <2>7. PeersMutual'
    BY <2>5, LinksKept DEF PipeInv
  \* The other threads sleep as before, but not in p.
  <2>8. /\ call' \in [Threads -> Sleeping \cup {Idle}]
        /\ \A u \in Threads \ {t} :
             /\ call'[u].op = call[u].op /\ call'[u].sock = call[u].sock
             /\ call[u].op # "none" /\ ~call'[u].woken =>
                  call'[u] = call[u] /\ call[u].sock # p
        /\ \/ call'[t] = Idle
           \/ call'[t] \in Sleeping /\ call'[t].op = "write" /\ call'[t].sock = s
              /\ stored.ring.free = 0
    <3>0. call \in [Threads -> Sleeping \cup {Idle}]
      BY DEF PipeInv, CallsGood
    <3>1. CASE pipe[p].fBuffer.free < len
      <4>1. PICK early \in BOOLEAN :
              call' = [Woken(call, {p}) EXCEPT
                         ![t] = [op |-> "write", sock |-> s,
                                 left |-> stored.rest, woken |-> early]]
        BY <2>2, <3>1 DEF Waits
      <4>2. [op |-> "write", sock |-> s, left |-> stored.rest, woken |-> early]
              \in Sleeping
        BY <2>3, <3>1 DEF Sleeping
      <4>3. stored.ring.free = 0
        BY <2>3, <3>1
      <4>4. QED
        BY <3>0, <4>1, <4>2, <4>3, WokenCalls
    <3>2. CASE ~(pipe[p].fBuffer.free < len)
      <4> DEFINE C == [call EXCEPT ![t] = Idle]
      <4>1. call' = Woken(C, {p})
        BY <2>2, <3>2
      <4>2. /\ C \in [Threads -> Sleeping \cup {Idle}]
            /\ C[t] = Idle /\ \A u \in Threads \ {t} : C[u] = call[u]
        BY <3>0
      <4> HIDE DEF C
      <4>3. call'[t] = Idle
        BY <4>1, <4>2, PipeNames DEF Woken
      <4>4. QED
        BY <4>1, <4>2, <4>3, WokenCalls
    <3>3. QED
      BY <3>1, <3>2
  <2>9. CallsGood'
    BY <2>8, PipeNames DEF PipeInv, CallsGood
  <2>10. Patient'
    <3>1. SUFFICES ASSUME NEW u \in Threads, call'[u].op # "none", ~call'[u].woken
                   PROVE  Waiting(pipe', call'[u])
      BY DEF Patient
    <3>2. CASE u = t
      <4>1. /\ call'[u].op = "write" /\ call'[u].sock = s
            /\ stored.ring.free = 0
        BY <2>8, <3>1, <3>2, PipeNames
      <4>2. pipe'[s].fPeer = p /\ pipe'[p].fBuffer = stored.ring /\ p # NoSocket
        BY <2>1, <2>4, <2>5, PipeNames
      <4>3. QED
        BY <4>1, <4>2 DEF Waiting
    <3>3. CASE u # t
      <4> DEFINE q == call[u].sock
      <4>1. call[u].op # "none" /\ call'[u] = call[u] /\ q # p
        BY <2>8, <3>1, <3>3
      <4>2. q \in PipeSockets /\ Waiting(pipe, call[u])
        BY <3>1, <4>1, CallFields DEF PipeInv, Patient
      <4>3. pipe[q].fPeer \in PipeSockets
        BY <4>2, PipeFields DEF PipeInv, Waiting
      <4>4. QED
        BY <2>3, <2>5, <4>1, <4>2, <4>3 DEF Waiting
    <3>4. QED
      BY <3>2, <3>3
  <2>11. QED
    BY <2>6, <2>7, <2>9, <2>10 DEF PipeInv
<1>3. QED
  BY <1>1, <1>2

\* Destructors: whoever sleeps in a deleted socket's peer, or knows it, is told.
LEMMA DestroyKeeps ==
  ASSUME PipeInv, NEW dead \in SUBSET PipeSockets, Destroy(dead),
         \A s \in PipeSockets \ dead :
           table.fRefCount[s] > 0 => table'.fRefCount[s] > 0,
         \A t \in Threads : call[t].sock \notin dead
  PROVE  PipeInv'
<1> DEFINE S == dead \cup {Peer(d) : d \in dead}
<1>0. /\ pipe \in [PipeSockets -> PipeRecord]
      /\ call \in [Threads -> Sleeping \cup {Idle}]
  BY DEF PipeInv, PipesGood, CallsGood
<1>1. /\ \A s \in dead : pipe'[s] = NewSocket
      /\ \A s \in PipeSockets \ S : pipe'[s] = pipe[s]
      /\ \A s \in PipeSockets : s \in S \ dead =>
           pipe'[s] = [pipe[s] EXCEPT !.fPeer = NoSocket]
      /\ pipe' = [s \in PipeSockets |-> pipe'[s]]
  BY Zenon DEF Destroy
<1>2. call' = Woken(call, S)
  BY DEF Destroy
<1> HIDE DEF S
<1>3. NewSocket \in PipeRecord /\ PipeRing(NewSocket.fBuffer) /\ NewSocket.fPeer = NoSocket
  <2>1. NewRing(BufferSize) \in Ring /\ PipeRing(NewRing(BufferSize))
    BY PipeAssumption, NewRingShape DEF PipeRing
  <2>2. QED
    BY <2>1 DEF NewSocket, PipeRecord
<1>4. \A s \in PipeSockets :
        /\ pipe'[s] \in PipeRecord /\ PipeRing(pipe'[s].fBuffer)
        /\ s \in S => pipe'[s].fPeer = NoSocket
  <2>1. SUFFICES ASSUME NEW s \in PipeSockets
                 PROVE  /\ pipe'[s] \in PipeRecord /\ PipeRing(pipe'[s].fBuffer)
                        /\ s \in S => pipe'[s].fPeer = NoSocket
    OBVIOUS
  <2>2. pipe[s] \in PipeRecord /\ PipeRing(pipe[s].fBuffer)
    BY PipeFields DEF PipeInv
  <2>3. CASE s \in dead
    BY <1>1, <1>3, <2>3
  <2>4. CASE s \in S \ dead
    BY <1>1, <2>2, <2>4 DEF PipeRecord
  <2>5. CASE s \notin S /\ s \notin dead
    BY <1>1, <2>2, <2>5
  <2>6. QED
    BY <2>3, <2>4, <2>5
<1>5. PipesGood'
  BY <1>1, <1>4 DEF PipesGood
\* A socket that keeps its link keeps all its fields, and so does its peer.
<1>6. \A s \in PipeSockets \ S :
        /\ pipe'[s] = pipe[s] /\ s \notin dead
        /\ HasPeer(s) => /\ Peer(s) \in PipeSockets \ S /\ Peer(s) \notin dead
                         /\ pipe'[Peer(s)] = pipe[Peer(s)]
  <2>1. SUFFICES ASSUME NEW s \in PipeSockets \ S, HasPeer(s)
                 PROVE  Peer(s) \in PipeSockets \ S
    BY <1>1 DEF S
  <2>2. Peer(s) \in PipeSockets /\ Peer(Peer(s)) = s
    BY <2>1, PipeFields DEF PipeInv, PeersMutual, HasPeer, Peer
  <2>3. Peer(s) \notin dead
    BY <2>1, <2>2 DEF S
  <2>4. ASSUME NEW d \in dead, Peer(s) = Peer(d) PROVE FALSE
    <3>1. HasPeer(d)
      BY <2>2, <2>4, PipeNames DEF HasPeer
    <3>2. Peer(Peer(d)) = d
      BY <3>1 DEF PipeInv, PeersMutual
    <3>3. QED
      BY <2>1, <2>2, <2>4, <3>2 DEF S
  <2>5. QED
    BY <2>2, <2>3, <2>4 DEF S
<1>7. PeersMutual'
  <2>1. SUFFICES ASSUME NEW s \in PipeSockets, pipe'[s].fPeer # NoSocket
                 PROVE  /\ table'.fRefCount[s] > 0
                        /\ table'.fRefCount[pipe'[s].fPeer] > 0
                        /\ pipe'[pipe'[s].fPeer].fPeer = s
    BY DEF PeersMutual, HasPeer, Peer, Exists
  <2>2. s \notin S /\ pipe'[s] = pipe[s] /\ HasPeer(s)
    BY <1>4, <1>6, <2>1 DEF HasPeer, Peer
  <2>3. Exists(s) /\ Exists(Peer(s)) /\ Peer(Peer(s)) = s
    BY <2>2 DEF PipeInv, PeersMutual
  <2>4. s \notin dead /\ Peer(s) \in PipeSockets \ dead /\ pipe'[Peer(s)] = pipe[Peer(s)]
    BY <1>6, <2>2
  <2>5. QED
    BY <2>2, <2>3, <2>4 DEF Exists, Peer
<1>8. CallsGood'
  <2>1. call' \in [Threads -> Sleeping \cup {Idle}]
    BY <1>0, <1>2, WokenCalls
  <2>2. ASSUME NEW t \in Threads, call'[t].op # "none"
        PROVE  table'.fRefCount[call'[t].sock] > 0
    <3>1. call[t].op # "none" /\ call'[t].sock = call[t].sock
      BY <1>0, <1>2, <2>2, WokenCalls
    <3>2. call[t].sock \in PipeSockets \ dead /\ table.fRefCount[call[t].sock] > 0
      BY <3>1, CallFields DEF PipeInv
    <3>3. QED
      BY <3>1, <3>2
  <2>3. QED
    BY <2>1, <2>2 DEF CallsGood
<1>9. Patient'
  <2>1. SUFFICES ASSUME NEW t \in Threads, call'[t].op # "none", ~call'[t].woken
                 PROVE  Waiting(pipe', call'[t])
    BY DEF Patient
  <2>2. call[t].op # "none" /\ call'[t] = call[t] /\ call[t].sock \notin S
    BY <1>0, <1>2, <2>1, WokenCalls
  <2>3. call[t].sock \in PipeSockets /\ Waiting(pipe, call[t])
    BY <2>1, <2>2, CallFields DEF PipeInv, Patient
  <2>4. /\ pipe'[call[t].sock] = pipe[call[t].sock]
        /\ pipe'[pipe[call[t].sock].fPeer] = pipe[pipe[call[t].sock].fPeer]
    BY <1>6, <2>2, <2>3 DEF Waiting, HasPeer, Peer
  <2>5. QED
    BY <2>2, <2>3, <2>4 DEF Waiting
<1>10. QED
  BY <1>5, <1>7, <1>8, <1>9 DEF PipeInv

\* A close or dup2 deletes no socket in which a thread sleeps.
LEMMA NobodySleepsInDeleted ==
  ASSUME TableInv, PipeInv, NEW t \in Threads, TableCall(t)
  PROVE  /\ [TableNext]_tableVars
         /\ \A s \in Deleted, u \in Threads : call[u].sock # s
<1>1. GoodTable(table)
  BY DEF TableInv
<1>2. ASSUME NEW fd \in Descriptors, ~Busy(fd), Close(fd)
      PROVE  /\ TableNext
             /\ \A s \in Deleted, u \in Threads : call[u].sock # s
  <2>1. IsOpen(table, fd) /\ table' = Removed(table, fd)
    BY <1>2 DEF Close
  <2>2. /\ table'.fRefCount = [table.fRefCount EXCEPT ![Socket(table, fd)] = @ - 1]
        /\ table.fRefCount[Socket(table, fd)] > 0
    BY <1>1, <2>1, RemovedGood
  <2>3. \A s \in Deleted : s = Socket(table, fd) /\ table.fRefCount[s] = 1
    BY <1>1, <2>2 DEF Deleted, Exists, GoodTable, CountedTable
  <2>4. QED
    BY <1>2, <2>1, <2>3 DEF Busy, TableNext
<1>3. ASSUME NEW fd \in Descriptors, NEW to \in Descriptors, ~Busy(to), Dup2(fd, to)
      PROVE  /\ TableNext
             /\ \A s \in Deleted, u \in Threads : call[u].sock # s
  <2> DEFINE x == Socket(table, fd)
             emptied == IF IsOpen(table, to) THEN Removed(table, to) ELSE table
  <2>1. x \in Sockets
    BY <1>3 DEF Dup2, IsOpen
  <2>2. GoodTable(emptied) /\ Room(emptied, to) # {}
    BY <1>1, Emptied
  <2>3. CASE table' = table
    BY <1>3, <2>3 DEF TableNext, Deleted, Exists
  <2>4. CASE table' = Installed(emptied, x, to)
    <3>1. table'.fRefCount = [emptied.fRefCount EXCEPT ![x] = @ + 1]
      BY <2>1, <2>2, <2>4, InstalledGood
    <3>2. \A s \in Deleted : Exists(s) /\ emptied.fRefCount[s] = 0
      BY <2>1, <2>2, <3>1 DEF Deleted, GoodTable, CountedTable
    <3>3. CASE IsOpen(table, to)
      <4>1. emptied.fRefCount = [table.fRefCount EXCEPT ![Socket(table, to)] = @ - 1]
        BY <1>1, <3>3, RemovedGood
      <4>2. \A s \in Deleted : s = Socket(table, to) /\ table.fRefCount[s] = 1
        BY <1>1, <3>2, <4>1 DEF Deleted, Exists, GoodTable, CountedTable
      <4>3. QED
        BY <1>3, <3>3, <4>2 DEF Busy, TableNext
    <3>4. CASE ~IsOpen(table, to)
      BY <1>3, <3>2, <3>4 DEF Exists, TableNext
    <3>5. QED
      BY <3>3, <3>4
  <2>5. QED
    BY <1>3, <2>3, <2>4 DEF Dup2, Corrupted
<1>4. ASSUME NEW fd \in Descriptors, NEW start \in Descriptors, Dup(fd, start)
      PROVE  /\ TableNext
             /\ \A s \in Deleted, u \in Threads : call[u].sock # s
  <2>1. /\ Socket(table, fd) \in Sockets
        /\ Room(table, start) # {}
        /\ table' = Installed(table, Socket(table, fd), start)
    BY <1>4 DEF Dup, IsOpen
  <2>2. table'.fRefCount = [table.fRefCount EXCEPT ![Socket(table, fd)] = @ + 1]
    BY <1>1, <2>1, InstalledGood
  <2>3. Deleted = {}
    BY <1>1, <2>1, <2>2 DEF Deleted, Exists, GoodTable, CountedTable
  <2>4. QED
    BY <1>4, <2>3 DEF TableNext
<1>5. QED
  BY <1>2, <1>3, <1>4 DEF TableCall

\* The end of TableCall: what it deletes is destroyed, and it keeps the others.
LEMMA TableCallKeeps ==
  ASSUME TableInv, PipeInv, NEW t \in Threads, TableCall(t)
  PROVE  [TableNext]_tableVars /\ PipeInv'
<1> DEFINE dead == Deleted \ {Console}
<1>1. /\ [TableNext]_tableVars
      /\ \A s \in Deleted, u \in Threads : call[u].sock # s
  BY NobodySleepsInDeleted
<1>2. GoodTable(table')
  BY <1>1, TableNextInv DEF TableInv, GoodTable, SlotsIn
<1>3. dead \in SUBSET PipeSockets /\ \A u \in Threads : call[u].sock \notin dead
  BY <1>1 DEF Deleted, PipeSockets
<1>4. \A s \in PipeSockets \ dead :
        table.fRefCount[s] > 0 => table'.fRefCount[s] > 0
  BY <1>2 DEF Deleted, Exists, PipeSockets, GoodTable, CountedTable
<1>5. Destroy(dead)
  BY DEF TableCall
<1> HIDE DEF dead
<1>6. QED
  BY <1>1, <1>3, <1>4, <1>5, DestroyKeeps

\* A new pair is nobody's peer, and nobody sleeps in it.
LEMMA OpenKeeps ==
  ASSUME TableInv, PipeInv, NEW t \in Threads,
         NEW first \in PipeSockets, NEW second \in PipeSockets,
         NEW isPipe \in BOOLEAN, Open(t, first, second, isPipe)
  PROVE  [TableNext]_tableVars /\ PipeInv'
<1>1. [TableNext]_tableVars
  BY DEF Open, TableNext, PipeSockets
<1>2. CASE table' = table
  <2>1. pipe' = pipe /\ call' = call
    BY <1>2 DEF Open
  <2>2. PipesGood' /\ CallsGood' /\ Patient'
    BY <1>2, <2>1 DEF PipeInv, PipesGood, CallsGood, Patient
  <2>3. QED
    BY <1>1, <1>2, <2>1, <2>2, LinksKept DEF PipeInv
<1>3. CASE table' # table
  <2>1. /\ first # second /\ ~Exists(first) /\ ~Exists(second)
        /\ Cardinality(Room(table, 0)) > 1
        /\ table' = Installed(Installed(table, first, 0), second, 0)
    BY <1>3 DEF Open, OpenPair, Corrupted, tableVars
  <2>2. GoodTable(table) /\ first \in Sockets /\ second \in Sockets
    BY PipeNames DEF TableInv
  <2>3. /\ 0 \in Descriptors /\ Room(table, 0) # {}
        /\ Room(Installed(table, first, 0), 0) # {}
    BY <2>1, <2>2, RoomForSecond
  <2>4. /\ GoodTable(Installed(table, first, 0))
        /\ Installed(table, first, 0).fRefCount = [table.fRefCount EXCEPT ![first] = @ + 1]
    BY <2>2, <2>3, InstalledGood
  <2>5. table'.fRefCount
          = [Installed(table, first, 0).fRefCount EXCEPT ![second] = @ + 1]
    BY <2>1, <2>2, <2>3, <2>4, InstalledGood
  <2>6. /\ table'.fRefCount[first] > 0 /\ table'.fRefCount[second] > 0
        /\ \A s \in Sockets : table.fRefCount[s] > 0 => table'.fRefCount[s] > 0
    BY <2>1, <2>2, <2>4, <2>5 DEF GoodTable, CountedTable
  <2> DEFINE one == [NewSocket EXCEPT !.fPeer = second, !.fWriteShutdown = isPipe]
             two == [NewSocket EXCEPT !.fPeer = first]
  <2>7. pipe' = [pipe EXCEPT ![first] = one, ![second] = two] /\ call' = call
    BY <1>3 DEF Open
  <2>8. /\ one \in PipeRecord /\ PipeRing(one.fBuffer) /\ one.fPeer = second
        /\ two \in PipeRecord /\ PipeRing(two.fBuffer) /\ two.fPeer = first
    <3>1. NewRing(BufferSize) \in Ring /\ PipeRing(NewRing(BufferSize))
      BY PipeAssumption, NewRingShape DEF PipeRing
    <3>2. QED
      BY <3>1 DEF NewSocket, PipeRecord
  <2> HIDE DEF one, two
  <2>9. /\ pipe' \in [PipeSockets -> PipeRecord]
        /\ pipe'[first] = one /\ pipe'[second] = two
        /\ \A s \in PipeSockets \ {first, second} : pipe'[s] = pipe[s]
    BY <2>1, <2>7, <2>8 DEF PipeInv, PipesGood
  <2>10. PipesGood'
    BY <2>8, <2>9 DEF PipeInv, PipesGood
  \* Whatever exists was neither of the two, nor linked to them.
  <2>11. \A s \in PipeSockets \ {first, second} :
           HasPeer(s) => /\ Exists(s) /\ Exists(Peer(s)) /\ Peer(Peer(s)) = s
                         /\ Peer(s) \in PipeSockets \ {first, second}
    <3>1. SUFFICES ASSUME NEW s \in PipeSockets \ {first, second}, HasPeer(s)
                   PROVE  /\ Exists(s) /\ Exists(Peer(s)) /\ Peer(Peer(s)) = s
                          /\ Peer(s) \in PipeSockets \ {first, second}
      OBVIOUS
    <3>2. Peer(s) \in PipeSockets
      BY <3>1, PipeFields DEF PipeInv, HasPeer, Peer
    <3>3. Exists(s) /\ Exists(Peer(s)) /\ Peer(Peer(s)) = s
      BY <3>1 DEF PipeInv, PeersMutual
    <3>4. QED
      BY <2>1, <3>2, <3>3
  <2>12. PeersMutual'
    <3>1. SUFFICES ASSUME NEW s \in PipeSockets, pipe'[s].fPeer # NoSocket
                   PROVE  /\ table'.fRefCount[s] > 0
                          /\ table'.fRefCount[pipe'[s].fPeer] > 0
                          /\ pipe'[pipe'[s].fPeer].fPeer = s
      BY DEF PeersMutual, HasPeer, Peer, Exists
    <3>2. CASE s \in {first, second}
      BY <2>6, <2>8, <2>9, <3>2
    <3>3. CASE s \notin {first, second}
      <4>1. pipe'[s] = pipe[s] /\ HasPeer(s)
        BY <2>9, <3>1, <3>3 DEF HasPeer, Peer
      <4>2. /\ Exists(s) /\ Exists(Peer(s)) /\ Peer(Peer(s)) = s
            /\ Peer(s) \in PipeSockets \ {first, second}
        BY <2>11, <3>3, <4>1
      <4>3. pipe'[Peer(s)] = pipe[Peer(s)]
        BY <2>9, <4>2
      <4>4. QED
        BY <2>6, <4>1, <4>2, <4>3, PipeNames DEF Exists, Peer
    <3>4. QED
      BY <3>2, <3>3
  <2>13. CallsGood'
    BY <2>6, <2>7, CallFields, PipeNames DEF PipeInv, CallsGood
  <2>14. Patient'
    <3>1. SUFFICES ASSUME NEW u \in Threads, call[u].op # "none", ~call[u].woken
                   PROVE  Waiting(pipe', call[u])
      BY <2>7 DEF Patient
    <3>2. /\ call[u].sock \in PipeSockets /\ Exists(call[u].sock)
          /\ Waiting(pipe, call[u])
      BY <3>1, CallFields DEF PipeInv, Patient, Exists
    <3>3. call[u].sock \in PipeSockets \ {first, second} /\ HasPeer(call[u].sock)
      BY <2>1, <3>2 DEF Waiting, HasPeer, Peer
    <3>4. /\ pipe'[call[u].sock] = pipe[call[u].sock]
          /\ pipe'[pipe[call[u].sock].fPeer] = pipe[pipe[call[u].sock].fPeer]
      BY <2>9, <2>11, <3>3 DEF Peer
    <3>5. QED
      BY <3>2, <3>4 DEF Waiting
  <2>15. QED
    BY <1>1, <2>10, <2>12, <2>13, <2>14 DEF PipeInv
<1>4. QED
  BY <1>2, <1>3

\* shutdown changes what a sleeper will find, and neither links nor buffers.
LEMMA ShutdownKeeps ==
  ASSUME PipeInv, NEW t \in Threads, NEW fd \in Descriptors, NEW how \in 0 .. 2,
         ShutdownCall(t, fd, how)
  PROVE  PipeInv'
<1>1. table' = table /\ call' = call
  BY DEF ShutdownCall
<1>2. \A s \in PipeSockets :
        \/ pipe'[s] = pipe[s]
        \/ pipe'[s] = [pipe[s] EXCEPT !.fWriteShutdown = TRUE]
  BY DEF ShutdownCall
<1>3. pipe' = [s \in PipeSockets |-> pipe'[s]]
  BY Zenon DEF ShutdownCall
<1>4. \A s \in PipeSockets :
        /\ pipe'[s] \in PipeRecord
        /\ pipe'[s].fBuffer = pipe[s].fBuffer /\ pipe'[s].fPeer = pipe[s].fPeer
  <2>1. ASSUME NEW p \in PipeRecord, NEW q, q = [p EXCEPT !.fWriteShutdown = TRUE]
        PROVE  q \in PipeRecord /\ q.fBuffer = p.fBuffer /\ q.fPeer = p.fPeer
    BY <2>1 DEF PipeRecord
  <2>2. \A s \in PipeSockets : pipe[s] \in PipeRecord
    BY DEF PipeInv, PipesGood
  <2>3. QED
    BY <1>2, <2>1, <2>2
<1>5. PipesGood'
  BY <1>3, <1>4 DEF PipeInv, PipesGood
<1>6. PeersMutual'
  BY <1>1, <1>4, LinksKept DEF PipeInv
<1>7. CallsGood'
  BY <1>1 DEF PipeInv, CallsGood
<1>8. Patient'
  <2>1. SUFFICES ASSUME NEW u \in Threads, call[u].op # "none", ~call[u].woken
                 PROVE  Waiting(pipe', call[u])
    BY <1>1 DEF Patient
  <2>2. call[u].sock \in PipeSockets /\ Waiting(pipe, call[u])
    BY <2>1, CallFields DEF PipeInv, Patient
  <2>3. pipe[call[u].sock].fPeer \in PipeSockets
    BY <2>2, PipeFields DEF PipeInv, Waiting
  <2>4. QED
    BY <1>4, <2>2, <2>3 DEF Waiting
<1>9. QED
  BY <1>5, <1>6, <1>7, <1>8 DEF PipeInv

\* A call that gives up, or goes back to sleep, touches no socket.
LEMMA CallOnlyKeeps ==
  ASSUME PipeInv, table' = table, pipe' = pipe,
         call' \in [Threads -> Sleeping \cup {Idle}],
         \A t \in Threads :
           call'[t].op # "none" => /\ call[t].op # "none"
                                   /\ call'[t].sock = call[t].sock
                                   /\ ~call'[t].woken => Waiting(pipe, call'[t])
  PROVE  PipeInv'
<1>1. PipesGood' /\ PeersMutual'
  BY LinksKept DEF PipeInv, PipesGood
<1>2. CallsGood' /\ Patient'
  BY DEF PipeInv, CallsGood, Patient
<1>3. QED
  BY <1>1, <1>2 DEF PipeInv

-----------------------------------------------------------------------------
(***************************************************************************)
(* Initially nothing is linked and nobody sleeps; every step keeps it so   *)
(* that all is well with who is and who does.                              *)
(***************************************************************************)
LEMMA InitEstablishesIInv == Init => IInv
<1> SUFFICES ASSUME Init PROVE IInv
  OBVIOUS
<1>1. TableInv
  BY TableInitInv DEF Init
<1>2. NewRing(BufferSize) \in Ring /\ PipeRing(NewRing(BufferSize))
  BY PipeAssumption, NewRingShape DEF PipeRing
<1>3. /\ pipe = [s \in PipeSockets |-> NewSocket]
      /\ NewSocket \in PipeRecord /\ PipeRing(NewSocket.fBuffer)
      /\ NewSocket.fPeer = NoSocket
  BY <1>2 DEF Init, NewSocket, PipeRecord
<1>4. PipesGood /\ PeersMutual
  BY <1>3 DEF PipesGood, PeersMutual, HasPeer, Peer
<1>5. CallsGood /\ Patient
  BY PipeNames DEF Init, CallsGood, Patient
<1>6. QED
  BY <1>1, <1>4, <1>5 DEF IInv, PipeInv

LEMMA StepsKeepPipes == IInv /\ [Next]_vars => [TableNext]_tableVars /\ PipeInv'
<1> SUFFICES ASSUME IInv, [Next]_vars PROVE [TableNext]_tableVars /\ PipeInv'
  OBVIOUS
<1>1. TableInv /\ PipeInv
  BY DEF IInv
<1>3. \A fd \in Descriptors : IsOpen(table, fd) /\ Socket(table, fd) \in PipeSockets
                                 => table.fRefCount[Socket(table, fd)] > 0
  <2>1. SUFFICES ASSUME NEW fd \in Descriptors, IsOpen(table, fd)
                 PROVE  table.fRefCount[Socket(table, fd)] > 0
    OBVIOUS
  <2>2. QED
    BY <1>1, <2>1, RemovedGood DEF TableInv
<1>4. ASSUME NEW t \in Threads, NEW fd \in Descriptors, NEW len \in Lengths,
             Read(t, fd, len)
      PROVE  [TableNext]_tableVars /\ PipeInv'
  <2> DEFINE s == Socket(table, fd)
  <2>1. /\ UNCHANGED tableVars /\ table' = table
        /\ s \in PipeSockets /\ len \in Nat \ {0} /\ table.fRefCount[s] > 0
    BY <1>3, <1>4, PipeAssumption DEF Read, tableVars
  <2>2. CASE ReadDone(t, s, len)
    BY <1>1, <2>1, <2>2, ReadDoneKeeps
  <2>3. CASE /\ Valid(s) = 0 /\ ~Eof(s)
             /\ call' \in Waits(call, t, "read", s, len)
             /\ UNCHANGED pipe
    <3>1. PICK early \in BOOLEAN :
            call' = [call EXCEPT ![t] = [op |-> "read", sock |-> s,
                                         left |-> len, woken |-> early]]
      BY <2>3 DEF Waits
    <3>2. [op |-> "read", sock |-> s, left |-> len, woken |-> early] \in Sleeping
      BY <2>1 DEF Sleeping
    <3>3. /\ call' \in [Threads -> Sleeping \cup {Idle}]
          /\ call'[t].op = "read" /\ call'[t].sock = s
          /\ \A u \in Threads \ {t} : call'[u] = call[u]
      BY <1>1, <3>1, <3>2 DEF PipeInv, CallsGood
    <3>4. CallsGood'
      BY <1>1, <2>1, <3>3 DEF PipeInv, CallsGood
    <3>5. pipe[s].fPeer # NoSocket /\ pipe[s].fBuffer.valid = 0
      BY <2>3 DEF Eof, HasPeer, Peer, Valid
    <3>6. Patient'
      BY <1>1, <2>3, <3>3, <3>5 DEF PipeInv, Patient, Waiting
    <3>7. QED
      BY <1>1, <2>1, <2>3, <3>4, <3>6, LinksKept DEF PipeInv, PipesGood
  <2>4. QED
    BY <1>4, <2>1, <2>2, <2>3 DEF Read
<1>5. ASSUME NEW t \in Threads, NEW fd \in Descriptors, NEW len \in Lengths,
             Write(t, fd, len)
      PROVE  [TableNext]_tableVars /\ PipeInv'
  <2>1. /\ UNCHANGED tableVars /\ table' = table
        /\ Socket(table, fd) \in PipeSockets /\ len \in Nat \ {0}
        /\ table.fRefCount[Socket(table, fd)] > 0
    BY <1>3, <1>5, PipeAssumption DEF Write, tableVars
  <2>2. QED
    BY <1>1, <1>5, <2>1, WriteTurnKeeps DEF Write
\* A thread whose wait goes on: it was woken, and there is still nothing for it.
<1>6. ASSUME NEW t \in Threads, call[t].op # "none",
             call' = [call EXCEPT ![t].woken = FALSE],
             Waiting(pipe, call[t]), pipe' = pipe, table' = table
      PROVE  PipeInv'
  <2>1. call[t] \in Sleeping /\ call \in [Threads -> Sleeping \cup {Idle}]
    BY <1>1, <1>6, CallFields DEF PipeInv, CallsGood
  <2> DEFINE c == [call[t] EXCEPT !.woken = FALSE]
  <2>2. c \in Sleeping /\ c.op = call[t].op /\ c.sock = call[t].sock
    BY <2>1 DEF Sleeping
  <2>3. call' = [call EXCEPT ![t] = c]
    BY <1>6
  <2> HIDE DEF c
  <2>4. /\ call' \in [Threads -> Sleeping \cup {Idle}]
        /\ call'[t] = c /\ \A u \in Threads \ {t} : call'[u] = call[u]
    BY <2>1, <2>2, <2>3
  <2>5. Waiting(pipe, call'[t])
    BY <1>6, <2>2, <2>4 DEF Waiting
  <2>6. \A u \in Threads :
          call'[u].op # "none" => /\ call[u].op # "none"
                                  /\ call'[u].sock = call[u].sock
                                  /\ ~call'[u].woken => Waiting(pipe, call'[u])
    BY <1>1, <1>6, <2>2, <2>4, <2>5 DEF PipeInv, Patient
  <2>7. QED
    BY <1>1, <1>6, <2>4, <2>6, CallOnlyKeeps
<1>7. ASSUME NEW t \in Threads, ReadResumes(t)
      PROVE  [TableNext]_tableVars /\ PipeInv'
  <2> DEFINE s == call[t].sock
  <2>1. /\ UNCHANGED tableVars /\ table' = table /\ call[t].op = "read"
        /\ s \in PipeSockets /\ call[t].left \in Nat
    BY <1>1, <1>7, CallFields DEF PipeInv, ReadResumes, tableVars
  <2>2. CASE Eof(s) \/ Valid(s) > 0
    <3>1. ReadDone(t, s, call[t].left)
      BY <1>7, <2>2 DEF ReadResumes
    <3>2. QED
      BY <1>1, <2>1, <3>1, ReadDoneKeeps
  <2>3. CASE ~(Eof(s) \/ Valid(s) > 0)
    <3>1. call' = [call EXCEPT ![t].woken = FALSE] /\ pipe' = pipe
      BY <1>7, <2>3 DEF ReadResumes
    <3>2. pipe[s].fPeer # NoSocket /\ pipe[s].fBuffer.valid = 0
      BY <1>1, <2>1, <2>3, PipeFields DEF PipeInv, Eof, HasPeer, Peer, Valid
    <3>3. Waiting(pipe, call[t])
      BY <2>1, <3>2 DEF Waiting
    <3>4. QED
      BY <1>6, <2>1, <3>1, <3>3
  <2>4. QED
    BY <2>2, <2>3
<1>8. ASSUME NEW t \in Threads, WriteResumes(t)
      PROVE  [TableNext]_tableVars /\ PipeInv'
  <2> DEFINE s == call[t].sock
  <2>1. /\ UNCHANGED tableVars /\ table' = table /\ call[t].op = "write"
        /\ s \in PipeSockets /\ call[t].left \in Nat \ {0}
        /\ table.fRefCount[s] > 0
    BY <1>1, <1>8, CallFields DEF PipeInv, WriteResumes, tableVars
  <2>2. CASE Shutdown(s) \/ FreeAtPeer(s) > 0
    <3>1. WriteTurn(t, s, call[t].left)
      BY <1>8, <2>2 DEF WriteResumes
    <3>2. QED
      BY <1>1, <2>1, <3>1, WriteTurnKeeps
  <2>3. CASE ~(Shutdown(s) \/ FreeAtPeer(s) > 0)
    <3>1. call' = [call EXCEPT ![t].woken = FALSE] /\ pipe' = pipe
      BY <1>8, <2>3 DEF WriteResumes
    <3>2. pipe[s].fPeer \in PipeSockets
      BY <1>1, <2>1, <2>3, PipeFields DEF PipeInv, Shutdown, HasPeer, Peer
    <3>3. pipe[s].fPeer # NoSocket /\ pipe[pipe[s].fPeer].fBuffer.free = 0
      BY <1>1, <2>3, <3>2, PipeFields, PipeNames DEF PipeInv, FreeAtPeer, Peer
    <3>4. Waiting(pipe, call[t])
      BY <2>1, <3>3 DEF Waiting
    <3>5. QED
      BY <1>6, <2>1, <3>1, <3>4
  <2>4. QED
    BY <2>2, <2>3
<1>9. ASSUME NEW t \in Threads, Interrupted(t)
      PROVE  [TableNext]_tableVars /\ PipeInv'
  <2>1. /\ UNCHANGED tableVars /\ table' = table /\ pipe' = pipe
        /\ call' = [call EXCEPT ![t] = Idle]
    BY <1>9 DEF Interrupted, tableVars
  <2>2. /\ call' \in [Threads -> Sleeping \cup {Idle}]
        /\ \A u \in Threads : call'[u].op # "none" => call'[u] = call[u]
    BY <1>1, <2>1, PipeNames DEF PipeInv, CallsGood
  <2>3. PipeInv'
    BY <1>1, <2>1, <2>2, CallOnlyKeeps DEF PipeInv, Patient
  <2>4. QED
    BY <2>1, <2>3
<1>10. ASSUME NEW t \in Threads, NEW fd \in Descriptors, NEW how \in 0 .. 2,
              ShutdownCall(t, fd, how)
       PROVE  [TableNext]_tableVars /\ PipeInv'
  BY <1>1, <1>10, ShutdownKeeps DEF ShutdownCall, tableVars
<1>11. ASSUME NEW t \in Threads, CloseBusy(t)
       PROVE  [TableNext]_tableVars /\ PipeInv'
  <2>1. TableNext /\ table' = table /\ pipe' = pipe /\ call' = call
    BY <1>11 DEF CloseBusy, TableNext, UseDeleted, Corrupted
  <2>2. PipeInv'
    BY <1>1, <2>1, CallOnlyKeeps DEF PipeInv, CallsGood, Patient
  <2>3. QED
    BY <2>1, <2>2
<1>12. CASE UNCHANGED vars
  <2>1. /\ UNCHANGED tableVars /\ table' = table /\ pipe' = pipe /\ call' = call
    BY <1>12 DEF vars, tableVars
  <2>2. PipeInv'
    BY <1>1, <2>1, CallOnlyKeeps DEF PipeInv, CallsGood, Patient
  <2>3. QED
    BY <2>1, <2>2
<1>13. ASSUME NEW t \in Threads, TableCall(t)
       PROVE  [TableNext]_tableVars /\ PipeInv'
  BY <1>1, <1>13, TableCallKeeps
<1>14. ASSUME NEW t \in Threads, NEW first \in PipeSockets,
              NEW second \in PipeSockets, NEW isPipe \in BOOLEAN,
              Open(t, first, second, isPipe)
       PROVE  [TableNext]_tableVars /\ PipeInv'
  BY <1>1, <1>14, OpenKeeps
<1>15. QED
  BY <1>4, <1>5, <1>7, <1>8, <1>9, <1>10, <1>11, <1>12, <1>13, <1>14 DEF Next

LEMMA PipeInvariant == Spec => []IInv
<1>1. IInv /\ [Next]_vars => IInv'
  BY StepsKeepPipes, TableNextInv DEF IInv
<1>2. QED
  BY <1>1, InitEstablishesIInv, PTL DEF Spec

-----------------------------------------------------------------------------
(***************************************************************************)
(* What follows.                                                           *)
(***************************************************************************)
\* Sockets, buffers and calls keep their types, every buffer passes the test of
\* GUSIRingBuffer::Invariant(), and a thread sleeps in sockets that exist.
THEOREM TypeCorrect == Spec => []TypeOK
<1>1. IInv => TypeOK
  <2>1. SUFFICES ASSUME IInv PROVE TypeOK
    OBVIOUS
  <2>2. TableTypeOK
    BY <2>1, GoodPromises DEF IInv
  <2>3. PipesGood /\ CallsGood
    BY <2>1 DEF IInv, PipeInv
  <2>4. \A s \in PipeSockets : RingInvariant(pipe[s].fBuffer)
    BY <2>3, PipeFields, ShapeImpliesInvariant DEF PipeRing
  <2>5. \A t \in Threads :
          \/ call[t] = Idle
          \/ call[t] \in Sleeping /\ Exists(call[t].sock)
    BY <2>3, CallFields DEF Exists
  <2>6. QED
    BY <2>2, <2>3, <2>4, <2>5 DEF TypeOK, PipesGood, PipeRecord, Sleeping
<1>2. QED
  BY <1>1, PipeInvariant, PTL

\* The threads' calls use the table as TableSpec says (GUSIPOSIX.cpp:17-125).
THEOREM ImplementsTable == Spec => TableSpec
<1>1. Init => TableInit
  BY DEF Init
<1>2. IInv /\ [Next]_vars => [TableNext]_tableVars
  BY StepsKeepPipes
<1>3. QED
  BY <1>1, <1>2, PipeInvariant, PTL DEF Spec, TableSpec

\* Under all these calls a socket has as many references as descriptors, and is
\* deleted with the last of them (RemoveReference, GUSISocket.h:139).
THEOREM ReferencesAgree == Spec => []RefsAgree
<1>1. QED
  BY ImplementsTable, ReferencesCounted, PTL

\* Links are mutual and between sockets that exist: nobody writes into a deleted
\* socket's buffer (GUSIPipe.cpp:38, 120-125).
THEOREM LinksAreMutual == Spec => []PeersMutual
<1>1. IInv => PeersMutual
  BY DEF IInv, PipeInv
<1>2. QED
  BY <1>1, PipeInvariant, PTL

\* No wakeup is missing: who sleeps, unwoken, in read or write has a peer, and
\* nothing to read or no room to write (GUSIPipe.cpp:74, 104-117, 120-125).
THEOREM NoWakeupMissing == Spec => []SleeperWaits
<1>1. IInv => SleeperWaits
  <2>1. SUFFICES ASSUME IInv, NEW t \in Threads, Asleep(t), ~call[t].woken
                 PROVE  ~CanGoOn(t)
    BY DEF SleeperWaits
  <2>2. Waiting(pipe, call[t])
    BY <2>1 DEF IInv, PipeInv, Patient, Asleep
  <2>3. QED
    BY <2>2 DEF Waiting, CanGoOn, HasPeer, Peer, Valid, FreeAtPeer
<1>2. QED
  BY <1>1, PipeInvariant, PTL
-----------------------------------------------------------------------------

(***************************************************************************)
(* select, sleep and blocking reads.                                       *)
(*                                                                         *)
(* What is said of one context, ContextGood(t), depends on the table and   *)
(* on the state of that context alone, so there are two kinds of steps:    *)
(* those that change what is behind one descriptor (OneSlot), and those    *)
(* that change the call of one context (OwnStep).                          *)
(***************************************************************************)
SelectTypes ==
  /\ ready \in [Sockets -> BOOLEAN]
  /\ fContexts \in [Sockets -> [Contexts -> 0 .. SIZE + MaxLeft]]
  /\ fWakeup \in [Contexts -> BOOLEAN]
  /\ timer \in [Contexts -> {"none", "primed", "expired"}]
  /\ pc \in [Contexts ->
               {"idle", "look", "asleep", "post", "reading", "sleeping"}]
  /\ inCall \in [Contexts -> Calls]
  /\ moved \in [Contexts -> SUBSET Descriptors]

\* A deleted socket has no queue.
DeadEmpty ==
  \A s \in Sockets : ~Exists(s) =>
    ~ready[s] /\ \A t \in Contexts : fContexts[s][t] = 0

\* QueuedWhileWaiting, of one context.
Matched(t) ==
  \A s \in Sockets :
    /\ fContexts[s][t] > Due(t, s) /\ Exists(s) => <<t, s>> \in left
    /\ fContexts[s][t] < Due(t, s) /\ Exists(s) => moved[t] # {}

\* The sockets behind descriptors that are as they were have t in their queue.
QueuedUnmoved(t) ==
  \A fd \in inCall[t].want \ moved[t] :
    Socket(table, fd) \in Sockets => fContexts[Socket(table, fd)][t] > 0

\* SelectorWaits, of one context.
HearsAll(t) ==
  pc[t] = "asleep" /\ ~fWakeup[t]
  => /\ timer[t] # "expired"
     /\ \A fd \in inCall[t].want \ moved[t] :
          Socket(table, fd) \in Sockets /\ ~ready[Socket(table, fd)]

ContextGood(t) ==
  /\ pc[t] = "reading" => inCall[t].sock \in Sockets
  /\ ~Selecting(t) => moved[t] = {}
  /\ Matched(t)
  /\ Selecting(t) => QueuedUnmoved(t)
  /\ HearsAll(t)

SelectInv ==
  /\ TableInv
  /\ SelectTypes
  /\ DeadEmpty
  /\ \A t \in Contexts : ContextGood(t)

-----------------------------------------------------------------------------
LEMMA SlotSocket ==
  ASSUME NEW T, GoodTable(T), NEW fd \in Descriptors
  PROVE  /\ \A s \in Sockets : Socket(T, fd) = s <=> T.fSocket[fd] = s
         /\ Socket(T, fd) \in Sockets \cup {NoSocket}
<1>1. /\ T.fSocket[fd] \in Sockets \cup {NoSocket, Garbage}
      /\ T.fSocket[fd] = Garbage <=> fd >= T.fInvalidDescriptor
      /\ fd \in Nat /\ T.fInvalidDescriptor \in Nat
  BY DescriptorsFinite, SizeAssumption DEF GoodTable, CountedTable
<1>2. QED
  BY <1>1, SocketsAssumption DEF Socket

\* A socket exists as long as a descriptor leads to it.
LEMMA ExistsBehind ==
  ASSUME NEW T, GoodTable(T), NEW s \in Sockets
  PROVE  T.fRefCount[s] > 0 <=> \E fd \in Descriptors : Socket(T, fd) = s
<1>1. T.fRefCount[s] = Cardinality(SlotsIn(T, s))
  BY DEF GoodTable
<1>2. T.fRefCount[s] \in Nat /\ (T.fRefCount[s] = 0 <=> SlotsIn(T, s) = {})
  BY <1>1, SlotsFinite, SizeAssumption
<1>3. SlotsIn(T, s) # {} <=> \E fd \in Descriptors : Socket(T, fd) = s
  BY SlotSocket DEF SlotsIn
<1>4. QED
  BY <1>2, <1>3

LEMMA InstalledSlot ==
  ASSUME NEW T, GoodTable(T), NEW s \in Sockets, NEW start \in Descriptors,
         Room(T, start) # {}
  PROVE  LET fd == Lowest(Room(T, start))
             N == Installed(T, s, start)
         IN  /\ fd \in Descriptors /\ Socket(T, fd) = NoSocket
             /\ Socket(N, fd) = s
             /\ \A other \in Descriptors \ {fd} :
                  Socket(N, other) = Socket(T, other)
<1> DEFINE fd == Lowest(Room(T, start))
           N == Installed(T, s, start)
<1>1. /\ fd \in Descriptors /\ fd \in Room(T, start) /\ Socket(T, fd) = NoSocket
  BY LowestRoom DEF Room
<1>2. /\ N.fSocket = [[other \in Descriptors |->
                         IF other \in T.fInvalidDescriptor .. fd - 1
                         THEN NoSocket ELSE T.fSocket[other]] EXCEPT ![fd] = s]
      /\ N.fInvalidDescriptor
           = IF fd < T.fInvalidDescriptor THEN T.fInvalidDescriptor ELSE fd + 1
  BY DEF Installed
<1> HIDE DEF fd, N
<1>3. T.fInvalidDescriptor \in Nat /\ fd \in Nat /\ Descriptors \subseteq Nat
  BY <1>1, DescriptorsFinite, SizeAssumption DEF GoodTable, CountedTable
<1>4. Socket(N, fd) = s
  BY <1>1, <1>2, <1>3 DEF Socket
<1>5. ASSUME NEW other \in Descriptors \ {fd}
      PROVE  Socket(N, other) = Socket(T, other)
  <2>1. /\ other \in Nat /\ other # fd
        /\ N.fSocket[other] = IF other \in T.fInvalidDescriptor .. fd - 1
                              THEN NoSocket ELSE T.fSocket[other]
    BY <1>2, <1>3
  <2>2. CASE other < T.fInvalidDescriptor
    BY <1>2, <1>3, <2>1, <2>2 DEF Socket
  <2>3. CASE ~(other < T.fInvalidDescriptor)
    BY <1>2, <1>3, <2>1, <2>3 DEF Socket
  <2>4. QED
    BY <2>2, <2>3
<1>6. QED
  BY <1>1, <1>4, <1>5 DEF fd, N

LEMMA RemovedSlot ==
  ASSUME NEW T, GoodTable(T), NEW fd \in Descriptors, IsOpen(T, fd)
  PROVE  /\ Socket(Removed(T, fd), fd) = NoSocket
         /\ \A other \in Descriptors \ {fd} :
              Socket(Removed(T, fd), other) = Socket(T, other)
<1>1. Socket(Removed(T, fd), fd) = NoSocket
  BY RemovedGood
<1>2. /\ T \in CountedTable
      /\ Removed(T, fd).fInvalidDescriptor = T.fInvalidDescriptor
      /\ Removed(T, fd).fSocket = [T.fSocket EXCEPT ![fd] = NoSocket]
  BY DEF Removed, GoodTable, CountedTable
<1>3. QED
  BY <1>1, <1>2 DEF Socket, CountedTable

\* InstallSocket takes the descriptor that it is given if that is free.
LEMMA RoomAtStart ==
  ASSUME NEW T, GoodTable(T), NEW to \in Descriptors, Socket(T, to) = NoSocket
  PROVE  Room(T, to) # {} /\ Lowest(Room(T, to)) = to
<1> DEFINE low == Lowest(Room(T, to))
<1>1. to \in Room(T, to) /\ to \in Nat
  BY SizeAssumption DEF Room, Descriptors
<1>2. low \in Descriptors /\ to <= low /\ low <= to
  BY <1>1, LowestRoom
<1> HIDE DEF low
<1>3. low = to
  BY <1>1, <1>2, DescriptorsFinite
<1>4. QED
  BY <1>1, <1>3 DEF low

LEMMA WantedCount ==
  ASSUME NEW want \in SUBSET Descriptors, NEW s
  PROVE  /\ IsFiniteSet({fd \in want : Socket(table, fd) = s})
         /\ Wanted(want, s) \in 0 .. SIZE
         /\ Wanted(want, s) = 0 <=> \A fd \in want : Socket(table, fd) # s
<1> DEFINE S == {fd \in want : Socket(table, fd) = s}
<1>1. S \subseteq Descriptors
  OBVIOUS
<1>2. IsFiniteSet(S) /\ Cardinality(S) <= SIZE
  BY <1>1, DescriptorsFinite, FS_Subset
<1>3. Cardinality(S) \in Nat /\ (Cardinality(S) = 0 <=> S = {})
  BY <1>2, FS_CardinalityType, FS_EmptySet
<1>4. QED
  BY <1>2, <1>3, SizeAssumption DEF Wanted

\* Nothing is due from a socket that does not exist.
LEMMA NothingWanted ==
  ASSUME TableInv, NEW want \in SUBSET Descriptors, NEW s \in Sockets, ~Exists(s)
  PROVE  Wanted(want, s) = 0
BY WantedCount, ExistsBehind DEF TableInv, Exists

-----------------------------------------------------------------------------
(***************************************************************************)
(* The calls that change the table.                                        *)
(***************************************************************************)
OneSlot(fd) ==
  /\ GoodTable(table') /\ corrupt' \in BOOLEAN
  /\ \A other \in Descriptors \ {fd} : Socket(table', other) = Socket(table, other)
  /\ \A s \in Sockets :
       ~Exists(s) /\ Exists(s)' => \A t \in Contexts : inCall[t].sock # s
  /\ Destruct /\ Remember(fd)
  /\ ready' = [s \in Sockets |-> ready[s] /\ s \notin Deleted]
  /\ UNCHANGED <<timer, pc, inCall>>

LEMMA OneSlotEffect ==
  ASSUME SelectInv, NEW fd \in Descriptors, OneSlot(fd)
  PROVE  /\ SelectTypes'
         /\ \A s \in Sockets : s \in Deleted <=> Exists(s) /\ ~Exists(s)'
         /\ \A s \in Sockets : ready'[s] => ready[s] /\ s \notin Deleted
         /\ \A s \in Sockets, t \in Contexts :
              fContexts'[s][t] = IF s \in Deleted THEN 0 ELSE fContexts[s][t]
         /\ \A t \in Contexts : fWakeup'[t] <=>
              fWakeup[t] \/ \E s \in Deleted : fContexts[s][t] > 0
         /\ \A t \in Contexts : moved[t] \subseteq moved'[t]
         /\ \A t \in Contexts : ~Selecting(t) => moved'[t] = moved[t]
         /\ \A t \in Contexts :
              Selecting(t) /\ fd \in inCall[t].want \ moved'[t] =>
                table'.fSocket[fd] \notin Sockets /\ Socket(table, fd) \in Deleted
         /\ \A p \in left : p[2] \notin Deleted => p \in left'
         /\ \A t \in Contexts :
              /\ Selecting(t) /\ fd \in inCall[t].want
              /\ Socket(table, fd) \in Sockets \ Deleted
              => <<t, Socket(table, fd)>> \in left'
<1>1. /\ ready \in [Sockets -> BOOLEAN] /\ fWakeup \in [Contexts -> BOOLEAN]
      /\ fContexts \in [Sockets -> [Contexts -> 0 .. SIZE + MaxLeft]]
      /\ moved \in [Contexts -> SUBSET Descriptors]
  BY DEF SelectInv, SelectTypes
<1>2. \A s \in Sockets : s \in Deleted <=> Exists(s) /\ ~Exists(s)'
  <2>1. \A s \in Sockets : table'.fRefCount[s] \in Nat
    BY DEF OneSlot, GoodTable, CountedTable
  <2>2. \A s \in Sockets : table'.fRefCount[s] = 0 <=> ~(table'.fRefCount[s] > 0)
    BY <2>1
  <2>3. QED
    BY <2>2 DEF Deleted, Exists
<1>3. /\ ready' = [s \in Sockets |-> ready[s] /\ s \notin Deleted]
      /\ fContexts' = [s \in Sockets |->
                         IF s \in Deleted THEN [t \in Contexts |-> 0]
                                          ELSE fContexts[s]]
      /\ fWakeup' = [t \in Contexts |-> fWakeup[t]
                       \/ t \in UNION {Queued(s) : s \in Deleted}]
      /\ timer' = timer /\ pc' = pc /\ inCall' = inCall
  BY DEF OneSlot, Destruct, WakeAll
<1>4. \A t \in Contexts : t \in UNION {Queued(s) : s \in Deleted}
                            <=> \E s \in Deleted : fContexts[s][t] > 0
  BY DEF Queued
<1>5. /\ \A t \in Contexts :
           /\ moved[t] \subseteq moved'[t] /\ moved'[t] \subseteq moved[t] \cup {fd}
           /\ ~Selecting(t) => moved'[t] = moved[t]
           /\ Selecting(t) /\ fd \in inCall[t].want \ moved'[t] =>
                table'.fSocket[fd] \notin Sockets /\ Socket(table, fd) \in Deleted
      /\ DOMAIN moved' = Contexts /\ moved' = [t \in Contexts |-> moved'[t]]
  BY DEF OneSlot, Remember
<1>6. /\ \A p \in left : p[2] \notin Deleted => p \in left'
      /\ \A t \in Contexts :
           /\ Selecting(t) /\ fd \in inCall[t].want
           /\ Socket(table, fd) \in Sockets \ Deleted
           => <<t, Socket(table, fd)>> \in left'
  BY DEF OneSlot, Remember, IsOpen
<1>7. SelectTypes'
  <2>1. moved' \in [Contexts -> SUBSET Descriptors]
    BY <1>1, <1>5
  <2>2. fContexts' \in [Sockets -> [Contexts -> 0 .. SIZE + MaxLeft]]
    BY <1>1, <1>3, SizeAssumption, MaxLeftAssumption
  <2>3. fWakeup' \in [Contexts -> BOOLEAN] /\ ready' \in [Sockets -> BOOLEAN]
    BY <1>1, <1>3
  <2>4. QED
    BY <1>3, <2>1, <2>2, <2>3 DEF SelectInv, SelectTypes
<1>8. \A s \in Sockets, t \in Contexts :
        fContexts'[s][t] = IF s \in Deleted THEN 0 ELSE fContexts[s][t]
  BY <1>1, <1>3
<1>9. QED
  BY <1>1, <1>2, <1>3, <1>4, <1>5, <1>6, <1>7, <1>8

\* What is due changes with the descriptor only.
LEMMA OneSlotWanted ==
  ASSUME NEW fd \in Descriptors, NEW want \in SUBSET Descriptors,
         \A other \in Descriptors \ {fd} :
           Socket(table', other) = Socket(table, other),
         NEW s \in Sockets
  PROVE  /\ Wanted(want, s)' > Wanted(want, s)
              => fd \in want /\ Socket(table', fd) = s
         /\ Wanted(want, s)' < Wanted(want, s)
              => fd \in want /\ Socket(table, fd) = s /\ Socket(table', fd) # s
<1> DEFINE S == {d \in want : Socket(table, d) = s}
           N == {d \in want : Socket(table', d) = s}
<1>1. /\ IsFiniteSet(S) /\ IsFiniteSet(N)
      /\ Wanted(want, s) = Cardinality(S) /\ Wanted(want, s)' = Cardinality(N)
  <2>1. S \subseteq Descriptors /\ N \subseteq Descriptors
    OBVIOUS
  <2>2. IsFiniteSet(S) /\ IsFiniteSet(N)
    BY <2>1, DescriptorsFinite, FS_Subset
  <2>3. QED
    BY <2>2 DEF Wanted
<1>2. Cardinality(S) \in Nat /\ Cardinality(N) \in Nat
  BY <1>1, FS_CardinalityType
<1>3. ~(fd \in want /\ Socket(table', fd) = s) => N \subseteq S
  OBVIOUS
<1>4. ~(fd \in want /\ Socket(table, fd) = s /\ Socket(table', fd) # s)
        => S \subseteq N
  OBVIOUS
<1>5. /\ N \subseteq S => Cardinality(N) <= Cardinality(S)
      /\ S \subseteq N => Cardinality(S) <= Cardinality(N)
  BY <1>1, FS_Subset
<1> HIDE DEF S, N
<1>6. QED
  BY <1>1, <1>2, <1>3, <1>4, <1>5

LEMMA OneSlotKeeps ==
  ASSUME SelectInv, NEW fd \in Descriptors, OneSlot(fd)
  PROVE  SelectInv'
<1>1. /\ SelectTypes' /\ GoodTable(table) /\ GoodTable(table')
      /\ timer' = timer /\ pc' = pc /\ inCall' = inCall
      /\ \A other \in Descriptors \ {fd} :
           Socket(table', other) = Socket(table, other)
  BY OneSlotEffect DEF OneSlot, SelectInv, TableInv
<1>2. \A s \in Sockets : s \in Deleted <=> Exists(s) /\ ~Exists(s)'
  BY OneSlotEffect
<1>3. \A s \in Sockets, t \in Contexts :
        /\ fContexts'[s][t] = IF s \in Deleted THEN 0 ELSE fContexts[s][t]
        /\ fContexts[s][t] \in Nat
  <2>1. fContexts \in [Sockets -> [Contexts -> 0 .. SIZE + MaxLeft]]
    BY DEF SelectInv, SelectTypes
  <2>2. \A s \in Sockets, t \in Contexts : fContexts[s][t] \in Nat
    BY <2>1, SizeAssumption, MaxLeftAssumption
  <2>3. QED
    BY <2>2, OneSlotEffect
<1>4. TableInv'
  BY <1>1 DEF OneSlot, TableInv, GoodTable, SlotsIn
<1>5. DeadEmpty'
  <2>1. SUFFICES ASSUME NEW s \in Sockets, ~Exists(s)'
                 PROVE  ~ready'[s] /\ \A t \in Contexts : fContexts'[s][t] = 0
    BY DEF DeadEmpty
  <2>2. ready'[s] => ready[s] /\ s \notin Deleted
    BY OneSlotEffect
  <2>3. CASE Exists(s)
    BY <1>2, <1>3, <2>1, <2>2, <2>3
  <2>4. CASE ~Exists(s)
    BY <1>2, <1>3, <2>1, <2>2, <2>4 DEF SelectInv, DeadEmpty
  <2>5. QED
    BY <2>3, <2>4
<1>6. ASSUME NEW t \in Contexts
      PROVE  ContextGood(t)'
  <2> DEFINE want == inCall[t].want
  <2>1. /\ ContextGood(t) /\ want \in SUBSET Descriptors
        /\ Selecting(t)' <=> Selecting(t)
    BY <1>1 DEF SelectInv, SelectTypes, Calls, Selecting
  <2>2. /\ moved[t] \subseteq moved'[t]
        /\ ~Selecting(t) => moved'[t] = moved[t]
        /\ Selecting(t) /\ fd \in want \ moved'[t] =>
             table'.fSocket[fd] \notin Sockets /\ Socket(table, fd) \in Deleted
        /\ fWakeup'[t] <=> fWakeup[t] \/ \E s \in Deleted : fContexts[s][t] > 0
        /\ Selecting(t) /\ fd \in want /\ Socket(table, fd) \in Sockets \ Deleted
             => <<t, Socket(table, fd)>> \in left'
    BY OneSlotEffect
  <2>3. \A s \in Sockets : <<t, s>> \in left /\ s \notin Deleted => <<t, s>> \in left'
    BY OneSlotEffect
  <2>4. Socket(table', fd) \in Sockets => table'.fSocket[fd] = Socket(table', fd)
    BY <1>1, SlotSocket
  <2>5. \A s \in Sockets, d \in Descriptors :
          /\ Socket(table, d) = s => Exists(s)
          /\ Socket(table', d) = s => Exists(s)'
    BY <1>1, ExistsBehind DEF Exists
  \* A descriptor that t waits for, and that is as it was.
  <2>6. ASSUME Selecting(t), NEW d \in want \ moved'[t]
        PROVE  /\ d \in want \ moved[t] /\ d \in Descriptors
               /\ d # fd => Socket(table', d) = Socket(table, d)
               /\ d = fd => /\ Socket(table', d) \notin Sockets
                            /\ Socket(table, d) \in Deleted
    <3>1. d \in want \ moved[t] /\ d \in Descriptors
      BY <2>1, <2>2, <2>6
    <3>2. d = fd => /\ Socket(table', d) \notin Sockets
                    /\ Socket(table, d) \in Deleted
      BY <2>2, <2>4, <2>6
    <3>3. QED
      BY <1>1, <3>1, <3>2
  <2>7. Matched(t)'
    <3>1. SUFFICES ASSUME NEW s \in Sockets, Exists(s)'
                   PROVE  /\ fContexts'[s][t] > Due(t, s)' => <<t, s>> \in left'
                          /\ fContexts'[s][t] < Due(t, s)' => moved'[t] # {}
      BY DEF Matched
    <3>2. s \notin Deleted /\ fContexts'[s][t] = fContexts[s][t]
      BY <1>2, <1>3, <3>1
    <3>3. /\ fContexts[s][t] > Due(t, s) /\ Exists(s) => <<t, s>> \in left
          /\ fContexts[s][t] < Due(t, s) /\ Exists(s) => moved[t] # {}
      BY <2>1 DEF ContextGood, Matched
    <3>4. ~Exists(s) => fContexts[s][t] = 0
      BY DEF SelectInv, DeadEmpty
    <3>5. CASE Selecting(t)
      <4>1. Due(t, s) = Wanted(want, s) /\ Due(t, s)' = Wanted(want, s)'
        BY <1>1, <2>1, <3>5 DEF Due
      <4>2. /\ Wanted(want, s) \in Nat
            /\ Wanted(want, s)' \in Nat
            /\ ~Exists(s) => Wanted(want, s) = 0
        <5>1. {d \in want : Socket(table', d) = s} \subseteq Descriptors
          BY <2>1
        <5>2. IsFiniteSet({d \in want : Socket(table', d) = s})
          BY <5>1, DescriptorsFinite, FS_Subset
        <5>3. Wanted(want, s)' \in Nat
          BY <1>1, <5>2, FS_CardinalityType DEF Wanted
        <5>4. Wanted(want, s) \in 0 .. SIZE
          BY <2>1, WantedCount
        <5>5. ~Exists(s) => Wanted(want, s) = 0
          BY <2>1, NothingWanted DEF SelectInv
        <5>6. QED
          BY <5>3, <5>4, <5>5, SizeAssumption
      <4>3. Wanted(want, s)' > Wanted(want, s)
              => fd \in want /\ Socket(table', fd) = s
        BY <1>1, <2>1, OneSlotWanted
      <4>4. Wanted(want, s)' < Wanted(want, s)
              => fd \in want /\ Socket(table, fd) = s
        BY <1>1, <2>1, OneSlotWanted
      <4>5. CASE Wanted(want, s)' = Wanted(want, s)
        BY <2>2, <2>3, <3>1, <3>2, <3>3, <3>4, <4>1, <4>2, <4>5
      <4>6. CASE Wanted(want, s)' > Wanted(want, s)
        <5>1. fd \in moved'[t]
          BY <2>2, <2>4, <3>5, <4>3, <4>6
        <5>2. fContexts'[s][t] > Due(t, s)' => <<t, s>> \in left'
          BY <1>3, <2>3, <3>2, <3>3, <3>4, <4>1, <4>2, <4>6
        <5>3. QED
          BY <5>1, <5>2
      <4>7. CASE Wanted(want, s)' < Wanted(want, s)
        <5>1. <<t, s>> \in left'
          BY <2>2, <3>2, <3>5, <4>4, <4>7
        <5>2. Exists(s)
          BY <2>5, <4>4, <4>7
        <5>3. fContexts'[s][t] < Due(t, s)' => moved'[t] # {}
          BY <1>3, <2>2, <3>2, <3>3, <4>1, <4>2, <4>7, <5>2
        <5>4. QED
          BY <5>1, <5>3
      <4>8. QED
        BY <4>2, <4>5, <4>6, <4>7
    <3>6. CASE ~Selecting(t)
      <4>1. Due(t, s)' = Due(t, s)
        BY <1>1, <2>1, <3>6 DEF Due
      <4>2. ~Exists(s) => Due(t, s) = 0
        <5>1. ~Exists(s) => inCall[t].sock # s
          BY <3>1 DEF OneSlot
        <5>2. QED
          BY <3>6, <5>1 DEF Due
      <4>3. QED
        BY <2>2, <2>3, <3>2, <3>3, <3>4, <3>6, <4>1, <4>2
    <3>7. QED
      BY <3>5, <3>6
  <2>8. Selecting(t) => QueuedUnmoved(t)'
    <3>1. SUFFICES ASSUME Selecting(t), NEW d \in want \ moved'[t],
                          Socket(table', d) \in Sockets
                   PROVE  fContexts'[Socket(table', d)][t] > 0
      BY <1>1 DEF QueuedUnmoved
    <3>2. /\ d \in want \ moved[t] /\ d \in Descriptors
          /\ Socket(table', d) = Socket(table, d)
      BY <2>6, <3>1
    <3>3. fContexts[Socket(table, d)][t] > 0
      BY <2>1, <3>1, <3>2 DEF ContextGood, QueuedUnmoved
    <3>4. Socket(table, d) \notin Deleted
      BY <1>2, <2>5, <3>1, <3>2
    <3>5. QED
      BY <1>3, <3>1, <3>2, <3>3, <3>4
  <2>9. HearsAll(t)'
    <3>1. SUFFICES ASSUME pc[t] = "asleep", ~fWakeup'[t]
                   PROVE  /\ timer[t] # "expired"
                          /\ \A d \in want \ moved'[t] :
                               /\ Socket(table', d) \in Sockets
                               /\ ~ready'[Socket(table', d)]
      BY <1>1 DEF HearsAll
    <3>2. /\ Selecting(t) /\ ~fWakeup[t]
          /\ \A s \in Deleted : ~(fContexts[s][t] > 0)
      BY <2>2, <3>1 DEF Selecting
    <3>3. /\ timer[t] # "expired" /\ QueuedUnmoved(t)
          /\ \A d \in want \ moved[t] :
               Socket(table, d) \in Sockets /\ ~ready[Socket(table, d)]
      BY <2>1, <3>1, <3>2 DEF ContextGood, HearsAll
    <3>4. ASSUME NEW d \in want \ moved'[t]
          PROVE  Socket(table', d) \in Sockets /\ ~ready'[Socket(table', d)]
      <4>1. d \in want \ moved[t]
        BY <2>6, <3>2
      <4>2. /\ Socket(table, d) \in Sockets /\ ~ready[Socket(table, d)]
            /\ fContexts[Socket(table, d)][t] > 0
        BY <3>3, <4>1 DEF QueuedUnmoved
      <4>3. Socket(table, d) \notin Deleted
        BY <3>2, <4>2
      <4>4. Socket(table', d) = Socket(table, d)
        BY <2>6, <3>2, <4>3
      <4>5. ready'[Socket(table, d)] => ready[Socket(table, d)]
        BY <4>2, OneSlotEffect
      <4>6. QED
        BY <4>2, <4>4, <4>5
    <3>5. QED
      BY <3>3, <3>4
  <2>10. /\ pc'[t] = "reading" => inCall'[t].sock \in Sockets
         /\ ~Selecting(t) => moved'[t] = {}
    BY <1>1, <2>1, <2>2 DEF ContextGood
  <2>11. QED
    BY <2>1, <2>7, <2>8, <2>9, <2>10 DEF ContextGood
<1>7. QED
  BY <1>1, <1>4, <1>5, <1>6 DEF SelectInv

\* A call that deletes nothing leaves the queues alone.
LEMMA NothingDestroyed ==
  ASSUME SelectInv, \A s \in Sockets : Exists(s) => Exists(s)',
         UNCHANGED <<ready, fContexts, fWakeup>>
  PROVE  Destruct /\ ready' = [s \in Sockets |-> ready[s] /\ s \notin Deleted]
<1>1. /\ ready \in [Sockets -> BOOLEAN] /\ fWakeup \in [Contexts -> BOOLEAN]
      /\ fContexts \in [Sockets -> [Contexts -> 0 .. SIZE + MaxLeft]]
  BY DEF SelectInv, SelectTypes
<1>2. Deleted = {}
  BY DEF Deleted, Exists
<1>3. ready = [s \in Sockets |-> ready[s] /\ s \notin Deleted]
  BY <1>1, <1>2
<1>4. fContexts = [s \in Sockets |-> IF s \in Deleted THEN [t \in Contexts |-> 0]
                                                     ELSE fContexts[s]]
  BY <1>1, <1>2
<1>5. fWakeup = [t \in Contexts |->
                   fWakeup[t] \/ t \in UNION {Queued(s) : s \in Deleted}]
  BY <1>1, <1>2
<1>6. QED
  BY <1>3, <1>4, <1>5 DEF Destruct, WakeAll

LEMMA CloseOneSlot ==
  ASSUME SelectInv, NEW t \in Contexts, NEW fd \in Descriptors, CloseSocket(t, fd)
  PROVE  OneSlot(fd)
<1>1. GoodTable(table) /\ corrupt \in BOOLEAN
  BY DEF SelectInv, TableInv
<1>2. IsOpen(table, fd) /\ table' = Removed(table, fd) /\ corrupt' = corrupt
  BY DEF CloseSocket, Close
<1>3. /\ GoodTable(table')
      /\ \A other \in Descriptors \ {fd} :
           Socket(table', other) = Socket(table, other)
  <2>1. GoodTable(table')
    BY <1>1, <1>2, RemovedGood
  <2>2. \A other \in Descriptors \ {fd} :
           Socket(table', other) = Socket(table, other)
    BY <1>1, <1>2, RemovedSlot
  <2>3. QED
    BY <2>1, <2>2
<1>4. ASSUME NEW s \in Sockets, ~Exists(s)
      PROVE  ~Exists(s)'
  <2>1. /\ table'.fRefCount
             = [table.fRefCount EXCEPT ![Socket(table, fd)] = @ - 1]
        /\ table.fRefCount[Socket(table, fd)] > 0
    BY <1>1, <1>2, RemovedGood
  <2>2. table.fRefCount \in [Sockets -> Nat] /\ ~(table.fRefCount[s] > 0)
    BY <1>1, <1>4 DEF GoodTable, CountedTable, Exists
  <2>3. s # Socket(table, fd)
    BY <2>1, <2>2
  <2>4. QED
    BY <2>1, <2>2, <2>3 DEF Exists
<1>5. QED
  BY <1>1, <1>2, <1>3, <1>4 DEF OneSlot, CloseSocket

\* dup and socket.
LEMMA InstallOneSlot ==
  ASSUME SelectInv, NEW s \in Sockets, NEW start \in Descriptors,
         Room(table, start) # {}, table' = Installed(table, s, start),
         Exists(s) \/ \A u \in Contexts : inCall[u].sock # s,
         Remember(Lowest(Room(table, start))),
         UNCHANGED <<corrupt, ready, fContexts, threadVars>>
  PROVE  /\ Lowest(Room(table, start)) \in Descriptors
         /\ OneSlot(Lowest(Room(table, start)))
<1> DEFINE fd == Lowest(Room(table, start))
<1>1. GoodTable(table) /\ corrupt \in BOOLEAN
  BY DEF SelectInv, TableInv
<1>2. /\ fd \in Descriptors
      /\ \A other \in Descriptors \ {fd} :
           Socket(table', other) = Socket(table, other)
  BY <1>1, InstalledSlot
<1>3. /\ GoodTable(table')
      /\ table'.fRefCount = [table.fRefCount EXCEPT ![s] = @ + 1]
  BY <1>1, InstalledGood
<1>4. \A other \in Sockets : Exists(other) => Exists(other)'
  <2>1. table.fRefCount \in [Sockets -> Nat]
    BY <1>1 DEF GoodTable, CountedTable
  <2>2. QED
    BY <1>3, <2>1 DEF Exists
<1>5. \A other \in Sockets : ~Exists(other) /\ Exists(other)' => other = s
  <2>1. table.fRefCount \in [Sockets -> Nat]
    BY <1>1 DEF GoodTable, CountedTable
  <2>2. QED
    BY <1>3, <2>1 DEF Exists
<1>6. Destruct /\ ready' = [x \in Sockets |-> ready[x] /\ x \notin Deleted]
  BY <1>4, NothingDestroyed DEF threadVars
<1>7. timer' = timer /\ pc' = pc /\ inCall' = inCall
  BY DEF threadVars
<1>8. \A other \in Sockets :
        ~Exists(other) /\ Exists(other)' => \A u \in Contexts : inCall[u].sock # other
  BY <1>5
<1> HIDE DEF fd
<1>9. QED
  <2>1. Remember(fd) /\ corrupt' \in BOOLEAN
    BY <1>1 DEF fd
  <2>2. OneSlot(fd)
    BY <1>2, <1>3, <1>6, <1>7, <1>8, <2>1 DEF OneSlot
  <2>3. QED
    BY <1>2, <2>2 DEF fd

LEMMA Dup2OneSlot ==
  ASSUME SelectInv, NEW t \in Contexts,
         NEW fd \in Descriptors, NEW to \in Descriptors,
         Dup2Socket(t, fd, to), ~corrupt'
  PROVE  OneSlot(to)
<1> DEFINE s == Socket(table, fd)
           E == IF IsOpen(table, to) THEN Removed(table, to) ELSE table
<1>1. GoodTable(table) /\ corrupt = FALSE /\ s \in Sockets
  BY DEF SelectInv, TableInv, Dup2Socket, At, Dup2, IsOpen
<1>2. table' = Installed(E, s, to) /\ corrupt' = corrupt
  BY DEF Dup2Socket, Dup2, Corrupted
<1>3. /\ GoodTable(E) /\ Room(E, to) # {} /\ Socket(E, to) = NoSocket
      /\ \A other \in Descriptors \ {to} :
           Socket(E, other) = Socket(table, other)
      /\ \A x \in Sockets : E.fRefCount[x] > 0 => Exists(x)
  <2>1. GoodTable(E) /\ Room(E, to) # {}
    BY <1>1, Emptied
  <2>2. CASE IsOpen(table, to)
    <3>1. /\ Socket(Removed(table, to), to) = NoSocket
          /\ \A other \in Descriptors \ {to} :
               Socket(Removed(table, to), other) = Socket(table, other)
          /\ Removed(table, to).fRefCount
               = [table.fRefCount EXCEPT ![Socket(table, to)] = @ - 1]
          /\ table.fRefCount[Socket(table, to)] > 0
      BY <1>1, <2>2, RemovedSlot, RemovedGood
    <3>2. table.fRefCount \in [Sockets -> Nat]
      BY <1>1 DEF GoodTable, CountedTable
    <3>3. \A x \in Sockets : Removed(table, to).fRefCount[x] > 0 => Exists(x)
      BY <3>1, <3>2 DEF Exists
    <3>4. QED
      BY <2>1, <2>2, <3>1, <3>3
  <2>3. CASE ~IsOpen(table, to)
    <3>1. Socket(table, to) = NoSocket
      BY <1>1, <2>3, SlotSocket DEF IsOpen
    <3>2. QED
      BY <2>1, <2>3, <3>1 DEF Exists
  <2>4. QED
    BY <2>2, <2>3
<1> HIDE DEF E
<1>4. Lowest(Room(E, to)) = to
  BY <1>3, RoomAtStart
<1>5. \A other \in Descriptors \ {to} :
        Socket(table', other) = Socket(table, other)
  BY <1>1, <1>2, <1>3, <1>4, InstalledSlot
<1>6. /\ GoodTable(table')
      /\ table'.fRefCount = [E.fRefCount EXCEPT ![s] = @ + 1]
  BY <1>1, <1>2, <1>3, InstalledGood
<1>7. \A x \in Sockets : Exists(x)' => Exists(x)
  <2>1. Exists(s)
    BY <1>1, ExistsBehind DEF Exists
  <2>2. \A x \in Sockets : x # s => table'.fRefCount[x] = E.fRefCount[x]
    <3>1. E.fRefCount \in [Sockets -> Nat]
      BY <1>3 DEF GoodTable, CountedTable
    <3>2. QED
      BY <1>6, <3>1
  <2>3. QED
    BY <1>3, <2>1, <2>2 DEF Exists
<1>8. QED
  BY <1>1, <1>2, <1>5, <1>6, <1>7 DEF OneSlot, Dup2Socket

\* A step that leaves all but corrupt as it was.
Halts ==
  /\ corrupt' \in BOOLEAN
  /\ UNCHANGED <<table, ready, fContexts, fWakeup, history, timer, pc, inCall>>

LEMMA HaltsKeeps ==
  ASSUME SelectInv, Halts
  PROVE  SelectInv'
<1> USE DEF Halts
<1>1. TableInv'
  BY DEF SelectInv, TableInv, GoodTable, SlotsIn
<1>2. SelectTypes' /\ DeadEmpty'
  BY DEF SelectInv, SelectTypes, DeadEmpty, Exists, history
<1>3. \A t \in Contexts : ContextGood(t)'
  BY DEF SelectInv, ContextGood, Matched, QueuedUnmoved, HearsAll, Due, Wanted,
         Selecting, Exists, history
<1>4. QED
  BY <1>1, <1>2, <1>3 DEF SelectInv

\* The table steps of one thread.
LEMMA TableCalls ==
  ASSUME SelectInv, NEW t \in Contexts,
         \/ \E fd \in Descriptors : CloseSocket(t, fd) \/ DupSocket(t, fd)
         \/ \E fd, to \in Descriptors : Dup2Socket(t, fd, to)
         \/ \E s \in Sockets : OpenSocket(t, s)
  PROVE  Halts \/ \E fd \in Descriptors : OneSlot(fd)
<1>1. ASSUME NEW fd \in Descriptors, CloseSocket(t, fd)
      PROVE  OneSlot(fd)
  BY <1>1, CloseOneSlot
<1>2. ASSUME NEW fd \in Descriptors, DupSocket(t, fd)
      PROVE  \E low \in Descriptors : OneSlot(low)
  <2>1. /\ Socket(table, fd) \in Sockets /\ 0 \in Descriptors
        /\ Room(table, 0) # {}
        /\ table' = Installed(table, Socket(table, fd), 0)
        /\ Remember(Lowest(Room(table, 0)))
        /\ UNCHANGED <<corrupt, ready, fContexts, threadVars>>
    BY <1>2 DEF DupSocket, Dup, IsOpen
  <2>2. Exists(Socket(table, fd))
    BY <2>1, ExistsBehind DEF SelectInv, TableInv, Exists
  <2>3. QED
    BY <2>1, <2>2, InstallOneSlot
<1>3. ASSUME NEW fd \in Descriptors, NEW to \in Descriptors,
             Dup2Socket(t, fd, to)
      PROVE  Halts \/ OneSlot(to)
  <2>1. CASE ~corrupt'
    BY <1>3, <2>1, Dup2OneSlot
  <2>2. CASE corrupt'
    <3>1. corrupt' \in BOOLEAN /\ table' = table
      BY <1>3, <2>2 DEF Dup2Socket, Dup2, Corrupted, At
    <3>2. UNCHANGED <<ready, fContexts, fWakeup, history, timer, pc, inCall>>
      BY <1>3, <2>2 DEF Dup2Socket
    <3>3. QED
      BY <3>1, <3>2 DEF Halts
  <2>3. QED
    BY <2>1, <2>2
<1>4. ASSUME NEW s \in Sockets, OpenSocket(t, s)
      PROVE  \E low \in Descriptors : OneSlot(low)
  <2>1. /\ 0 \in Descriptors /\ Room(table, 0) # {}
        /\ table' = Installed(table, s, 0)
        /\ \A u \in Contexts : inCall[u].sock # s
        /\ Remember(Lowest(Room(table, 0)))
        /\ UNCHANGED <<corrupt, ready, fContexts, threadVars>>
    BY <1>4, SizeAssumption DEF OpenSocket, Descriptors
  <2>2. QED
    BY <2>1, InstallOneSlot
<1>5. QED
  BY <1>1, <1>2, <1>3, <1>4

-----------------------------------------------------------------------------
(***************************************************************************)
(* The steps of a call that waits.                                         *)
(***************************************************************************)
OwnStep(t) ==
  /\ UNCHANGED <<table, left>> /\ corrupt' \in BOOLEAN
  /\ SelectTypes'
  /\ \A s \in Sockets : ready'[s] => ready[s]
  /\ \A s \in Sockets : ~Exists(s) => fContexts'[s][t] = 0
  /\ \A u \in Contexts \ {t} :
       /\ \A s \in Sockets : fContexts'[s][u] = fContexts[s][u]
       /\ fWakeup'[u] = fWakeup[u] /\ timer'[u] = timer[u] /\ pc'[u] = pc[u]
       /\ inCall'[u] = inCall[u] /\ moved'[u] = moved[u]
  /\ ContextGood(t)'

LEMMA OwnStepKeeps ==
  ASSUME SelectInv, NEW t \in Contexts, OwnStep(t)
  PROVE  SelectInv'
<1>1. /\ table' = table /\ left' = left /\ SelectTypes'
      /\ \A s \in Sockets : ready'[s] => ready[s]
      /\ \A s \in Sockets : Exists(s)' <=> Exists(s)
  BY DEF OwnStep, Exists
<1>2. TableInv'
  BY <1>1 DEF OwnStep, SelectInv, TableInv, GoodTable, SlotsIn
<1>3. DeadEmpty'
  <2>1. \A s \in Sockets, u \in Contexts :
          ~Exists(s) => fContexts'[s][u] = 0 /\ ~ready'[s]
    BY <1>1 DEF OwnStep, SelectInv, DeadEmpty
  <2>2. QED
    BY <1>1, <2>1 DEF DeadEmpty, SelectInv
<1>4. ASSUME NEW u \in Contexts \ {t}
      PROVE  ContextGood(u)'
  <2>1. /\ \A s \in Sockets : fContexts'[s][u] = fContexts[s][u]
        /\ fWakeup'[u] = fWakeup[u] /\ timer'[u] = timer[u] /\ pc'[u] = pc[u]
        /\ inCall'[u] = inCall[u] /\ moved'[u] = moved[u]
        /\ ContextGood(u)
    BY DEF OwnStep, SelectInv
  <2>2. \A s \in Sockets : Due(u, s)' = Due(u, s)
    BY <1>1, <2>1 DEF Due, Selecting, Wanted
  <2>3. Matched(u)'
    BY <1>1, <2>1, <2>2 DEF Matched, ContextGood
  <2>4. Selecting(u)' => QueuedUnmoved(u)'
    BY <1>1, <2>1 DEF QueuedUnmoved, ContextGood, Selecting
  <2>5. HearsAll(u)'
    BY <1>1, <2>1 DEF HearsAll, ContextGood
  <2>6. QED
    BY <2>1, <2>3, <2>4, <2>5 DEF ContextGood, Selecting
<1>5. QED
  BY <1>1, <1>2, <1>3, <1>4 DEF SelectInv, OwnStep

\* What the steps read of one context.
LEMMA ContextTypes ==
  ASSUME SelectInv, NEW t \in Contexts
  PROVE  /\ table \in CountedTable /\ corrupt \in BOOLEAN
         /\ inCall[t] \in Calls /\ inCall[t].want \in SUBSET Descriptors
         /\ \A s \in Sockets : /\ fContexts[s][t] \in 0 .. SIZE + MaxLeft
                               /\ fContexts[s][t] \in Nat
                               /\ ~Exists(s) => fContexts[s][t] = 0
         /\ SIZE \in Nat /\ MaxLeft \in Nat
         /\ ContextGood(t)
BY SizeAssumption, MaxLeftAssumption
  DEF SelectInv, SelectTypes, DeadEmpty, TableInv, GoodTable, Calls

\* A call is over, and its context is only left where a descriptor moved.
LEMMA Over ==
  ASSUME SelectInv, NEW t \in Contexts, Leave(t), table' = table, left' = left,
         NEW W, fWakeup' = [fWakeup EXCEPT ![t] = W], W \in BOOLEAN,
         ready' \in [Sockets -> BOOLEAN], \A s \in Sockets : ready'[s] => ready[s],
         corrupt' = corrupt,
         fContexts' \in [Sockets -> [Contexts -> 0 .. SIZE + MaxLeft]],
         \A s \in Sockets, u \in Contexts \ {t} :
           fContexts'[s][u] = fContexts[s][u],
         \A s \in Sockets : ~Exists(s) => fContexts'[s][t] = 0,
         \A s \in Sockets : Exists(s) /\ fContexts'[s][t] > 0 => <<t, s>> \in left
  PROVE  OwnStep(t) /\ pc'[t] = "idle"
<1>1. /\ timer' = [timer EXCEPT ![t] = "none"]
      /\ inCall' = [inCall EXCEPT ![t] = NoCall]
      /\ moved' = [moved EXCEPT ![t] = {}]
      /\ pc' = [pc EXCEPT ![t] = "idle"]
  BY DEF Leave, Goto
<1>2. SelectTypes
  BY DEF SelectInv
<1>3. NoCall \in Calls
  BY DEF NoCall, Calls
<1>4. SelectTypes'
  BY <1>1, <1>2, <1>3 DEF SelectTypes
<1>5. /\ pc'[t] = "idle" /\ moved'[t] = {}
      /\ \A u \in Contexts \ {t} :
           /\ fWakeup'[u] = fWakeup[u] /\ timer'[u] = timer[u] /\ pc'[u] = pc[u]
           /\ inCall'[u] = inCall[u] /\ moved'[u] = moved[u]
  BY <1>1, <1>2 DEF SelectTypes
<1>6. ContextGood(t)'
  <2>1. \A s \in Sockets : Due(t, s)' = 0
    BY <1>5 DEF Due, Selecting
  <2>2. \A s \in Sockets : fContexts'[s][t] \in Nat
    <3>1. \A s \in Sockets : fContexts'[s][t] \in 0 .. SIZE + MaxLeft
      OBVIOUS
    <3>2. QED
      BY <3>1, SizeAssumption, MaxLeftAssumption
  <2>3. Matched(t)'
    BY <2>1, <2>2 DEF Matched, Exists
  <2>4. QED
    BY <1>5, <2>3 DEF ContextGood, HearsAll, Selecting
<1>7. corrupt' \in BOOLEAN
  BY ContextTypes
<1>8. QED
  BY <1>4, <1>5, <1>6, <1>7 DEF OwnStep

LEMMA SelectOwn ==
  ASSUME SelectInv, NEW t \in Contexts, NEW want \in SUBSET Descriptors,
         NEW mode \in {"forever", "timed", "poll"}, Select(t, want, mode)
  PROVE  OwnStep(t) /\ pc'[t] = "look"
<1>1. /\ pc[t] = "idle" /\ table' = table /\ left' = left /\ corrupt' = corrupt
      /\ ready' = ready /\ fWakeup' = fWakeup
      /\ \A s \in Sockets : fContexts[s][t] <= MaxLeft
      /\ \A fd \in want : IsOpen(table, fd)
      /\ fContexts' = [s \in Sockets |->
                         [fContexts[s] EXCEPT ![t] = @ + Wanted(want, s)]]
      /\ timer' = [timer EXCEPT ![t] = IF mode = "timed" THEN "primed" ELSE "none"]
      /\ inCall' = [inCall EXCEPT ![t] =
                      [want |-> want, mode |-> mode, sock |-> NoSocket]]
      /\ moved' = [moved EXCEPT ![t] = {}]
      /\ pc' = [pc EXCEPT ![t] = "look"]
  BY DEF Select, At, MayWait, AddContexts, Goto, tableVars
<1>2. SelectTypes /\ ContextGood(t)
  BY DEF SelectInv
<1>3. /\ \A s \in Sockets : Wanted(want, s) \in 0 .. SIZE
      /\ \A s \in Sockets : ~Exists(s) => Wanted(want, s) = 0
  BY WantedCount, NothingWanted DEF SelectInv
<1>4. \A s \in Sockets :
        /\ fContexts'[s][t] = fContexts[s][t] + Wanted(want, s)
        /\ fContexts'[s][t] \in 0 .. SIZE + MaxLeft
        /\ \A u \in Contexts \ {t} : fContexts'[s][u] = fContexts[s][u]
  <2>1. \A s \in Sockets : fContexts[s] \in [Contexts -> 0 .. SIZE + MaxLeft]
    BY <1>2 DEF SelectTypes
  <2>2. ASSUME NEW s \in Sockets
        PROVE  fContexts'[s][t] = fContexts[s][t] + Wanted(want, s)
    BY <1>1, <2>1
  <2>3. QED
    BY <1>1, <1>3, <2>1, <2>2, ContextTypes
<1>5. fContexts' \in [Sockets -> [Contexts -> 0 .. SIZE + MaxLeft]]
  <2>1. \A s \in Sockets : fContexts'[s] \in [Contexts -> 0 .. SIZE + MaxLeft]
    <3>1. SUFFICES ASSUME NEW s \in Sockets
                   PROVE  fContexts'[s] \in [Contexts -> 0 .. SIZE + MaxLeft]
      OBVIOUS
    <3>2. /\ fContexts[s] \in [Contexts -> 0 .. SIZE + MaxLeft]
          /\ fContexts'[s] = [fContexts[s] EXCEPT ![t] = @ + Wanted(want, s)]
      BY <1>1, <1>2 DEF SelectTypes
    <3>3. QED
      BY <1>4, <3>2
  <2>2. QED
    BY <1>1, <2>1
<1>6. SelectTypes'
  <2>1. [want |-> want, mode |-> mode, sock |-> NoSocket] \in Calls
    BY DEF Calls
  <2>2. QED
    BY <1>1, <1>2, <1>5, <2>1 DEF SelectTypes
<1>7. /\ pc'[t] = "look" /\ moved'[t] = {}
      /\ inCall'[t] = [want |-> want, mode |-> mode, sock |-> NoSocket]
      /\ \A u \in Contexts \ {t} :
           /\ fWakeup'[u] = fWakeup[u] /\ timer'[u] = timer[u] /\ pc'[u] = pc[u]
           /\ inCall'[u] = inCall[u] /\ moved'[u] = moved[u]
  BY <1>1, <1>2 DEF SelectTypes
<1>8. ContextGood(t)'
  <2>1. \A s \in Sockets : Due(t, s) = 0 /\ Due(t, s)' = Wanted(want, s)
    <3>1. inCall'[t].want = want /\ Selecting(t)' /\ ~Selecting(t)
      BY <1>1, <1>7 DEF Selecting
    <3>2. \A s \in Sockets : Due(t, s)' = Wanted(inCall[t].want, s)'
      BY <3>1 DEF Due
    <3>3. \A s \in Sockets : Wanted(inCall[t].want, s)' = Wanted(want, s)
      BY <1>1, <3>1 DEF Wanted
    <3>4. \A s \in Sockets : Due(t, s) = 0
      BY <1>1, <3>1 DEF Due
    <3>5. QED
      BY <3>2, <3>3, <3>4
  <2>2. Matched(t)'
    <3>1. SUFFICES ASSUME NEW s \in Sockets, Exists(s)
                   PROVE  /\ fContexts'[s][t] > Due(t, s)' => <<t, s>> \in left
                          /\ ~(fContexts'[s][t] < Due(t, s)')
      BY <1>1 DEF Matched, Exists
    <3>2. fContexts[s][t] > 0 => <<t, s>> \in left
      BY <1>2, <2>1, <3>1 DEF ContextGood, Matched
    <3>3. QED
      BY <1>3, <1>4, <2>1, <3>2, ContextTypes
  <2>3. QueuedUnmoved(t)'
    <3>1. SUFFICES ASSUME NEW fd \in want, Socket(table, fd) \in Sockets
                   PROVE  fContexts'[Socket(table, fd)][t] > 0
      BY <1>1, <1>7 DEF QueuedUnmoved
    <3>2. Wanted(want, Socket(table, fd)) # 0
      BY WantedCount
    <3>3. QED
      BY <1>3, <1>4, <3>1, <3>2, ContextTypes
  <2>4. QED
    BY <1>7, <2>2, <2>3 DEF ContextGood, HearsAll, Selecting
<1>9. \A s \in Sockets : ~Exists(s) => fContexts'[s][t] = 0
  BY <1>3, <1>4, ContextTypes
<1>10. OwnStep(t)
  <2>1. corrupt' \in BOOLEAN
    BY <1>1, ContextTypes
  <2>2. QED
    BY <1>1, <1>4, <1>6, <1>7, <1>8, <1>9, <2>1 DEF OwnStep
<1>11. QED
  BY <1>7, <1>10

\* post_select takes the context out of every queue where it still stands for
\* a descriptor of the select.
LEMMA PostSelectOver ==
  ASSUME SelectInv, NEW t \in Contexts, Selecting(t), PostSelect(t),
         NEW W, fWakeup' = [fWakeup EXCEPT ![t] = W], W \in BOOLEAN,
         UNCHANGED <<table, corrupt, ready, left>>
  PROVE  OwnStep(t) /\ pc'[t] = "idle"
<1> DEFINE want == inCall[t].want
<1>1. /\ Leave(t) /\ want \in SUBSET Descriptors
      /\ fContexts' = [s \in Sockets |->
                         [fContexts[s] EXCEPT
                            ![t] = IF @ > Wanted(want, s)
                                   THEN @ - Wanted(want, s) ELSE 0]]
  BY ContextTypes DEF PostSelect, RemoveContexts
<1>2. SelectTypes /\ ContextGood(t)
  BY DEF SelectInv
<1>3. \A s \in Sockets : Wanted(want, s) \in 0 .. SIZE
  BY <1>1, WantedCount
<1> HIDE DEF want
<1>4. \A s \in Sockets :
        /\ fContexts'[s][t] = IF fContexts[s][t] > Wanted(want, s)
                              THEN fContexts[s][t] - Wanted(want, s) ELSE 0
        /\ \A u \in Contexts \ {t} : fContexts'[s][u] = fContexts[s][u]
  <2>1. \A s \in Sockets : fContexts[s] \in [Contexts -> 0 .. SIZE + MaxLeft]
    BY <1>2 DEF SelectTypes
  <2>2. QED
    BY <1>1, <2>1
<1>5. \A s \in Sockets : fContexts'[s][t] \in 0 .. SIZE + MaxLeft
  <2>1. SUFFICES ASSUME NEW s \in Sockets
                 PROVE  fContexts'[s][t] \in 0 .. SIZE + MaxLeft
    OBVIOUS
  <2>2. /\ Wanted(want, s) \in Nat
        /\ fContexts[s][t] \in 0 .. SIZE + MaxLeft
        /\ SIZE \in Nat /\ MaxLeft \in Nat
    BY <1>3, ContextTypes
  <2>3. fContexts'[s][t] = IF fContexts[s][t] > Wanted(want, s)
                           THEN fContexts[s][t] - Wanted(want, s) ELSE 0
    BY <1>4
  <2>4. QED
    BY <2>2, <2>3
<1>6. fContexts' \in [Sockets -> [Contexts -> 0 .. SIZE + MaxLeft]]
  <2>1. \A s \in Sockets : fContexts'[s] \in [Contexts -> 0 .. SIZE + MaxLeft]
    <3>1. SUFFICES ASSUME NEW s \in Sockets
                   PROVE  fContexts'[s] \in [Contexts -> 0 .. SIZE + MaxLeft]
      OBVIOUS
    <3>2. /\ fContexts[s] \in [Contexts -> 0 .. SIZE + MaxLeft]
          /\ fContexts'[s] = [fContexts[s] EXCEPT ![t] = fContexts'[s][t]]
      BY <1>1, <1>2, <1>4 DEF SelectTypes
    <3>3. QED
      BY <1>5, <3>2
  <2>2. QED
    BY <1>1, <2>1
<1>7. \A s \in Sockets : ~Exists(s) => fContexts'[s][t] = 0
  BY <1>3, <1>4, ContextTypes
<1>8. \A s \in Sockets : Exists(s) /\ fContexts'[s][t] > 0 => <<t, s>> \in left
  <2>1. SUFFICES ASSUME NEW s \in Sockets, Exists(s), fContexts'[s][t] > 0
                 PROVE  <<t, s>> \in left
    OBVIOUS
  <2>2. fContexts[s][t] > Wanted(want, s)
    BY <1>4, <2>1
  <2>3. Due(t, s) = Wanted(want, s)
    BY DEF Due, want
  <2>4. QED
    BY <1>2, <2>1, <2>2, <2>3 DEF ContextGood, Matched
<1>9. ready' \in [Sockets -> BOOLEAN] /\ \A s \in Sockets : ready'[s] => ready[s]
  BY <1>2 DEF SelectTypes
<1>10. QED
  BY <1>1, <1>4, <1>6, <1>7, <1>8, <1>9, Over

\* A context only moves on within its call.
LEMMA Proceeds ==
  ASSUME SelectInv, NEW t \in Contexts, NEW label \in {"look", "asleep", "post"},
         Selecting(t), pc' = [pc EXCEPT ![t] = label],
         NEW W, fWakeup' = [fWakeup EXCEPT ![t] = W], W \in BOOLEAN,
         UNCHANGED <<table, corrupt, ready, fContexts, timer, inCall, moved, left>>,
         HearsAll(t)'
  PROVE  OwnStep(t) /\ pc'[t] = label
<1>1. SelectTypes /\ ContextGood(t)
  BY DEF SelectInv
<1>2. SelectTypes'
  BY <1>1 DEF SelectTypes
<1>3. /\ pc'[t] = label
      /\ \A u \in Contexts \ {t} : fWakeup'[u] = fWakeup[u] /\ pc'[u] = pc[u]
  BY <1>1 DEF SelectTypes
<1>4. Selecting(t)' /\ \A s \in Sockets : Due(t, s)' = Due(t, s)
  BY <1>3 DEF Due, Selecting, Wanted
<1>5. ContextGood(t)'
  <2>1. Matched(t)'
    BY <1>1, <1>4 DEF ContextGood, Matched, Exists
  <2>2. QueuedUnmoved(t)'
    BY <1>1 DEF ContextGood, QueuedUnmoved
  <2>3. QED
    BY <1>3, <1>4, <2>1, <2>2 DEF ContextGood
<1>6. /\ corrupt' \in BOOLEAN
      /\ \A s \in Sockets : ~Exists(s) => fContexts'[s][t] = 0
  BY ContextTypes
<1>7. QED
  BY <1>2, <1>3, <1>5, <1>6 DEF OwnStep

\* select_once, pre_select and post_select.
LEMMA SelectSteps ==
  ASSUME SelectInv, NEW t \in Contexts,
         \/ Look(t) \/ LookOnce(t) \/ AfterYield(t) \/ WakesUp(t)
         \/ SelectInterrupted(t)
  PROVE  OwnStep(t) /\ pc'[t] # "sleeping"
<1>1. SelectTypes /\ fWakeup \in [Contexts -> BOOLEAN]
  BY DEF SelectInv, SelectTypes
<1>2. fWakeup = [fWakeup EXCEPT ![t] = fWakeup[t]] /\ fWakeup[t] \in BOOLEAN
  BY <1>1
<1>3. CASE Look(t)
  <2>1. /\ Selecting(t) /\ UNCHANGED <<table, corrupt, ready, left>>
        /\ fWakeup' = [fWakeup EXCEPT ![t] = fWakeup[t]]
    BY <1>2, <1>3 DEF Look, At, Selecting, tableVars
  <2>2. CASE Answers(t)
    BY <1>2, <1>3, <2>1, <2>2, PostSelectOver DEF Look
  <2>3. CASE ~Answers(t)
    <3>1. pc' = [pc EXCEPT ![t] = "asleep"]
          /\ UNCHANGED <<fContexts, timer, inCall, moved>>
      BY <1>3, <2>3 DEF Look, Goto
    <3>2. HearsAll(t)'
      BY <2>1, <2>3, <3>1 DEF HearsAll, Answers, Finds
    <3>3. QED
      BY <1>2, <2>1, <3>1, <3>2, Proceeds
  <2>4. QED
    BY <2>2, <2>3
<1>4. CASE LookOnce(t)
  <2>1. /\ Selecting(t) /\ pc' = [pc EXCEPT ![t] = "post"]
        /\ UNCHANGED <<table, corrupt, ready, fContexts, timer, inCall, moved, left>>
        /\ fWakeup' = [fWakeup EXCEPT ![t] = fWakeup[t]]
    BY <1>2, <1>4 DEF LookOnce, At, Goto, Selecting, tableVars, history
  <2>2. HearsAll(t)'
    BY <1>1, <2>1 DEF HearsAll, SelectTypes
  <2>3. QED
    BY <1>2, <2>1, <2>2, Proceeds
<1>5. CASE AfterYield(t)
  <2>1. /\ Selecting(t) /\ UNCHANGED <<table, corrupt, ready, left>>
        /\ PostSelect(t)
    BY <1>5 DEF AfterYield, At, Selecting, tableVars
  <2>2. \E W \in BOOLEAN : fWakeup' = [fWakeup EXCEPT ![t] = W]
    BY <1>2, <1>5 DEF AfterYield
  <2>3. QED
    BY <2>1, <2>2, PostSelectOver
<1>6. CASE WakesUp(t)
  <2>1. /\ Selecting(t) /\ pc' = [pc EXCEPT ![t] = "look"]
        /\ UNCHANGED <<table, corrupt, ready, fContexts, timer, inCall, moved, left>>
        /\ fWakeup' = [fWakeup EXCEPT ![t] = FALSE]
    BY <1>6 DEF WakesUp, At, Goto, Selecting, tableVars, history
  <2>2. HearsAll(t)'
    BY <1>1, <2>1 DEF HearsAll, SelectTypes
  <2>3. QED
    BY <2>1, <2>2, Proceeds
<1>7. CASE SelectInterrupted(t)
  <2>1. /\ Selecting(t) /\ UNCHANGED <<table, corrupt, ready, left>>
        /\ PostSelect(t) /\ fWakeup' = [fWakeup EXCEPT ![t] = FALSE]
    BY <1>7 DEF SelectInterrupted, At, Selecting, tableVars
  <2>2. QED
    BY <2>1, PostSelectOver
<1>8. QED
  BY <1>3, <1>4, <1>5, <1>6, <1>7

LEMMA BeginReadOwn ==
  ASSUME SelectInv, NEW t \in Contexts, NEW fd \in Descriptors, BeginRead(t, fd)
  PROVE  OwnStep(t) /\ pc'[t] # "sleeping"
<1> DEFINE s == Socket(table, fd)
<1>1. /\ s \in Sockets /\ pc[t] = "idle"
      /\ UNCHANGED <<table, corrupt, fWakeup, timer, moved, left>>
      /\ \A x \in Sockets : fContexts[x][t] <= MaxLeft
  BY DEF BeginRead, IsOpen, At, MayWait, tableVars, history
<1>2. SelectTypes /\ ContextGood(t)
  BY DEF SelectInv
<1>3. Exists(s)
  BY <1>1, ExistsBehind DEF SelectInv, TableInv, Exists
<1>4. CASE ready[s]
  <2>1. ready' = [ready EXCEPT ![s] = FALSE] /\ UNCHANGED <<fContexts, pc, inCall>>
    BY <1>4 DEF BeginRead
  <2>2. SelectTypes' /\ \A x \in Sockets : ready'[x] => ready[x]
    BY <1>1, <1>2, <2>1 DEF SelectTypes
  <2>3. \A x \in Sockets : Due(t, x)' = Due(t, x)
    BY <1>1, <2>1 DEF Due, Selecting
  <2>4. Matched(t)'
    BY <1>1, <1>2, <2>1, <2>3 DEF ContextGood, Matched, Exists
  <2>5. ContextGood(t)'
    BY <1>1, <1>2, <2>1, <2>4 DEF ContextGood, HearsAll, Selecting
  <2>6. QED
    BY <1>1, <2>1, <2>2, <2>5, ContextTypes DEF OwnStep
<1>5. CASE ~ready[s]
  <2>1. /\ ready' = ready /\ fContexts' = [fContexts EXCEPT ![s][t] = @ + 1]
        /\ inCall' = [inCall EXCEPT ![t] = [NoCall EXCEPT !.mode = "read", !.sock = s]]
        /\ pc' = [pc EXCEPT ![t] = "reading"]
    BY <1>5 DEF BeginRead, Goto
  <2>2. /\ [NoCall EXCEPT !.mode = "read", !.sock = s] \in Calls
        /\ [NoCall EXCEPT !.mode = "read", !.sock = s].sock = s
    BY <1>1 DEF NoCall, Calls
  <2>3. /\ pc'[t] = "reading" /\ inCall'[t].sock = s /\ moved'[t] = {}
        /\ \A u \in Contexts \ {t} : pc'[u] = pc[u] /\ inCall'[u] = inCall[u]
    BY <1>1, <1>2, <2>1, <2>2 DEF SelectTypes, ContextGood, Selecting
  <2> HIDE DEF s
  <2>4. \A x \in Sockets :
          /\ fContexts'[x][t] = IF x = s THEN fContexts[x][t] + 1 ELSE fContexts[x][t]
          /\ \A u \in Contexts \ {t} : fContexts'[x][u] = fContexts[x][u]
    <3>1. \A x \in Sockets : fContexts[x] \in [Contexts -> 0 .. SIZE + MaxLeft]
      BY <1>2 DEF SelectTypes
    <3>2. fContexts \in [Sockets -> [Contexts -> 0 .. SIZE + MaxLeft]]
      BY <1>2 DEF SelectTypes
    <3>3. QED
      BY <1>1, <2>1, <3>1, <3>2
  <2>5. SelectTypes'
    <3>1. fContexts[s][t] + 1 \in 0 .. SIZE + MaxLeft
      BY <1>1, ContextTypes, SizeAssumption
    <3>2. fContexts' \in [Sockets -> [Contexts -> 0 .. SIZE + MaxLeft]]
      <4>1. fContexts \in [Sockets -> [Contexts -> 0 .. SIZE + MaxLeft]]
        BY <1>2 DEF SelectTypes
      <4>2. [fContexts[s] EXCEPT ![t] = fContexts[s][t] + 1]
              \in [Contexts -> 0 .. SIZE + MaxLeft]
        BY <1>1, <3>1, <4>1
      <4>3. QED
        BY <1>1, <2>1, <4>1, <4>2
    <3>3. QED
      BY <1>1, <1>2, <2>1, <2>2, <3>2 DEF SelectTypes
  <2>6. Matched(t)'
    <3>1. SUFFICES ASSUME NEW x \in Sockets, Exists(x)
                   PROVE  /\ fContexts'[x][t] > Due(t, x)' => <<t, x>> \in left
                          /\ ~(fContexts'[x][t] < Due(t, x)')
      BY <1>1 DEF Matched, Exists
    <3>2. Due(t, x) = 0 /\ Due(t, x)' = IF x = s THEN 1 ELSE 0
      BY <1>1, <2>3 DEF Due, Selecting
    <3>3. fContexts[x][t] > 0 => <<t, x>> \in left
      BY <1>2, <3>1, <3>2 DEF ContextGood, Matched
    <3>4. QED
      BY <2>4, <3>2, <3>3, ContextTypes
  <2>7. ContextGood(t)'
    BY <1>1, <2>3, <2>6 DEF ContextGood, HearsAll, Selecting
  <2>8. \A x \in Sockets : ~Exists(x) => fContexts'[x][t] = 0
    BY <1>3, <2>4, ContextTypes
  <2>9. QED
    BY <1>1, <2>1, <2>3, <2>4, <2>5, <2>7, <2>8, ContextTypes DEF OwnStep
<1>6. QED
  BY <1>4, <1>5

\* A context that waits for a socket stands in its queue.
LEMMA DequeueOver ==
  ASSUME SelectInv, NEW t \in Contexts, pc[t] = "reading",
         Exists(inCall[t].sock), Dequeue(t),
         fWakeup' = [fWakeup EXCEPT ![t] = FALSE],
         ready' \in [Sockets -> BOOLEAN], \A s \in Sockets : ready'[s] => ready[s],
         UNCHANGED <<table, corrupt, left>>
  PROVE  OwnStep(t) /\ pc'[t] = "idle"
<1> DEFINE sock == inCall[t].sock
<1>1. /\ Leave(t) /\ fContexts' = [fContexts EXCEPT ![sock][t] = @ - 1]
  BY DEF Dequeue
<1>2. SelectTypes /\ ContextGood(t) /\ sock \in Sockets /\ moved[t] = {}
  BY DEF SelectInv, ContextGood, Selecting
<1>3. \A s \in Sockets : Due(t, s) = IF s = sock THEN 1 ELSE 0
  BY DEF Due, Selecting
<1> HIDE DEF sock
<1>4. fContexts[sock][t] >= 1
  <2>1. ~(fContexts[sock][t] < 1)
    BY <1>2, <1>3 DEF ContextGood, Matched, sock
  <2>2. QED
    BY <1>2, <2>1, ContextTypes
<1>5. fContexts \in [Sockets -> [Contexts -> 0 .. SIZE + MaxLeft]]
  BY <1>2 DEF SelectTypes
<1>6. \A s \in Sockets :
        /\ fContexts'[s][t] = IF s = sock THEN fContexts[s][t] - 1
                                          ELSE fContexts[s][t]
        /\ \A u \in Contexts \ {t} : fContexts'[s][u] = fContexts[s][u]
  <2>1. \A s \in Sockets : fContexts[s] \in [Contexts -> 0 .. SIZE + MaxLeft]
    BY <1>5
  <2>2. QED
    BY <1>1, <1>2, <1>5, <2>1
<1>7. fContexts' \in [Sockets -> [Contexts -> 0 .. SIZE + MaxLeft]]
  <2>1. fContexts[sock][t] - 1 \in 0 .. SIZE + MaxLeft
    BY <1>2, <1>4, ContextTypes
  <2>2. [fContexts[sock] EXCEPT ![t] = fContexts[sock][t] - 1]
          \in [Contexts -> 0 .. SIZE + MaxLeft]
    BY <1>2, <1>5, <2>1
  <2>3. QED
    BY <1>1, <1>2, <1>5, <2>2
<1>8. \A s \in Sockets : ~Exists(s) => fContexts'[s][t] = 0
  BY <1>6, ContextTypes DEF sock
<1>9. \A s \in Sockets : Exists(s) /\ fContexts'[s][t] > 0 => <<t, s>> \in left
  <2>1. SUFFICES ASSUME NEW s \in Sockets, Exists(s), fContexts'[s][t] > 0
                 PROVE  <<t, s>> \in left
    OBVIOUS
  <2>2. fContexts[s][t] > Due(t, s)
    BY <1>3, <1>6, <2>1, ContextTypes
  <2>3. QED
    BY <1>2, <2>1, <2>2 DEF ContextGood, Matched
<1>10. QED
  BY <1>1, <1>6, <1>7, <1>8, <1>9, Over

LEMMA ReadSteps ==
  ASSUME SelectInv, NEW t \in Contexts, ReadOn(t) \/ ReadInterrupted(t)
  PROVE  Halts \/ (OwnStep(t) /\ pc'[t] # "sleeping")
<1> DEFINE s == inCall[t].sock
<1>1. /\ SelectTypes /\ ContextGood(t) /\ pc[t] = "reading"
      /\ s \in Sockets /\ ready \in [Sockets -> BOOLEAN]
  BY DEF SelectInv, SelectTypes, ContextGood, ReadOn, ReadInterrupted, At
<1>2. CASE ReadInterrupted(t)
  <2>1. /\ Exists(s) /\ fWakeup' = [fWakeup EXCEPT ![t] = FALSE] /\ Dequeue(t)
        /\ UNCHANGED <<table, corrupt, ready, left>>
    BY <1>2 DEF ReadInterrupted, tableVars
  <2>2. QED
    BY <1>1, <2>1, DequeueOver
<1>3. CASE ReadOn(t) /\ ~Exists(s)
  <2>1. Corrupted /\ UNCHANGED <<ready, fContexts, threadVars, history>>
    BY <1>3 DEF ReadOn
  <2>2. corrupt' = TRUE /\ table' = table
    BY <2>1 DEF Corrupted
  <2>3. UNCHANGED <<ready, fContexts, fWakeup, moved, left, timer, pc, inCall>>
    BY <2>1 DEF threadVars, history
  <2>4. QED
    BY <2>2, <2>3 DEF Halts, history
<1>4. CASE ReadOn(t) /\ Exists(s)
  <2>1. /\ fWakeup' = [fWakeup EXCEPT ![t] = FALSE]
        /\ UNCHANGED <<table, corrupt, left>>
        /\ IF ready[s]
           THEN ready' = [ready EXCEPT ![s] = FALSE] /\ Dequeue(t)
           ELSE UNCHANGED <<ready, fContexts, timer, pc, inCall, moved>>
    BY <1>4 DEF ReadOn, tableVars
  <2>2. CASE ready[s]
    <3>1. /\ ready' \in [Sockets -> BOOLEAN]
          /\ \A x \in Sockets : ready'[x] => ready[x]
      BY <1>1, <2>1, <2>2
    <3>2. QED
      BY <1>1, <1>4, <2>1, <2>2, <3>1, DequeueOver
  <2>3. CASE ~ready[s]
    <3>1. SelectTypes'
      BY <1>1, <2>1, <2>3 DEF SelectTypes
    <3>2. \A x \in Sockets : Due(t, x)' = Due(t, x)
      BY <1>1, <2>1, <2>3 DEF Due, Selecting
    <3>3. Matched(t)'
      BY <1>1, <2>1, <2>3, <3>2 DEF ContextGood, Matched, Exists
    <3>4. ContextGood(t)'
      BY <1>1, <2>1, <2>3, <3>3 DEF ContextGood, HearsAll, Selecting
    <3>5. \A u \in Contexts \ {t} : fWakeup'[u] = fWakeup[u]
      BY <1>1, <2>1 DEF SelectTypes
    <3>6. QED
      BY <1>1, <2>1, <2>3, <3>1, <3>4, <3>5, ContextTypes DEF OwnStep
  <2>4. QED
    BY <2>2, <2>3
<1>5. QED
  BY <1>2, <1>3, <1>4

LEMMA SleepSteps ==
  ASSUME SelectInv, NEW t \in Contexts,
         Sleep(t) \/ SleepInterrupted(t) \/ SleepEnds(t)
  PROVE  OwnStep(t) /\ (pc'[t] = "sleeping" => ~fWakeup'[t])
<1>1. SelectTypes /\ ContextGood(t) /\ fWakeup' = [fWakeup EXCEPT ![t] = FALSE]
      /\ UNCHANGED <<table, corrupt, ready, fContexts, left>>
  BY DEF SelectInv, Sleep, ClearWakeups, SleepInterrupted, SleepEnds,
         tableVars, history
<1>2. \A s \in Sockets : Exists(s) /\ fContexts[s][t] > Due(t, s) => <<t, s>> \in left
  BY <1>1 DEF ContextGood, Matched
<1>3. CASE Sleep(t)
  <2>1. /\ pc[t] = "idle" /\ moved' = moved
        /\ timer' = [timer EXCEPT ![t] = "primed"]
        /\ inCall' = [inCall EXCEPT ![t] = [NoCall EXCEPT !.mode = "sleep"]]
        /\ pc' = [pc EXCEPT ![t] = "sleeping"]
    BY <1>3 DEF Sleep, Goto, At, history
  <2>2. [NoCall EXCEPT !.mode = "sleep"] \in Calls
    BY DEF NoCall, Calls
  <2>3. SelectTypes'
    BY <1>1, <2>1, <2>2 DEF SelectTypes
  <2>4. /\ pc'[t] = "sleeping" /\ ~fWakeup'[t]
        /\ \A u \in Contexts \ {t} :
             /\ fWakeup'[u] = fWakeup[u] /\ timer'[u] = timer[u] /\ pc'[u] = pc[u]
             /\ inCall'[u] = inCall[u] /\ moved'[u] = moved[u]
    BY <1>1, <2>1 DEF SelectTypes
  <2>5. \A s \in Sockets : Due(t, s) = 0 /\ Due(t, s)' = 0
    BY <2>1, <2>4 DEF Due, Selecting
  <2>6. ContextGood(t)'
    <3>1. Matched(t)'
      BY <1>1, <2>1, <2>5 DEF ContextGood, Matched, Exists
    <3>2. QED
      BY <1>1, <2>1, <2>4, <3>1 DEF ContextGood, HearsAll, Selecting
  <2>7. QED
    BY <1>1, <2>3, <2>4, <2>6, ContextTypes DEF OwnStep
<1>4. CASE SleepInterrupted(t) \/ SleepEnds(t)
  <2>1. Leave(t) /\ pc[t] = "sleeping"
    BY <1>4 DEF SleepInterrupted, SleepEnds, At
  <2>2. \A s \in Sockets : Due(t, s) = 0
    BY <2>1 DEF Due, Selecting
  <2>3. \A s \in Sockets : Exists(s) /\ fContexts'[s][t] > 0 => <<t, s>> \in left
    BY <1>1, <1>2, <2>2
  <2>4. /\ ready' \in [Sockets -> BOOLEAN]
        /\ fContexts' \in [Sockets -> [Contexts -> 0 .. SIZE + MaxLeft]]
    BY <1>1 DEF SelectTypes
  <2>5. OwnStep(t) /\ pc'[t] = "idle"
    BY <1>1, <2>1, <2>3, <2>4, ContextTypes, Over
  <2>6. QED
    BY <2>5
<1>5. QED
  BY <1>3, <1>4

-----------------------------------------------------------------------------
(***************************************************************************)
(* Interrupts, and the invariant.                                          *)
(***************************************************************************)
LEMMA SocketEventKeeps ==
  ASSUME SelectInv, NEW s \in Sockets, SocketEvent(s)
  PROVE  SelectInv'
<1>1. /\ Exists(s) /\ ready' = [ready EXCEPT ![s] = TRUE]
      /\ fWakeup' = [t \in Contexts |-> fWakeup[t] \/ t \in Queued(s)]
      /\ UNCHANGED <<table, corrupt, fContexts, timer, pc, inCall, moved, left>>
  BY DEF SocketEvent, WakeAll, tableVars, history
<1>2. SelectTypes /\ DeadEmpty /\ TableInv
  BY DEF SelectInv
<1>3. TableInv'
  BY <1>1, <1>2 DEF TableInv, GoodTable, SlotsIn
<1>4. SelectTypes'
  BY <1>1, <1>2 DEF SelectTypes
<1>5. DeadEmpty'
  <2>1. ASSUME NEW x \in Sockets, ~Exists(x)
        PROVE  x # s /\ ready'[x] = ready[x]
    BY <1>1, <1>2, <2>1 DEF SelectTypes
  <2>2. QED
    BY <1>1, <1>2, <2>1 DEF DeadEmpty, Exists
<1>6. ASSUME NEW t \in Contexts
      PROVE  ContextGood(t)'
  <2>1. ContextGood(t)
    BY DEF SelectInv
  <2>2. fWakeup'[t] <=> fWakeup[t] \/ fContexts[s][t] > 0
    BY <1>1 DEF Queued
  <2>3. Matched(t)'
    BY <1>1, <2>1 DEF ContextGood, Matched, Due, Wanted, Selecting, Exists
  <2>4. Selecting(t)' => QueuedUnmoved(t)'
    BY <1>1, <2>1 DEF ContextGood, QueuedUnmoved, Selecting
  <2>5. HearsAll(t)'
    <3>1. SUFFICES ASSUME pc[t] = "asleep", ~fWakeup'[t]
                   PROVE  /\ timer[t] # "expired"
                          /\ \A fd \in inCall[t].want \ moved[t] :
                               /\ Socket(table, fd) \in Sockets
                               /\ ~ready'[Socket(table, fd)]
      BY <1>1 DEF HearsAll
    <3>2. /\ QueuedUnmoved(t) /\ ~fWakeup[t] /\ ~(fContexts[s][t] > 0)
          /\ timer[t] # "expired"
          /\ \A fd \in inCall[t].want \ moved[t] :
               Socket(table, fd) \in Sockets /\ ~ready[Socket(table, fd)]
      BY <2>1, <2>2, <3>1 DEF ContextGood, HearsAll, Selecting
    <3>3. \A fd \in inCall[t].want \ moved[t] : Socket(table, fd) # s
      BY <3>2 DEF QueuedUnmoved
    <3>4. QED
      BY <1>1, <1>2, <3>2, <3>3 DEF SelectTypes
  <2>6. QED
    BY <1>1, <2>1, <2>3, <2>4, <2>5 DEF ContextGood, Selecting
<1>7. QED
  BY <1>3, <1>4, <1>5, <1>6 DEF SelectInv

LEMMA TimerExpiresOwn ==
  ASSUME SelectInv, NEW t \in Contexts, TimerExpires(t)
  PROVE  OwnStep(t) /\ timer'[t] = "expired"
<1>1. /\ timer' = [timer EXCEPT ![t] = "expired"]
      /\ fWakeup' = [u \in Contexts |-> fWakeup[u] \/ u \in {t}]
      /\ UNCHANGED <<table, corrupt, ready, fContexts, pc, inCall, moved, left>>
  BY DEF TimerExpires, WakeAll, tableVars, history
<1>2. SelectTypes /\ ContextGood(t)
  BY DEF SelectInv
<1>3. SelectTypes'
  BY <1>1, <1>2 DEF SelectTypes
<1>4. /\ fWakeup'[t] /\ timer'[t] = "expired"
      /\ \A u \in Contexts \ {t} : fWakeup'[u] = fWakeup[u] /\ timer'[u] = timer[u]
  BY <1>1, <1>2 DEF SelectTypes
<1>5. ContextGood(t)'
  <2>1. Matched(t)'
    BY <1>1, <1>2 DEF ContextGood, Matched, Due, Wanted, Selecting, Exists
  <2>2. Selecting(t)' => QueuedUnmoved(t)'
    BY <1>1, <1>2 DEF ContextGood, QueuedUnmoved, Selecting
  <2>3. QED
    BY <1>1, <1>2, <1>4, <2>1, <2>2 DEF ContextGood, HearsAll, Selecting
<1>6. QED
  BY <1>1, <1>3, <1>4, <1>5, ContextTypes DEF OwnStep

LEMMA SelectInitInv == SelectInit => SelectInv
<1> SUFFICES ASSUME SelectInit PROVE SelectInv
  OBVIOUS
<1>1. /\ ready = [s \in Sockets |-> FALSE]
      /\ fContexts = [s \in Sockets |-> [t \in Contexts |-> 0]]
      /\ fWakeup = [t \in Contexts |-> FALSE]
      /\ timer = [t \in Contexts |-> "none"]
      /\ pc = [t \in Contexts |-> "idle"]
      /\ inCall = [t \in Contexts |-> NoCall]
      /\ moved = [t \in Contexts |-> {}]
  BY DEF SelectInit
<1>2. TableInv
  BY TableInitInv DEF SelectInit
<1>3. SelectTypes
  <2>1. 0 \in 0 .. SIZE + MaxLeft /\ NoCall \in Calls
    BY SizeAssumption, MaxLeftAssumption DEF NoCall, Calls
  <2>2. QED
    BY <1>1, <2>1 DEF SelectTypes
<1>4. DeadEmpty
  BY <1>1 DEF DeadEmpty
<1>5. ASSUME NEW t \in Contexts
      PROVE  ContextGood(t)
  <2>1. pc[t] = "idle" /\ moved[t] = {} /\ \A s \in Sockets : fContexts[s][t] = 0
    BY <1>1
  <2>2. \A s \in Sockets : Due(t, s) = 0
    BY <2>1 DEF Due, Selecting
  <2>3. QED
    BY <2>1, <2>2 DEF ContextGood, Matched, HearsAll, Selecting
<1>6. QED
  BY <1>2, <1>3, <1>4, <1>5 DEF SelectInv

\* Every step is of one of five kinds.
LEMMA StepKinds ==
  ASSUME SelectInv, SelectNext
  PROVE  \/ Halts
         \/ \E fd \in Descriptors : OneSlot(fd)
         \/ \E t \in Contexts :
              OwnStep(t) /\ (pc'[t] = "sleeping" => ~fWakeup'[t])
         \/ \E t \in Contexts : OwnStep(t) /\ timer'[t] = "expired"
         \/ \E s \in Sockets : SocketEvent(s)
<1>1. CASE \E s \in Sockets : SocketEvent(s)
  BY <1>1
<1>2. ASSUME NEW t \in Contexts,
             Begins(t) \/ Continues(t) \/ SelectInterrupted(t)
             \/ ReadInterrupted(t) \/ SleepInterrupted(t)
      PROVE  \/ Halts
             \/ \E fd \in Descriptors : OneSlot(fd)
             \/ OwnStep(t) /\ (pc'[t] = "sleeping" => ~fWakeup'[t])
  <2>1. CASE \/ \E fd \in Descriptors : CloseSocket(t, fd) \/ DupSocket(t, fd)
             \/ \E fd, to \in Descriptors : Dup2Socket(t, fd, to)
             \/ \E s \in Sockets : OpenSocket(t, s)
    BY <2>1, TableCalls
  <2>2. CASE \E fd \in Descriptors : BeginRead(t, fd)
    BY <2>2, BeginReadOwn
  <2>3. CASE \E want \in SUBSET Descriptors, mode \in {"forever", "timed", "poll"} :
               Select(t, want, mode)
    BY <2>3, SelectOwn
  <2>4. CASE \/ Look(t) \/ LookOnce(t) \/ AfterYield(t) \/ WakesUp(t)
             \/ SelectInterrupted(t)
    BY <2>4, SelectSteps
  <2>5. CASE ReadOn(t) \/ ReadInterrupted(t)
    BY <2>5, ReadSteps
  <2>6. CASE Sleep(t) \/ SleepInterrupted(t) \/ SleepEnds(t)
    BY <2>6, SleepSteps
  <2>7. QED
    BY <1>2, <2>1, <2>2, <2>3, <2>4, <2>5, <2>6 DEF Begins, Continues
<1>3. ASSUME NEW t \in Contexts, TimerExpires(t)
      PROVE  OwnStep(t) /\ timer'[t] = "expired"
  BY <1>3, TimerExpiresOwn
<1>4. QED
  BY <1>1, <1>2, <1>3 DEF SelectNext

LEMMA SelectNextInv == SelectInv /\ [SelectNext]_selectVars => SelectInv'
<1> SUFFICES ASSUME SelectInv, [SelectNext]_selectVars PROVE SelectInv'
  OBVIOUS
<1>1. CASE SelectNext
  BY <1>1, StepKinds, HaltsKeeps, OneSlotKeeps, OwnStepKeeps, SocketEventKeeps
<1>2. CASE UNCHANGED selectVars
  <2>1. Halts
    BY <1>2 DEF SelectInv, TableInv, Halts, selectVars, tableVars, threadVars
  <2>2. QED
    BY <2>1, HaltsKeeps
<1>3. QED
  BY <1>1, <1>2

LEMMA SelectInvariant == SelectSpec => []SelectInv
BY SelectInitInv, SelectNextInv, PTL DEF SelectSpec

\* The values of the variables; a socket that is deleted has nobody in its
\* queue and is not ready.
THEOREM SelectTyped == SelectSpec => []SelectTypeOK
<1>1. SelectInv => SelectTypeOK
  <2>1. SUFFICES ASSUME SelectInv PROVE SelectTypeOK
    OBVIOUS
  <2>2. TableTypeOK
    BY <2>1, GoodIsTyped DEF SelectInv, TableInv, TableTypeOK, GoodTable
  <2>3. \A s \in Sockets : ~Exists(s) => Queued(s) = {} /\ ~ready[s]
    BY <2>1 DEF SelectInv, DeadEmpty, Queued
  <2>4. QED
    BY <2>1, <2>2, <2>3 DEF SelectInv, SelectTypes, SelectTypeOK
<1>2. QED
  BY <1>1, SelectInvariant, PTL

\* A context is in the queue of a socket as often as its call waits for it:
\* what AddContext did RemoveContext undoes, on every way out of select, a
\* read or sleep (GUSISocket.cpp, GUSIPOSIX.cpp:660), except where a
\* descriptor of the select was closed, or opened again, meanwhile.
THEOREM QueuesMatchWaits == SelectSpec => []QueuedWhileWaiting
<1>1. SelectInv => QueuedWhileWaiting
  BY DEF SelectInv, ContextGood, Matched, QueuedWhileWaiting
<1>2. QED
  BY <1>1, SelectInvariant, PTL

\* A thread that sleeps in select has nothing to wake up for, or has been woken
\* already: no event falls between select_once, which finds nothing, and Yield
\* (GUSIPOSIX.cpp:634).
THEOREM SelectHearsEvents == SelectSpec => []SelectorWaits
<1>1. SelectInv => SelectorWaits
  BY DEF SelectInv, ContextGood, HearsAll, SelectorWaits
<1>2. QED
  BY <1>1, SelectInvariant, PTL

\* sleep lasts until its timer or a signal ends it (GUSIPOSIX.cpp:159), unless
\* an earlier select has left the context in the queue of a socket.
THEOREM SleepsLong == SelectSpec => SleepUndisturbed
<1> DEFINE Long == \A t \in Contexts :
             /\ pc'[t] = "sleeping" /\ fWakeup'[t]
             /\ ~(pc[t] = "sleeping" /\ fWakeup[t])
             => \/ timer'[t] = "expired"
                \/ \E s \in Sockets : <<t, s>> \in left
<1>1. ASSUME SelectInv, [SelectNext]_selectVars
      PROVE  [Long]_selectVars
  <2>1. SUFFICES ASSUME SelectNext, NEW t \in Contexts,
                        pc'[t] = "sleeping", fWakeup'[t],
                        ~(pc[t] = "sleeping" /\ fWakeup[t])
                 PROVE  \/ timer'[t] = "expired"
                        \/ \E s \in Sockets : <<t, s>> \in left
    BY <1>1
  \* Whoever is woken by a socket stands in its queue.
  <2>2. ASSUME NEW s \in Sockets, Exists(s), fContexts[s][t] > 0, pc[t] = "sleeping"
        PROVE  <<t, s>> \in left
    <3>1. Due(t, s) = 0
      BY <2>2 DEF Due, Selecting
    <3>2. QED
      BY <1>1, <2>2, <3>1 DEF SelectInv, ContextGood, Matched
  <2>3. CASE Halts
    BY <2>1, <2>3 DEF Halts
  <2>4. ASSUME NEW fd \in Descriptors, OneSlot(fd)
        PROVE  \E s \in Sockets : <<t, s>> \in left
    <3>1. pc' = pc
      BY <2>4 DEF OneSlot
    <3>2. PICK s \in Deleted : fContexts[s][t] > 0
      BY <1>1, <2>1, <2>4, <3>1, OneSlotEffect
    <3>3. s \in Sockets /\ Exists(s)
      BY <3>2 DEF Deleted
    <3>4. QED
      BY <2>1, <2>2, <3>1, <3>2, <3>3
  <2>5. ASSUME NEW u \in Contexts, OwnStep(u),
               \/ pc'[u] = "sleeping" => ~fWakeup'[u]
               \/ timer'[u] = "expired"
        PROVE  timer'[t] = "expired"
    BY <2>1, <2>5 DEF OwnStep
  <2>6. ASSUME NEW s \in Sockets, SocketEvent(s)
        PROVE  \E x \in Sockets : <<t, x>> \in left
    <3>1. /\ Exists(s) /\ pc' = pc
          /\ fWakeup' = [u \in Contexts |-> fWakeup[u] \/ u \in Queued(s)]
      BY <2>6 DEF SocketEvent, WakeAll
    <3>2. fContexts[s][t] > 0
      BY <2>1, <3>1 DEF Queued
    <3>3. QED
      BY <2>1, <2>2, <3>1, <3>2
  <2>7. QED
    BY <1>1, <2>1, <2>3, <2>4, <2>5, <2>6, StepKinds
<1> HIDE DEF Long
<1>2. SelectSpec => [][Long]_selectVars
  BY <1>1, SelectInvariant, PTL DEF SelectSpec
<1>3. QED
  BY <1>2 DEF SleepUndisturbed, Long
=============================================================================
