--------------------------- MODULE GUSIDescriptor ---------------------------
(***************************************************************************)
(* The descriptor table (GUSIDescriptor.cpp), the reference counts of      *)
(* sockets (GUSISocket.h) and the POSIX calls that change them: pipe and   *)
(* socketpair, close, dup, dup2 and fcntl(F_DUPFD) (GUSIPOSIX.cpp).  None  *)
(* of these calls yields, so each is one action.  What the sockets do is   *)
(* left to the modules that extend this one.                               *)
(*                                                                         *)
(* corrupt is set when the code uses an object it has deleted.  From there *)
(* on anything can happen, and the model stops.                            *)
(***************************************************************************)
EXTENDS Integers, FiniteSets

CONSTANTS
  Sockets,  \* the socket objects, Console among them
  Console,  \* the one that GUSISetupConsoleDescriptors installs
  Consoles, \* in so many descriptors, 3 in the code
  NoSocket, \* nil
  Garbage,  \* what uninitialized memory holds
  SIZE      \* the size of the table, 64 in the code

ASSUME SocketsAssumption ==
  /\ Console \in Sockets
  /\ NoSocket \notin Sockets
  /\ Garbage \notin Sockets \cup {NoSocket}
ASSUME SizeAssumption == SIZE \in Nat \ {0} /\ Consoles \in 1 .. SIZE

VARIABLES table, corrupt

tableVars == <<table, corrupt>>

Descriptors == 0 .. SIZE - 1

Table == [fSocket : [Descriptors -> Sockets \cup {NoSocket, Garbage}],
          fInvalidDescriptor : 0 .. SIZE,
          fRefCount : [Sockets -> 0 .. SIZE]]

\* Slots from fInvalidDescriptor on have never been written.
TableTypeOK ==
  /\ table \in Table
  /\ corrupt \in BOOLEAN
  /\ \A fd \in Descriptors :
       table.fSocket[fd] = Garbage <=> fd >= table.fInvalidDescriptor

-----------------------------------------------------------------------------
(***************************************************************************)
(* The member functions, from the table before to the table after.         *)
(***************************************************************************)
\* LookupSocket: the socket behind fd, nil if there is none.
Socket(T, fd) ==
  IF fd < T.fInvalidDescriptor THEN T.fSocket[fd] ELSE NoSocket

IsOpen(T, fd) == fd \in Descriptors /\ Socket(T, fd) \in Sockets

\* The slots InstallSocket can choose from; without any it fails (EMFILE).
Room(T, start) == {fd \in start .. SIZE - 1 : Socket(T, fd) = NoSocket}

Lowest(S) == CHOOSE fd \in S : \A other \in S : fd <= other

\* Mutant: the slots that are passed over are not cleared.
InstalledOverGap(T, s, start) ==
  LET fd == Lowest(Room(T, start))
  IN  [fSocket |-> [T.fSocket EXCEPT ![fd] = s],
       fInvalidDescriptor |->
         IF fd < T.fInvalidDescriptor THEN T.fInvalidDescriptor ELSE fd + 1,
       fRefCount |-> [T.fRefCount EXCEPT ![s] = @ + 1]]

\* InstallSocket: the lowest free descriptor from start on.
Installed(T, s, start) ==
  LET fd == Lowest(Room(T, start))
      gap == T.fInvalidDescriptor .. fd - 1
  IN  [fSocket |-> [[other \in Descriptors |->
                       IF other \in gap THEN NoSocket ELSE T.fSocket[other]]
                     EXCEPT ![fd] = s],
       fInvalidDescriptor |->
         IF fd < T.fInvalidDescriptor THEN T.fInvalidDescriptor ELSE fd + 1,
       fRefCount |-> [T.fRefCount EXCEPT ![s] = @ + 1]]

\* RemoveSocket: the reference goes with the slot.
Removed(T, fd) ==
  [T EXCEPT !.fSocket[fd] = NoSocket, !.fRefCount[T.fSocket[fd]] = @ - 1]

\* A socket is deleted by the RemoveReference that takes its last reference.
Exists(s) == table.fRefCount[s] > 0
Deleted == {s \in Sockets : Exists(s) /\ table'.fRefCount[s] = 0}

-----------------------------------------------------------------------------
(***************************************************************************)
(* The POSIX calls.                                                        *)
(***************************************************************************)
Corrupted == corrupt' = TRUE /\ UNCHANGED table

\* pipe and socketpair.  If only one descriptor is free, it is given back and
\* its socket deleted with it; then both sockets are closed, this one again.
\* If none is free nothing remains of the two.
OpenPair(first, second) ==
  /\ ~corrupt
  /\ first # second /\ ~Exists(first) /\ ~Exists(second)
  /\ \/ /\ Cardinality(Room(table, 0)) > 1
        /\ table' = Installed(Installed(table, first, 0), second, 0)
        /\ UNCHANGED corrupt
     \/ Cardinality(Room(table, 0)) = 1 /\ Corrupted
     \/ Room(table, 0) = {} /\ UNCHANGED tableVars

Close(fd) ==
  /\ ~corrupt /\ IsOpen(table, fd)
  /\ table' = Removed(table, fd)
  /\ UNCHANGED corrupt

\* dup, and fcntl(F_DUPFD) with its lowest descriptor.
Dup(fd, start) ==
  /\ ~corrupt /\ IsOpen(table, fd)
  /\ start \in Descriptors /\ Room(table, start) # {}
  /\ table' = Installed(table, Socket(table, fd), start)
  /\ UNCHANGED corrupt

\* Mutant: the descriptor is taken over without RemoveSocket.
Dup2Over(fd, to) ==
  /\ ~corrupt /\ IsOpen(table, fd) /\ to \in Descriptors
  /\ LET s == Socket(table, fd)
         emptied == IF IsOpen(table, to)
                    THEN [table EXCEPT !.fSocket[to] = NoSocket] ELSE table
     IN  table' = Installed(emptied, s, to)
  /\ UNCHANGED corrupt

\* dup2.  The descriptor is emptied before the socket is installed in it, so
\* that dup2(fd, fd) deletes a socket with no other descriptor.
Dup2(fd, to) ==
  /\ ~corrupt /\ IsOpen(table, fd) /\ to \in Descriptors
  /\ LET s == Socket(table, fd)
         emptied == IF IsOpen(table, to) THEN Removed(table, to) ELSE table
     IN  IF emptied.fRefCount[s] = 0
         THEN Corrupted
         ELSE table' = Installed(emptied, s, to) /\ UNCHANGED corrupt

TableInit ==
  /\ table = [fSocket |-> [fd \in Descriptors |->
                             IF fd < Consoles THEN Console ELSE Garbage],
              fInvalidDescriptor |-> Consoles,
              fRefCount |-> [s \in Sockets |->
                               IF s = Console THEN Consoles ELSE 0]]
  /\ corrupt = FALSE

\* A socket may be deleted at a time when a call still uses it.
UseDeleted == ~corrupt /\ Corrupted

TableNext ==
  \/ \E first, second \in Sockets \ {Console} : OpenPair(first, second)
  \/ \E fd \in Descriptors : Close(fd)
  \/ \E fd, start \in Descriptors : Dup(fd, start)
  \/ \E fd, to \in Descriptors : Dup2(fd, to)
  \/ UseDeleted

TableSpec == TableInit /\ [][TableNext]_tableVars

-----------------------------------------------------------------------------
(***************************************************************************)
(* What the table promises the sockets.                                    *)
(***************************************************************************)
Slots(s) == {fd \in Descriptors : table.fSocket[fd] = s}

\* A socket has as many references as there are descriptors for it, so it is
\* deleted with the last of them and no descriptor is left for a deleted
\* socket (RemoveReference, GUSISocket.h:139).
RefsAgree == \A s \in Sockets : table.fRefCount[s] = Cardinality(Slots(s))
=============================================================================
