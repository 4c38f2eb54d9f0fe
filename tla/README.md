# GUSI68 in TLA+

GUSI gives the classic Mac OS the POSIX interface: file descriptors, sockets,
pipes, signals and pthreads over the Thread Manager, MacTCP, Open Transport,
the PPC Toolbox and the File Manager.  There is one processor and no memory
protection.  Threads ("contexts") are cooperative and keep the processor until
they call `Yield`; the system completes asynchronous calls in interrupts, which
run between any two instructions of a thread.  Nearly everything that can go
wrong in this library goes wrong there: between an interrupt routine and the
thread that shares a buffer, a parameter block or a flag with it.  The modules
here describe those parts.

**Which source.** The repository has the code twice: `src/src/*.cpp, *.h`, and
the literate sources `src/original_nw/src/*.nw` it was extracted from.  The
extraction lost some function bodies (the thread switch procedures
`SwitchIn`/`Terminate`/`FinishSetup`, and `connect`, `recvfrom`, `sendto` and
`shutdown` of the MacTCP sockets, among others).  A definition follows `src/src`
where the function is there, and the `.nw` file where it is not.

Contents: [inventory](#inventory), [modules](#modules), [runs](#runs),
[findings](#findings), [theorems](#theorems),
[not modelled](#what-is-left-out-and-why), [plan](#plan).

## Inventory

| Component | State | Operations | Interacts with | Hard behaviour | Correct if |
|---|---|---|---|---|---|
| Ring buffer `GUSIBuffer.cpp` | memory, `fConsume`, `fProduce`, `fEnd`, `fFree`, `fValid`, `fSpare`, `fInUse`, `fLocked`, `fDeferred`, `fNewBuffer`, `fOldBuffer` | `Produce`, `Consume`, `ProduceBuffer`/`ValidBuffer`, `ConsumeBuffer`/`FreeBuffer`, `SwitchBuffer`, `PurgeBuffers`, `Lock`/`Release`/`Defer` | every socket and pipe | a block is in the hands of the system over any number of steps of the thread; the memory may be replaced meanwhile; the end of the buffer is skipped when the block there is small | bytes come out as they went in, and the system never writes where valid bytes are |
| Contexts and process `GUSIContext.cpp` | `fWakeup`, `fFlags`, `fJoin`, Thread Manager state; `fReadyThreads`, `fExistingThreads`, `fDontSleep`, `fWillSleep` | create, `Yield`, `Wakeup`, `StartIO`/`FinishIO`, `Done` (join), `Detach`, `Terminate`, `Liquidate` | interrupt routines (`Wakeup`), everything that blocks | a wakeup between the test of a condition and the sleep, of a thread or of the whole process; the last look at a thread that is deleted | no wakeup is lost; a thread is deleted once |
| Pthreads `GUSIPThread.cpp` | queue and `fPolling` of a mutex, queue of a condition variable | lock, trylock, unlock, wait, timedwait, signal, broadcast, destroy; create, join, detach | contexts, timers, signals | spurious returns from `Yield`, the timer against the signal, destruction with threads on their way out | a monitor: one holder, and a free lock reaches who waits for it |
| MacTCP streams `GUSIMTTcp.cpp` | `fState`, shutdown flags, `fSendPB`, `fRecvPB`, two ring buffers, `fAsyncError` | connect, listen, accept, recvfrom, sendto, shutdown, close; `GUSIMTTSend`, `SendDone`, `Recv`, `RecvDone`, `ConnectDone`, `ListenDone`, `Notify` | ring buffer, contexts, MacTCP | two chains of calls that restart themselves from interrupts, with one place to defer each | a chain neither stops with work left nor runs twice; no sleeper misses its wakeup |
| Pipes `GUSIPipe.cpp` | two ring buffers, `fPeer` | read, write, shutdown, close, select | ring buffer, contexts | either end goes away while the other waits | bytes in order; end of file after the last byte |
| Signals `GUSISignal.cpp` | actions; pending and blocked sets of the process and each context; the loops and handlers a context is in | raise, kill, sigaction, sigprocmask, sigwait, sigsuspend, pause, alarm | `Yield` and `SigSuspend` of contexts, timers | handlers on top of each other, in the middle of a wait, with the pending sets half emptied | a pending, unblocked signal is delivered once, and the mask of the program comes back |
| Timers `GUSITimer.cpp` | queue of timers | sleep, MicroSleep, kill, reset | contexts, condition variables | a timer that fires while it is killed; times that have passed | a timer fires once or not at all |
| Sockets and descriptors `GUSISocket.cpp`, `GUSIDescriptor.cpp` | reference counts, descriptor table, close queue | open, dup, dup2, close, fork of tables, cleanup at exit | all socket classes | the last reference goes while calls are under way | a socket is closed once, after its last use |
| POSIX calls `GUSIPOSIX.cpp` | none of its own | some hundred calls | descriptors | `select` over several sockets whose descriptors change meanwhile, `dup2` onto itself | calls reach the right socket, and a wait leaves no trace |
| Thread data `GUSISpecific.cpp` | keys, a table per thread | create, delete, get, set, destruct | contexts | a key deleted while tables hold values | destructors run once per value |
| MacTCP datagrams `GUSIMTUdp.cpp` | two ring buffers with headers and data, `fSendPB`, `fRecvPB`, flags | recvfrom, sendto, connect, shutdown, close; `GUSIMTUSend`, `SendDone`, `Recv`, `RecvDone` | ring buffer, contexts, MacTCP | a header and its data are two calls on a buffer of bytes; a datagram over the wrap of the buffer | datagrams stay whole |
| MacTCP name server `GUSIMTNetDB.cpp` | one request block | resolver calls | MacTCP | | |
| Open Transport `GUSIOpenTransport.cpp`, `GUSIOT*.cpp` | endpoint state, event bits | connect, listen, accept, send, receive, close | the OT notifier | notifier events against calls | the state follows the endpoint's |
| PPC Toolbox `GUSIPPC.cpp` | as MacTCP streams | as MacTCP streams | PPC Toolbox | as MacTCP streams | as MacTCP streams |
| Mac files `GUSIMacFile.cpp` | `fPosition`, the mark of the file, buffers of read-ahead and write-behind, shutdown flags | read, write, lseek, ftruncate, fsync; the completion routines | File Manager, ring buffer | two places in one file, errors that come long after the call | a file reads as it was written, and a loss is reported |
| File specifications, wrappers `GUSIFileSpec.cpp`, `GUSIFSWrappers.cpp` | none that interacts | names and catalog calls | File Manager | | |
| Devices, domains `GUSIDevice.cpp`, `GUSIFactory.cpp`, ... | registries filled at start | lookup | | | |
| Library glue, configuration, diagnostics, name tables, `GUSIConfig/`, `include/` | no protocol | | | | |

`PROJECT.json` has the same list with what is modelled of each, and under
`hazards` the places in the code where these behaviours bite.

## Modules

    GUSIRing -- GUSIRingBuffer -- GUSIRingBufferStream --(refines)-- ByteStream
       |                                |          |
    GUSIRingProofs ------------ GUSIBufferProofs  MCRingBuffer

    GUSIContext -- MCContext     GUSIPThread -- MCPThread     --(refines)-- Monitor
       |                            |
    GUSIContextProofs            GUSIPThreadProofs

    GUSIMTTcp --- MCMTTcp        GUSISignal --- MCSignal
       |                            |
    GUSIMTTcpProofs              GUSISignalProofs

    GUSIDescriptor, GUSIRing --- GUSIPipe --- MCPipe
    GUSIDescriptor ------------- GUSISelect -- MCSelect
    GUSIDescriptor, GUSIPipe, GUSISelect, GUSIRingProofs --- GUSISocketProofs

    GUSIRing --- GUSIMTUdp ------ MCMTUdp
    GUSIMTUdp, GUSIRingProofs --- GUSIBufferProofs

    GUSIMacFile --- MCMacFile    --(refines)-- PosixFile
       |
    GUSIMacFileProofs

The modules meet at narrow places.  `GUSIPThread` and `GUSIMTTcp` use the one
fact about `Yield(kGUSIBlock)` that `GUSIContext` is about: it comes back if the
context has been woken since its last `Yield`, and clears `fWakeup`.
`GUSIMTTcp` keeps two ring buffers as counts of bytes; `GUSIRingBuffer` has the
bytes, the positions and the memory.  `GUSIPipe` composes the descriptor table, a
ring per socket (positions and counts, no bytes) and the threads.  `GUSIMTUdp` puts
bytes next to the rings of `GUSIRing`, `GUSISelect` puts the queues of the sockets,
the timers and the threads on the descriptor table.  `GUSISignal` is the one module
that follows a context through the handlers a wait may run; to the others a
signal is a wait that ends early.

### `GUSIRing`, `GUSIRingBuffer`: the ring buffer

`GUSIRing` is the arithmetic of one block of memory as functions of a record
(`size` for `fBuffer..fEnd`, `consume`, `produce`, `free`, `valid`, `spare` and `inUse`
for the fields of those names, positions being offsets from `fBuffer`): what
`ProduceBuffer`, `ValidBuffer`, `ConsumeBuffer` and `FreeBuffer` grant and change.
`RingInvariant` is the assertion `GUSIRingBuffer::Invariant()`.

`GUSIRingBuffer` has a thread at one end and interrupt code at the other; `side`
says which, as in an input buffer (interrupts produce) and an output buffer
(interrupts consume).  Each block of memory the object has had is a *generation*;
`live` is the chain of `fNewBuffer`.

| Action | Code |
|---|---|
| `BeginProduce`, `ProduceStep`, `EndProduce` | `Produce`: the lock, one turn of its loop with `ProduceBuffer`, `memcpy`, `ValidBuffer`, and the end of the loop with `Release`.  Interrupts that find the lock defer themselves, so that no other party runs between the turns |
| `BeginConsume`, `ConsumeStep`, `EndConsume` | `Consume`, likewise |
| `ProduceBuffer`, `ValidBuffer`, `AbandonGrant` | the call when an asynchronous receive starts, and the one with what arrived when it completes; a receive that fails is followed by no `ValidBuffer` |
| `ConsumeBuffer`, `FreeBuffer` | the calls around an asynchronous send |
| `SwitchSameSize`, `SwitchInPlace`, `SwitchToNew` | `SwitchBuffer`: its early return and its two branches; the lock it leaves is kept in `locked` |

Memory outside the valid bytes is `Junk`, and consumed memory becomes junk at
once, so that a wrong position shows as junk in what comes out.  Bytes are
numbered modulo `Period`.

`ByteStream` is what a buffer promises: bytes go in at one end and come out at
the other, in order and once.  `GUSIRingBufferStream` computes the abstract
stream from the memory and the chain.

### `GUSIContext`: contexts and the process

Every access of `Yield`, of the switch procedures and of `GUSIProcess::Yield` to
state that `Wakeup` also touches is one action, since the interrupt may fall
between any two.  A context's path is in `pc`: `"user"`, `"check"` (the loop of
`FinishIO` or `Done`), then the labels of `Yield` down to `"stopped"`, and for the
main context the path through `GUSIProcess::Yield` to `WaitNextEvent`.  `queue` is
the Thread Manager's ready queue.  `Dispatch` is its choice of the next thread,
with `SwitchIn` as the following step; `AnnounceSleep` to `AfterEvent` are
`GUSIProcess::Yield`, around `NextEvent`.  `IODone` is the interrupt with
`GUSIIODone` and `Wakeup`.  `SwitchOut` of a stopped thread looks at its state
(`ReadState`), at `fWakeup` (`ReadWakeup`), and makes it ready (`ReadyAgain`) or counts it
out (`FallAsleep`), with a `Wakeup` possible before each; that a thread readied by both
is in the queue once is the Thread Manager's part, which makes ready only what is
stopped (`ReadyQueue`, external).  `Create`, `Join`, `Detach`, `Terminate` are the
operations on threads.  The Thread Manager and `WaitNextEvent` are the
environment; `RoundRobin` says whether ready threads are served in turn.

### `GUSIPThread`, `Monitor`

One mutex and one condition variable, as the queues they are.  A call runs
undisturbed up to its next `Yield`, so an action is such a stretch: `Lock`,
`LockAgain`, `Trylock`, `Unlock`, `CondWait`, `CondTimedwait` and the `WaitOver` that
follows them, `CondSignal`, `CondBroadcast`, `CondDestroy`.  `TimerFires` is the
timer's interrupt and may fall anywhere.  A signal may end any wait without a
wakeup (`Resume`), as it ends a `Yield`.  `Monitor` is the abstract mutex, which its
owner may lock several times, with its waiters: acquire, release, wait (which gives
up one lock), return as the owner.  The queue takes a thread that has the lock
behind those who wait for it; the history variable `overtakes` says that this has
happened, and the monitor promises nothing from then on (see [findings](#findings)).

### `GUSIMTTcp`: a MacTCP connection

The handlers are functions from the socket before to the socket after, named as
in the code: `Send`, `SendDone`, `Recv`, `RecvDone`, `ConnectDone`, the two
`Release`s that run what was deferred.  Actions compose them: `OpenCompletes`,
`SendCompletes`, `ReceiveCompletes`, `CloseCompletes`, `NotifyClosing` and
`NotifyTerminate` are MacTCP's;
`Connect`, `Recvfrom`, `Sendto`, `Shutdown`, `Destroy`, `GetAsyncError` and their
continuations are the threads'.  While a thread is inside a call, `running` is
that thread, and each step that interrupts can separate is an action.  `Connect`
goes ahead on a socket that is unbound or unconnected, so a socket may be opened
again after a failed open or a connection that has ended.  The code looks at `fState`
only and resets neither flags nor buffers, and what the old connection has left
in `fRecvPB` or `fSendPB` may still be pending or deferred (`leftover`).  When the new
connection then starts a call in a block that is in use (`clobbered`), the model
stops: what MacTCP makes of that is not in the code.

### `GUSIDescriptor`: descriptors and references

`table` is the object `GUSIDescriptorTable` with the `fRefCount` of every socket.
`Socket`, `Installed` and `Removed` are `LookupSocket`, `InstallSocket` and
`RemoveSocket` as functions of a table, since `dup2` and `pipe` call them more than
once.  Slots from `fInvalidDescriptor` on hold `Garbage`: the constructor clears
none.  The actions are the POSIX calls that change the table: `OpenPair` (`pipe`,
`socketpair`), `Close`, `Dup` (`dup`, `fcntl(F_DUPFD)`), `Dup2`.  A socket is deleted
by the call that takes its last reference.

Three sequences make the code use a socket it has deleted: `dup2(s, s)` on the
last descriptor of a socket, `pipe` or `socketpair` with one free descriptor, and
the close of the last descriptor of a socket in which another thread sleeps.
Anything can follow, so these steps set `corrupt` and the model stops.  Calls are
made on open descriptors: of a bad one, `LookupSocket` returns nil, and the
converted wrappers call it (the `.nw` source has a check there).

### `GUSIPipe`: pipes

No interrupt touches a pipe, so a call is one action up to its `Yield`, and every
return from `Yield` is another.  `call[t]` is the call in which thread `t` sleeps,
with what is left to write and its `fWakeup`; a socket's `fContexts` are the threads
that sleep in it.

| Action | Code |
|---|---|
| `Read`, `ReadResumes` | `read`: data, end of file, or the wait; the loop of the wait and the `Consume` with `WakeupPeer` after it |
| `Write`, `WriteResumes` | `write` from its label `restart` on (`WriteTurn`): the last `Produce`, or a portion, `WakeupPeer` and the wait for room |
| `Interrupted` | `Yield` returns with a signal |
| `ShutdownCall` | `shutdown` |
| `Open` | `pipe` and `socketpair`: `OpenPair`, the constructors and `SetPeer`, and for `pipe` the two `shutdown`s |
| `TableCall` | `close`, `dup2`, `dup`, with the destructor of what they delete (`Destroy`) |
| `CloseBusy` | a call that deletes a socket in which a thread sleeps |

`Produced` and `Consumed` are the loops of `Produce` and `Consume` over `GUSIRing`,
which end after two turns when the buffer is never switched.  A thread may enter
its wait with `fWakeup` still set by something else; then its first `Yield` returns
at once (`Waits`).

### `GUSISelect`: select, sleep and blocking calls

It extends `GUSIDescriptor` by what sockets, timers and threads add: `contexts` is
`GUSISocket::fContexts`, as the number of times a context is in the queue (`select`
enters it once for each descriptor), `Destruct` is `~GUSISocket`, which wakes them.

| Action | Code |
|---|---|
| `Select` | `select` up to its first look: `pre_select` of every socket, and the timer of `select_timed` |
| `Look`, `WakesUp`, `Interrupted` | the loops of `select_forever` and `select_timed` around `select_once` (`Finds`) and `Yield` |
| `LookOnce`, `AfterYield` | a `select` that polls, and yields before it leaves the queues |
| `PostSelect` | `post_select` of the sockets behind the descriptors *now*, which is how the code finds them |
| `Read`, `ReadOn`, `ReadInterrupted` | a call that waits for one socket and keeps a pointer to it, as the reads of all socket classes do |
| `Sleep`, `SleepEnds`, `SleepInterrupted` | `sleep` and `usleep`: `ClearWakeups`, the timer, one `Yield` |
| `CloseSocket`, `DupSocket`, `Dup2Socket`, `OpenSocket` | the calls on the table, with the destructor |
| `SocketEvent`, `TimerExpires` | the interrupts |

A wakeup may be left in `fWakeup` when a call ends without having waited for it;
that, and the registrations `post_select` does not find again, are what later
calls have to live with.  What a socket finds ready is one flag for reading,
writing and exceptions; a socket for which the process may not sleep
(`canSleep`) polls in the same loop and is left out.

### `GUSISignal`: signals

`calls[c]` is the stack of loops context `c` is in: `GUSISigContext::Raise`, or
`Interrupt` called by `Yield`, `SigWait` and `SigSuspend`, each with the signals it has
still to look at and the local variables of the handler it runs.  A handler is
the program's own code: it may send signals and call `pthread_sigmask`, which
starts another `Raise` on top (`MaxCalls` bounds the stack), and then returns
(`HandlerReturns`).

| Action | Code |
|---|---|
| `RaiseSignal`, `PthreadKill`, `SetAlarm`, `AlarmFires` | `raise`, `pthread_kill`, `alarm` and `ualarm`, `GUSIAlarm::Wakeup`, with `GUSISigProcess::Post` and its choice of the contexts to wake (`WokenBy`) |
| `Sigaction`, `Sigmask` | `sigaction` and `signal`, `pthread_sigmask` and `sigprocmask` |
| `RaiseAgain`, `RaiseNext` | the outer and the inner loop of `GUSISigContext::Raise`, with `GUSISigProcess::Raise` (`Execute`) |
| `InterruptNext`, `Interrupted` | the loop of `Interrupt`, with `GUSISigProcess::Interrupt`, and what its caller does with the answer |
| `YieldSlice`, `Block`, `Sigwait`, `Sigsuspend`, `Pause` | how a wait begins; `Check` to `TestWakeup` are the loops of `Yield`, `SigWait` and `SigSuspend`, and `SwitchOut` is the switch procedure |

`process` becomes `"exited"` by a default action, and `"wild"` where the code calls
`SIG_DFL` as a function.  The alarm is the only interrupt.  `fPending |= bit` is a
load and a store on the machine: when the alarm falls between those of the
program its bit is overwritten, so `AlarmFires` may lose it.

### `GUSIMacFile`, `PosixFile`: files

The state is the file on the volume with its `mark`, which requests use
(`fsAtMark`), and the socket, whose `fPosition` is where the program is.  The two
agree only when nothing is in the buffers: `input` has been read ahead of
`fPosition`, `output` is to be written behind it.  `StartRead` and `StartWrite` are
`GUSIMFRead` and `GUSIMFWrite`, with the alignment to blocks; `ReadAheadDone`,
`DirectReadDone` and `WriteDone` are the volume's answers with their completion
routines.  Every call is a sequence of actions along `pc`: `"sync"` is `SyncWrite`,
`"syncRead"` `SyncRead`, then the body of `read`, `write`, `lseek`, `ftruncate` or
`fsync`.  A stretch of a call under the lock of a buffer is one action, because
an interrupt that finds the lock is deferred to its end.

`PosixFile` is a sequence of bytes with an offset.  The mapping takes the file with
the output buffer laid over it as the content, and `fPosition` as the offset.
`lost` says when nothing is promised any more: after the volume has refused a
write (`dropped`), and while the mark has got away from `fPosition` (`astray`): from
a seek that gives up what was read ahead and then fails or stays where it is, a
read that fails halfway, or a failed seek to the end at the beginning of a write
beyond it, until the next seek that sets the mark.

The volume may fail every request (`MayFail`): a read after any number of its bytes
(`Tried`), a write, and the calls `lseek` and `ftruncate` make (`SeekFails`, `SeekEndFails`,
`TruncateFails`); `SeekFails` also stands for a position or `whence` that `lseek` does not
accept.  `Fill`, a piece of the loop before a write beyond the end, is one
step although the code takes no lock there: an interrupt in the middle writes what was
stored before the piece, in requests that may be cut differently.

### `GUSIMTUdp`: MacTCP datagrams

Built as `GUSIMTTcp`: handlers are functions of the socket (`Send`, `SendDone`, `Recv`,
`RecvDone`, `Accept` for a datagram that was read), actions compose them, and
`running` is the thread that is in the middle of a call.  A buffer is a ring with
the bytes in it; a byte is named by its datagram and its place, so that a header
is recognised, and a byte that is out of place shows.  `sendto` is
`SendtoTest`, `SendtoLock`, `HeaderProduce`, `DataProduce`, `SendtoRelease`, with
interrupts between its last test and the lock.  `recvfrom` reads the header with the
`Consume` that takes no lock of its own: `HeaderConsume` is a `ConsumeBuffer` and
`HeaderFree` the `FreeBuffer` after it, each with its own lock and `Release`, and a
completion that comes in between is not deferred.  The data is read with the lock held
(`DataLock`, `DataConsume`), unless there is none to read (`NoData`).  `due` and `owed` are the
datagrams that should be in the buffers.

## Runs

Each passing run checks one component or composition; a violation run
checks a statement of the documentation that the code does not keep.

| Run | Bounds | Checks |
|---|---|---|
| `ring_buffer` | sizes 1 and 5, requests up to 2, three generations | `TypeOK`; `RingsConsistent`: the code's own assertions; `GrantStaysFree`: the block of a pending receive is apart from all valid bytes, in memory that is in use; `LoanStaysValid`: `FreeBuffer` frees the block that was sent; `ImplementsStream` |
| `context` | the main context and two threads, calls at any time, any order of ready threads | `CountsAgree`: `fReadyThreads` and `fExistingThreads` count the threads; `WakeupNotLost`: a context that has been woken is never stopped for good; `MainSleepsUnwoken`: the process does not sleep on a wakeup of the main context |
| `context_live` | the main context and one thread | `WaitsEnd`: who waits for a call or a thread that is done goes on |
| `pthread` | three threads, each holding up to twice | `HolderInFront`: whose lock has returned is at the front until it has unlocked as often, unless a holder has locked again with others waiting; `OwnerAwake`: the thread at the front of the queue is on its way to run; `WaiterReachable`: a waiter is where a signal finds it; `LockReturns`; `ImplementsMonitor` |
| `mttcp` | buffers of 4 bytes, writes up to 3, calls may fail, any number of connections one after the other | `TransfersAlive`: no call is put in a parameter block in use, unless `connect` has gone ahead with the old connection still under way; and with work left the chains of sends and receives are in a call, deferred, or about to be released (`SenderAlive`, `ReceiverAlive`); `SleeperWaits`: a sleeping thread has nothing to report, or has been woken |
| `mttcp_live` | buffers of 2, writes of 1, opens succeed | `ReadReturns`; `DestructorEnds` |
| `pipe` | three threads, one pair of sockets at a time, three descriptors (one for the console), buffers of 2, requests of 1 and 3 | `RefsAgree`: a socket has as many references as descriptors; `PeersMutual`: the ends of a pipe know each other or nobody, and only sockets that exist; `SleeperWaits`: who sleeps in `read` or `write` and has not been woken has nothing to read, or no room to write, and a peer |
| `signal` | two contexts, an alarm, a signal that is ignored by default and one that can not be blocked; two posts, a handler on top of another, both of which may change the mask | `TakenOncePerPost`: a signal is taken at most as often as it was posted, though several contexts and nested loops look for it; `SignalKept`: until it is taken or ignored it is pending, or on the list of a loop; `MaskKept`: handlers and `sigsuspend` give the mask back; `WokenForSignal`: who blocks in `Yield` or waits in `sigwait` is not asleep on a signal of his that no handler has blocked |
| `macfile` | a file of five bytes, which is also the bound of its length, buffers of 4 and 2, blocks of 2, all modes of `open`, every request may fail | `ImplementsFile`: the calls are those of a file, but for the exceptions of [findings](#findings); `SyncReportsLoss`: `fsync` does not say yes when accepted data is gone; `CallsReturn` |
| `select` | two threads, two sockets, two descriptors; a context is left behind in a queue once | `SelectTypeOK`; `QueuedWhileWaiting`: registrations match what a call waits for, except where a descriptor was closed or opened under it; `SelectorWaits`: who sleeps in `select` has been woken or has no answer to give; `SleepUndisturbed`: nothing that an earlier call left behind cuts a sleep short, except such a registration |
| `udp` | an input buffer of 4 and an output buffer of 3, headers of 2, datagrams of 0, 1 and (too large) 3 from two peers | `DatagramsKept`: until one has come apart, the buffers hold the datagrams that were accepted, whole and in order, and those are what comes out; `SleeperWaits` |
| `macfile_seek` | as `macfile`, but no request fails | see [findings](#findings) |

Why the bounds are enough:

* `Sizes = {1, 5}`: a buffer of 1 is always full or empty; 5 with requests of 2
  does not divide, so that blocks at the end are short, are skipped
  (the silly window) or exactly used.  The switch in both directions, to larger
  and to smaller, is among the pairs.
* `MaxGenerations = 3`: a buffer that replaces another is itself replaced while
  both hold data.  The code treats a longer chain by the same loops.
* `Period = 8`: more than the bytes that can be in flight in such a chain between
  two steps that could mix them up, so equal numbers mean equal bytes; a skipped,
  doubled or swapped byte shows.
* `MaxLeaks = 1`: `SwitchBuffer` leaves the lock held (see findings); one leak of
  either sign is enough to see both effects on later calls.
* Two threads and the main context: one to run, one to be woken, and the context
  that puts the process to sleep.  Three threads at a mutex: a holder, one that
  is handed the lock, and one behind it.
* `MaxHolds = 2`: a thread locks again what it holds, before and after others have
  come to wait, gives up one of two locks by `unlock` and by a wait, and waits for
  its second lock behind a thread it shares the first with.
* `Size = 4`: a call is given at most half of the buffer (`Half = 2`), which differs
  from both 1 and the whole, so the routines make several calls in a row, and
  `MaxWrite = 3` both fits and does not fit what is free.
* `MayFail = FALSE` and the smaller sizes in `mttcp_live` keep the liveness graph
  small; an open that fails makes no chain to be followed.
* Three threads at a pipe: one asleep at either end and one that closes, or two
  asleep in the same socket.  Buffers of 2 with requests of 1 and 3: a write
  that fits, one that takes several turns, a read of a part and of more than there is.
  Three descriptors: the pair and one more for a duplicate, once the console's is
  closed; with the console open the table is full (the code gives it three of 64:
  `Consoles`).  Sockets are deleted and their names used again.
* Threads, and the two sockets of a pair, are symmetric in `pipe` (no action names
  one); the run checks safety only, for which symmetry is sound.

* Two posts in `signal`: the second comes while the first is pending, taken off,
  or under its handler.  Two contexts: one posts, or waits, while the other runs.
  `MaxCalls = 2`: a handler can start a loop of its own (it changes the mask), which
  runs another handler that does the same; a third does what the second does.  The actions are: ignored, caught with `SA_RESTART`, caught with
  `SA_RESETHAND` and a mask (so the second delivery meets `SIG_DFL`), default.  A
  primed alarm counts as a post (`Bounded`): an alarm that the bound would never let
  fire is the same as none.
* A file of three blocks: a request that begins inside a block, fills one, and
  ends at the end of the file; an input buffer of two blocks, so that a read-ahead
  of half the buffer fits while the other half is unread, and one is deferred;
  an output buffer that a write exceeds.  The file starts as long as it may be, and
  grows again when it has been truncated.
* `MaxLeft = 1` in `select`: a context that has been left in a queue once can be
  woken by it, in its next call, at any time; twice wakes it no more often.
  Two descriptors and two sockets have all cases: both of one socket, one of
  each, one closed and opened again.  Threads are symmetric.
* Headers of 2 in `udp`, in buffers of 4 and 3: a header may lie over the end of the ring,
  so that it is read in two parts, with interrupts between them; the input buffer has
  room for two empty datagrams, or for one of a byte, and the next waits for room; an
  output buffer of 3 has none for a second one.  The datagram of 3 bytes is too large
  for either buffer.  `Partners` has one peer: the
  other's datagrams are discarded while it is installed, and what is sent to the
  other goes to it.  In buffers of 8 the end of the
  ring is skipped: see [findings](#findings).

`CHECK_DEADLOCK FALSE` in `pipe` and `select`: the model stops where a deleted socket
is used.  In `signal` the process may exit, and `sigwait` may wait for good.  In `udp`
the model stops when a datagram has come apart.  Elsewhere a thread asleep can
always be interrupted.

`CHECK_DEADLOCK FALSE` in the MacTCP runs: after its destructor, and when a parameter
block has been used twice, a socket does nothing, and a writer may wait for good when its peer never reads and the
program has nothing else to do.  All other runs check for deadlock.

**Fairness.** Code that has the processor goes on (weak fairness of the steps
inside a call).  The Thread Manager serves ready threads in turn, so a thread
that is ready again and again is dispatched, and `Yield` returns (strong fairness
of `Dispatch`, `YieldSlice`, `YieldReturns`; `RoundRobin = TRUE` in
`context_live`).  `WaitNextEvent` returns after at most 60 ticks.  MacTCP completes
every call: the code gives a receive 120 seconds, an open and a send 60, and a
closing connection is reported terminated.  The volume answers every request, and
a call on a file goes on when it can (weak fairness of `Volume` and `CallCode` in
`macfile`; `CallsReturn` needs both, since a call waits for requests).  A program unlocks its mutex in the
end (strong fairness of `Unlock`; while the holder waits on the condition the
action is disabled, and `LockReturns` leaves out by name a wait with a second lock,
which it keeps).  Nothing is assumed of what a program calls, of the peer, of
timers or of signals.

Every property of a passing run has, in `PROJECT.json`, a mutant: a definition
changed the way a slip in the code would change it, under which TLC finds the
property violated.  The mutated forms stand in the modules before the
definitions they replace, under "Mutant:".

## Findings

The run in which TLC finds a trace of the code against its documentation:

* `macfile_seek`: `lseek` gives up what has been read ahead (`SyncRead`), and then
  returns at once when it is to go to the position it is at, `lseek(fd, 0,
  SEEK_CUR)` for instance (GUSIMacFile.nw:1536).  The mark stays where the read-ahead
  left it, and the next read misses the bytes in between.  The documentation
  (GUSIMacFile.nw:1183-1184) says that "we need to move the file position back by the
  amount of data".  A seek that fails, for a position or `whence` that is not
  accepted, does the same (nw:1530, 1543).

Seen while reading or modelling, without a run of its own; the models contain
all of these that touch a modelled component, and the properties say where they
leave them out:

* `SwitchBuffer(0)`, as `listen` calls it, and `setsockopt` with any size make buffers of
  size 0.  There `fProduce = fBuffer = fEnd`, and `Invariant()` (GUSIBuffer.cpp:137)
  asks for `fProduce < fEnd`: the assertion of the constructor (line 160) fails.
  `RingsConsistent` speaks of buffers that have memory.
* The log of `GUSIPThread.nw` (line 42) has "recursive mutex locks", and `lock` and
  `trylock` let the owner in again.  But they queue it behind those who wait: its first
  `unlock` hands the lock to the first of them while it still holds the second, and
  two threads have it.  The model has this; `HolderInFront` and `ImplementsMonitor` hold
  until a holder overtakes others in this way (`overtakes`).
* `GUSISocketMixins.nw` (line 115) says that "`connect` puts an `Unconnected` socket into
  `Connecting` state from where it emerges `Connected`".  But the end of the old
  connection has set `fReadShutdown` and `fWriteShutdown` (GUSIMTTcp.cpp:215), which
  `connect` does not reset: when the new open succeeds, `GUSIMTTConnectDone` starts the
  chain of sends, which finds the socket shut down and closes the connection at once.
* `SwitchBuffer` to the same size returns with the lock it has taken, and on an
  empty buffer it resets `fLocked` to 0 and then releases it to -1.  Every later
  interrupt finds the buffer locked and defers itself.  `listen()` switches its
  buffer this way: `ListenDone` defers itself, and the next passive open never
  starts; a deferred `ListenDone` treats its result twice.
* `SwitchIn` clears the process's `fDontSleep`, whichever context the mark was left
  for; the process sleeps with a woken thread ready (until the next event or tick
  count, so nothing hangs: `WaitsEnd` holds).
* A thread signalled through a condition variable stays at the front of the queue
  until it runs, so a second signal before that is lost on the others.
* `sendto` accepts data while the connection is being opened; if the open fails with
  the buffer full, its loop neither ends nor yields.
* `ProduceBuffer` skips a short end of the buffer (the silly window), and the skipped
  bytes are no longer free, although `Free()` has promised them.  The last
  `Produce` of a pipe's `write` then stores less than it reports (a buffer of 5 with 4
  bytes free, 1 of them before the end: a write of 4 stores 3).  A datagram is
  truncated in the buffer, and everything behind it is misread (`GUSIMTUdp` with an
  input buffer of 8).
* A datagram over the wrap of the buffer: the second `ConsumeBuffer` comes without a
  `FreeBuffer` of the first and returns the same block again, and `SendDone` frees the
  first part only.  A `recvfrom` with a buffer shorter than the datagram leaves the
  rest, which is read as the next header.  After a shutdown for reading `recvfrom`
  uses a header that nobody has written.  An error of a send frees all that is
  valid at once, past the end of the memory if it wraps.
* A write of a datagram fails between the last test of `fWriteShutdown` in `sendto`
  (GUSIMTUdp.nw:584) and its `Lock` (nw:544): the datagram is stored, reported as sent, and
  stays in the buffer of a socket that is closing.  `DatagramsKept` says so.
* `connect` on a socket whose connection has ended looks at no parameter block
  (GUSIMTTcp.nw:659-667): a receive of the old connection may be pending in `fRecvPB`, or
  deferred, when `GUSIMTTConnectDone` starts another in it.  Output that the old
  connection did not send goes out on the new one, and its input is still there to be
  read.  `TransfersAlive` names the reuse of a block as its exception (`leftover`), and
  the model stops there.
* A read from the file that fails halfway leaves the mark where the bytes end that it
  has read, and `fPosition` where they begin (GUSIMacFile.nw:1322): the next read goes on
  at the mark.  A `read` that has taken bytes from the buffer, and whose rest then
  fails, returns -1 and has moved `fPosition` past them.
* `write` does not look at what its `lseek` to the end returns (GUSIMacFile.nw:1353, 1378):
  when it fails, the bytes are written at the mark, wherever that is.
* `post_select` looks its sockets up by descriptor again.  A descriptor that was
  closed during the `select` (by another thread, with the socket still open under
  another descriptor) leaves the context in the socket's queue for ever, where it
  wakes later calls for nothing and outlives the context; one that was opened
  again gets a `select` that nobody wakes.
* A handler with `SA_RESTART` is run by `Interrupt` with only the process's bit
  cleared: a signal sent by `pthread_kill` stays pending and is handled again, and a
  signal on the list of a loop further out is run again from there.
* A handler that blocks its own signal and raises it: the signal is only made
  pending, `GUSISigProcess::Raise` unblocks it when the handler returns, and nothing
  looks for it again.  If the handler was run by `Interrupt` for `SA_RESTART`, the
  thread goes to sleep in `Yield` on a pending signal that it has unblocked.
  `WokenForSignal` leaves out what a handler has blocked (`added`).
* `SigSuspend` gives up the processor before it looks: in a thread other than the
  main one, `sigsuspend` sleeps on a signal that is already pending.  A signal
  without `SA_RESTART` ends it without its handler having been run.
* An alarm that falls into `fPending |=` or `&=` of the program is lost.
* `SIG_DFL` is called as a function for signals that are ignored by default
  (`DefaultAction` says it has not handled them).
* `pthread_kill` does not translate signal numbers as `raise` does.  The alarm's timer
  belongs to the context that first called `alarm`, and is killed with it.
* An end of file found by a read-ahead leaves `fAsyncError` set; a write that is
  refused still has moved `fPosition`; the destructor ignores what `fsync` reports;
  `ftruncate` moves the position and never makes a file longer; two contexts that
  read one file share its parameter block.
* `Produce` asks `fFree` of the object and stores into the newest buffer of the
  chain.  When that is full and the object is not, it loops for ever with the
  lock held (the model has the loop, in `ProduceStep`).
* `Done` tests the done flag before `fJoin`; a second join of a thread that has just
  ended deletes it under the first.  POSIX leaves two joins undefined, but the
  documentation (GUSIContext.nw:1073) says the second bails out.
* `Consume` stops at an empty first buffer although later ones hold data, when a
  receive was abandoned before a switch.
* `shutdown()` of a socket wakes no thread that sleeps in `recvfrom`;
  `SleeperWaits` excludes that case by name.
* `sendto` interrupted by a signal before its first byte does not return `EINTR`.
* `pthread_cond_timedwait` reports a time-out when the timer fires after the
  signal, on the way to the mutex (allowed by POSIX).
* A deadline in the past gives `MicroSleep` a negative interval.
* `dup2(s, s)` removes the last reference of `s` before it installs it; `pipe` and
  `socketpair` with one free descriptor delete the first socket twice; closing a
  socket's last descriptor deletes it under a thread that sleeps in it
  (`GUSIDescriptor`).
* `shutdown` of one end of a pipe gives a thread that waits at the other an
  answer, and does not wake it; `SleeperWaits` excludes this case by name.
* The converted POSIX wrappers have lost the test for a bad descriptor.
* `PeekBuffer` computes the length behind the wrap from the wrong end.
* A context whose thread could not be created is counted out without having been
  counted in; a context is not queued, and sleeps for ever, when the queue's
  allocator has no memory.

## Theorems

`GUSIBufferProofs` proves, for every set of sizes, 0 included, every longest request,
every period and every bound on generations and leaks:

| Theorem | States |
|---|---|
| `TypeCorrect` | `Spec => []TypeOK` |
| `AssertionsHold` | `Spec => []RingsConsistent`: no assertion `Invariant()` of the class fails, in any buffer of the chain that has memory (of a buffer of size 0 it is false: see [findings](#findings)) |
| `GrantSafe` | `Spec => []GrantStaysFree` |
| `LoanSafe` | `Spec => []LoanStaysValid` |
| `IsStream` | `Spec => ImplementsStream`: the buffer, its chain of memories included, implements `ByteStream` |

They rest on the assumptions `SizesAssumption` (sizes are natural numbers) and
`BoundsAssumption`, and on the lemmas of `GUSIRingProofs` about one block of memory:
what each of the four calls grants, keeps and changes.

*The argument.* The assertion of the code is not inductive.  It bounds and adds up
the counters but does not tie them to the positions, and a state that satisfies
it can be one in which the next `ValidBuffer` breaks it.  `GUSIRing!RingShape` says
what is true of the positions: either the ring is *plain* (the valid bytes run
from `fConsume` to `fProduce`, over the end if need be, nothing is spared) or it is
*skipping* (the producer has gone back to the start, `fSpare` bytes at the end are
out of use, and the consumer has still to get there).  With `Shapes` for every
generation, `GrantHeld` and `LoanHeld` (the block in the hands of the system is
where `ProduceBuffer` or `ConsumeBuffer` would find it again in its generation, and
that generation is still in use), and `CallsMatchSide` (a running call of the thread
excludes one of the interrupt's on the same end),

    IInv == TypeOK /\ Shapes /\ GrantHeld /\ LoanHeld /\ CallsMatchSide

is inductive: one step per action, and under it one per conjunct the action can
disturb.  The four invariants above follow from `IInv`.

`IsStream` needs more, because bytes can arrive in an old generation while a newer
one exists: the block was granted before `SwitchBuffer`.

    Linked == GoodBytes /\ GrantInLast

`GrantInLast` says that while a block is being filled the generations behind its own
hold nothing, so that its bytes are the last ones all the same; `GoodBytes` that no
junk is among the valid bytes.  The abstract queue is the sequence of the pieces,
one per generation, put together by `FlattenSeq`.  A step leaves it as it
is (`Stays`), adds bytes to a piece behind which all are empty (`Puts`), takes bytes
from a piece before which all are empty (`Gets`), or adds an empty piece (`Grows`);
and what leaves the chain is an empty piece (`PiecesAfter`).  That each is
a `Put` or a `Get` of the stream is an induction over the pieces, with `SetInduction`
(explained under the datagram socket); that the operations do it to the piece is
the arithmetic of the positions (`ContentsGranted`, `ContentsStored`, `ContentsFreed`),
which needs `RingShape`.

`GUSIPThreadProofs` proves, for any set of threads and any bound on the locks one of
them may hold:

| Theorem | States |
|---|---|
| `TypeCorrect` | `Spec => []TypeOK`: nobody unlocks more often than he has locked, also when two threads share the lock |
| `HolderSafe` | `Spec => []HolderInFront` |
| `OwnerIsAwake` | `Spec => []OwnerAwake` |
| `WaitersReachable` | `Spec => []WaiterReachable` |
| `IsMonitor` | `Spec => ImplementsMonitor`: the queues implement `Monitor` |

`HolderSafe` and `IsMonitor` say nothing once a holder has locked again while others
waited (`overtakes`), where the code is not a monitor; the others hold there, too.

*The argument.* What a step makes the front of the mutex was somewhere in the
queue before, so the invariant speaks of the whole queue:

    IInv == TypeOK /\ Counts /\ RoomLeft /\ HoldersFirst /\ OwnerAwake /\ WaiterReachable

`Counts` says that a thread is in the queue once for every lock it holds and once
more if it waits for one: a cardinality (`TimesAppend`, `TimesTail`), so that who stands
at the front with a call of `unlock` has a lock to give up.  `HoldersFirst` says that,
unless somebody has overtaken others, the entries of the holder come first; a
second lock then finds nobody else in the queue (`TimesAll`), and an unlock leaves
the holder in front or has been its last.  For `IsMonitor`, `Owner`, `Depth` and
`Waiting` map a state to the monitor's, the initial state to the initial one, and
each action to acquire, release, wait, return or a stutter.

`GUSISocketProofs` proves of the descriptor table, for tables of every size, any
sockets and any number of console descriptors:

| Theorem | States |
|---|---|
| `TableTyped` | `TableSpec => []TableTypeOK` |
| `ReferencesCounted` | `TableSpec => []RefsAgree` |

*The argument.* `dup2` and `pipe` change the table twice, so the invariant is one of
a table, `GoodTable(T)`, and there is a lemma for each function on tables:
`Installed` adds one slot to those of its socket and one to its count, `Removed`
takes one of each, and both leave other sockets' slots as they are.  That the
counts fit in the table follows from what they count.

Of pipes it proves, for any threads and sockets, and all sizes of table and
buffers:

| Theorem | States |
|---|---|
| `TypeCorrect` | `Spec => []TypeOK`, with `Invariant()` of every buffer, and threads asleep only in sockets that exist |
| `ImplementsTable` | `Spec => TableSpec`: the threads use the table as `GUSIDescriptor` says |
| `ReferencesAgree` | `Spec => []RefsAgree`, from `ImplementsTable` and `ReferencesCounted` |
| `LinksAreMutual` | `Spec => []PeersMutual` |
| `NoWakeupMissing` | `Spec => []SleeperWaits` |

*The argument.* A sleeper waits for its peer, and the peer wakes those who sleep in
the socket it knows.  That these are the same is `PeersMutual`, and that the link
is not to a deleted socket is the table's business, so all are one invariant:

    IInv == TableInv /\ PipeInv
    PipeInv == PipesGood /\ PeersMutual /\ CallsGood /\ Patient

`PipesGood` has `RingShape` of every buffer, `Patient` is `SleeperWaits` said of what a
call waits for.  The step that needs an argument is a write that goes to sleep:
it has filled the peer's buffer, because a `Produce` that leaves bytes over leaves no
room (`ProducedShape`).  It does so in at most two turns (`ProduceTurnShape`: the first
ends at the end of the memory if it ends neither the bytes nor the room;
`SecondTurn`: the one after it begins at the start and skips nothing).

`GUSIContextProofs` proves, for any finite set of threads and either way the Thread
Manager may serve them:

| Theorem | States |
|---|---|
| `TypeCorrect` | `Spec => []TypeOK`, with interrupts between any two accesses of the switch procedures |
| `CountsRight` | `Spec => []CountsAgree`: `fReadyThreads` and `fExistingThreads` |
| `NoWakeupLost` | `Spec => []WakeupNotLost` |
| `MainAwake` | `Spec => []MainSleepsUnwoken` |

*The argument.* That a woken context is in the queue depends on where it was when
the interrupt came, and whether it will look at `fWakeup` again on that path:

    IInv == TypeOK /\ CountsAgree /\ OneRuns /\ Lives /\ ReadyQueued
              /\ JoinersKnown /\ MainWarned

`OneRuns` says that only the current context is in the middle of something, `Lives`
ties the sets of contexts to where each one is, `ReadyQueued` says who is in the
queue.  `JoinersKnown` follows a wait from its first test to its end: the call or the
thread that is waited for knows the waiter, and once it is done the waiter is
marked, unless it has still to test.  `MainWarned` is the same for the main context on
its way to `WaitNextEvent`, through `fWillSleep` and `fDontSleep`.  The counts are
cardinalities; each step moves at most one context in or out of what they count.

`GUSIMTTcpProofs` proves, for every size of the buffers from 2 on and every length of a
write, whether or not calls may fail:

| Theorem | States |
|---|---|
| `TypeCorrect` | `Spec => []TypeOK`: a completion frees no more than the buffer holds and stores no more than it has room for |
| `ChainsKept` | `Spec => []TransfersAlive` |
| `SleepersWait` | `Spec => []SleeperWaits` |

*The argument.* `TransfersAlive` says that a chain is alive and has to be kept alive by
whoever holds the lock, so the invariant says for each side how its parameter
block, its deferred routine, its lock and `fState` fit together:

    IInv == InOrder \/ BlockReused
    InOrder == TypeOK /\ Chains(sock) /\ Linked /\ OneRuns /\ LocksHeld /\ SleeperWaits

`BlockReused` is the state in which the model stops, after a `connect` that did not wait
for the old connection.  `Chains` has `SendSide` (a connection that is up has a send under way, completed but
deferred, or deferred to the next `Release`; one that is closing does not send),
`ReceiveSide`, and `ShutdownSends` (a send that waits for data on a connection which is
shut down waits for the thread that shuts it down, and which releases the
lock next; no writer waits for one that an earlier connection left behind).  `LocksHeld` says which thread has each lock.  The interrupt routines call
each other, so there is a lemma for each (`SendEffect`, `SendDoneEffect`, `RecvEffect`,
...) that says what it does to one side of a socket and that it leaves the other
alone; the steps of the threads and of MacTCP cite these.

`GUSISignalProofs` proves, for any contexts (also infinitely many), signals, dispositions
and masks, any number of posts and any depth of handlers:

| Theorem | States |
|---|---|
| `TypeCorrect` | `Spec => []TypeOK` |
| `TakenOnce` | `Spec => []TakenOncePerPost` |
| `SignalsKept` | `Spec => []SignalKept` |
| `MasksKept` | `Spec => []MaskKept` |
| `SleepersWoken` | `Spec => []WokenForSignal` |

They rest on `SignalAssumption` (signals are numbers, the special ones and the masks
are made of signals) and `ActionsAssumption` (`sigaction` is called with dispositions).

*The argument.* None of the five is inductive: they speak of what a program sees
between its calls, and most of what happens is in the middle of loops.

    IInv == Types /\ AwakeReady /\ OwedFound /\ Counted
              /\ \A c \in Contexts : Placed(c) /\ Masked(c) /\ Answered(c)

`Counted` says where a signal can be taken from: `Places(s)` are the process's
pending set, that of each context, and each loop of `Raise` that has it on its list (a
loop of `Interrupt` leaves its signals pending).  There are never more of these than
posts that nobody has taken, because a loop that puts a signal on its list removes
it from the sets (`RaiseAgainKeeps`).  `OwedFound` is `SignalKept` said of these places.
`Masked` follows the mask the program will have again, `Restored(c)`: what
`sigsuspend` or the lowest handler on the stack has saved.  `Answered` is
`WokenForSignal` said of every place on the way to sleep: what is owed to a context
that waits has set `fWakeup`, is on the list of its `Interrupt`, has made that decide
to end the wait, or will be seen because the context has still to look.  `Placed` says which loops are
on the stack where.  Posting is one lemma (`PostKeeps`) for `raise`, `pthread_kill` and the
alarm; a signal that a loop looks at is another (`TopStep`), with `ExecuteEffect` for
the end of `GUSISigProcess::Raise` that both loops call.

The proof found a weakness of the run: `IInv` without `added` in `Answered` was not
inductive, because of a handler that blocks its own signal and raises it (see
[findings](#findings)).  The bound `MaxCalls = 1`, with which the run had been made,
excluded the case; it is 2 now, and the exception is in the property by name.

`GUSISocketProofs` proves of `select`, reads and `sleep`, for any contexts, sockets and
descriptors, and any number of contexts left behind in a queue:

| Theorem | States |
|---|---|
| `SelectTyped` | `SelectSpec => []SelectTypeOK`, with empty queues for sockets that are deleted |
| `QueuesMatchWaits` | `SelectSpec => []QueuedWhileWaiting` |
| `SelectHearsEvents` | `SelectSpec => []SelectorWaits` |
| `SleepsLong` | `SelectSpec => SleepUndisturbed`, an action property |

*The argument.* The queues of the sockets are counts, and a `select` is in them once
for each of its descriptors; `AddContext` and `RemoveContext` run through the
descriptors, so the counts are cardinalities of sets of descriptors. On top of
the table's invariant,

    SelectInv == TableInv /\ SelectTypes /\ DeadEmpty /\ \A t \in Contexts : ContextGood(t)

`DeadEmpty` says that a deleted socket has no queue (`~GUSISocket` empties it, and the
socket's name may be used again); `ContextGood` says of one context that the counts
are what its call waits for (`Matched`), that sockets behind descriptors nobody
has moved have it in their queue (`QueuedUnmoved`), and `SelectorWaits` (`HearsAll`).
Each call on the table is followed through `Installed` and `Removed`, whose lemmas
the descriptor table's proof has already.

`GUSIMacFileProofs` proves, for every file, all sizes of buffers and blocks and all
modes of `open`:

| Theorem | States |
|---|---|
| `FileInvariant` | `Spec => []FileInv`, the inductive invariant below |
| `FileTyped` | `Spec => []TypeOK` |
| `SyncHears` | `Spec => SyncReportsLoss` |
| `KeepsPromises` | `Spec => ImplementsFile`: the calls are those of `PosixFile` |

*The argument.* Where the program is, where the file's mark is and what is in the
two buffers fit together differently at every label of every call:

    FileInv == FileTypes /\ CallPlaces /\ Reading /\ Writing
                 /\ Positions /\ Contents /\ Room

`Positions` is the heart: of a file that is read, `fPosition` and what has been read
ahead of it end at the mark, and of one that is written, the mark and what is
to be written behind it end at `fPosition`, except after a loss or while the mark is
`astray`: then the mark may be further on. `Contents` says that
the input buffer holds the bytes before the mark. `Reading` and `Writing` say when
the buffers are empty and the chain of read-aheads has stopped, `Room` that a
write keeps to what it has found. For `KeepsPromises` each action maps to a step
of `PosixFile` or to a stutter: a `Write` appends to the content as the program sees
it (the file with the output laid over it), a `WriteDone` moves bytes from the one
to the other and changes nothing.

`GUSIBufferProofs` proves of the datagram socket, for every size of buffers and
headers and any datagrams:

| Theorem | States |
|---|---|
| `SleepersWait` | `UdpSpec => []SleeperWaits` |
| `DatagramsStay` | `UdpSpec => []DatagramsKept` |

*The argument for `SleepersWait`* is about control alone:

    UdpInv == SoundSocket(sock) /\ OneRuns /\ LocksHeld /\ NothingToWrite
                /\ StreamFirst /\ ReceiverWaits /\ SenderWaits

A buffer changes behind the back of a sleeping thread only in a completion
routine, which wakes it, or which has been deferred and runs in the `Release` of a
thread that holds the lock. The deferred `Send` wakes nobody, and need not:
`NothingToWrite` says that while it waits the output buffer is empty, but for what
a thread is about to store.

*The argument for `DatagramsStay`* adds what is in the buffers:

    KeptInv == cut \/ DataInv
    DataInv == ... /\ InputKept(sock, due, ...) /\ OutputKept(sock, owed, ...)

`InputKept` says that the bytes of the input buffer are those of the datagrams in
`due`, less the part of a header, the header or the data the receiver has in hand; and
that the block `ConsumeBuffer` has given it is still the front of the ring when it is
freed (`HeaderKept`), whatever has been stored behind it meanwhile. `OutputKept` says the
same of `owed` and the output buffer (`Sends`), with the header that `sendto` has
stored and whose data it has not; and that while a datagram is being written
(`WritesFirst`) the system was handed the first of `owed` and its data is one
piece at the front of the ring (`OnePiece`): `SendDone`, which frees it without a
look at it, frees just that. After an error of the write nothing is owed and the
positions of the ring may be outside of its memory (`GivenUp`); a `sendto` that has made its
last test still stores a datagram, in a ring that begins anew, and nothing sends it. `UdpInv` is needed for the locks, which keep the
completion routines out between the header and the data. When a datagram comes
apart (`cut`) the property says nothing more, and nor does the proof.

The bytes of a list of datagrams are a `FlattenSeq`, a fold. That folding splits at
the first and at the last datagram (`StoredFirst`, `StoredLast`) takes an induction,
and the library's induction theorems take operators; `SetInduction` is the induction
over a *set* of naturals (from `WFMin`, the least element of a nonempty set), which
the provers can instantiate. The proof attempt found that the model did not count
a header for which `Produce` had too little room as a datagram that came apart, as
it did the data: `HeaderProduce` sets `cut` now.

Only model-checked is liveness: `CallsReturn`, `WaitsEnd`, `LockReturns`,
`ReadReturns` and `DestructorEnds`, which rest on fairness and `ENABLED` and so are
beyond the prover.

## What is left out and why

* *Wording and data*: addresses, errno values, socket options, formats.
* *Ring buffer*: `Peek` and the Peeker read only; scatter/gather only cuts a request
  into pieces under one lock.
* *Contexts*: failed creation, `Liquidate` at exit, a second join of a thread that
  has ended, the allocator of the queues.
* *Pipes and descriptors*: nonblocking mode (`fBlocking` of a pipe is never cleared),
  the bytes themselves (they are `GUSIRingBuffer`'s), calls on bad descriptors, the
  copy of a table, `CloseAllDescriptors`, the close queue (no socket class modelled
  here refuses to close).
  A missing liveness property: that a woken thread runs is `GUSIContext`'s to say,
  and then `SleeperWaits` and `SelectorWaits` leave no thread waiting for what is there.
* *select*: what the sockets answer (each module of a socket class has the state a
  `select` would read); `canSleep`.
* *Signals*: job control and `SIGPIPE` (`BrokenPipe`); handlers that do more than send
  signals and change the mask, `longjmp` out of a handler; what `GUSIContext` has of the
  sleep of the process.
* *Files*: reads into several buffers (they go through the input buffer), `fcntl`,
  `fstat`, `select`, two contexts in one file, directories, opening (`GUSIMacFileDevice`).
* *MacTCP*: listen and accept, nonblocking mode, options; of datagrams also bind
  and a stream that can not be created.
* *Open Transport*: at this commit the call that would open an endpoint
  asynchronously is commented out, so the constructor waits for an event that never
  comes, and `BindToAddress` is a stub that returns -1.  A model would have to be of
  the documentation.
* *PPC Toolbox*: the engine of `GUSIMTTcp` with another driver.
* *Timers*: the list of a context's timers, which only a context that ends walks
  through, and the time arithmetic (conversions of 64-bit counts, without state; a
  deadline that has passed gives a negative interval).
* *Thread data*: tables and keys change at the program's own calls; nothing runs
  concurrently with them.
* File specifications, the file system wrappers, the name tables, the registries,
  the glue to C libraries and MPW, configuration, diagnostics, the `GUSIConfig`
  application (a GUI) and the headers of `include/`: conversions, tables and calls
  of the system without a protocol.  They are more than half of the repository's
  lines.

## Plan

1. Ring buffer: modelled, checked, proved.  Left: `Peek`, and that a `Consume` finds
   what `Valid()` counts.
2. Contexts and pthreads: modelled, checked, proved.
3. MacTCP streams: modelled, checked, proved; left is the listener (`listen`,
   `ListenDone`, `accept`).  Datagrams: modelled, checked, proved.
4. Pipes and the descriptor table: modelled, checked, proved.
5. Signals: modelled, checked, proved.  `select` and `sleep`, open files: modelled,
   checked, proved.
6. Small components: thread data, `GUSIContextQueue` with its allocator, the copy of
   a descriptor table, the timers of a context, `GUSIFileSpec`'s walk over a path.

Proofs: every safety property and every refinement the passing runs check is a
theorem.
