---------------------------- MODULE GUSIMacFile ----------------------------
(***************************************************************************)
(* An open file: GUSIMacFileSocket (GUSIMacFile.cpp; the member functions  *)
(* are in GUSIMacFile.nw).                                                 *)
(*                                                                         *)
(* A file that is only read is read ahead of the program, at interrupt     *)
(* level, into a ring buffer; what is written goes into another one and is *)
(* written behind the program.  Both work at the File Manager's mark of    *)
(* the file, which fPosition does not follow.  The ring buffers are the    *)
(* sequences they hold (GUSIRingBuffer says how they keep them): a piece   *)
(* of code that locks one is a single step, as an interrupt that comes     *)
(* meanwhile is deferred to its end.  One context uses the file at a time. *)
(***************************************************************************)
EXTENDS Integers, Sequences

CONSTANTS
  Start,              \* what the file holds at the beginning
  Zero, Byte,         \* a zero byte, and what the program writes
  InSize, OutSize,    \* the sizes of the ring buffers
  fBlockSize,
  MaxLength,          \* bound: of the file, of positions and of counts
  MayFail             \* whether the volume may fail a request

ASSUME MacFileAssumption ==
  /\ {InSize, OutSize, fBlockSize, MaxLength} \subseteq Nat \ {0}
  /\ InSize >= 4 /\ OutSize >= 2 /\ MayFail \in BOOLEAN
  /\ Start \in Seq(Nat \cup {Zero, Byte}) /\ Len(Start) <= MaxLength

VARIABLES
  file, mark,         \* the file on the volume, and its mark
  mode, fAppend,
  fReadShutdown, fWriteShutdown, fReadAhead, fBeyondEOF, fPosition,
  fAsyncError,
  input,              \* what the input buffer holds
  readPB,             \* fReadPB: [state, count, got, error]
  deferRead,          \* GUSIMFRead is deferred to the next Release
  output, writePB,    \* the output buffer, and how much of it fWritePB writes
  pc, op, rest,       \* the call the program is in, and what it has left to do
  data, status,       \* what this or the last call has delivered, and returned
  dropped, astray     \* history: data was given up; so was the mark's place

fileVars == <<file, mark, mode, fAppend>>
readVars == <<fReadShutdown, fReadAhead, input, readPB, deferRead>>
writeVars == <<fWriteShutdown, output, writePB, dropped>>
callVars == <<pc, op, rest, data, status>>
vars == <<fileVars, readVars, writeVars, callVars, fBeyondEOF, fPosition,
          fAsyncError, astray>>

Smaller(a, b) == IF a < b THEN a ELSE b

\* Requests end at block boundaries where they can.
Aligned(pos, n) ==
  LET align == pos % fBlockSize
  IN IF align # 0 THEN Smaller(n, fBlockSize - align)
     ELSE IF n > fBlockSize THEN n - (n % fBlockSize) ELSE n

Idle == [state |-> "idle", count |-> 0, got |-> <<>>, error |-> FALSE]

-----------------------------------------------------------------------------
(***************************************************************************)
(* Reading ahead.                                                          *)
(***************************************************************************)
\* Mutant: the request does not look at the room that is left.
StartReadBlind(pos, buffered, shutdown) ==
  /\ deferRead' = FALSE
  /\ readPB' = [Idle EXCEPT !.state = "ahead",
                  !.count = Aligned(pos + Len(buffered), InSize \div 2)]

\* GUSIMFRead, with what fPosition and the input buffer have become.
StartRead(pos, buffered, shutdown) ==
  LET free == InSize - Len(buffered)
      n    == Smaller(free, InSize \div 2)
  IN IF free < InSize \div 4
     THEN deferRead' = ~shutdown /\ readPB' = Idle
     ELSE /\ deferRead' = FALSE
          /\ readPB' = [Idle EXCEPT !.state = "ahead",
                          !.count = Aligned(pos + Len(buffered), n)]

\* The bytes the File Manager delivers for a request at the mark.
AtMark(n) == SubSeq(file, mark + 1, Smaller(mark + n, Len(file)))

\* Mutant: the end of the file is reported, but the read ahead goes on.
EndsReadingNever(error) ==
  fAsyncError' = (fAsyncError \/ error) /\ UNCHANGED fReadShutdown

\* An error, the end of the file among them, is the end of the read ahead.
EndsReading(error) ==
  /\ fAsyncError' = (fAsyncError \/ error)
  /\ fReadShutdown' = (fReadShutdown \/ error)

\* A request fails at any byte.
Tried(fails) == IF fails THEN 0 .. readPB.count ELSE {readPB.count}

\* PBReadAsync completes and calls GUSIMFReadDone.
ReadAheadDone(fails) ==
  /\ readPB.state = "ahead"
  /\ \E n \in Tried(fails) :
       LET got      == AtMark(n)
           buffered == input \o got
       IN /\ input' = buffered /\ mark' = mark + Len(got)
          /\ EndsReading(fails \/ Len(got) < readPB.count)   \* or eofErr
          /\ IF fReadShutdown'
             THEN readPB' = Idle /\ deferRead' = FALSE
             ELSE StartRead(fPosition, buffered, fReadShutdown)
  /\ UNCHANGED <<file, mode, fAppend, fReadAhead, writeVars, callVars,
                 fBeyondEOF, fPosition, astray>>

\* A read for the program itself completes and calls GUSIMFWakeup.
DirectReadDone(fails) ==
  /\ readPB.state = "direct"
  /\ \E n \in Tried(fails) :
       /\ readPB' = [readPB EXCEPT !.state = "done", !.got = AtMark(n),
                                   !.error = fails]
       /\ mark' = mark + Len(AtMark(n))
  /\ UNCHANGED <<file, mode, fAppend, fReadShutdown, fReadAhead, input,
                 deferRead, writeVars, callVars, fBeyondEOF, fPosition,
                 fAsyncError, astray>>

-----------------------------------------------------------------------------
(***************************************************************************)
(* Writing behind.                                                         *)
(***************************************************************************)
\* What is on the volume when s has been written at position at.
Stored(at, s) == SubSeq(file, 1, at) \o s \o SubSeq(file, at + Len(s) + 1, Len(file))

\* GUSIMFWrite; without data it is deferred to the Release that brings some.
StartWrite(pos, buffered) ==
  writePB' = IF buffered = <<>> THEN 0
             ELSE Aligned(pos - Len(buffered),
                          Smaller(Len(buffered), OutSize \div 2))

\* Mutant: after an error the socket is not shut down.
WriteFailsOpen ==
  /\ output' = <<>> /\ writePB' = 0 /\ dropped' = TRUE
  /\ fAsyncError' = TRUE
  /\ UNCHANGED <<file, mark, fWriteShutdown>>

\* "If a write fails, the whole write buffer is cleared."
WriteFails ==
  /\ output' = <<>> /\ writePB' = 0 /\ dropped' = TRUE
  /\ fAsyncError' = TRUE /\ fWriteShutdown' = TRUE
  /\ UNCHANGED <<file, mark>>

\* GUSIMFWriteDone.
WriteDone(fails) ==
  /\ writePB > 0
  /\ IF fails THEN WriteFails
     ELSE LET later == SubSeq(output, writePB + 1, Len(output))
          IN /\ file' = Stored(mark, SubSeq(output, 1, writePB))
             /\ mark' = mark + writePB
             /\ output' = later /\ StartWrite(fPosition, later)
             /\ UNCHANGED <<fWriteShutdown, fAsyncError, dropped>>
  /\ UNCHANGED <<mode, fAppend, readVars, callVars, fBeyondEOF, fPosition,
                 astray>>

\* The program puts bytes into the output buffer, and Release starts a write.
Put(bytes, pos) ==
  /\ output' = output \o bytes
  /\ fPosition' = pos
  /\ IF writePB = 0 THEN StartWrite(pos, output \o bytes) ELSE UNCHANGED writePB
  /\ UNCHANGED <<fWriteShutdown, dropped>>

-----------------------------------------------------------------------------
(***************************************************************************)
(* The calls.                                                              *)
(***************************************************************************)
At(label) == pc = label
Goto(label) == pc' = label
NoCall == [name |-> "none", to |-> 0, count |-> 0]

Return(s) == pc' = "idle" /\ status' = s /\ op' = NoCall /\ rest' = 0

Begin(name, n, to, label) ==
  /\ At("idle")
  /\ op' = [name |-> name, to |-> to, count |-> n] /\ rest' = n
  /\ Goto(label)
  /\ data' = <<>> /\ status' = "ok"

Quiet == UNCHANGED <<fileVars, readVars, writeVars, fBeyondEOF, fPosition,
                     fAsyncError, astray>>

\* read, fsync (and fstat, close) begin with SyncWrite.
BeginRead(n) == Begin("read", n, 0, "sync") /\ Quiet
BeginFsync == Begin("fsync", 0, 0, "sync") /\ Quiet

\* lseek and ftruncate, to a position that is given by the program.
BeginSeek(name, to) ==
  /\ IF ~fReadShutdown \/ input # <<>>
     THEN /\ Begin(name, 0, to, "syncRead")
          /\ fReadAhead' = FALSE /\ fReadShutdown' = TRUE
          /\ UNCHANGED <<input, readPB, deferRead>>
     ELSE Begin(name, 0, to, "sync") /\ UNCHANGED readVars
  /\ UNCHANGED <<fileVars, writeVars, fBeyondEOF, fPosition, fAsyncError,
                 astray>>

\* A write first reports what became of those before, and is appended, or
\* fills the room beyond the end of the file: lseek to the end.
BeginWrite(n) ==
  /\ IF fAsyncError \/ fWriteShutdown
     THEN At("idle") /\ Return("error") /\ UNCHANGED data
     ELSE Begin("write", n, fPosition,
                IF fAppend \/ fBeyondEOF THEN "sync" ELSE "put")
  /\ fAsyncError' = FALSE
  /\ UNCHANGED <<fileVars, readVars, writeVars, fBeyondEOF, fPosition, astray>>

\* The end of lseek: a position that has not changed is not set again.
Seek(to) ==
  /\ fPosition' = to
  /\ IF to = fPosition THEN UNCHANGED <<mark, fBeyondEOF, astray>>
     ELSE /\ fBeyondEOF' = (to > Len(file))
          /\ mark' = IF to > Len(file) THEN mark ELSE to
          /\ astray' = FALSE

\* SyncRead: what has been read ahead is given up.  A read ahead that is
\* deferred is forgotten when Consume first releases the buffer.
SyncRead ==
  /\ At("syncRead") /\ readPB.state # "ahead"
  /\ input' = <<>> /\ deferRead' = FALSE
  /\ astray' = (astray \/ input # <<>>)
  /\ Goto("seek")
  /\ UNCHANGED <<fileVars, fReadShutdown, fReadAhead, readPB, writeVars, op,
                 rest, data, status, fBeyondEOF, fPosition, fAsyncError>>

AfterSync == CASE op.name = "fsync" -> "synced"
               [] op.name = "read" -> "read"
               [] OTHER -> "seek"

\* The end of SyncWrite.
SyncWrite ==
  /\ At("sync")
  /\ fWriteShutdown \/ output = <<>>
  /\ Goto(AfterSync)
  /\ Quiet /\ UNCHANGED <<op, rest, data, status>>

Fsync ==
  /\ At("synced")
  /\ Return(IF fWriteShutdown THEN "error" ELSE "ok")
  /\ Quiet /\ UNCHANGED data

Lseek ==
  /\ At("seek") /\ op.name = "lseek"
  /\ Seek(op.to) /\ Return("ok")
  /\ UNCHANGED <<file, mode, fAppend, readVars, writeVars, data,
                 fAsyncError>>

\* ftruncate, after its lseek.
Ftruncate ==
  /\ At("seek") /\ op.name = "ftruncate"
  /\ Seek(op.to) /\ Goto("truncate")
  /\ UNCHANGED <<file, mode, fAppend, readVars, writeVars, op, rest, data,
                 status, fAsyncError>>

\* Beyond the end of the file, lseek to the end is all.
TruncateAtEnd ==
  /\ At("truncate") /\ fBeyondEOF
  /\ Seek(Len(file)) /\ Return("ok")
  /\ UNCHANGED <<file, mode, fAppend, readVars, writeVars, data, fAsyncError>>

Resized(f, n) == [i \in 1 .. n |-> IF i <= Len(f) THEN f[i] ELSE Zero]

\* SetEOF; a mark behind the new end is moved there.
SetEOF ==
  /\ At("truncate") /\ ~fBeyondEOF /\ mode # "rdonly"
  /\ file' = Resized(file, fPosition) /\ mark' = Smaller(mark, fPosition)
  /\ Return("ok")
  /\ UNCHANGED <<mode, fAppend, readVars, writeVars, data, fBeyondEOF, fPosition,
                 fAsyncError, astray>>

\* The volume refuses it, or lseek to the end.
TruncateFails ==
  /\ At("truncate") /\ (MayFail \/ (~fBeyondEOF /\ mode = "rdonly"))
  /\ Return("error") /\ Quiet /\ UNCHANGED data

\* write, after its lseek(0, SEEK_END).
SeekEnd ==
  /\ At("seek") /\ op.name = "write"
  /\ Seek(Len(file))
  /\ Goto(IF fAppend THEN "put" ELSE "fill")
  /\ UNCHANGED <<file, mode, fAppend, readVars, writeVars, op, rest, data,
                 status, fAsyncError>>

\* lseek fails, whatever it was called with, or for; what has been read ahead
\* is gone already.
SeekFails ==
  /\ At("seek") /\ op.name \in {"lseek", "ftruncate"}
  /\ Return("error") /\ Quiet /\ UNCHANGED data

\* write does not look at what its lseek returns.
SeekEndFails ==
  /\ At("seek") /\ op.name = "write" /\ MayFail
  /\ Goto(IF fAppend THEN "put" ELSE "fill")
  /\ astray' = (astray \/ fBeyondEOF)
  /\ UNCHANGED <<fileVars, readVars, writeVars, op, rest, data, status,
                 fBeyondEOF, fPosition, fAsyncError>>

\* The room beyond the end of the file is filled with zeros, piece by piece.
Fill ==
  /\ At("fill") /\ fPosition < op.to
  /\ IF fWriteShutdown
     THEN /\ Return("error")
          /\ UNCHANGED <<output, writePB, fPosition, fWriteShutdown, dropped>>
     ELSE \E n \in 1 .. Smaller(op.to - fPosition, OutSize - Len(output)) :
            /\ Put([i \in 1 .. n |-> Zero], fPosition + n)
            /\ UNCHANGED <<pc, status, op, rest>>
  /\ UNCHANGED <<fileVars, readVars, data, fBeyondEOF, fAsyncError,
                 astray>>

Filled ==
  /\ At("fill") /\ fPosition >= op.to
  /\ Goto("put") /\ Quiet /\ UNCHANGED <<op, rest, data, status>>

\* A write that may not block wants room for all of it at the beginning.
WouldBlock ==
  /\ At("put") /\ rest = op.count /\ OutSize - Len(output) < rest
  /\ Return("error") /\ Quiet /\ UNCHANGED data

\* The loop of write: as many bytes as there is room for.
Write ==
  /\ At("put") /\ rest > 0
  /\ IF fWriteShutdown
     THEN /\ Return("error")
          /\ UNCHANGED <<output, writePB, fPosition, fWriteShutdown, dropped>>
     ELSE LET n == Smaller(rest, OutSize - Len(output))
          IN /\ n > 0 /\ Put([i \in 1 .. n |-> Byte], fPosition + n)
             /\ rest' = rest - n
             /\ UNCHANGED <<pc, status, op>>
  /\ UNCHANGED <<fileVars, readVars, data, fBeyondEOF, fAsyncError, astray>>

Written ==
  /\ At("put") /\ rest = 0
  /\ Return("ok") /\ Quiet /\ UNCHANGED data

\* read has nothing to read beyond the end of the file.
ReadBeyond ==
  /\ At("read") /\ fBeyondEOF
  /\ Return(IF fAsyncError THEN "error" ELSE "ok") /\ fAsyncError' = FALSE
  /\ UNCHANGED <<fileVars, readVars, writeVars, data, fBeyondEOF,
                 fPosition, astray>>

UsesInput == ~fReadAhead /\ (~fReadShutdown \/ input # <<>>)

\* Mutant: the position does not follow what is taken from the buffer.
ReadInputStays ==
  /\ At("read") /\ ~fBeyondEOF /\ UsesInput /\ rest > 0 /\ input # <<>>
  /\ LET n     == Smaller(rest, Len(input))
         later == SubSeq(input, n + 1, Len(input))
     IN /\ data' = SubSeq(input, 1, n) /\ input' = later
        /\ rest' = rest - n
        /\ IF deferRead THEN StartRead(fPosition, later, fReadShutdown)
                        ELSE UNCHANGED <<readPB, deferRead>>
  /\ UNCHANGED <<fileVars, fReadShutdown, fReadAhead, writeVars, pc, op, status,
                 fBeyondEOF, fPosition, fAsyncError, astray>>

\* From the input buffer; Release starts a read ahead that has been deferred.
ReadInput ==
  /\ At("read") /\ ~fBeyondEOF /\ UsesInput /\ rest > 0 /\ input # <<>>
  /\ LET n     == Smaller(rest, Len(input))
         later == SubSeq(input, n + 1, Len(input))
     IN /\ data' = SubSeq(input, 1, n) /\ input' = later
        /\ fPosition' = fPosition + n
        /\ rest' = rest - n
        /\ IF deferRead THEN StartRead(fPosition + n, later, fReadShutdown)
                        ELSE UNCHANGED <<readPB, deferRead>>
  /\ UNCHANGED <<fileVars, fReadShutdown, fReadAhead, writeVars, pc, op, status,
                 fBeyondEOF, fAsyncError, astray>>

\* Nothing is in the buffer: an error is reported, or the call would block.
ReadEmpty ==
  /\ At("read") /\ ~fBeyondEOF /\ UsesInput /\ rest > 0 /\ input = <<>>
  /\ Return("error") /\ fAsyncError' = FALSE
  /\ UNCHANGED <<fileVars, readVars, writeVars, data, fBeyondEOF,
                 fPosition, astray>>

AwaitInput ==
  /\ At("read") /\ ~fBeyondEOF /\ UsesInput /\ rest > 0 /\ input = <<>>
  /\ ~fAsyncError
  /\ Goto("awaitInput") /\ Quiet /\ UNCHANGED <<op, rest, data, status>>

InputArrives ==
  /\ At("awaitInput") /\ (fReadShutdown \/ input # <<>>)
  /\ Goto("read") /\ Quiet /\ UNCHANGED <<op, rest, data, status>>

\* The rest is read from the file itself.
DirectRead ==
  /\ At("read") /\ ~fBeyondEOF /\ ~UsesInput /\ rest > 0
  /\ readPB' = [Idle EXCEPT !.state = "direct", !.count = rest]
  /\ Goto("direct")
  /\ UNCHANGED <<fileVars, fReadShutdown, fReadAhead, input, deferRead,
                 writeVars, op, rest, data, status, fBeyondEOF, fPosition,
                 fAsyncError, astray>>

\* The first read that has been served this way starts the read ahead.
DirectReadReturns ==
  /\ At("direct") /\ readPB.state = "done" /\ ~readPB.error
  /\ fPosition' = fPosition + Len(readPB.got)
  /\ data' = IF readPB.got = <<>> THEN data ELSE readPB.got
  /\ fReadAhead' = FALSE
  /\ IF fReadAhead /\ ~fReadShutdown
     THEN StartRead(fPosition', input, fReadShutdown)
     ELSE readPB' = Idle /\ UNCHANGED deferRead
  /\ Return("ok")
  /\ UNCHANGED <<fileVars, fReadShutdown, input, writeVars,
                 fBeyondEOF, fAsyncError, astray>>

\* An error other than the end of the file: fPosition does not follow the mark.
DirectReadFails ==
  /\ At("direct") /\ readPB.state = "done" /\ readPB.error
  /\ readPB' = Idle
  /\ astray' = (astray \/ readPB.got # <<>>)
  /\ Return("error")
  /\ UNCHANGED <<fileVars, fReadShutdown, fReadAhead, input, deferRead, writeVars,
                 data, fBeyondEOF, fPosition, fAsyncError>>

ReadFull ==
  /\ At("read") /\ ~fBeyondEOF /\ rest = 0
  /\ Return("ok") /\ Quiet /\ UNCHANGED data

-----------------------------------------------------------------------------
\* The mode of open, and GUSIMacFileSocket's constructor.
Init ==
  /\ file = Start /\ mark = 0
  /\ mode \in {"rdonly", "wronly", "rdwr"}
  /\ fAppend \in IF mode = "rdonly" THEN {FALSE} ELSE BOOLEAN
  /\ fReadShutdown = (mode # "rdonly") /\ fReadAhead = (mode = "rdonly")
  /\ fWriteShutdown = (mode = "rdonly")
  /\ fBeyondEOF = FALSE /\ fPosition = 0 /\ fAsyncError = FALSE
  /\ input = <<>> /\ readPB = Idle /\ deferRead = FALSE
  /\ output = <<>> /\ writePB = 0
  /\ pc = "idle" /\ op = NoCall /\ rest = 0
  /\ data = <<>> /\ status = "ok"
  /\ dropped = FALSE /\ astray = FALSE

Calls ==
  \/ \E n \in 1 .. MaxLength :
       \/ mode # "wronly" /\ BeginRead(n)
       \/ /\ (IF fPosition > Len(file) + Len(output) THEN fPosition
              ELSE Len(file) + Len(output)) + n <= MaxLength
          /\ BeginWrite(n)
  \/ \E name \in {"lseek", "ftruncate"}, to \in 0 .. MaxLength :
       BeginSeek(name, to)
  \/ BeginFsync

CallCode ==
  \/ SyncRead \/ SyncWrite \/ Fsync
  \/ Lseek \/ Ftruncate \/ TruncateAtEnd \/ SetEOF \/ TruncateFails
  \/ SeekEnd \/ SeekFails \/ SeekEndFails
  \/ Fill \/ Filled \/ WouldBlock \/ Write \/ Written
  \/ ReadBeyond \/ ReadInput \/ ReadEmpty \/ AwaitInput \/ InputArrives
  \/ DirectRead \/ DirectReadReturns \/ DirectReadFails \/ ReadFull

Volume ==
  \E fails \in {FALSE, MayFail} :
    ReadAheadDone(fails) \/ DirectReadDone(fails) \/ WriteDone(fails)

Next == Calls \/ CallCode \/ Volume

Spec == Init /\ [][Next]_vars

\* The volume answers, and the library's code is executed.
FairSpec == Spec /\ WF_vars(CallCode) /\ WF_vars(Volume)

-----------------------------------------------------------------------------
\* The values of the variables; the buffers, and the requests under way in
\* them, keep within their sizes.
TypeOK ==
  /\ file \in Seq(Nat \cup {Zero, Byte}) /\ Len(file) <= MaxLength
  /\ mark \in 0 .. Len(file) /\ fPosition \in 0 .. MaxLength + OutSize
  /\ mode \in {"rdonly", "wronly", "rdwr"}
  /\ {fAppend, fReadShutdown, fWriteShutdown, fReadAhead, fBeyondEOF,
      fAsyncError, deferRead, dropped, astray} \subseteq BOOLEAN
  /\ readPB.state \in {"idle", "ahead", "direct", "done"}
  /\ Len(input) + (IF readPB.state = "ahead" THEN readPB.count ELSE 0) <= InSize
  /\ writePB <= Len(output) /\ Len(output) <= OutSize
  /\ rest \in 0 .. op.count

\* Where the program is in the file: a write beyond the end of the file moves
\* fPosition back while it fills the room in between.
Offset ==
  IF op.name = "write" /\ ~fAppend /\ pc \in {"sync", "seek", "fill"}
  THEN op.to ELSE fPosition

File == INSTANCE PosixFile
  WITH content <- Stored(mark, output), offset <- Offset,
       lost <- dropped \/ astray

Chunks == {[i \in 1 .. n |-> b] : n \in 1 .. OutSize, b \in {Zero, Byte}}

\* Whatever is under way ahead of the program or behind it, every call reads
\* and writes the bytes at its position, once and in order, until the volume
\* has refused a write, or the mark has got away from fPosition: when lseek has
\* given up what had been read ahead (GUSIMacFile.nw:1187), and then fails or
\* finds the position that the file already has; when a read fails halfway
\* (nw:1322); when the seek to the end fails that a write beyond it begins with
\* (nw:1378).  From the next lseek to another position on, it is kept again.
ImplementsFile == File!Init(Start) /\ [][File!Next(Chunks)]_(File!vars)

\* "If there was data in the buffer, we need to move the file position back by
\* the amount of data" (GUSIMacFile.nw:1183): no seek, successful or not, makes
\* the next read miss bytes of the file.
SeekKeepsBytes ==
  [][~dropped /\ data' # data => data' = SubSeq(file, fPosition + 1, fPosition')]_vars

\* fsync does not answer ok when bytes that a write has accepted are not on the
\* volume, however long ago, and in which call, the volume refused them
\* (GUSIMFWriteDone empties the whole buffer).
SyncReportsLoss ==
  [][At("synced") /\ status' = "ok" /\ pc' = "idle"
     => output = <<>> /\ ~dropped]_vars

\* Every call returns: a request is under way whenever a call waits for one.
CallsReturn == pc # "idle" ~> pc = "idle"
=============================================================================
