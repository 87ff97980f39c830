----------------------------- MODULE MemoryPipe -----------------------------
(***************************************************************************)
(* One direction of the in-memory duplex connection (memory/mod.rs): a     *)
(* bounded buffer between the Reader of one endpoint and the Writer of the *)
(* other.  The two directions of a Duplex share nothing but the order in   *)
(* which an endpoint's shutdown closes them.                               *)
(*                                                                         *)
(* Each turn of a read or a write holds the lock once.  A turn either      *)
(* returns or goes to sleep in the step that releases the lock.  The       *)
(* notify_all that follows a change runs after the lock is released, so it *)
(* is a step of its own.                                                   *)
(***************************************************************************)
EXTENDS Naturals, Sequences, FiniteSets

CONSTANTS
  Byte,       \* the values of a byte
  Capacity,   \* most bytes the buffer holds
  MaxChunk,   \* longest buffer a caller passes to read or write
  MaxBytes    \* bound on the bytes accepted by the pipe

ASSUME PipeAssumption ==
  /\ Capacity \in Nat \ {0}
  /\ MaxChunk \in Nat
  /\ MaxBytes \in Nat

VARIABLES
  bytes,      \* accepted and not yet read
  readerOpen, writerOpen,
  lost,       \* the reader closed with accepted output unread
  reading,    \* the reader thread: "idle", "turn", "asleep", "notify" or "gone"
  room,       \* length of the reader's buffer
  writing,    \* the writer thread: the same places
  buf,        \* the writer's bytes
  readDeadline, writeDeadline,  \* "none", "ahead" or "past"
  closing,    \* the calls of close_reader and close_writer
  accepted,   \* history: every byte a write took
  delivered,  \* history: every byte a read returned
  eof         \* history: an open reader was told the end of the stream

pipeVars == <<bytes, readerOpen, writerOpen, lost>>
threadVars == <<reading, room, writing, buf, readDeadline, writeDeadline>>
history == <<accepted, delivered, eof>>
allPipeVars == <<bytes, readerOpen, writerOpen, lost, reading, room, writing, buf,
                 readDeadline, writeDeadline, closing, accepted, delivered, eof>>

Places == {"idle", "turn", "asleep", "notify", "gone"}
Deadlines == {"none", "ahead", "past"}

(* Each end closes in its endpoint's shutdown and when its half drops.     *)
ReaderClosers == {"reader shutdown", "reader drop"}
WriterClosers == {"writer shutdown", "writer drop"}
Closers == ReaderClosers \cup WriterClosers

Chunks == UNION {[1..n -> Byte] : n \in 0..MaxChunk}

PipeInit ==
  /\ bytes = <<>>
  /\ readerOpen = TRUE /\ writerOpen = TRUE
  /\ lost = FALSE
  /\ reading = "idle" /\ room = 0
  /\ writing = "idle" /\ buf = <<>>
  /\ readDeadline = "none" /\ writeDeadline = "none"
  /\ closing = [c \in Closers |-> "idle"]
  /\ accepted = <<>> /\ delivered = <<>>
  /\ eof = FALSE
----------------------------------------------------------------------------
(* The deadlines of the two halves, which their owners set between calls.  *)

SetReadDeadline ==
  /\ reading = "idle"
  /\ readDeadline' \in Deadlines
  /\ UNCHANGED <<pipeVars, reading, room, writing, buf, writeDeadline, closing, history>>

SetWriteDeadline ==
  /\ writing = "idle"
  /\ writeDeadline' \in Deadlines \ {"none"}
  /\ UNCHANGED <<pipeVars, reading, room, writing, buf, readDeadline, closing, history>>

ReadDeadlinePasses ==
  /\ readDeadline = "ahead"
  /\ readDeadline' = "past"
  /\ UNCHANGED <<pipeVars, reading, room, writing, buf, writeDeadline, closing, history>>

WriteDeadlinePasses ==
  /\ writeDeadline = "ahead"
  /\ writeDeadline' = "past"
  /\ UNCHANGED <<pipeVars, reading, room, writing, buf, readDeadline, closing, history>>

DeadlinePassed(deadline) == deadline = "past"
----------------------------------------------------------------------------
(* Reader::read.                                                           *)

ReadCall ==
  /\ reading = "idle"
  /\ reading' = "turn"
  /\ room' \in 0..MaxChunk
  /\ UNCHANGED <<pipeVars, writing, buf, readDeadline, writeDeadline, closing, history>>

Fewer(m, n) == IF m < n THEN m ELSE n

(* Copies as many bytes as fit and removes them, past the deadline too.    *)
Deliver ==
  LET count == Fewer(room, Len(bytes)) IN
  /\ delivered' = delivered \o SubSeq(bytes, 1, count)
  /\ bytes' = SubSeq(bytes, count + 1, Len(bytes))
  /\ reading' = "notify"

(* A closed peer ends the stream once nothing is buffered.                 *)
EndsWhileBuffered == ~writerOpen
EndOfStream == bytes = <<>> /\ ~writerOpen

ReadTurn ==
  /\ reading = "turn"
  /\ \/ /\ room = 0 \/ ~readerOpen
        /\ reading' = "idle"
        /\ UNCHANGED <<bytes, delivered, eof>>
     \/ /\ room > 0 /\ readerOpen /\ bytes # <<>>
        /\ Deliver
        /\ UNCHANGED eof
     \/ /\ room > 0 /\ readerOpen /\ EndOfStream
        /\ reading' = "idle"
        /\ eof' = TRUE
        /\ UNCHANGED <<bytes, delivered>>
     \/ /\ room > 0 /\ readerOpen /\ bytes = <<>> /\ writerOpen
        /\ reading' = IF DeadlinePassed(readDeadline) THEN "idle" ELSE "asleep"
        /\ UNCHANGED <<bytes, delivered, eof>>
  /\ UNCHANGED <<readerOpen, writerOpen, lost, room, writing, buf, readDeadline,
                 writeDeadline, closing, accepted>>
----------------------------------------------------------------------------
(* Writer::write, and Writer::flush, which only observes.                  *)

WriteCall ==
  /\ writing = "idle"
  /\ writing' = "turn"
  /\ buf' \in Chunks
  /\ Len(accepted) + Len(buf') <= MaxBytes
  /\ UNCHANGED <<pipeVars, reading, room, readDeadline, writeDeadline, closing, history>>

(* Either end closed refuses the bytes.                                    *)
Accepts == readerOpen /\ writerOpen

Space == Capacity - Len(bytes)

Accept ==
  LET taken == SubSeq(buf, 1, Fewer(Len(buf), Space)) IN
  /\ bytes' = bytes \o taken
  /\ accepted' = accepted \o taken
  /\ writing' = "notify"

WriteTurn ==
  /\ writing = "turn"
  /\ \/ /\ DeadlinePassed(writeDeadline) \/ buf = <<>> \/ ~Accepts
        /\ writing' = "idle"
        /\ UNCHANGED <<bytes, accepted>>
     \/ /\ ~DeadlinePassed(writeDeadline) /\ buf # <<>> /\ Accepts /\ Space > 0
        /\ Accept
     \/ /\ ~DeadlinePassed(writeDeadline) /\ buf # <<>> /\ Accepts /\ Space = 0
        /\ writing' = "asleep"
        /\ UNCHANGED <<bytes, accepted>>
  /\ UNCHANGED <<readerOpen, writerOpen, lost, reading, room, buf, readDeadline,
                 writeDeadline, closing, delivered, eof>>

FlushFails == DeadlinePassed(writeDeadline) \/ ~writerOpen \/ lost
----------------------------------------------------------------------------
(* notify_all wakes the sleepers; a timed wait also ends at its deadline.  *)

Woken(place) == IF place = "asleep" THEN "turn" ELSE place

ReadNotify ==
  /\ reading = "notify"
  /\ reading' = "idle"
  /\ writing' = Woken(writing)
  /\ UNCHANGED <<pipeVars, room, buf, readDeadline, writeDeadline, closing, history>>

WriteNotify ==
  /\ writing = "notify"
  /\ writing' = "idle"
  /\ reading' = Woken(reading)
  /\ UNCHANGED <<pipeVars, room, buf, readDeadline, writeDeadline, closing, history>>

UntimedWait(place, deadline) == FALSE
TimesOut(place, deadline) == place = "asleep" /\ DeadlinePassed(deadline)

ReadTimer ==
  /\ TimesOut(reading, readDeadline)
  /\ reading' = "turn"
  /\ UNCHANGED <<pipeVars, room, writing, buf, readDeadline, writeDeadline, closing, history>>

WriteTimer ==
  /\ TimesOut(writing, writeDeadline)
  /\ writing' = "turn"
  /\ UNCHANGED <<pipeVars, reading, room, buf, readDeadline, writeDeadline, closing, history>>
----------------------------------------------------------------------------
(* Pipe::close_reader and Pipe::close_writer.                              *)

(* A half is dropped by its owner, so no call of that half is in progress. *)
Drops(c) ==
  CASE c = "reader drop" -> reading = "idle" /\ reading' = "gone" /\ UNCHANGED writing
    [] c = "writer drop" -> writing = "idle" /\ writing' = "gone" /\ UNCHANGED reading
    [] OTHER -> UNCHANGED <<reading, writing>>

(* Closing the reader discards what is buffered and marks it lost.         *)
DiscardForgetsLoss == bytes' = <<>> /\ lost' = (bytes # <<>>)
Discard == bytes' = <<>> /\ lost' = (lost \/ bytes # <<>>)

CloseReader(c) ==
  /\ c \in ReaderClosers
  /\ closing[c] = "idle"
  /\ Drops(c)
  /\ readerOpen' = FALSE
  /\ Discard
  /\ closing' = [closing EXCEPT ![c] = "notify"]
  /\ UNCHANGED <<writerOpen, room, buf, readDeadline, writeDeadline, history>>

CloseWriter(c) ==
  /\ c \in WriterClosers
  /\ closing[c] = "idle"
  /\ Drops(c)
  /\ writerOpen' = FALSE
  /\ closing' = [closing EXCEPT ![c] = "notify"]
  /\ UNCHANGED <<bytes, readerOpen, lost, room, buf, readDeadline, writeDeadline, history>>

CloseNotifiesOne == reading' = Woken(reading) /\ UNCHANGED writing
CloseNotifies == reading' = Woken(reading) /\ writing' = Woken(writing)

CloseNotify(c) ==
  /\ closing[c] = "notify"
  /\ closing' = [closing EXCEPT ![c] = "done"]
  /\ CloseNotifies
  /\ UNCHANGED <<pipeVars, room, buf, readDeadline, writeDeadline, history>>
----------------------------------------------------------------------------
PipeNext ==
  \/ SetReadDeadline \/ ReadDeadlinePasses \/ ReadTimer
  \/ SetWriteDeadline \/ WriteDeadlinePasses \/ WriteTimer
  \/ ReadCall \/ ReadTurn \/ ReadNotify
  \/ WriteCall \/ WriteTurn \/ WriteNotify
  \/ \E c \in Closers : CloseReader(c) \/ CloseWriter(c) \/ CloseNotify(c)

(* A thread inside a call keeps running, and the clock keeps going.        *)
PipeFairness ==
  /\ WF_allPipeVars(ReadDeadlinePasses) /\ WF_allPipeVars(ReadTimer)
  /\ WF_allPipeVars(WriteDeadlinePasses) /\ WF_allPipeVars(WriteTimer)
  /\ WF_allPipeVars(ReadTurn) /\ WF_allPipeVars(ReadNotify)
  /\ WF_allPipeVars(WriteTurn) /\ WF_allPipeVars(WriteNotify)
  /\ \A c \in Closers : WF_allPipeVars(CloseNotify(c))

PipeSpec == PipeInit /\ [][PipeNext]_allPipeVars
PipeFairSpec == PipeSpec /\ PipeFairness
----------------------------------------------------------------------------
PipeTypeOK ==
  /\ bytes \in Seq(Byte) /\ Len(bytes) <= Capacity
  /\ readerOpen \in BOOLEAN /\ writerOpen \in BOOLEAN /\ lost \in BOOLEAN
  /\ reading \in Places /\ writing \in Places
  /\ room \in Nat /\ buf \in Seq(Byte)
  /\ readDeadline \in Deadlines /\ writeDeadline \in Deadlines
  /\ closing \in [Closers -> {"idle", "notify", "done"}]
  /\ accepted \in Seq(Byte) /\ delivered \in Seq(Byte)
  /\ eof \in BOOLEAN

(* Bytes leave the pipe in the order they entered it, none of them twice   *)
(* and none skipped; a reader that was told the end of the stream has been *)
(* given every byte ever accepted, also by a write that raced the closing. *)
DeliveredInOrder ==
  /\ ~lost => accepted = delivered \o bytes
  /\ lost => SubSeq(accepted, 1, Len(delivered)) = delivered
  /\ eof => accepted = delivered

(* Writer::flush, on an open writer within its deadline, fails if and only *)
(* if the reader closed without having read everything it was sent.        *)
FlushTellsTheTruth ==
  writerOpen /\ ~DeadlinePassed(writeDeadline) =>
    (FlushFails <=> ~readerOpen /\ accepted # delivered)

SomeoneNotifies ==
  \/ reading = "notify" \/ writing = "notify"
  \/ \E c \in Closers : closing[c] = "notify"

(* A sleeping read or write has nothing to do, or a notify_all that will   *)
(* wake it has yet to run.                                                 *)
NoSleeperForgotten ==
  /\ reading = "asleep" => (bytes = <<>> /\ readerOpen /\ writerOpen) \/ SomeoneNotifies
  /\ writing = "asleep" => (Space = 0 /\ readerOpen /\ writerOpen) \/ SomeoneNotifies

(* Closing either end, or a deadline, ends every read and write in         *)
(* progress, and so do bytes for a reader and space for a writer.          *)
BlockedCallsReturn ==
  /\ (reading \in {"turn", "asleep"}
      /\ (bytes # <<>> \/ ~readerOpen \/ ~writerOpen \/ readDeadline # "none"))
     ~> reading \in {"idle", "gone"}
  /\ (writing \in {"turn", "asleep"}
      /\ (Space > 0 \/ ~readerOpen \/ ~writerOpen \/ writeDeadline # "none"))
     ~> writing \in {"idle", "gone"}
=============================================================================
