------------------------------ MODULE Framing ------------------------------
(***************************************************************************)
(* Zero delimited frames over one direction of a byte stream:              *)
(* transport/framing.rs.  A FrameWriter puts frames on the wire, any of    *)
(* which may fail part way; a FrameReader takes bytes off it in chunks of  *)
(* any size and cuts them into frames with its bounded buffer.             *)
(*                                                                         *)
(* A frame's bytes are its COBS encoding, which has no zero; here every    *)
(* byte of the n-th send is n.                                             *)
(***************************************************************************)
EXTENDS Naturals, Sequences

CONSTANTS
  MaxFrame,     \* MAX_FRAME_SIZE
  MaxSends,     \* bound on the sends of a behaviour
  MaxLeftover   \* bound on the unterminated bytes of a previous client

ASSUME FramingAssumption ==
  /\ MaxFrame \in Nat \ {0}
  /\ MaxSends \in Nat
  /\ MaxLeftover \in Nat

Leftover == MaxSends + 1
Bytes == 0 .. Leftover
Repeat(byte, n) == [i \in 1 .. n |-> byte]

VARIABLES
  resync,    \* FrameWriter: the last send failed
  wire,      \* bytes accepted by the stream and not yet read
  buffer,    \* FrameReader: received bytes, the first filled of its buffer
  offset,    \* start of the next frame in buffer
  search,    \* end of the region checked for a delimiter
  discard,   \* the rest of an oversized frame is being dropped
  sends,     \* history: the sends so far
  carried,   \* history: all bytes the stream ever accepted
  returned   \* history: what next_frame returned

framingVars == <<resync, wire, buffer, offset, search, discard, sends, carried, returned>>

(* next_frame's FrameTooLarge; a frame itself holds no zero.               *)
TooLarge == <<0>>

FramingInit ==
  /\ resync = FALSE
  /\ wire \in {Repeat(Leftover, n) : n \in 0 .. MaxLeftover}
  /\ buffer = <<>>
  /\ offset = 0
  /\ search = 0
  /\ discard = FALSE
  /\ sends = <<>>
  /\ carried = wire
  /\ returned = <<>>
----------------------------------------------------------------------------
(* send_frame.  After a failed send the frame starts with an extra         *)
(* delimiter.  A failure leaves any prefix of the bytes on the wire, also  *)
(* all of them when only the flush failed or came late.                    *)
RecoveryPrefix(failed) == IF failed THEN <<0>> ELSE <<>>

SendFrame(failed, content, kind) ==
  LET output == RecoveryPrefix(failed) \o content \o <<0>> IN
  \E ok \in BOOLEAN :
  \E n \in IF ok THEN {Len(output)} ELSE 0 .. Len(output) :
    /\ wire' = wire \o SubSeq(output, 1, n)
    /\ carried' = carried \o SubSeq(output, 1, n)
    /\ resync' = ~ok
    /\ sends' = Append(sends, [kind |-> kind, content |-> content, ok |-> ok])
    /\ UNCHANGED <<buffer, offset, search, discard, returned>>

MaySend == Len(sends) < MaxSends

OneZero == <<>>
ResetContent == <<0>>

SendReset ==
  /\ MaySend
  /\ SendFrame(FALSE, ResetContent, "reset")

(* A client's first output on a stream is a reset: Client::handshake.      *)
SendDropped ==
  /\ MaySend
  /\ sends # <<>>
  /\ SendFrame(resync, <<>>, "dropped")

(* send_packet refuses what cannot fit a frame before any output.          *)
EncodableInclusive(size) == size <= MaxFrame + 1
Encodable(size) == size <= MaxFrame

SendPacket(size) ==
  /\ MaySend
  /\ sends # <<>>
  /\ Encodable(size)
  /\ SendFrame(resync, Repeat(Len(sends) + 1, size), "packet")
----------------------------------------------------------------------------
(* next_frame.  The first delimiter at or after the search position ends   *)
(* the frame that starts at the offset, or only the discard.               *)
Delimiters == {i \in search + 1 .. Len(buffer) : buffer[i] = 0}

ReportDelimiter(frame) == Append(returned, frame)
Report(frame) == IF discard THEN returned ELSE Append(returned, frame)

FindDelimiter ==
  \E i \in Delimiters :
    /\ \A j \in Delimiters : i <= j
    /\ returned' = Report(SubSeq(buffer, offset + 1, i - 1))
    /\ offset' = i
    /\ search' = i
    /\ discard' = FALSE
    /\ UNCHANGED <<resync, wire, buffer, sends, carried>>

(* Without one, the partial frame moves to the start of the buffer, or is  *)
(* dropped; a full buffer proves overflow; otherwise more is read.         *)
Fragment == IF discard THEN <<>> ELSE SubSeq(buffer, offset + 1, Len(buffer))

Overflow(bytes) == Len(bytes) = MaxFrame + 1

ReportOverflow ==
  /\ Delimiters = {}
  /\ Overflow(Fragment)
  /\ returned' = Append(returned, TooLarge)
  /\ discard' = TRUE
  /\ buffer' = <<>>
  /\ offset' = 0
  /\ search' = 0
  /\ UNCHANGED <<resync, wire, sends, carried>>

Searched(fragment) == Len(fragment)

(* A read of n bytes; zero stands for a failed read, which keeps what the  *)
(* reader has.                                                             *)
ReadMore(n) ==
  /\ Delimiters = {}
  /\ ~Overflow(Fragment)
  /\ n <= Len(wire)
  /\ Len(Fragment) + n <= MaxFrame + 1
  /\ buffer' = Fragment \o SubSeq(wire, 1, n)
  /\ wire' = SubSeq(wire, n + 1, Len(wire))
  /\ offset' = 0
  /\ search' = Searched(Fragment)
  /\ UNCHANGED <<resync, discard, sends, carried, returned>>
----------------------------------------------------------------------------
FramingNext ==
  \/ SendReset
  \/ SendDropped
  \/ \E size \in 1 .. MaxFrame + 1 : SendPacket(size)
  \/ FindDelimiter
  \/ ReportOverflow
  \/ \E n \in 0 .. MaxFrame + 1 : ReadMore(n)

FramingSpec == FramingInit /\ [][FramingNext]_framingVars
----------------------------------------------------------------------------
(* Reference: the frames of a sequence of bytes, taken one by one.  The    *)
(* state is what was cut off so far, the unfinished frame, and whether an  *)
(* oversized one is skipped.                                               *)
Cut(state, byte) ==
  CASE byte = 0 /\ state.skip ->
         [state EXCEPT !.skip = FALSE]
    [] byte = 0 /\ ~state.skip ->
         [state EXCEPT !.frames = Append(@, state.part), !.part = <<>>]
    [] byte # 0 /\ ~state.skip /\ Len(state.part) = MaxFrame ->
         [frames |-> Append(state.frames, TooLarge), part |-> <<>>, skip |-> TRUE]
    [] byte # 0 /\ ~state.skip /\ Len(state.part) # MaxFrame ->
         [state EXCEPT !.part = Append(@, byte)]
    [] OTHER -> state

Start(skip) == [frames |-> <<>>, part |-> <<>>, skip |-> skip]

Scan(start, bytes) ==
  LET run[i \in 0 .. Len(bytes)] == IF i = 0 THEN start ELSE Cut(run[i - 1], bytes[i])
  IN  run[Len(bytes)]

Frames(bytes, skip) == Scan(Start(skip), bytes).frames

(* The frames read do not depend on how reads cut the stream, on failed    *)
(* reads or on the buffer: what next_frame returned so far, with what it   *)
(* still holds and what is still to come, is what the whole stream says.   *)
ReaderMatchesStream ==
  returned \o Frames(SubSeq(buffer, offset + 1, Len(buffer)) \o wire, discard)
    = Frames(carried, FALSE)

(* The frames that arrive, and those with the bytes of the n-th send.      *)
Arriving == Frames(carried, FALSE)
Carrying(n) == {i \in DOMAIN Arriving : Arriving[i] # <<>> /\ Arriving[i][1] = n}

(* A packet whose send succeeded arrives whole and once; of a failed one   *)
(* at most a prefix arrives.  The recovery delimiter after a failure, and  *)
(* the reset, keep what a failed send or an earlier client left apart from *)
(* what follows.                                                           *)
SuccessArrives ==
  \A n \in DOMAIN sends : sends[n].kind = "packet" =>
    \/ /\ ~sends[n].ok
       /\ Carrying(n) = {}
    \/ \E i \in DOMAIN Arriving :
         /\ Carrying(n) = {i}
         /\ \/ Arriving[i] = sends[n].content
            \/ /\ ~sends[n].ok
               /\ \E k \in DOMAIN sends[n].content :
                    Arriving[i] = SubSeq(sends[n].content, 1, k)

(* A reset or a dropped-session signal whose send succeeded is the last    *)
(* thing read, as an empty frame, whatever preceded it on the wire: the    *)
(* delimiter that ends a discard is not mistaken for it, nor it for one.   *)
SignalArrives ==
  sends # <<>> /\ sends[Len(sends)].ok /\ sends[Len(sends)].kind # "packet" =>
    Arriving # <<>> /\ Arriving[Len(Arriving)] = <<>>
============================================================================
