--------------------------- MODULE StreamDecoder ---------------------------
(***************************************************************************)
(* FrameStreamDecoder of src/src/protocol/stream_decoder.cpp, with         *)
(* decode_frame and encode_frame of codec.cpp: the bytes of a QUIC stream  *)
(* or TLS connection, in the pieces the transport hands over, to frames.   *)
(* push is written as the steps of its loops.  A header is two bytes here: *)
(* the message type (magic and version included: a type that is not known  *)
(* stands for any malformed header) and the size of the payload.           *)
(***************************************************************************)
EXTENDS Integers, Sequences

CONSTANTS
    Types,          \* the known message types
    MaxPayload,     \* max_payload_size
    Sendings        \* the sequences of frames a peer may send

HeaderSize == 2
MaxFrame == HeaderSize + MaxPayload

VARIABLES
    sent,           \* the frames of the peer
    wire,           \* their bytes that have not been handed over
    bytes,          \* the rest of the piece push works on
    buffer_, read_offset_,
    frames,         \* the frames push has found in this piece
    delivered,      \* the frames returned so far
    returned,       \* the bytes push has returned from or thrown in
    pc              \* "idle", a step of push, or "broken" after a throw

dvars == <<sent, wire, bytes, buffer_, read_offset_, frames, delivered, returned, pc>>

is_known_message_type(type) == type \in Types

\* The frame as the peer writes it; encode_frame if it is well formed.
encode_frame(f) == <<f.type, f.size>> \o f.payload

\* The bytes of a sequence of frames.
Stream(s) ==
    LET upto[i \in 0..Len(s)] == IF i = 0 THEN <<>> ELSE upto[i - 1] \o encode_frame(s[i])
    IN  upto[Len(s)]

ASSUME DecoderAssumption ==
    /\ MaxPayload \in Nat
    /\ \A s \in Sendings : Stream(s) \in Seq(Nat)

\* decode_frame: nothing is looked at before the header is whole; then the header is checked
\* before the payload is waited for.
decode_frame(b) ==
    IF Len(b) < HeaderSize THEN [status |-> "need_more_data"]
    ELSE IF ~is_known_message_type(b[1]) \/ b[2] > MaxPayload THEN [status |-> "invalid"]
    ELSE IF Len(b) < HeaderSize + b[2] THEN [status |-> "need_more_data"]
    ELSE [status |-> "complete", consumed |-> HeaderSize + b[2],
          frame |-> [type |-> b[1], size |-> b[2], payload |-> SubSeq(b, HeaderSize + 1, HeaderSize + b[2])]]

\* The bytes handed over so far.
Taken == Len(Stream(sent)) - Len(wire)

Unread == SubSeq(buffer_, read_offset_ + 1, Len(buffer_))

DecoderInit ==
    /\ sent \in Sendings
    /\ wire = Stream(sent)
    /\ bytes = <<>> /\ buffer_ = <<>> /\ read_offset_ = 0
    /\ frames = <<>> /\ delivered = <<>> /\ returned = 0 /\ pc = "idle"

\* The transport hands over a piece of the stream.
push ==
    /\ pc = "idle" /\ wire # <<>>
    /\ \E n \in 1 .. Len(wire) : bytes' = SubSeq(wire, 1, n) /\ wire' = SubSeq(wire, n + 1, Len(wire))
    /\ frames' = <<>> /\ pc' = "insert"
    /\ UNCHANGED <<sent, buffer_, read_offset_, delivered, returned>>

\* The outer loop: as much of the piece as fits is buffered; push returns when it is used up,
\* and throws when nothing fits.
push_insert ==
    /\ pc = "insert"
    /\ LET available == MaxFrame - Len(Unread)
           n == IF available <= Len(bytes) THEN available ELSE Len(bytes)
       IN /\ pc' = IF bytes = <<>> THEN "idle" ELSE IF available = 0 THEN "oversized" ELSE "decode"
          /\ buffer_' = buffer_ \o SubSeq(bytes, 1, n)
          /\ bytes' = SubSeq(bytes, n + 1, Len(bytes))
    /\ delivered' = IF bytes = <<>> THEN delivered \o frames ELSE delivered
    /\ returned' = IF bytes = <<>> THEN Taken ELSE returned
    /\ UNCHANGED <<sent, wire, read_offset_, frames>>

\* Mutation of push_compact: the buffer is cut although its start has not been read.
push_compact_late ==
    /\ pc = "compact" /\ pc' = "insert"
    /\ buffer_' = IF read_offset_ * 2 > Len(buffer_) THEN Unread ELSE buffer_
    /\ read_offset_' = IF read_offset_ = Len(buffer_) THEN 0 ELSE read_offset_
    /\ UNCHANGED <<sent, wire, bytes, frames, delivered, returned>>

\* After the inner loop: the buffer is emptied when all of it was read, and cut when more
\* than half of it was.
push_compact ==
    /\ pc = "compact" /\ pc' = "insert"
    /\ IF read_offset_ = Len(buffer_) \/ read_offset_ > Len(buffer_) \div 2
       THEN buffer_' = Unread /\ read_offset_' = 0
       ELSE UNCHANGED <<buffer_, read_offset_>>
    /\ UNCHANGED <<sent, wire, bytes, frames, delivered, returned>>

\* The inner loop: one frame, or the end of what can be decoded, or the throw.
push_decode ==
    /\ pc = "decode"
    /\ LET result == decode_frame(Unread) IN
       \/ /\ read_offset_ = Len(buffer_) \/ result.status = "need_more_data"
          /\ pc' = "compact" /\ UNCHANGED <<read_offset_, frames, returned>>
       \/ /\ read_offset_ < Len(buffer_) /\ result.status = "complete"
          /\ frames' = Append(frames, result.frame) /\ read_offset_' = read_offset_ + result.consumed
          /\ UNCHANGED <<pc, returned>>
       \/ /\ read_offset_ < Len(buffer_) /\ result.status = "invalid"
          /\ pc' = "broken" /\ returned' = Taken /\ UNCHANGED <<read_offset_, frames>>
    /\ UNCHANGED <<sent, wire, bytes, buffer_, delivered>>

DecoderNext == push \/ push_insert \/ push_decode \/ push_compact

DecoderSpec == DecoderInit /\ [][DecoderNext]_dvars

-----------------------------------------------------------------------------
(* Properties.                                                             *)

\* The throw for a frame that exceeds the largest wire size is never reached: a header with
\* such a size is refused before, so that a full buffer always holds a whole frame.
NeverOversized == pc # "oversized"
=============================================================================
