----------------------------- MODULE FrameCodec -----------------------------
(***************************************************************************)
(* Frames on the byte stream between server and client: encodeFrame puts   *)
(* four bytes, the length of a payload, before it; FrameDecoder finds the  *)
(* payloads again, however the stream was cut into reads.  The code has    *)
(* 256 values of a byte and 16 MiB of payload at most.                     *)
(*                                                                         *)
(* FrameDecoder::decode is a loop: a read hands it bytes, and each round   *)
(* of the loop is a step.                                                  *)
(***************************************************************************)
EXTENDS Naturals, Sequences

CONSTANTS Base,         \* values of a byte
          MaxFrameSize, \* kMaxFrameSize
          Payloads,     \* serialized envelopes, also empty and oversized ones
          Broken,       \* what a faulty peer sends: no whole frame
          MaxFrames     \* bound: frames of a connection

VARIABLES
  sent,      \* payloads accepted on this connection, until one is broken
  broken,    \* a broken frame was sent
  stream,    \* bytes under way
  buffer,    \* FrameDecoder::m_buffer
  decoding,  \* decode runs
  envelopes, \* what decode found so far
  received,  \* envelopes given to the reader of this connection
  failed     \* decode failed: the reader closes the connection

frameVars == <<sent, broken, stream, buffer, decoding, envelopes, received, failed>>

HeaderSize == 4 \* kFrameHeaderSize
Byte == 0 .. Base - 1

\* The length in big-endian order, and back.
LengthHeader(size) ==
  LET high == (size \div Base) \div Base
  IN  <<(high \div Base) % Base, high % Base, (size \div Base) % Base, size % Base>>
SizeOf(bytes) == ((bytes[1] * Base + bytes[2]) * Base + bytes[3]) * Base + bytes[4]

Encodes(payload) == Len(payload) \in 1 .. MaxFrameSize
Frame(payload) == LengthHeader(Len(payload)) \o payload

\* A frame that is not complete waits for more bytes.
Waits(bytes) ==
  Len(bytes) >= HeaderSize =>
    SizeOf(bytes) \in 1 .. MaxFrameSize /\ Len(bytes) < HeaderSize + SizeOf(bytes)
FrameEnd(bytes) ==
  LET end == HeaderSize + SizeOf(bytes) IN IF end > Len(bytes) THEN Len(bytes) ELSE end
PayloadOf(bytes) == SubSeq(bytes, HeaderSize + 1, FrameEnd(bytes))
\* The length is one of a frame and the payload that of an envelope.
Parses(bytes) == SizeOf(bytes) \in 1 .. MaxFrameSize /\ PayloadOf(bytes) \in Payloads

\* Bytes of a faulty peer end within a frame or begin with one that is none.
ASSUME FrameAssumption ==
  /\ Base \in Nat \ {0, 1}
  /\ MaxFrameSize \in Nat \ {0} /\ MaxFrameSize < Base * Base * Base * Base
  /\ Payloads \subseteq Seq(Byte) /\ Broken \subseteq Seq(Byte)
  /\ \A bytes \in Broken : Waits(bytes) \/ ~Parses(bytes)
  /\ MaxFrames \in Nat
-----------------------------------------------------------------------------
Send ==
  \E payload \in Payloads :
    /\ ~broken /\ Len(sent) < MaxFrames /\ Encodes(payload)
    /\ sent' = Append(sent, payload) /\ stream' = stream \o Frame(payload)
    /\ UNCHANGED <<broken, buffer, decoding, envelopes, received, failed>>
SendBroken ==
  \E bytes \in Broken :
    /\ ~broken /\ broken' = TRUE /\ stream' = stream \o bytes
    /\ UNCHANGED <<sent, buffer, decoding, envelopes, received, failed>>
\* A read completes, of any number of bytes, and decode begins.
Read ==
  \E n \in 1 .. Len(stream) :
    /\ ~failed /\ ~decoding /\ decoding' = TRUE
    /\ buffer' = buffer \o SubSeq(stream, 1, n)
    /\ stream' = SubSeq(stream, n + 1, Len(stream))
    /\ UNCHANGED <<sent, broken, envelopes, received, failed>>
DecodeFrame ==
  /\ decoding /\ ~Waits(buffer) /\ Parses(buffer)
  /\ envelopes' = Append(envelopes, PayloadOf(buffer))
  /\ buffer' = SubSeq(buffer, FrameEnd(buffer) + 1, Len(buffer))
  /\ UNCHANGED <<sent, broken, stream, decoding, received, failed>>
\* Mutant: the begin of the next frame is forgotten.
DecodeForgets ==
  /\ decoding /\ Waits(buffer) /\ decoding' = FALSE
  /\ received' = received \o envelopes /\ envelopes' = <<>>
  /\ buffer' = <<>>
  /\ UNCHANGED <<sent, broken, stream, failed>>
\* decode returns, and the reader handles what it found.
DecodeReturns ==
  /\ decoding /\ Waits(buffer) /\ decoding' = FALSE
  /\ received' = received \o envelopes /\ envelopes' = <<>>
  /\ UNCHANGED <<sent, broken, stream, buffer, failed>>
\* Of a read that fails nothing is handled, whole frames before it included.
DecodeFails ==
  /\ decoding /\ ~Waits(buffer) /\ ~Parses(buffer) /\ decoding' = FALSE
  /\ failed' = TRUE /\ buffer' = <<>> /\ envelopes' = <<>>
  /\ UNCHANGED <<sent, broken, stream, received>>
\* The next connection begins with an empty decoder.
Reconnect ==
  /\ ~decoding
  /\ sent' = <<>> /\ broken' = FALSE /\ stream' = <<>>
  /\ buffer' = <<>> /\ received' = <<>> /\ failed' = FALSE
  /\ UNCHANGED <<decoding, envelopes>>

FrameInit ==
  /\ sent = <<>> /\ broken = FALSE /\ stream = <<>> /\ buffer = <<>>
  /\ decoding = FALSE /\ envelopes = <<>> /\ received = <<>> /\ failed = FALSE
FrameNext == Send \/ SendBroken \/ Read \/ DecodeFrame \/ DecodeReturns \/ DecodeFails \/ Reconnect
FrameSpec == FrameInit /\ [][FrameNext]_frameVars
-----------------------------------------------------------------------------
(* Properties                                                              *)
\* Whatever the cuts, the reader gets the envelopes sent, in their order and
\* none but them; all of them once the stream is read; and a connection is
\* given up for a broken frame only.
WholeFrames ==
  /\ Len(received) <= Len(sent) /\ received = SubSeq(sent, 1, Len(received))
  /\ stream = <<>> /\ ~decoding /\ ~broken => received = sent /\ buffer = <<>>
  /\ failed => broken
=============================================================================
