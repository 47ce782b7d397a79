----------------------------- MODULE LinksProofs -----------------------------
(***************************************************************************)
(* The frames between server and client, and the two links of a message.   *)
(*                                                                         *)
(* The stream decoder finds the envelopes that were sent, for every cut of *)
(* the stream, every size of byte, set of payloads and limit of length.    *)
(*                                                                         *)
(* The live link and the bag fill their snapshots alike, after any number  *)
(* of messages with any values.  That the decoder's tables fit the layouts *)
(* and the server's field lists, which no message decides, is the          *)
(* assumption TablesAligned of TopicLinks.                                 *)
(***************************************************************************)
EXTENDS TopicLinks, FrameCodec, SequenceTheorems, TLAPS

Bytes == Seq(Byte)
\* Payloads that have a frame.
Sound == {payload \in Payloads : Encodes(payload)}

FrameTypeOK ==
  /\ sent \in Seq(Sound) /\ stream \in Bytes /\ buffer \in Bytes
  /\ envelopes \in Seq(Payloads) /\ received \in Seq(Payloads)
  /\ broken \in BOOLEAN /\ decoding \in BOOLEAN /\ failed \in BOOLEAN

\* How many envelopes were decoded.
DecodedSoFar == Len(received) + Len(envelopes)
\* They are those sent first, in their order.
InOrder ==
  /\ DecodedSoFar <= Len(sent)
  /\ \A i \in 1 .. Len(received) : received[i] = sent[i]
  /\ \A i \in 1 .. Len(envelopes) : envelopes[i] = sent[Len(received) + i]
\* rest[i] is what follows the i-th frame: the next one and what follows that,
\* and behind the last one the broken frame or nothing.
Follows(rest) ==
  /\ IF broken THEN rest[Len(sent)] \in Broken ELSE rest[Len(sent)] = <<>>
  /\ \A i \in 1 .. Len(sent) : rest[i - 1] = Frame(sent[i]) \o rest[i]
\* The bytes held and under way are those behind the frames decoded.
InStep ==
  \E rest \in [0 .. Len(sent) -> Bytes] :
    Follows(rest) /\ buffer \o stream = rest[DecodedSoFar]
FrameInv ==
  /\ FrameTypeOK /\ InOrder
  /\ ~failed => InStep
  /\ failed => broken /\ ~decoding
  /\ ~decoding => envelopes = <<>> /\ (~failed => Waits(buffer))
-----------------------------------------------------------------------------
(* Sequences of bytes.                                                     *)

LEMMA JoinThree ==
  ASSUME NEW one \in Bytes, NEW two \in Bytes, NEW three \in Bytes
  PROVE  (one \o two) \o three = one \o (two \o three)
<1>1. ASSUME NEW S, NEW s \in Seq(S), NEW t \in Seq(S), NEW u \in Seq(S)
      PROVE  (s \o t) \o u = s \o (t \o u)
  BY ConcatAssociative
<1>2. one \in Seq(Byte) /\ two \in Seq(Byte) /\ three \in Seq(Byte)
  BY DEF Bytes
<1>. QED BY <1>1, <1>2

LEMMA Cancel ==
  ASSUME NEW one \in Bytes, NEW two \in Bytes, NEW three \in Bytes,
         one \o two = one \o three
  PROVE  two = three
<1>1. \A S : \A s, t, v \in Seq(S) : s \o t = s \o v => t = v
  BY ConcatSimplifications
<1>2. \A s, t, v \in Seq(Byte) : s \o t = s \o v => t = v
  BY <1>1
<1>. QED BY <1>2, Zenon DEF Bytes

LEMMA Joined ==
  ASSUME NEW one \in Bytes, NEW two \in Bytes
  PROVE  /\ one \o two \in Bytes /\ Len(one) \in Nat /\ Len(two) \in Nat
         /\ Len(one \o two) = Len(one) + Len(two)
         /\ \A i \in 1 .. Len(one) : (one \o two)[i] = one[i]
         /\ SubSeq(one \o two, Len(one) + 1, Len(one) + Len(two)) = two
<1>1. /\ one \o two \in Bytes /\ Len(one) \in Nat /\ Len(two) \in Nat
      /\ Len(one \o two) = Len(one) + Len(two)
      /\ \A i \in 1 .. Len(one) : (one \o two)[i] = one[i]
      /\ \A i \in 1 .. Len(two) : (one \o two)[Len(one) + i] = two[i]
  <2>1. Len(one) \in Nat /\ Len(two) \in Nat
    BY LenProperties DEF Bytes
  <2>2. /\ one \o two \in Bytes /\ Len(one \o two) = Len(one) + Len(two)
        /\ \A i \in 1 .. Len(one) + Len(two) :
              (one \o two)[i] = IF i <= Len(one) THEN one[i] ELSE two[i - Len(one)]
    BY ConcatProperties DEF Bytes
  <2>. QED BY <2>1, <2>2
<1> DEFINE part == SubSeq(one \o two, Len(one) + 1, Len(one) + Len(two))
<1>2. \A i \in Len(one) + 1 .. Len(one) + Len(two) : (one \o two)[i] \in Byte
  BY <1>1, ElementOfSeq DEF Bytes
<1>3. /\ part \in Bytes /\ Len(part) = Len(two)
      /\ \A i \in 1 .. Len(two) : part[i] = (one \o two)[Len(one) + 1 + i - 1]
  BY <1>1, <1>2, SubSeqProperties DEF Bytes
<1>4. \A i \in 1 .. Len(two) : part[i] = two[i]
  BY <1>1, <1>3
<1> HIDE DEF part
<1>5. part = two
  BY <1>3, <1>4, SeqEqual DEF Bytes
<1>. QED BY <1>1, <1>5 DEF part
-----------------------------------------------------------------------------
(* Lengths and their headers.                                              *)

LEMMA FrameConstants ==
  /\ Base \in Nat \ {0, 1} /\ MaxFrameSize \in Nat \ {0}
  /\ MaxFrameSize < Base * Base * Base * Base
  /\ Payloads \subseteq Bytes /\ Broken \subseteq Bytes
  /\ \A bytes \in Broken : Waits(bytes) \/ ~Parses(bytes)
BY FrameAssumption DEF FrameAssumption, Bytes

\* Division by the base, and what remains.
LEMMA Divide ==
  ASSUME NEW value \in Nat
  PROVE  /\ value \div Base \in Nat /\ value % Base \in Byte
         /\ value = (value \div Base) * Base + (value % Base)
         /\ \A m \in Nat : value < m * Base => value \div Base < m
<1>1. Base \in Nat \ {0, 1}
  BY FrameConstants
<1>2. /\ value \div Base \in Nat /\ value % Base \in 0 .. Base - 1
      /\ value = (value \div Base) * Base + (value % Base)
  BY <1>1
<1>3. ASSUME NEW m \in Nat, value < m * Base PROVE value \div Base < m
  <2> DEFINE q == value \div Base
  <2>1. q \in Nat /\ q * Base <= value
    BY <1>1, <1>2
  <2> HIDE DEF q
  <2>2. q >= m => q * Base >= m * Base
    BY <1>1, <2>1
  <2>3. q < m
    BY <1>1, <1>3, <2>1, <2>2
  <2>. QED BY <2>3 DEF q
<1>. QED BY <1>2, <1>3 DEF Byte

\* The header gives the length back.
LEMMA HeaderBack ==
  ASSUME NEW size \in 1 .. MaxFrameSize
  PROVE  /\ LengthHeader(size) \in Bytes /\ Len(LengthHeader(size)) = HeaderSize
         /\ SizeOf(LengthHeader(size)) = size
<1> DEFINE one == size \div Base
           two == one \div Base
           three == two \div Base
<1>0. Base \in Nat \ {0, 1} /\ size \in Nat /\ size < Base * Base * Base * Base
  BY FrameConstants
<1>1. /\ one \in Nat /\ size % Base \in Byte /\ size = one * Base + (size % Base)
      /\ one < Base * Base * Base
  <2>1. Base * Base * Base \in Nat /\ Base * Base * Base * Base = (Base * Base * Base) * Base
    BY <1>0
  <2>. QED BY <1>0, <2>1, Divide
<1> HIDE DEF one
<1>2. /\ two \in Nat /\ one % Base \in Byte /\ one = two * Base + (one % Base)
      /\ two < Base * Base
  <2>1. Base * Base \in Nat /\ Base * Base * Base = (Base * Base) * Base
    BY <1>0
  <2>. QED BY <1>0, <1>1, <2>1, Divide
<1> HIDE DEF two
<1>3. /\ three \in Nat /\ two % Base \in Byte /\ two = three * Base + (two % Base)
      /\ three < Base
  BY <1>0, <1>2, Divide
<1> HIDE DEF three
<1>4. three % Base = three
  BY <1>0, <1>3
<1>5. LengthHeader(size) = <<three, two % Base, one % Base, size % Base>>
  BY <1>4 DEF LengthHeader, one, two, three
<1>6. three \in Byte
  BY <1>0, <1>3 DEF Byte
<1>7. SizeOf(LengthHeader(size)) = size
  <2>1. SizeOf(<<three, two % Base, one % Base, size % Base>>)
          = ((three * Base + (two % Base)) * Base + (one % Base)) * Base + (size % Base)
    BY DEF SizeOf
  <2>. QED BY <1>1, <1>2, <1>3, <1>5, <2>1
<1>8. LengthHeader(size) \in Bytes /\ Len(LengthHeader(size)) = HeaderSize
  BY <1>1, <1>2, <1>3, <1>5, <1>6 DEF Bytes, HeaderSize
<1>. QED BY <1>7, <1>8

\* A frame is its header and its payload.
LEMMA FrameOf ==
  ASSUME NEW payload \in Sound
  PROVE  /\ Frame(payload) \in Bytes /\ payload \in Bytes /\ payload \in Payloads
         /\ Len(payload) \in 1 .. MaxFrameSize
         /\ Len(Frame(payload)) = HeaderSize + Len(payload)
         /\ SizeOf(Frame(payload)) = Len(payload)
         /\ SubSeq(Frame(payload), HeaderSize + 1, HeaderSize + Len(payload)) = payload
<1> DEFINE header == LengthHeader(Len(payload))
<1>1. payload \in Bytes /\ payload \in Payloads /\ Len(payload) \in 1 .. MaxFrameSize
  BY FrameConstants DEF Sound, Encodes
<1>2. header \in Bytes /\ Len(header) = HeaderSize /\ SizeOf(header) = Len(payload)
  BY <1>1, HeaderBack
<1>3. Frame(payload) = header \o payload
  BY DEF Frame
<1> HIDE DEF header
<1>4. /\ Frame(payload) \in Bytes /\ Len(Frame(payload)) = HeaderSize + Len(payload)
      /\ \A i \in 1 .. Len(header) : Frame(payload)[i] = header[i]
      /\ SubSeq(Frame(payload), HeaderSize + 1, HeaderSize + Len(payload)) = payload
  <2> DEFINE frame == header \o payload
  <2>1. /\ frame \in Bytes /\ Len(frame) = Len(header) + Len(payload)
        /\ \A i \in 1 .. Len(header) : frame[i] = header[i]
        /\ SubSeq(frame, Len(header) + 1, Len(header) + Len(payload)) = payload
    BY <1>1, <1>2, Joined, Zenon
  <2>2. frame = Frame(payload)
    BY <1>3
  <2>. QED BY <1>2, <2>1, <2>2, Zenon
<1>5. SizeOf(Frame(payload)) = SizeOf(header)
  <2>1. /\ Frame(payload)[1] = header[1] /\ Frame(payload)[2] = header[2]
        /\ Frame(payload)[3] = header[3] /\ Frame(payload)[4] = header[4]
    BY <1>2, <1>4 DEF HeaderSize
  <2>. QED BY <2>1 DEF SizeOf
<1>. QED BY <1>1, <1>2, <1>3, <1>4, <1>5
-----------------------------------------------------------------------------
(* What the decoder sees of the bytes before it.                           *)

LEMMA SizeOfBegin ==
  ASSUME NEW held \in Bytes, NEW next \in Bytes, Len(held) >= HeaderSize
  PROVE  SizeOf(held \o next) = SizeOf(held)
<1>1. \A i \in 1 .. Len(held) : (held \o next)[i] = held[i]
  BY Joined
<1>2. /\ (held \o next)[1] = held[1] /\ (held \o next)[2] = held[2]
      /\ (held \o next)[3] = held[3] /\ (held \o next)[4] = held[4]
  <2>1. Len(held) \in Nat /\ Len(held) >= 4
    BY Joined DEF HeaderSize
  <2>. QED BY <1>1, <2>1
<1>. QED BY <1>2 DEF SizeOf

\* At a frame, the decoder waits until it is whole and then takes it.
LEMMA AtFrame ==
  ASSUME NEW held \in Bytes, NEW next \in Bytes, NEW payload \in Sound, NEW more \in Bytes,
         held \o next = Frame(payload) \o more
  PROVE  /\ Waits(held) <=> Len(held) < HeaderSize + Len(payload)
         /\ ~Waits(held) =>
              /\ Parses(held) /\ PayloadOf(held) = payload
              /\ SubSeq(held, FrameEnd(held) + 1, Len(held)) \in Bytes
              /\ SubSeq(held, FrameEnd(held) + 1, Len(held)) \o next = more
<1> DEFINE frame == Frame(payload)
           size == Len(payload)
           end == HeaderSize + size
           after == SubSeq(held, end + 1, Len(held))
<1>1. /\ frame \in Bytes /\ Len(frame) = end /\ SizeOf(frame) = size
      /\ size \in 1 .. MaxFrameSize /\ payload \in Payloads
      /\ SubSeq(frame, HeaderSize + 1, end) = payload
  BY FrameOf
<1>2. Len(held) \in Nat /\ size \in Nat \ {0} /\ HeaderSize = 4
  BY <1>1, LenProperties, FrameConstants DEF Bytes, HeaderSize
<1> HIDE DEF frame, size
<1>3. Len(held) >= HeaderSize => SizeOf(held) = size
  <2>1. SizeOf(frame \o more) = size
    BY <1>1, <1>2, SizeOfBegin
  <2>. QED BY <2>1, SizeOfBegin DEF frame
<1>4. Waits(held) <=> Len(held) < end
  BY <1>1, <1>2, <1>3 DEF Waits
<1>5. ASSUME ~Waits(held)
      PROVE  /\ Parses(held) /\ PayloadOf(held) = payload /\ FrameEnd(held) = end
             /\ after \in Bytes /\ after \o next = more
  <2>1. Len(held) >= end /\ SizeOf(held) = size
    BY <1>2, <1>3, <1>4, <1>5
  <2>2. FrameEnd(held) = end
    BY <1>2, <2>1 DEF FrameEnd
  <2>3. /\ 1 \in 1 .. Len(held) /\ HeaderSize + 1 \in 1 .. Len(held) /\ end \in 1 .. Len(held)
        /\ 1 \in 1 .. Len(frame) /\ HeaderSize + 1 \in 1 .. Len(frame) /\ end \in 1 .. Len(frame)
    BY <1>1, <1>2, <2>1
  <2>4. SubSeq(held, HeaderSize + 1, end) = payload
    <3>1. /\ SubSeq(held \o next, HeaderSize + 1, end) = SubSeq(held, HeaderSize + 1, end)
          /\ SubSeq(frame \o more, HeaderSize + 1, end) = SubSeq(frame, HeaderSize + 1, end)
      BY <1>1, <2>3, SubSeqOfConcat1 DEF Bytes
    <3>. QED BY <1>1, <3>1 DEF frame
  <2>5. SubSeq(held, 1, end) = frame
    <3>1. /\ SubSeq(held \o next, 1, end) = SubSeq(held, 1, end)
          /\ SubSeq(frame \o more, 1, end) = SubSeq(frame, 1, end)
      BY <1>1, <2>3, SubSeqOfConcat1 DEF Bytes
    <3>2. SubSeq(frame, 1, end) = frame
      BY <1>1, SubSeqFull DEF Bytes
    <3>. QED BY <3>1, <3>2 DEF frame
  <2>6. after \in Bytes
    <3>1. \A i \in end + 1 .. Len(held) : held[i] \in Byte
      BY <1>2, ElementOfSeq DEF Bytes
    <3>. QED BY <1>2, <3>1, SubSeqProperties DEF Bytes
  <2>7. held = frame \o after
    <3>1. /\ 1 \in 1 .. Len(held) + 1 /\ end \in 1 - 1 .. Len(held) /\ Len(held) \in end .. Len(held)
      BY <1>2, <2>1
    <3>2. SubSeq(held, 1, end) \o SubSeq(held, end + 1, Len(held)) = SubSeq(held, 1, Len(held))
      BY <3>1, ConcatAdjacentSubSeq DEF Bytes
    <3>3. SubSeq(held, 1, Len(held)) = held
      BY SubSeqFull DEF Bytes
    <3>. QED BY <2>5, <3>2, <3>3
  <2> HIDE DEF after
  <2>8. after \o next = more
    <3>1. (frame \o after) \o next = frame \o (after \o next)
      BY <1>1, <2>6, JoinThree
    <3>2. frame \o (after \o next) = frame \o more
      BY <2>7, <3>1 DEF frame
    <3>3. after \o next \in Bytes
      BY <2>6, Joined
    <3>. QED BY <1>1, <2>6, <3>2, <3>3, Cancel
  <2>. QED BY <1>1, <2>1, <2>2, <2>4, <2>6, <2>8 DEF Parses, PayloadOf
<1>. QED BY <1>4, <1>5 DEF size

\* At a broken frame, the decoder takes nothing.
LEMMA AtBroken ==
  ASSUME NEW held \in Bytes, NEW next \in Bytes, held \o next \in Broken, ~Waits(held)
  PROVE  ~Parses(held)
<1> DEFINE bytes == held \o next
           end == HeaderSize + SizeOf(held)
<1>0. /\ Len(held) \in Nat /\ Len(next) \in Nat /\ Len(bytes) = Len(held) + Len(next)
      /\ HeaderSize = 4
  BY ConcatProperties, LenProperties DEF Bytes, HeaderSize
<1>1. Len(held) >= HeaderSize /\ SizeOf(bytes) = SizeOf(held)
  BY <1>0, SizeOfBegin DEF Waits
<1>2. Waits(bytes) \/ ~Parses(bytes)
  BY FrameConstants
<1> SUFFICES ASSUME SizeOf(held) \in 1 .. MaxFrameSize PROVE PayloadOf(held) \notin Payloads
  BY DEF Parses
<1>3. SizeOf(held) \in Nat \ {0} /\ end <= Len(held)
  BY <1>0, <1>1, FrameConstants DEF Waits
<1>4. FrameEnd(held) = end /\ FrameEnd(bytes) = end
  BY <1>0, <1>1, <1>3 DEF FrameEnd
<1>5. SubSeq(bytes, HeaderSize + 1, end) = SubSeq(held, HeaderSize + 1, end)
  <2>1. HeaderSize + 1 \in 1 .. Len(held) /\ end \in 1 .. Len(held)
    BY <1>0, <1>3
  <2>. QED BY <2>1, SubSeqOfConcat1 DEF Bytes
<1>6. ~Waits(bytes)
  BY <1>0, <1>1, <1>3 DEF Waits
<1>. QED BY <1>1, <1>2, <1>4, <1>5, <1>6 DEF Parses, PayloadOf
-----------------------------------------------------------------------------
(* The steps.                                                              *)

LEMMA Empty == <<>> \in Bytes /\ Len(<<>>) = 0 /\ Waits(<<>>)
BY EmptySeq DEF Bytes, Waits, HeaderSize

\* A decoder that goes on is at a frame that was sent, or at the broken one.
LEMMA AtRest ==
  ASSUME FrameInv, ~failed, ~Waits(buffer)
  PROVE  \/ broken /\ ~Parses(buffer)
         \/ /\ DecodedSoFar < Len(sent) /\ Parses(buffer)
            /\ PayloadOf(buffer) = sent[DecodedSoFar + 1] /\ sent[DecodedSoFar + 1] \in Sound
            /\ SubSeq(buffer, FrameEnd(buffer) + 1, Len(buffer)) \in Bytes
            /\ \E rest \in [0 .. Len(sent) -> Bytes] :
                 /\ Follows(rest)
                 /\ SubSeq(buffer, FrameEnd(buffer) + 1, Len(buffer)) \o stream = rest[DecodedSoFar + 1]
<1>1. PICK rest \in [0 .. Len(sent) -> Bytes] : Follows(rest) /\ buffer \o stream = rest[DecodedSoFar]
  BY DEF FrameInv, InStep
<1>2. /\ sent \in Seq(Sound) /\ Len(sent) \in Nat /\ buffer \in Bytes /\ stream \in Bytes
      /\ DecodedSoFar \in 0 .. Len(sent)
  BY LenProperties DEF FrameInv, FrameTypeOK, InOrder, DecodedSoFar
<1>3. CASE DecodedSoFar < Len(sent)
  <2> DEFINE k == DecodedSoFar + 1
  <2>1. k \in 1 .. Len(sent) /\ k - 1 = DecodedSoFar
    BY <1>2, <1>3
  <2>2. sent[k] \in Sound /\ rest[k] \in Bytes
    BY <1>2, <2>1, ElementOfSeq
  <2>3. buffer \o stream = Frame(sent[k]) \o rest[k]
    BY <1>1, <2>1 DEF Follows
  <2> HIDE DEF k
  <2>4. /\ Parses(buffer) /\ PayloadOf(buffer) = sent[k]
        /\ SubSeq(buffer, FrameEnd(buffer) + 1, Len(buffer)) \in Bytes
        /\ SubSeq(buffer, FrameEnd(buffer) + 1, Len(buffer)) \o stream = rest[k]
    BY <1>2, <2>2, <2>3, AtFrame
  <2>. QED BY <1>1, <1>3, <2>2, <2>4 DEF k
<1>4. CASE DecodedSoFar = Len(sent)
  <2>1. broken
    <3>1. SUFFICES ASSUME ~broken PROVE FALSE
      OBVIOUS
    <3>2. buffer \o stream = <<>>
      BY <1>1, <1>4, <3>1 DEF Follows
    <3>3. buffer = <<>>
      BY <1>2, <3>2, ConcatEqualIffEmpty DEF Bytes
    <3>. QED BY <3>3, Empty
  <2>2. buffer \o stream \in Broken
    BY <1>1, <1>4, <2>1 DEF Follows
  <2>. QED BY <1>2, <2>1, <2>2, AtBroken
<1>5. DecodedSoFar < Len(sent) \/ DecodedSoFar = Len(sent)
  BY <1>2
<1>. QED BY <1>3, <1>4, <1>5, Zenon

LEMMA FrameStart == FrameInit => FrameInv
<1> SUFFICES ASSUME FrameInit PROVE FrameInv
  OBVIOUS
<1> USE DEF FrameInit
<1> DEFINE rest == [i \in 0 .. 0 |-> <<>>]
<1>1. FrameTypeOK
  BY Empty, EmptySeq DEF FrameTypeOK
<1>4. DecodedSoFar = 0 /\ Len(sent) = 0 /\ Len(received) = 0 /\ Len(envelopes) = 0
  BY Empty DEF DecodedSoFar
<1>5. InOrder
  BY <1>4 DEF InOrder
<1>2. rest \in [0 .. Len(sent) -> Bytes] /\ Follows(rest)
  BY Empty DEF Follows
<1>3. buffer \o stream = rest[DecodedSoFar]
  BY <1>4, Empty, ConcatEmptySeq DEF Bytes
<1> HIDE DEF rest
<1>. QED BY <1>1, <1>2, <1>3, <1>5, Empty DEF FrameInv, InStep

LEMMA SendStep == FrameInv /\ Send => FrameInv'
<1> SUFFICES ASSUME FrameInv, NEW payload \in Payloads, ~broken, Encodes(payload),
                    sent' = Append(sent, payload), stream' = stream \o Frame(payload),
                    UNCHANGED <<broken, buffer, decoding, envelopes, received, failed>>
             PROVE  FrameInv'
  BY DEF Send
<1> DEFINE count == Len(sent)
           frame == Frame(payload)
<1>1. /\ sent \in Seq(Sound) /\ count \in Nat /\ stream \in Bytes /\ buffer \in Bytes
      /\ envelopes \in Seq(Payloads) /\ received \in Seq(Payloads)
      /\ Len(envelopes) \in Nat /\ Len(received) \in Nat /\ DecodedSoFar \in 0 .. count
      /\ ~failed /\ \A i \in 1 .. count : sent[i] \in Sound
  BY LenProperties, ElementOfSeq DEF FrameInv, FrameTypeOK, InOrder, DecodedSoFar
<1>2. payload \in Sound /\ frame \in Bytes
  BY FrameOf DEF Sound
<1>3. /\ sent' \in Seq(Sound) /\ Len(sent') = count + 1 /\ sent'[count + 1] = payload
      /\ \A i \in 1 .. count : sent'[i] = sent[i]
  BY <1>1, <1>2, AppendProperties
<1>4. FrameTypeOK'
  BY <1>1, <1>2, <1>3, Joined DEF FrameInv, FrameTypeOK
<1>5. InOrder' /\ DecodedSoFar' = DecodedSoFar
  BY <1>1, <1>3 DEF FrameInv, InOrder, DecodedSoFar
<1>6. InStep'
  <2>1. PICK rest \in [0 .. count -> Bytes] : Follows(rest) /\ buffer \o stream = rest[DecodedSoFar]
    BY <1>1 DEF FrameInv, InStep
  <2> DEFINE longer == [i \in 0 .. count + 1 |-> IF i = count + 1 THEN <<>> ELSE rest[i] \o frame]
  <2> HIDE DEF frame
  <2>2. \A i \in 0 .. count : rest[i] \in Bytes /\ rest[i] \o frame \in Bytes
    BY <1>2, <2>1, Joined
  <2>3. longer \in [0 .. count + 1 -> Bytes]
    BY <2>2, Empty
  <2>4. longer[count + 1] = <<>> /\ longer[count] = frame
    <3>1. rest[count] = <<>>
      BY <2>1 DEF Follows
    <3>2. rest[count] \o frame = frame
      BY <1>2, <3>1, ConcatEmptySeq DEF Bytes
    <3>. QED BY <1>1, <3>2
  <2>5. ASSUME NEW i \in 1 .. count + 1 PROVE longer[i - 1] = Frame(sent'[i]) \o longer[i]
    <3>1. CASE i = count + 1
      <4>1. i - 1 = count
        BY <1>1, <3>1
      <4>2. longer[i - 1] = frame /\ longer[i] = <<>> /\ Frame(sent'[i]) = frame
        BY <1>3, <2>4, <3>1, <4>1 DEF frame
      <4>. QED BY <1>2, <4>2, ConcatEmptySeq DEF Bytes
    <3>2. CASE i \in 1 .. count
      <4>1. /\ rest[i - 1] = Frame(sent[i]) \o rest[i] /\ sent'[i] = sent[i]
            /\ Frame(sent[i]) \in Bytes /\ rest[i] \in Bytes
        <5>1. rest[i - 1] = Frame(sent[i]) \o rest[i]
          BY <2>1, <3>2 DEF Follows
        <5>2. sent'[i] = sent[i] /\ sent[i] \in Sound
          BY <1>1, <1>3, <3>2
        <5>3. Frame(sent[i]) \in Bytes
          BY <5>2, FrameOf
        <5>4. rest[i] \in Bytes
          BY <2>2, <3>2
        <5>. QED BY <5>1, <5>2, <5>3, <5>4
      <4>2. longer[i - 1] = rest[i - 1] \o frame /\ longer[i] = rest[i] \o frame
        <5>1. i - 1 \in 0 .. count + 1 /\ i - 1 # count + 1 /\ i \in 0 .. count + 1 /\ i # count + 1
          BY <1>1, <3>2
        <5>2. \A j \in 0 .. count + 1 : j # count + 1 => longer[j] = rest[j] \o frame
          OBVIOUS
        <5>. HIDE DEF longer
        <5>. QED BY <5>1, <5>2
      <4> HIDE DEF longer
      <4>3. (Frame(sent[i]) \o rest[i]) \o frame = Frame(sent[i]) \o (rest[i] \o frame)
        BY <1>2, <4>1, JoinThree
      <4>. QED BY <4>1, <4>2, <4>3
    <3>3. i = count + 1 \/ i \in 1 .. count
      BY <1>1
    <3>. QED BY <3>1, <3>2, <3>3, Zenon
  <2>6. buffer \o (stream \o frame) = longer[DecodedSoFar]
    <3>1. longer[DecodedSoFar] = rest[DecodedSoFar] \o frame
      BY <1>1
    <3>2. buffer \o (stream \o frame) = (buffer \o stream) \o frame
      BY <1>1, <1>2, JoinThree
    <3>. QED BY <2>1, <3>1, <3>2
  <2> HIDE DEF longer
  <2>7. PICK next \in [0 .. count + 1 -> Bytes] :
          /\ next[count + 1] = <<>> /\ buffer \o (stream \o frame) = next[DecodedSoFar]
          /\ \A i \in 1 .. count + 1 : next[i - 1] = Frame(sent'[i]) \o next[i]
    BY <2>3, <2>4, <2>5, <2>6
  <2>8. next \in [0 .. Len(sent') -> Bytes] /\ buffer' \o stream' = next[DecodedSoFar']
    BY <1>3, <1>5, <2>7 DEF frame
  <2>9. Follows(next)'
    <3>1. next[Len(sent')] = <<>> /\ ~broken'
      BY <1>3, <2>7
    <3>2. \A i \in 1 .. Len(sent') : next[i - 1] = Frame(sent'[i]) \o next[i]
      BY <1>3, <2>7
    <3>. QED BY <3>1, <3>2 DEF Follows
  <2>. QED BY <2>8, <2>9 DEF InStep
<1>. QED BY <1>1, <1>4, <1>5, <1>6 DEF FrameInv

LEMMA SendBrokenStep == FrameInv /\ SendBroken => FrameInv'
<1> SUFFICES ASSUME FrameInv, NEW bytes \in Broken, ~broken, broken' = TRUE,
                    stream' = stream \o bytes,
                    UNCHANGED <<sent, buffer, decoding, envelopes, received, failed>>
             PROVE  FrameInv'
  BY DEF SendBroken
<1> DEFINE count == Len(sent)
<1>1. /\ count \in Nat /\ stream \in Bytes /\ buffer \in Bytes /\ bytes \in Bytes /\ ~failed
      /\ DecodedSoFar \in 0 .. count
  BY LenProperties, FrameConstants DEF FrameInv, FrameTypeOK, InOrder, DecodedSoFar
<1>2. FrameTypeOK'
  BY <1>1, Joined DEF FrameInv, FrameTypeOK
<1>3. InOrder' /\ DecodedSoFar' = DecodedSoFar
  BY DEF FrameInv, InOrder, DecodedSoFar
<1>4. InStep'
  <2>1. PICK rest \in [0 .. count -> Bytes] : Follows(rest) /\ buffer \o stream = rest[DecodedSoFar]
    BY <1>1 DEF FrameInv, InStep
  <2> DEFINE longer == [i \in 0 .. count |-> rest[i] \o bytes]
  <2>2. \A i \in 0 .. count : rest[i] \in Bytes /\ rest[i] \o bytes \in Bytes
    BY <1>1, <2>1, Joined
  <2>3. longer \in [0 .. count -> Bytes]
    BY <2>2
  <2>4. longer[count] = bytes
    <3>1. rest[count] = <<>>
      BY <2>1 DEF Follows
    <3>2. rest[count] \o bytes = bytes
      BY <1>1, <3>1, ConcatEmptySeq DEF Bytes
    <3>. QED BY <1>1, <3>2
  <2>5. ASSUME NEW i \in 1 .. count PROVE longer[i - 1] = Frame(sent[i]) \o longer[i]
    <3>1. rest[i - 1] = Frame(sent[i]) \o rest[i]
      BY <2>1 DEF Follows
    <3>2. sent[i] \in Sound
      BY ElementOfSeq DEF FrameInv, FrameTypeOK
    <3>3. Frame(sent[i]) \in Bytes /\ rest[i] \in Bytes
      BY <1>1, <2>2, <3>2, FrameOf
    <3>4. longer[i - 1] = rest[i - 1] \o bytes /\ longer[i] = rest[i] \o bytes
      <4>1. i - 1 \in 0 .. count /\ i \in 0 .. count
        BY <1>1
      <4>. QED BY <4>1
    <3> HIDE DEF longer
    <3>5. (Frame(sent[i]) \o rest[i]) \o bytes = Frame(sent[i]) \o (rest[i] \o bytes)
      BY <1>1, <3>3, JoinThree
    <3>. QED BY <3>1, <3>4, <3>5
  <2>6. buffer \o (stream \o bytes) = longer[DecodedSoFar]
    <3>1. longer[DecodedSoFar] = rest[DecodedSoFar] \o bytes
      BY <1>1
    <3>2. buffer \o (stream \o bytes) = (buffer \o stream) \o bytes
      BY <1>1, JoinThree
    <3>. QED BY <2>1, <3>1, <3>2
  <2> HIDE DEF longer
  <2>7. PICK next \in [0 .. count -> Bytes] :
          /\ next[count] = bytes /\ buffer \o (stream \o bytes) = next[DecodedSoFar]
          /\ \A i \in 1 .. count : next[i - 1] = Frame(sent[i]) \o next[i]
    BY <2>3, <2>4, <2>5, <2>6
  <2>8. next \in [0 .. Len(sent') -> Bytes] /\ buffer' \o stream' = next[DecodedSoFar']
    BY <1>3, <2>7
  <2>9. Follows(next)'
    BY <2>7 DEF Follows
  <2>. QED BY <2>8, <2>9 DEF InStep
<1>. QED BY <1>1, <1>2, <1>3, <1>4 DEF FrameInv

LEMMA ReadStep == FrameInv /\ Read => FrameInv'
<1> SUFFICES ASSUME FrameInv, NEW count \in 1 .. Len(stream), ~failed, ~decoding, decoding' = TRUE,
                    buffer' = buffer \o SubSeq(stream, 1, count),
                    stream' = SubSeq(stream, count + 1, Len(stream)),
                    UNCHANGED <<sent, broken, envelopes, received, failed>>
             PROVE  FrameInv'
  BY DEF Read
<1> DEFINE came == SubSeq(stream, 1, count)
           left == SubSeq(stream, count + 1, Len(stream))
<1>1. stream \in Bytes /\ buffer \in Bytes /\ Len(stream) \in Nat
  BY LenProperties DEF FrameInv, FrameTypeOK, Bytes
<1>2. came \in Bytes /\ left \in Bytes
  <2>1. \A i \in 1 .. Len(stream) : stream[i] \in Byte
    BY <1>1, ElementOfSeq DEF Bytes
  <2>2. (\A i \in 1 .. count : stream[i] \in Byte) /\ \A i \in count + 1 .. Len(stream) : stream[i] \in Byte
    BY <1>1, <2>1
  <2>. QED BY <1>1, <2>2, SubSeqProperties DEF Bytes
<1>3. came \o left = stream
  <2>1. 1 \in 1 .. Len(stream) + 1 /\ count \in 1 - 1 .. Len(stream) /\ Len(stream) \in count .. Len(stream)
    BY <1>1
  <2>2. came \o left = SubSeq(stream, 1, Len(stream))
    BY <1>1, <2>1, ConcatAdjacentSubSeq DEF Bytes
  <2>. QED BY <1>1, <2>2, SubSeqFull DEF Bytes
<1> HIDE DEF came, left
<1>4. buffer' = buffer \o came /\ stream' = left
  BY DEF came, left
<1>5. buffer' \o stream' = buffer \o stream
  <2>1. (buffer \o came) \o left = buffer \o (came \o left)
    BY <1>1, <1>2, JoinThree
  <2>. QED BY <1>3, <1>4, <2>1
<1>6. FrameTypeOK'
  <2>1. buffer \o came \in Bytes
    BY <1>1, <1>2, Joined
  <2>. QED BY <1>2, <1>4, <2>1 DEF FrameInv, FrameTypeOK
<1>7. InOrder' /\ DecodedSoFar' = DecodedSoFar
  BY DEF FrameInv, InOrder, DecodedSoFar
<1>8. InStep'
  BY <1>5, <1>7 DEF FrameInv, InStep, Follows
<1>. QED BY <1>6, <1>7, <1>8 DEF FrameInv

LEMMA DecodeFrameStep == FrameInv /\ DecodeFrame => FrameInv'
<1> SUFFICES ASSUME FrameInv, DecodeFrame PROVE FrameInv'
  OBVIOUS
<1> USE DEF DecodeFrame
<1> DEFINE k == DecodedSoFar + 1
<1>1. ~failed
  BY DEF FrameInv
<1>2. /\ DecodedSoFar < Len(sent) /\ PayloadOf(buffer) = sent[k] /\ sent[k] \in Sound /\ buffer' \in Bytes
      /\ \E rest \in [0 .. Len(sent) -> Bytes] : Follows(rest) /\ buffer' \o stream = rest[k]
  BY <1>1, AtRest
<1>3. /\ envelopes \in Seq(Payloads) /\ sent[k] \in Payloads
      /\ Len(envelopes) \in Nat /\ Len(received) \in Nat /\ Len(sent) \in Nat
  BY <1>2, LenProperties DEF FrameInv, FrameTypeOK, Sound
<1>4. /\ envelopes' \in Seq(Payloads) /\ Len(envelopes') = Len(envelopes) + 1
      /\ envelopes'[Len(envelopes) + 1] = sent[k]
      /\ \A i \in 1 .. Len(envelopes) : envelopes'[i] = envelopes[i]
  BY <1>2, <1>3, AppendProperties
<1>5. FrameTypeOK'
  BY <1>2, <1>4 DEF FrameInv, FrameTypeOK
<1>6. DecodedSoFar' = k
  BY <1>3, <1>4 DEF DecodedSoFar
<1>7. InOrder'
  <2>1. k = Len(received) + (Len(envelopes) + 1)
    BY <1>3 DEF DecodedSoFar
  <2>2. ASSUME NEW i \in 1 .. Len(envelopes') PROVE envelopes'[i] = sent[Len(received) + i]
    <3>1. i \in 1 .. Len(envelopes) \/ i = Len(envelopes) + 1
      BY <1>3, <1>4
    <3>. QED BY <1>4, <2>1, <3>1 DEF FrameInv, InOrder
  <2>3. DecodedSoFar' <= Len(sent)
    BY <1>2, <1>3, <1>6 DEF DecodedSoFar
  <2>. QED BY <2>2, <2>3 DEF FrameInv, InOrder
<1>8. InStep'
  BY <1>2, <1>6 DEF InStep, Follows
<1>. QED BY <1>1, <1>5, <1>7, <1>8 DEF FrameInv

LEMMA DecodeReturnsStep == FrameInv /\ DecodeReturns => FrameInv'
<1> SUFFICES ASSUME FrameInv, DecodeReturns PROVE FrameInv'
  OBVIOUS
<1> USE DEF DecodeReturns
<1>1. /\ envelopes \in Seq(Payloads) /\ received \in Seq(Payloads)
      /\ Len(envelopes) \in Nat /\ Len(received) \in Nat
  BY LenProperties DEF FrameInv, FrameTypeOK
<1>2. /\ received' \in Seq(Payloads) /\ Len(received') = DecodedSoFar
      /\ \A i \in 1 .. DecodedSoFar :
           received'[i] = IF i <= Len(received) THEN received[i] ELSE envelopes[i - Len(received)]
  BY <1>1, ConcatProperties DEF DecodedSoFar
<1>3. envelopes' \in Seq(Payloads) /\ Len(envelopes') = 0
  BY EmptySeq
<1>4. FrameTypeOK'
  BY <1>2, <1>3 DEF FrameInv, FrameTypeOK
<1>5. DecodedSoFar' = DecodedSoFar
  BY <1>1, <1>2, <1>3 DEF DecodedSoFar
<1>6. InOrder'
  <2>1. ASSUME NEW i \in 1 .. Len(received') PROVE received'[i] = sent[i]
    <3>1. i \in 1 .. DecodedSoFar
      BY <1>2
    <3>2. CASE i <= Len(received)
      BY <1>1, <1>2, <3>1, <3>2 DEF FrameInv, InOrder
    <3>3. CASE ~(i <= Len(received))
      <4>1. i - Len(received) \in 1 .. Len(envelopes) /\ Len(received) + (i - Len(received)) = i
        BY <1>1, <3>1, <3>3 DEF DecodedSoFar
      <4>2. envelopes[i - Len(received)] = sent[Len(received) + (i - Len(received))]
        BY <4>1 DEF FrameInv, InOrder
      <4>. QED BY <1>2, <3>1, <3>3, <4>1, <4>2
    <3>. QED BY <3>2, <3>3
  <2>. QED BY <1>3, <1>5, <2>1 DEF FrameInv, InOrder
<1>7. ~failed /\ InStep'
  BY <1>5 DEF FrameInv, InStep, Follows
<1>. QED BY <1>4, <1>6, <1>7 DEF FrameInv

LEMMA DecodeFailsStep == FrameInv /\ DecodeFails => FrameInv'
<1> SUFFICES ASSUME FrameInv, DecodeFails PROVE FrameInv'
  OBVIOUS
<1> USE DEF DecodeFails
<1>1. /\ Len(envelopes) \in Nat /\ Len(received) \in Nat /\ Len(sent) \in Nat
      /\ Len(envelopes') = 0 /\ ~failed
  BY LenProperties, Empty DEF FrameInv, FrameTypeOK
<1>2. broken
  BY <1>1, AtRest
<1>3. FrameTypeOK'
  BY Empty, EmptySeq DEF FrameInv, FrameTypeOK
<1>4. DecodedSoFar' <= Len(sent)
  BY <1>1 DEF DecodedSoFar, FrameInv, InOrder
<1>5. InOrder'
  BY <1>1, <1>4 DEF FrameInv, InOrder
<1>. QED BY <1>2, <1>3, <1>5 DEF FrameInv

LEMMA ReconnectStep == FrameInv /\ Reconnect => FrameInv'
<1> SUFFICES ASSUME FrameInv, Reconnect PROVE FrameInv'
  OBVIOUS
<1>1. FrameInit'
  BY DEF FrameInv, FrameTypeOK, Reconnect, FrameInit
<1>2. (FrameInit => FrameInv)'
  BY FrameStart, PTL
<1>. QED BY <1>1, <1>2

\* The bytes held and under way are those of the frames not decoded yet, at
\* every moment of a connection (FrameDecoder::decode, encodeFrame).
THEOREM FrameCorrect == FrameSpec => []FrameInv
<1>1. FrameInit => FrameInv
  BY FrameStart
<1>2. FrameInv /\ [FrameNext]_frameVars => FrameInv'
  <2> SUFFICES ASSUME FrameInv, [FrameNext]_frameVars PROVE FrameInv'
    OBVIOUS
  <2>1. CASE UNCHANGED frameVars
    BY <2>1 DEF frameVars, FrameInv, FrameTypeOK, InOrder, DecodedSoFar, InStep, Follows
  <2>. QED BY <2>1, SendStep, SendBrokenStep, ReadStep, DecodeFrameStep, DecodeReturnsStep,
             DecodeFailsStep, ReconnectStep DEF FrameNext
<1>. QED BY <1>1, <1>2, PTL DEF FrameSpec

\* However the stream is cut into reads, the reader gets the envelopes that
\* were sent, whole and in their order, and all of them in the end; it gives a
\* connection up for a broken frame only.
THEOREM FramesWhole == FrameSpec => []WholeFrames
<1>1. FrameInv => WholeFrames
  <2> SUFFICES ASSUME FrameInv PROVE WholeFrames
    OBVIOUS
  <2>1. /\ sent \in Seq(Payloads) /\ received \in Seq(Payloads) /\ buffer \in Bytes
        /\ Len(sent) \in Nat /\ Len(received) \in Nat /\ Len(envelopes) \in Nat
        /\ \A i \in 1 .. Len(sent) : sent[i] \in Sound
    BY LenProperties, ElementOfSeq, SeqMonotonic DEF FrameInv, FrameTypeOK, Sound
  <2>2. Len(received) <= Len(sent) /\ \A i \in 1 .. Len(received) : received[i] = sent[i]
    BY <2>1 DEF FrameInv, InOrder, DecodedSoFar
  <2>3. received = SubSeq(sent, 1, Len(received))
    <3>1. \A i \in 1 .. Len(received) : sent[i] \in Payloads
      BY <2>1, <2>2 DEF Sound
    <3>2. /\ SubSeq(sent, 1, Len(received)) \in Seq(Payloads)
          /\ Len(SubSeq(sent, 1, Len(received))) = Len(received)
          /\ \A i \in 1 .. Len(received) : SubSeq(sent, 1, Len(received))[i] = sent[i]
      BY <2>1, <3>1, SubSeqProperties
    <3>. QED BY <2>1, <2>2, <3>2, SeqEqual
  <2>4. ASSUME stream = <<>>, ~decoding, ~broken PROVE received = sent /\ buffer = <<>>
    <3>1. ~failed /\ envelopes = <<>> /\ Waits(buffer)
      BY <2>4 DEF FrameInv
    <3>2. DecodedSoFar = Len(received)
      BY <2>1, <3>1, Empty DEF DecodedSoFar
    <3>3. buffer \o stream = buffer
      BY <2>1, <2>4, ConcatEmptySeq DEF Bytes
    <3>4. PICK rest \in [0 .. Len(sent) -> Bytes] : Follows(rest) /\ buffer \o stream = rest[Len(received)]
      BY <3>1, <3>2 DEF FrameInv, InStep
    <3>5. CASE Len(received) < Len(sent)
      <4> DEFINE k == Len(received) + 1
      <4>1. k \in 1 .. Len(sent) /\ k - 1 = Len(received)
        BY <2>1, <3>5
      <4>2. sent[k] \in Sound /\ rest[k] \in Bytes
        BY <2>1, <4>1
      <4>3. buffer \o <<>> = Frame(sent[k]) \o rest[k] /\ buffer = Frame(sent[k]) \o rest[k]
        BY <2>4, <3>3, <3>4, <4>1 DEF Follows
      <4> HIDE DEF k
      <4>4. Len(buffer) < HeaderSize + Len(sent[k])
        <5>1. buffer \o stream = Frame(sent[k]) \o rest[k] /\ stream \in Bytes
          BY <2>4, <4>3, Empty
        <5>2. Waits(buffer) <=> Len(buffer) < HeaderSize + Len(sent[k])
          BY <2>1, <4>2, <5>1, AtFrame
        <5>. QED BY <3>1, <5>2
      <4>5. /\ Frame(sent[k]) \in Bytes /\ Len(Frame(sent[k])) = HeaderSize + Len(sent[k])
            /\ Len(sent[k]) \in 1 .. MaxFrameSize /\ MaxFrameSize \in Nat
        BY <4>2, FrameOf, FrameConstants
      <4>6. /\ Len(buffer) = Len(Frame(sent[k])) + Len(rest[k])
            /\ Len(Frame(sent[k])) \in Nat /\ Len(rest[k]) \in Nat
        BY <4>2, <4>3, <4>5, Joined
      <4>7. HeaderSize + Len(sent[k]) \in Nat
        BY <4>5 DEF HeaderSize
      <4>. QED BY <4>4, <4>5, <4>6, <4>7
    <3>6. CASE Len(received) = Len(sent)
      <4>1. received = sent
        BY <2>1, <2>2, <3>6, SeqEqual
      <4>2. buffer = <<>>
        BY <2>4, <3>3, <3>4, <3>6 DEF Follows
      <4>. QED BY <4>1, <4>2
    <3>7. Len(received) < Len(sent) \/ Len(received) = Len(sent)
      BY <2>1, <2>2
    <3>. QED BY <3>5, <3>6, <3>7
  <2>5. failed => broken
    BY DEF FrameInv
  <2>. QED BY <2>2, <2>3, <2>4, <2>5 DEF WholeFrames
<1>. QED BY <1>1, FrameCorrect, PTL
-----------------------------------------------------------------------------
(* The two links of a message.                                             *)

\* What a message of a topic says.
Said(topic) ==
  CASE topic = "command" -> [mode : Modes, navi_mode : NaviModes, buoyancy_adjust : Buoyancies]
    [] topic = "chassis" -> [water_tank_status : TankCodes]
    [] topic = "task" -> [buoyancy_adjust : Buoyancies]
    [] topic = "range" -> [stamp : Stamps]
    [] topic = "inspection" -> [stamp : Stamps]
    [] topic = "action" -> [owner : 0..2, state : {1, 3}, chassis_mode : {1, 2},
                            goal_uuid : Nat, buoyancy_adjust : {0}]
    [] topic = "local" -> [stamp : Stamps, count : Lengths]
    [] topic = "global" -> [stamp : Stamps, count : Lengths]
    [] topic = "targets" ->
         {[targets |-> set.targets, odom |-> set.odom, stamp |-> stamp] :
            set \in TargetSets, stamp \in Stamps}
    [] topic = "location" -> {<<>>}
Messages(topic) == [topic : {topic}, layout : Layouts(topic), said : Said(topic), n : Nat]
Plain == {"location", "command", "chassis", "task", "range", "inspection"}
Paths == {"local", "global"}
-----------------------------------------------------------------------------
(* Fields and tables.                                                      *)

LEMMA TopicNames ==
  /\ Plain \subseteq Topics /\ Paths \subseteq Topics /\ "action" \in Topics /\ "targets" \in Topics
  /\ \A t \in Plain : t # "action" /\ t # "targets" /\ t # "local" /\ t # "global"
  /\ \A t \in Paths : t # "action" /\ t # "targets" /\ t \notin Plain
  /\ "targets" # "action" /\ "targets" \notin Plain /\ "action" \notin Plain
BY DEF Topics, Plain, Paths

LEMMA CopiedTopics == DOMAIN Copied = Plain \cup {"action"}
BY DEF Copied, Plain

LEMMA LeftFirst ==
  ASSUME NEW f, NEW g
  PROVE  /\ DOMAIN (f ++ g) = DOMAIN f \cup DOMAIN g
         /\ \A x \in DOMAIN f : (f ++ g)[x] = f[x]
         /\ \A x \in (DOMAIN g) \ DOMAIN f : (f ++ g)[x] = g[x]
         /\ f ++ g = [x \in DOMAIN (f ++ g) |-> (f ++ g)[x]]
BY DEF ++

LEMMA MessageIs ==
  ASSUME NEW t, NEW m \in Messages(t)
  PROVE  /\ m # Absent /\ m.topic = t /\ m.layout \in Layouts(t) /\ m.n \in Nat
         /\ m.said \in Said(t)
<1>1. DOMAIN m # {}
  BY DEF Messages
<1>. QED BY <1>1 DEF Messages, Absent

\* A slot is there.
LEMMA SlotIs ==
  ASSUME NEW time, NEW fields, NEW items
  PROVE  /\ Slot(time, fields, items) # Absent
         /\ Slot(time, fields, items).time = time
         /\ Slot(time, fields, items).fields = fields
         /\ Slot(time, fields, items).items = items
<1>1. DOMAIN Slot(time, fields, items) # {} /\ DOMAIN Absent = {}
  BY DEF Slot, Absent
<1>. QED BY <1>1 DEF Slot

\* A field read is the field of that name.
LEMMA ReadTrue ==
  ASSUME TablesAligned, NEW t \in Topics \ {"targets"}, NEW l \in Layouts(t), NEW m
  PROVE  LET d == Decoding[t][l] IN
         /\ d.whole /\ d.layout = l /\ DOMAIN d.from = Names(Declared(t, l))
         /\ \A f \in DOMAIN d.from : Got(m, d, f) = Value(m, f)
         /\ \A f \in Deciding(t, l) : Got(m, d, f) = Value(m, f)
         /\ DOMAIN d.from \cap Derived = {}
<1>. DEFINE d == Decoding[t][l]
<1>1. /\ d.whole /\ d.layout = l /\ DOMAIN d.from = Names(Declared(t, l))
      /\ \A f \in DOMAIN d.from : d.from[f] = f
      /\ DOMAIN d.from \cap (Derived \cup {Misread}) = {} /\ Deciding(t, l) \subseteq DOMAIN d.from
  BY DEF TablesAligned
<1>2. \A f \in DOMAIN d.from : Got(m, d, f) = Value(m, f)
  BY <1>1 DEF Got
<1>. QED BY <1>1, <1>2

\* What the decoder keeps of a message is what the server copies.
LEMMA CopiedIsDecoded ==
  ASSUME TablesAligned, NEW t \in (Plain \cup {"action"}) \ {"chassis"},
         NEW l \in Layouts(t), NEW m
  PROVE  Decoded(m, Decoding[t][l], Consumed[t]) = Copy(m, Copied[t])
<1>. DEFINE d == Decoding[t][l]
<1>1. t \in Topics \ {"targets"} /\ t # "local" /\ t # "global"
  BY TopicNames
<1>2. Copied[t] = DOMAIN d.from \ Consumed[t]
  BY <1>1 DEF TablesAligned
<1>3. \A f \in DOMAIN d.from : Got(m, d, f) = Value(m, f)
  BY <1>1, ReadTrue
<1>. QED BY <1>2, <1>3 DEF Decoded, Copy

\* The enumerations are written twice, with the same meaning.
LEMMA SameEnumerations ==
  /\ \A v \in Nat : BuoyancyCommand(v) = Buoyancy(v)
  /\ \A v \in Nat : WaterTankState(v) = TankState(v)
  /\ \A v : VerticalControlMode(v) = VerticalMode(v)
  /\ \A o \in Nat, v \in Nat : ActionVerticalControlMode(o, v) = ActionVerticalMode(o, v)
<1>1. \A v \in Nat : BuoyancyCommand(v) = Buoyancy(v)
  <2>. SUFFICES ASSUME NEW v \in Nat PROVE BuoyancyCommand(v) = Buoyancy(v)
    OBVIOUS
  <2>1. v = 0 \/ v = 1 \/ v = 2 \/ v > 2
    OBVIOUS
  <2>. QED BY <2>1 DEF BuoyancyCommand, Buoyancy
<1>2. \A v \in Nat : WaterTankState(v) = TankState(v)
  <2>. SUFFICES ASSUME NEW v \in Nat PROVE WaterTankState(v) = TankState(v)
    OBVIOUS
  <2>1. v = 0 \/ v = 1 \/ v = 2 \/ v = 3 \/ v = 4 \/ v = 5 \/ v = 6 \/ v > 6
    OBVIOUS
  <2>. QED BY <2>1 DEF WaterTankState, TankState
<1>3. \A v : VerticalControlMode(v) = VerticalMode(v)
  BY DEF VerticalControlMode, VerticalMode
<1>4. \A o \in Nat, v \in Nat : ActionVerticalControlMode(o, v) = ActionVerticalMode(o, v)
  BY DEF ActionVerticalControlMode, ActionVerticalMode
<1>. QED BY <1>1, <1>2, <1>3, <1>4

\* What a message says of a field.
LEMMA SaidIs ==
  ASSUME NEW t \in Topics, NEW m \in Messages(t), NEW f \in DOMAIN m.said
  PROVE  Value(m, f)[2] = m.said[f]
BY DEF Value

LEMMA LocationAgrees ==
  ASSUME TablesAligned, NEW m \in Messages("location")
  PROVE  BagDecoded(m, Decoding["location"][m.layout]) = Converted(m)
<1>. DEFINE d == Decoding["location"][m.layout]
<1>1. m.topic = "location" /\ m.layout \in Layouts("location")
  BY MessageIs
<1>2. Decoded(m, d, Consumed["location"]) = Copy(m, Copied["location"])
  BY <1>1, CopiedIsDecoded DEF Plain
<1>3. Consumed["location"] = Consumed.location /\ Copied["location"] = Copied.location
  OBVIOUS
<1>. HIDE DEF d
<1>4. DecodeLocation(m, d) = VehicleState(m)
  BY <1>2, <1>3 DEF DecodeLocation, VehicleState
<1>. QED BY <1>1, <1>4 DEF BagDecoded, Converted, d

LEMMA RequestAgrees ==
  ASSUME TablesAligned, NEW t \in {"range", "inspection"}, NEW m \in Messages(t)
  PROVE  BagDecoded(m, Decoding[t][m.layout]) = Converted(m)
<1>. DEFINE d == Decoding[t][m.layout]
<1>1. m.topic = t /\ m.layout \in Layouts(t)
  BY MessageIs
<1>2. Decoded(m, d, Consumed[t]) = Copy(m, Copied[t])
  BY <1>1, CopiedIsDecoded DEF Plain
<1>. HIDE DEF d
<1>3. DecodeRequest(m, d) = PerceptionRequest(m)
  BY <1>1, <1>2 DEF DecodeRequest, PerceptionRequest
<1>. QED BY <1>1, <1>3 DEF BagDecoded, Converted, d

LEMMA TaskAgrees ==
  ASSUME TablesAligned, NEW m \in Messages("task")
  PROVE  BagDecoded(m, Decoding["task"][m.layout]) = Converted(m)
<1>. DEFINE d == Decoding["task"][m.layout]
<1>1. m.topic = "task" /\ m.layout \in Layouts("task") /\ m.said \in Said("task")
  BY MessageIs
<1>2. Decoded(m, d, Consumed["task"]) = Copy(m, Copied["task"])
  BY <1>1, CopiedIsDecoded DEF Plain
<1>3. Consumed["task"] = Consumed.task /\ Copied["task"] = Copied.task
  OBVIOUS
<1>4. \A f \in Deciding("task", m.layout) : Got(m, d, f) = Value(m, f)
  BY <1>1, ReadTrue, TopicNames DEF Plain
<1>5. "buoyancy_adjust" \in Deciding("task", m.layout)
      /\ \A i \in 1..16 : "power_supply" \o ToString(i) \in Deciding("task", m.layout)
  BY DEF Deciding
<1>6. "buoyancy_adjust" \in DOMAIN m.said /\ m.said.buoyancy_adjust \in Nat
  BY <1>1, LinksAssumption DEF Said
<1>. HIDE DEF d
<1>7. Buoyancy(Got(m, d, "buoyancy_adjust")[2]) = BuoyancyCommand(m.said.buoyancy_adjust)
  BY <1>4, <1>5, <1>6, SameEnumerations, SaidIs, TopicNames DEF Plain
<1>8. DecodedList(m, d, "power_supply", 16) = Listed(m, "power_supply", 16)
  BY <1>4, <1>5 DEF DecodedList, Listed
<1>9. DecodeTask(m, d) = TaskState(m)
  BY <1>2, <1>3, <1>7, <1>8 DEF DecodeTask, TaskState
<1>. QED BY <1>1, <1>9 DEF BagDecoded, Converted, d

LEMMA PathAgrees ==
  ASSUME TablesAligned, NEW t \in Paths, NEW m \in Messages(t)
  PROVE  BagDecoded(m, Decoding[t][m.layout]) = Trajectory(m)
<1>. DEFINE d == Decoding[t][m.layout]
<1>1. m.topic = t /\ m.layout \in Layouts(t) /\ t \in {"local", "global"}
      /\ t \in Topics \ {"targets"}
  BY MessageIs, TopicNames DEF Paths
<1>2. /\ PointCopied(t) = DOMAIN d.from \ {"sec", "nanosec", "frame_id"}
      /\ \A f \in DOMAIN d.from : d.from[f] = f
  BY <1>1 DEF TablesAligned
<1>. HIDE DEF d
<1>3. [i \in 1..m.said.count |-> [f \in PointCopied(t) |-> PointValue(m, f, i)]]
      = [i \in 1..m.said.count |->
           [f \in DOMAIN d.from \ {"sec", "nanosec", "frame_id"} |-> PointValue(m, d.from[f], i)]]
  BY <1>2
<1>4. DecodePath(m, d) = Trajectory(m)
  BY <1>1, <1>3 DEF DecodePath, Trajectory
<1>. QED BY <1>1, <1>4 DEF BagDecoded, d

\* The vertical control that either link tells of a command.
LiveVertical(m) ==
  IF m.said.mode = 2 THEN "LANDING" ELSE VerticalControlMode(m.said.navi_mode)
BagVertical(m) ==
  IF m.layout = "Current" THEN LiveVertical(m) ELSE VerticalControlMode(m.said.navi_mode)
CommandSlot(m, vertical) ==
  Slot(Received(m), Copy(m, Copied.command) ++
       CommandKinds(m.said.mode, BuoyancyCommand(m.said.buoyancy_adjust), vertical), NoItems)

LEMMA CommandAgrees ==
  ASSUME TablesAligned, NEW m \in Messages("command")
  PROVE  /\ Converted(m) = CommandSlot(m, LiveVertical(m))
         /\ BagDecoded(m, Decoding["command"][m.layout]) = CommandSlot(m, BagVertical(m))
<1>. DEFINE d == Decoding["command"][m.layout]
<1>1. m.topic = "command" /\ m.layout \in Layouts("command") /\ m.said \in Said("command")
  BY MessageIs
<1>2. Decoded(m, d, Consumed["command"]) = Copy(m, Copied["command"])
  BY <1>1, CopiedIsDecoded DEF Plain
<1>3. Consumed["command"] = Consumed.command /\ Copied["command"] = Copied.command
  OBVIOUS
<1>4. (\A f \in Deciding("command", m.layout) : Got(m, d, f) = Value(m, f)) /\ d.layout = m.layout
  BY <1>1, ReadTrue, TopicNames DEF Plain
<1>5. Deciding("command", m.layout) = {"mode", "navi_mode", "buoyancy_adjust"}
  BY DEF Deciding
<1>6. /\ DOMAIN m.said = {"mode", "navi_mode", "buoyancy_adjust"}
      /\ m.said.buoyancy_adjust \in Nat
  BY <1>1, LinksAssumption DEF Said
<1>. HIDE DEF d
<1>7. \A f \in {"mode", "navi_mode", "buoyancy_adjust"} : Got(m, d, f)[2] = m.said[f]
  BY <1>4, <1>5, <1>6, SaidIs, TopicNames DEF Plain
<1>8. Buoyancy(m.said.buoyancy_adjust) = BuoyancyCommand(m.said.buoyancy_adjust)
      /\ VerticalMode(m.said.navi_mode) = VerticalControlMode(m.said.navi_mode)
  BY <1>6, SameEnumerations
<1>9. DecodeCommand(m, d) = CommandSlot(m, BagVertical(m))
  BY <1>2, <1>3, <1>4, <1>7, <1>8 DEF DecodeCommand, CommandSlot, BagVertical, LiveVertical
<1>10. Converted(m) = CommandSlot(m, LiveVertical(m))
  BY <1>1 DEF Converted, ControlCommand, CommandSlot, LiveVertical
<1>. QED BY <1>1, <1>9, <1>10 DEF BagDecoded, d

LEMMA ThrusterLists ==
  /\ DOMAIN TailThrusters = 1..2 /\ DOMAIN (TailThrusters \o VerticalThrusters) = 1..5
  /\ \A i \in 1..2 : TailThrusters[i] \in {"left_tail", "right_tail"}
                     /\ (TailThrusters \o VerticalThrusters)[i] = TailThrusters[i]
  /\ \A i \in 1..5 : (TailThrusters \o VerticalThrusters)[i] \in ThrusterNames
<1>1. /\ TailThrusters \in Seq(ThrusterNames) /\ Len(TailThrusters) = 2
      /\ VerticalThrusters \in Seq(ThrusterNames) /\ Len(VerticalThrusters) = 3
  BY DEF TailThrusters, VerticalThrusters, ThrusterNames
<1>2. /\ TailThrusters \o VerticalThrusters \in Seq(ThrusterNames)
      /\ Len(TailThrusters \o VerticalThrusters) = 5
      /\ \A i \in 1..2 : (TailThrusters \o VerticalThrusters)[i] = TailThrusters[i]
  <2>. DEFINE first == TailThrusters
              second == VerticalThrusters
  <2>1. /\ first \o second \in Seq(ThrusterNames) /\ Len(first \o second) = Len(first) + Len(second)
        /\ \A i \in 1 .. Len(first) + Len(second) :
             (first \o second)[i] = IF i <= Len(first) THEN first[i] ELSE second[i - Len(first)]
    BY <1>1, ConcatProperties, Zenon
  <2>. QED BY <1>1, <2>1
<1>3. \A i \in 1..2 : TailThrusters[i] \in {"left_tail", "right_tail"}
  BY DEF TailThrusters
<1>4. \A S : \A s \in Seq(S) : DOMAIN s = 1..Len(s) /\ \A i \in 1..Len(s) : s[i] \in S
  OBVIOUS
<1>. QED BY <1>1, <1>2, <1>3, <1>4

\* The motors that a client is told of.
Motors(m, names) == [i \in DOMAIN names |-> MotorFeedback(m, names[i])]
BagMotors(m) ==
  IF HasVerticals(m.layout) THEN Motors(m, TailThrusters \o VerticalThrusters)
  ELSE IF HasTails(m.layout) THEN Motors(m, TailThrusters) ELSE <<>>
ChassisSlot(m, motors) ==
  Slot(Received(m), Without(ChassisState(m), HeadingDiagnostics),
       [motors |-> motors, warning_code |-> Listed(m, "warning", 12),
        power_channel |-> Listed(m, "power", 16)])

LEMMA LiveChassis ==
  ASSUME NEW m \in Messages("chassis")
  PROVE  ShownChassis(Converted(m)) = ChassisSlot(m, Motors(m, TailThrusters \o VerticalThrusters))
<1>. DEFINE all == TailThrusters \o VerticalThrusters
            motors == [i \in 1..5 |-> MotorFeedback(m, all[i])]
<1>1. m.topic = "chassis"
  BY MessageIs
<1>2. motors # <<>> /\ motors = Motors(m, all)
  <2>1. DOMAIN motors # DOMAIN <<>>
    OBVIOUS
  <2>2. motors = Motors(m, all)
    BY ThrusterLists DEF Motors
  <2>. QED BY <2>1, <2>2
<1>3. /\ ChassisState(m).time = Received(m)
      /\ ChassisState(m).items.thruster_motor = motors
      /\ ChassisState(m).items.warning_code = Listed(m, "warning", 12)
      /\ ChassisState(m).items.power_channel = Listed(m, "power", 16)
  BY DEF ChassisState, Slot
<1>. HIDE DEF motors, all
<1>4. ShownChassis(ChassisState(m)) = ChassisSlot(m, Motors(m, all))
  BY <1>2, <1>3 DEF ShownChassis, ChassisSlot
<1>. QED BY <1>1, <1>4 DEF Converted, all

LEMMA BagChassis ==
  ASSUME TablesAligned, NEW m \in Messages("chassis")
  PROVE  ShownChassis(BagDecoded(m, Decoding["chassis"][m.layout])) = ChassisSlot(m, BagMotors(m))
<1>. DEFINE d == Decoding["chassis"][m.layout]
            all == TailThrusters \o VerticalThrusters
            bagMotors(names) == [i \in DOMAIN names |->
              <<names[i], [f \in Names(FeedbackReads) |-> Got(m, d, names[i] \o f)]>>]
            slot == DecodeChassis(m, d)
<1>1. m.topic = "chassis" /\ m.layout \in Layouts("chassis") /\ m.said \in Said("chassis")
      /\ "chassis" \in Topics \ {"targets"} /\ "chassis" \notin {"local", "global"}
  BY MessageIs, TopicNames DEF Plain
<1>2. /\ \A f \in DOMAIN d.from : Got(m, d, f) = Value(m, f)
      /\ \A f \in Deciding("chassis", m.layout) : Got(m, d, f) = Value(m, f)
      /\ d.layout = m.layout
  BY <1>1, ReadTrue
<1>3. /\ Copied["chassis"] \ HeadingDiagnostics = DOMAIN d.from \ Consumed["chassis"]
      /\ Names(Feedback) = Names(FeedbackReads)
  BY <1>1 DEF TablesAligned
<1>4. Consumed["chassis"] = Consumed.chassis /\ Copied["chassis"] = Copied.chassis
  OBVIOUS
<1>5. /\ "water_tank_status" \in Deciding("chassis", m.layout)
      /\ \A i \in 1..12 : "warning" \o ToString(i) \in Deciding("chassis", m.layout)
      /\ \A i \in 1..16 : "power" \o ToString(i) \in Deciding("chassis", m.layout)
      /\ HasVerticals(m.layout) =>
           \A t \in ThrusterNames, f \in Names(Feedback) : t \o f \in Deciding("chassis", m.layout)
      /\ HasTails(m.layout) =>
           \A t \in {"left_tail", "right_tail"}, f \in Names(Feedback) :
             t \o f \in Deciding("chassis", m.layout)
  <2>. DEFINE told == IF HasVerticals(m.layout) THEN ThrusterNames
                      ELSE IF HasTails(m.layout) THEN {"left_tail", "right_tail"} ELSE {}
              warnings == {"warning" \o ToString(i) : i \in 1..12}
              powers == {"power" \o ToString(i) : i \in 1..16}
              fields == {t \o f : t \in told, f \in Names(Feedback)}
  <2>1. Deciding("chassis", m.layout) =
          {"water_tank_status"} \cup warnings \cup powers \cup fields
    BY DEF Deciding
  <2>2. /\ HasVerticals(m.layout) => told = ThrusterNames
        /\ HasTails(m.layout) => {"left_tail", "right_tail"} \subseteq told
    BY DEF ThrusterNames
  <2>3. \A t \in told, f \in Names(Feedback) : t \o f \in fields
    OBVIOUS
  <2>4. /\ \A i \in 1..12 : "warning" \o ToString(i) \in warnings
        /\ \A i \in 1..16 : "power" \o ToString(i) \in powers
    OBVIOUS
  <2>. HIDE DEF told, warnings, powers, fields
  <2>5. {"water_tank_status"} \cup warnings \cup powers \cup fields
        \subseteq Deciding("chassis", m.layout)
    BY <2>1
  <2>. QED BY <2>2, <2>3, <2>4, <2>5
<1>6. "water_tank_status" \in DOMAIN m.said /\ m.said.water_tank_status \in Nat
  BY <1>1, LinksAssumption DEF Said
<1>. HIDE DEF d
<1>7. TankState(Got(m, d, "water_tank_status")[2]) = WaterTankState(m.said.water_tank_status)
  BY <1>1, <1>2, <1>5, <1>6, SameEnumerations, SaidIs
<1>8. /\ DecodedList(m, d, "warning", 12) = Listed(m, "warning", 12)
      /\ DecodedList(m, d, "power", 16) = Listed(m, "power", 16)
  BY <1>2, <1>5 DEF DecodedList, Listed
<1>9. HasVerticals(m.layout) => bagMotors(all) = Motors(m, all)
  BY <1>2, <1>3, <1>5, ThrusterLists DEF Motors, MotorFeedback
<1>10. HasTails(m.layout) => bagMotors(TailThrusters) = Motors(m, TailThrusters)
  BY <1>2, <1>3, <1>5, ThrusterLists DEF Motors, MotorFeedback
<1>11. /\ slot.time = Received(m)
       /\ slot.fields = Decoded(m, d, Consumed.chassis) ++ [tank |-> WaterTankState(m.said.water_tank_status)]
       /\ slot.items.tail_thruster_motor = IF HasTails(m.layout) THEN bagMotors(TailThrusters) ELSE <<>>
       /\ slot.items.thruster_motor = IF HasVerticals(m.layout) THEN bagMotors(all) ELSE <<>>
       /\ slot.items.warning_code = Listed(m, "warning", 12)
       /\ slot.items.power_channel = Listed(m, "power", 16)
  BY <1>2, <1>7, <1>8 DEF DecodeChassis, Slot
<1>12. HasVerticals(m.layout) => Motors(m, all) # <<>>
  <2>1. DOMAIN Motors(m, all) # DOMAIN <<>>
    BY ThrusterLists DEF Motors
  <2>. QED BY <2>1
<1>13. (IF slot.items.thruster_motor # <<>> THEN slot.items.thruster_motor
        ELSE slot.items.tail_thruster_motor) = BagMotors(m)
  <2>1. CASE HasVerticals(m.layout)
    BY <2>1, <1>9, <1>11, <1>12 DEF BagMotors
  <2>2. CASE ~HasVerticals(m.layout)
    BY <2>2, <1>10, <1>11 DEF BagMotors
  <2>. QED BY <2>1, <2>2
<1>14. Without(slot, HeadingDiagnostics) = Without(ChassisState(m), HeadingDiagnostics)
  <2>. DEFINE tank == [tank |-> WaterTankState(m.said.water_tank_status)]
              kept == Decoded(m, d, Consumed.chassis)
              copied == Copy(m, Copied.chassis)
  <2>1. ChassisState(m).fields = copied ++ tank
    BY DEF ChassisState, Slot
  <2>2. DOMAIN copied = Copied.chassis /\ DOMAIN kept = DOMAIN copied \ HeadingDiagnostics
    BY <1>3, <1>4 DEF Copy, Decoded
  <2>3. \A f \in DOMAIN kept : kept[f] = copied[f]
    BY <1>2, <1>3, <1>4 DEF Copy, Decoded
  <2>. HIDE DEF tank, kept, copied
  <2>4. Without([fields |-> kept ++ tank], HeadingDiagnostics)
        = Without([fields |-> copied ++ tank], HeadingDiagnostics)
    BY <2>2, <2>3 DEF Without, KeptFields, ++
  <2>. QED BY <2>1, <2>4, <1>11 DEF Without, KeptFields, kept, tank
<1>. HIDE DEF slot
<1>15. ShownChassis(slot) = ChassisSlot(m, BagMotors(m))
  BY <1>11, <1>13, <1>14 DEF ShownChassis, ChassisSlot
<1>. QED BY <1>1, <1>15 DEF BagDecoded, d, slot
-----------------------------------------------------------------------------
(* The invariant of the two links.                                         *)

FactNames == {"native_status", "feedback_progress"}
Caches == [Uuids -> [FactNames -> Nat]]
\* Every set of targets is read to its end: no bytes follow a rejected one.
TargetsDecode == \A set \in TargetSets : DecodesTargets([said |-> set])

\* What the bag's link makes of a message, whatever came before.
BagSlot(m) ==
  CASE m.topic = "command" -> CommandSlot(m, BagVertical(m))
    [] m.topic = "chassis" -> DecodeChassis(m, Decoding["chassis"][m.layout])
    [] OTHER -> Converted(m)
\* Of every topic with plain messages both links hold the last one.
PlainHeld ==
  \A t \in Plain : last[t] # Absent =>
    /\ live[t] = Converted(last[t])
    /\ bag[t] = BagSlot(last[t])
\* A path is the last one, and no turn goes on.
Turns(command) == command # Absent /\ Maneuver(command.said.mode) = "YAW_IN_PLACE"
PathsHeld ==
  \A t \in Paths :
    /\ bag[t] = live[t]
    /\ live[t] # Absent => live[t] = Trajectory(last[t]) /\ ~Turns(last["command"])
\* What a slot holds of an action: all of its message, and the hidden facts.
TellsAction(slot, m) ==
  /\ slot = Slot(Received(m), slot.fields, [recent_terminal |-> slot.items.recent_terminal])
  /\ DOMAIN slot.fields = Copied.action \cup {"name", "buoyancy", "vertical"} \cup FactNames
  /\ slot.fields = [f \in DOMAIN slot.fields |-> slot.fields[f]]
  /\ \A f \in Copied.action : slot.fields[f] = Value(m, f)
  /\ \A f \in FactNames : slot.fields[f] = <<f, slot.fields[f][2]>> /\ slot.fields[f][2] \in Nat
\* Two records of an action that differ in hidden facts at most.
Alike(one, two) ==
  /\ DOMAIN one = DOMAIN two /\ "buoyancy" \in DOMAIN one
  /\ \A f \in DOMAIN one \ FactNames : one[f] = two[f]
AlikeAll(ones, twos) ==
  /\ DOMAIN ones = DOMAIN twos
  /\ \A i \in DOMAIN ones : Alike(ones[i], twos[i])
ActionHeld ==
  last["action"] # Absent =>
    /\ TellsAction(live["action"], last["action"]) /\ TellsAction(bag["action"], last["action"])
    /\ live["action"].fields = bag["action"].fields
    /\ AlikeAll(live["action"].items.recent_terminal, bag["action"].items.recent_terminal)
\* The bag skips a set of targets that the decoder does not read to its end.
TargetsHeld ==
  last["targets"] # Absent =>
    /\ live["targets"] = FinalTargets(last["targets"])
    /\ DecodesTargets(last["targets"]) => bag["targets"] = FinalTargets(last["targets"])

LinksTypeOK ==
  /\ n \in Nat /\ opens = TRUE /\ node \in Caches /\ worker = node
  /\ live = [t \in Topics |-> live[t]] /\ bag = [t \in Topics |-> bag[t]]
  /\ last = [t \in Topics |-> last[t]]
  /\ \A t \in Topics : last[t] \in Messages(t) \cup {Absent}
  /\ \A t \in Topics : last[t] = Absent => live[t] = Absent /\ bag[t] = Absent
LinksInv == LinksTypeOK /\ PlainHeld /\ PathsHeld /\ ActionHeld /\ TargetsHeld

LEMMA LinksStart == Init => LinksInv
<1>. SUFFICES ASSUME Init PROVE LinksInv
  OBVIOUS
<1>1. NoCache \in Caches
  BY DEF NoCache, Caches, NoFacts, FactNames
<1>2. \A t \in Topics : live[t] = Absent /\ bag[t] = Absent /\ last[t] = Absent
  BY DEF Init, Nothing
<1>3. LinksTypeOK
  BY <1>1, <1>2 DEF Init, LinksTypeOK, Nothing
<1>4. PlainHeld /\ PathsHeld /\ ActionHeld /\ TargetsHeld
  BY <1>2, TopicNames DEF PlainHeld, PathsHeld, ActionHeld, TargetsHeld
<1>. QED BY <1>3, <1>4 DEF LinksInv

\* The message is the whole value, and with aligned tables it is one.
LEMMA Replays ==
  ASSUME TablesAligned, opens = TRUE, NEW t \in Topics \ {"targets"}, NEW m \in Messages(t), Replay(m)
  PROVE  /\ bag' = With(bag, m, BagDecoded(m, Decoding[t][m.layout]))
         /\ opens' = TRUE /\ worker' = worker
<1>1. m.topic = t /\ m.layout \in Layouts(t)
  BY MessageIs
<1>2. Decoding[t][m.layout].whole
  BY <1>1, ReadTrue
<1>3. Replayed(m, Decoding[t][m.layout]) = BagDecoded(m, Decoding[t][m.layout])
  BY DEF Replayed, Filled, Cleared
<1>4. Validated(m, Decoding[t][m.layout])
  BY <1>1 DEF Replay
<1>. QED BY <1>2, <1>3, <1>4 DEF Validated

LEMMA BagPlain ==
  ASSUME TablesAligned, NEW t \in Plain, NEW m \in Messages(t)
  PROVE  BagDecoded(m, Decoding[t][m.layout]) = BagSlot(m)
<1>1. m.topic = t
  BY MessageIs
<1>2. CASE t = "location"
  BY <1>1, <1>2, LocationAgrees DEF BagSlot
<1>3. CASE t \in {"range", "inspection"}
  BY <1>1, <1>3, RequestAgrees DEF BagSlot
<1>4. CASE t = "task"
  BY <1>1, <1>4, TaskAgrees DEF BagSlot
<1>5. CASE t = "command"
  BY <1>1, <1>5, CommandAgrees DEF BagSlot
<1>6. CASE t = "chassis"
  BY <1>1, <1>6 DEF BagSlot, BagDecoded
<1>. QED BY <1>2, <1>3, <1>4, <1>5, <1>6 DEF Plain

\* A command's slot tells whether it turns.
LEMMA TurnTold ==
  ASSUME TablesAligned, NEW m \in Messages("command"), NEW vertical
  PROVE  /\ CommandSlot(m, vertical) # Absent
         /\ CommandSlot(m, vertical).fields.maneuver = Maneuver(m.said.mode)
<1>1. m.layout \in Layouts("command")
  BY MessageIs
<1>2. "maneuver" \notin Copied["command"]
  BY <1>1, TopicNames DEF TablesAligned, Derived, Plain
<1>3. "maneuver" \notin DOMAIN Copy(m, Copied.command)
  BY <1>2 DEF Copy
<1>4. ASSUME NEW kinds, "maneuver" \in DOMAIN kinds
      PROVE  (Copy(m, Copied.command) ++ kinds)["maneuver"] = kinds["maneuver"]
  BY <1>3, <1>4 DEF ++
<1>. QED BY <1>4, SlotIs DEF CommandSlot, CommandKinds

LEMMA BothTurn ==
  ASSUME TablesAligned, LinksInv
  PROVE  (Turning(live) <=> Turns(last["command"])) /\ (Turning(bag) <=> Turns(last["command"]))
<1>1. "command" \in Plain /\ "command" \in Topics
  BY TopicNames DEF Plain
<1>2. CASE last["command"] = Absent
  BY <1>1, <1>2 DEF LinksInv, LinksTypeOK, Turning, Turns
<1>3. CASE last["command"] # Absent
  <2>1. last["command"] \in Messages("command")
    BY <1>1, <1>3 DEF LinksInv, LinksTypeOK
  <2>2. /\ live["command"] = Converted(last["command"])
        /\ bag["command"] = BagSlot(last["command"])
    BY <1>1, <1>3 DEF LinksInv, PlainHeld
  <2>3. /\ live["command"] = CommandSlot(last["command"], LiveVertical(last["command"]))
        /\ bag["command"] = CommandSlot(last["command"], BagVertical(last["command"]))
    BY <2>1, <2>2, CommandAgrees, MessageIs DEF BagSlot
  <2>. QED BY <1>3, <2>1, <2>3, TurnTold DEF Turning, Turns
<1>. QED BY <1>2, <1>3

\* The types, after a message was observed.
LEMMA Observed ==
  ASSUME LinksTypeOK, NEW t \in Topics, NEW m \in Messages(t), Count, Observe(m),
         opens' = TRUE, node' \in Caches, worker' = node',
         live' = [u \in Topics |-> live'[u]], bag' = [u \in Topics |-> bag'[u]],
         \A u \in Topics \ {t} : (live[u] = Absent => live'[u] = Absent)
                                 /\ (bag[u] = Absent => bag'[u] = Absent)
  PROVE  /\ LinksTypeOK' /\ last'[t] = m /\ m # Absent
         /\ \A u \in Topics \ {t} : last'[u] = last[u]
<1>1. m.topic = t /\ m # Absent
  BY MessageIs
<1>2. last = [u \in Topics |-> last[u]]
  BY DEF LinksTypeOK
<1>3. last' = [last EXCEPT ![t] = m]
  BY <1>1 DEF Observe
<1>4. /\ last'[t] = m /\ last' = [u \in Topics |-> last'[u]]
      /\ \A u \in Topics \ {t} : last'[u] = last[u]
  BY <1>2, <1>3, Zenon
<1>5. n' \in Nat
  BY DEF Count, LinksTypeOK
<1>6. \A u \in Topics : last'[u] \in Messages(u) \cup {Absent}
  BY <1>4 DEF LinksTypeOK
<1>7. \A u \in Topics : last'[u] = Absent => live'[u] = Absent /\ bag'[u] = Absent
  BY <1>1, <1>4 DEF LinksTypeOK
<1>. QED BY <1>1, <1>4, <1>5, <1>6, <1>7 DEF LinksTypeOK

\* A slot that is kept with its message.
LEMMA PlainStep ==
  ASSUME TablesAligned, LinksInv, NEW t \in Plain \ {"command"}, NEW m \in Messages(t),
         Record(m, Converted(m))
  PROVE  LinksInv'
<1>1. /\ t \in Topics \ {"targets"} /\ t \notin Paths /\ t # "action" /\ t # "targets"
      /\ m.topic = t /\ m # Absent
  BY MessageIs, TopicNames
<1>2. LinksTypeOK /\ opens = TRUE
  BY DEF LinksInv, LinksTypeOK
<1>3. Count /\ Observe(m) /\ UNCHANGED node /\ live' = With(live, m, Converted(m)) /\ Replay(m)
  BY DEF Record
<1>4. /\ bag' = With(bag, m, BagSlot(m)) /\ opens' = TRUE /\ worker' = worker
  BY <1>1, <1>2, <1>3, Replays, BagPlain
<1>5. live' = [live EXCEPT ![t] = Converted(m)] /\ bag' = [bag EXCEPT ![t] = BagSlot(m)]
  BY <1>1, <1>3, <1>4 DEF With
<1>6. live = [u \in Topics |-> live[u]] /\ bag = [u \in Topics |-> bag[u]]
  BY DEF LinksInv, LinksTypeOK
<1>7. /\ live'[t] = Converted(m) /\ bag'[t] = BagSlot(m)
      /\ \A u \in Topics \ {t} : live'[u] = live[u] /\ bag'[u] = bag[u]
      /\ live' = [u \in Topics |-> live'[u]] /\ bag' = [u \in Topics |-> bag'[u]]
  BY <1>1, <1>5, <1>6, Zenon
<1>8. LinksTypeOK' /\ last'[t] = m /\ \A u \in Topics \ {t} : last'[u] = last[u]
  <2>1. node' \in Caches /\ worker' = node'
    BY <1>2, <1>3, <1>4 DEF LinksTypeOK
  <2>. QED BY <1>1, <1>2, <1>3, <1>4, <1>7, <2>1, Observed
<1>9. PlainHeld'
  BY <1>1, <1>7, <1>8, TopicNames DEF LinksInv, PlainHeld
<1>10. PathsHeld'
  BY <1>1, <1>7, <1>8, TopicNames DEF LinksInv, PathsHeld, Plain
<1>11. ActionHeld' /\ TargetsHeld'
  BY <1>1, <1>7, <1>8, TopicNames DEF LinksInv, ActionHeld, TargetsHeld
<1>. QED BY <1>8, <1>9, <1>10, <1>11 DEF LinksInv

\* A command that begins a turn removes the paths of either link.
LEMMA CommandStep ==
  ASSUME TablesAligned, LinksInv, NEW m \in Messages("command"), Record(m, Converted(m))
  PROVE  LinksInv'
<1>. DEFINE turns == Maneuver(m.said.mode) = "YAW_IN_PLACE"
            begins == turns /\ ~Turns(last["command"])
            removed == IF begins THEN Paths ELSE {}
<1>1. /\ "command" \in Topics \ {"targets"} /\ "command" \in Plain /\ "command" \notin Paths
      /\ m.topic = "command" /\ m # Absent
  BY MessageIs, TopicNames DEF Plain
<1>2. LinksTypeOK /\ opens = TRUE
  BY DEF LinksInv, LinksTypeOK
<1>3. Count /\ Observe(m) /\ UNCHANGED node /\ live' = With(live, m, Converted(m)) /\ Replay(m)
  BY DEF Record
<1>4. /\ bag' = With(bag, m, BagSlot(m)) /\ opens' = TRUE /\ worker' = worker
  BY <1>1, <1>2, <1>3, Replays, BagPlain
<1>5. Converted(m).fields.maneuver = Maneuver(m.said.mode)
      /\ BagSlot(m).fields.maneuver = Maneuver(m.said.mode)
  BY <1>1, CommandAgrees, TurnTold DEF BagSlot
<1>6. /\ live' = [u \in Topics |-> IF u = "command" THEN Converted(m)
                                   ELSE IF u \in removed THEN Absent ELSE live[u]]
      /\ bag' = [u \in Topics |-> IF u = "command" THEN BagSlot(m)
                                  ELSE IF u \in removed THEN Absent ELSE bag[u]]
  BY <1>1, <1>3, <1>4, <1>5, BothTurn DEF With, WithCommand, Paths
<1>7. /\ live'["command"] = Converted(m) /\ bag'["command"] = BagSlot(m)
      /\ \A u \in Topics \ {"command"} :
           /\ u \in removed => live'[u] = Absent /\ bag'[u] = Absent
           /\ u \notin removed => live'[u] = live[u] /\ bag'[u] = bag[u]
      /\ live' = [u \in Topics |-> live'[u]] /\ bag' = [u \in Topics |-> bag'[u]]
  BY <1>1, <1>6
<1>8. LinksTypeOK' /\ last'["command"] = m /\ \A u \in Topics \ {"command"} : last'[u] = last[u]
  <2>1. node' \in Caches /\ worker' = node'
    BY <1>2, <1>3, <1>4 DEF LinksTypeOK
  <2>2. \A u \in Topics \ {"command"} : (live[u] = Absent => live'[u] = Absent)
                                        /\ (bag[u] = Absent => bag'[u] = Absent)
    BY <1>7
  <2>. QED BY <1>1, <1>2, <1>3, <1>4, <1>7, <2>1, <2>2, Observed
<1>9. removed \subseteq Paths
  OBVIOUS
<1>10. PlainHeld'
  BY <1>1, <1>7, <1>8, <1>9, TopicNames DEF LinksInv, PlainHeld
<1>11. PathsHeld'
  <2>. SUFFICES ASSUME NEW t \in Paths
                PROVE  /\ bag'[t] = live'[t]
                       /\ live'[t] # Absent => live'[t] = Trajectory(last'[t]) /\ ~turns
    BY <1>8 DEF PathsHeld, Turns
  <2>1. t \in Topics \ {"command"} /\ last'[t] = last[t]
    BY <1>8, TopicNames DEF Plain
  <2>2. CASE begins
    BY <2>1, <2>2, <1>7
  <2>3. CASE ~begins
    BY <2>1, <2>3, <1>7 DEF LinksInv, PathsHeld
  <2>. QED BY <2>2, <2>3
<1>12. ActionHeld' /\ TargetsHeld'
  BY <1>1, <1>7, <1>8, <1>9, TopicNames DEF LinksInv, ActionHeld, TargetsHeld, Plain
<1>. QED BY <1>8, <1>10, <1>11, <1>12 DEF LinksInv

\* Paths reach both links or, during a turn, neither.
LEMMA PathStep ==
  ASSUME TablesAligned, LinksInv, NEW t \in Paths, NEW m \in Messages(t),
         Count, UNCHANGED node,
         IF Turning(live) THEN UNCHANGED <<live, last>>
         ELSE live' = With(live, m, Trajectory(m)) /\ Observe(m),
         IF Turning(bag) THEN UNCHANGED <<bag, opens, worker>> ELSE Replay(m)
  PROVE  LinksInv'
<1>1. /\ t \in Topics \ {"targets"} /\ t \notin Plain /\ t # "action" /\ t # "command"
      /\ m.topic = t /\ m # Absent
  BY MessageIs, TopicNames DEF Plain
<1>2. LinksTypeOK /\ opens = TRUE
  BY DEF LinksInv, LinksTypeOK
<1>3. CASE Turns(last["command"])
  <2>1. UNCHANGED <<live, last>> /\ UNCHANGED <<bag, opens, worker>>
    BY <1>3, BothTurn
  <2>2. n' \in Nat
    BY <1>2 DEF Count, LinksTypeOK
  <2>. QED BY <2>1, <2>2 DEF LinksInv, LinksTypeOK, PlainHeld, PathsHeld, ActionHeld, TargetsHeld
<1>4. CASE ~Turns(last["command"])
  <2>1. live' = With(live, m, Trajectory(m)) /\ Observe(m) /\ Replay(m)
    BY <1>4, BothTurn
  <2>2. bag' = With(bag, m, Trajectory(m)) /\ opens' = TRUE /\ worker' = worker
    BY <1>1, <1>2, <2>1, Replays, PathAgrees
  <2>3. live' = [live EXCEPT ![t] = Trajectory(m)] /\ bag' = [bag EXCEPT ![t] = Trajectory(m)]
    BY <1>1, <2>1, <2>2 DEF With
  <2>4. live = [u \in Topics |-> live[u]] /\ bag = [u \in Topics |-> bag[u]]
    BY <1>2 DEF LinksTypeOK
  <2>5. /\ live'[t] = Trajectory(m) /\ bag'[t] = Trajectory(m)
        /\ \A u \in Topics \ {t} : live'[u] = live[u] /\ bag'[u] = bag[u]
        /\ live' = [u \in Topics |-> live'[u]] /\ bag' = [u \in Topics |-> bag'[u]]
    BY <1>1, <2>3, <2>4, Zenon
  <2>6. LinksTypeOK' /\ last'[t] = m /\ \A u \in Topics \ {t} : last'[u] = last[u]
    <3>1. node' \in Caches /\ worker' = node'
      BY <1>2, <2>2 DEF LinksTypeOK
    <3>. QED BY <1>1, <1>2, <2>1, <2>2, <2>5, <3>1, Observed
  <2>7. PlainHeld'
    BY <1>1, <2>5, <2>6, TopicNames DEF LinksInv, PlainHeld
  <2>8. PathsHeld'
    BY <1>1, <1>4, <2>5, <2>6, TopicNames DEF LinksInv, PathsHeld, Plain
  <2>9. ActionHeld' /\ TargetsHeld'
    BY <1>1, <2>5, <2>6, TopicNames DEF LinksInv, ActionHeld, TargetsHeld
  <2>. QED BY <2>6, <2>7, <2>8, <2>9 DEF LinksInv
<1>. QED BY <1>3, <1>4
-----------------------------------------------------------------------------
(* Actions.                                                                *)

Facts == [FactNames -> Nat]
KindNames == {"name", "buoyancy", "vertical"}
Kinds(m) ==
  [name |-> ActionName(m.said.owner), buoyancy |-> BuoyancyCommand(m.said.buoyancy_adjust),
   vertical |-> ActionVerticalControlMode(m.said.owner, m.said.chassis_mode)]
Told(m, facts) == ActionFields(Copy(m, Copied.action), Kinds(m), facts)

LEMMA FactsKnown ==
  ASSUME NEW cache \in Caches, NEW goal
  PROVE  Known(goal, cache) \in Facts
<1>1. NoFacts \in Facts
  BY DEF NoFacts, Facts, FactNames
<1>2. ASSUME \E u \in Uuids : SameGoal(u, goal)
      PROVE  (CHOOSE u \in Uuids : SameGoal(u, goal)) \in Uuids
  BY <1>2
<1>. QED BY <1>1, <1>2 DEF Known, Caches, Facts

LEMMA FactsKept ==
  ASSUME NEW slot, NEW goal, slot # Absent => \A f \in FactNames : slot.fields[f][2] \in Nat
  PROVE  Kept(slot, goal) \in Facts
BY DEF Kept, FactsOf, Facts, FactNames, NoFacts

LEMMA FactsOver ==
  ASSUME NEW facts \in Facts, NEW older \in Facts
  PROVE  Over(facts, older) \in Facts
BY DEF Over, Facts

\* What is told of an action, whatever facts are known.
LEMMA ActionTold ==
  ASSUME TablesAligned, NEW m, NEW facts \in Facts
  PROVE  /\ DOMAIN Told(m, facts) = Copied.action \cup KindNames \cup FactNames
         /\ Told(m, facts) = [f \in DOMAIN Told(m, facts) |-> Told(m, facts)[f]]
         /\ \A f \in Copied.action : Told(m, facts)[f] = Value(m, f)
         /\ \A f \in FactNames : Told(m, facts)[f] = <<f, facts[f]>>
         /\ \A f \in Copied.action \cup KindNames :
              Told(m, facts)[f] = (Copy(m, Copied.action) ++ Kinds(m))[f]
<1>. DEFINE copied == Copy(m, Copied.action)
            kinds == Kinds(m)
            hidden == [f \in DOMAIN facts |-> <<f, facts[f]>>]
<1>1. DOMAIN copied = Copied.action /\ \A f \in Copied.action : copied[f] = Value(m, f)
  BY DEF Copy
<1>2. DOMAIN kinds = KindNames
  BY DEF Kinds, KindNames
<1>3. DOMAIN hidden = FactNames /\ \A f \in FactNames : hidden[f] = <<f, facts[f]>>
  BY DEF Facts
<1>4. Copied.action \cap FactNames = {} /\ KindNames \cap FactNames = {}
  <2>1. "action" \in Topics \ {"targets"} /\ "Current" \in Layouts("action")
        /\ "action" \notin {"local", "global", "chassis"}
    BY TopicNames DEF Layouts
  <2>2. /\ Copied["action"] = DOMAIN Decoding["action"]["Current"].from \ Consumed["action"]
        /\ DOMAIN Decoding["action"]["Current"].from \cap (Derived \cup {Misread}) = {}
    BY <2>1 DEF TablesAligned
  <2>3. FactNames \subseteq Derived
    BY DEF Derived, NoFacts, FactNames
  <2>. QED BY <2>2, <2>3 DEF KindNames, FactNames
<1>5. Told(m, facts) = (copied ++ kinds) ++ hidden
  BY DEF Told, ActionFields
<1>. HIDE DEF copied, kinds, hidden
<1>6. DOMAIN (copied ++ kinds) = Copied.action \cup KindNames
      /\ \A f \in Copied.action : (copied ++ kinds)[f] = Value(m, f)
  <2>1. /\ DOMAIN (copied ++ kinds) = DOMAIN copied \cup DOMAIN kinds
        /\ \A x \in DOMAIN copied : (copied ++ kinds)[x] = copied[x]
    BY DEF ++
  <2>. QED BY <1>1, <1>2, <2>1
<1>. DEFINE plain == copied ++ kinds
<1>. HIDE DEF plain
<1>7. /\ DOMAIN (plain ++ hidden) = DOMAIN plain \cup DOMAIN hidden
      /\ \A x \in DOMAIN plain : (plain ++ hidden)[x] = plain[x]
      /\ \A x \in (DOMAIN hidden) \ DOMAIN plain : (plain ++ hidden)[x] = hidden[x]
      /\ plain ++ hidden = [x \in DOMAIN (plain ++ hidden) |-> (plain ++ hidden)[x]]
  BY LeftFirst
<1>8. Told(m, facts) = plain ++ hidden /\ DOMAIN plain = Copied.action \cup KindNames
      /\ \A f \in Copied.action : plain[f] = Value(m, f)
  BY <1>5, <1>6 DEF plain
<1>9. \A f \in Copied.action \cup KindNames : Told(m, facts)[f] = plain[f]
  BY <1>7, <1>8
<1>10. \A f \in FactNames : Told(m, facts)[f] = <<f, facts[f]>>
  BY <1>3, <1>4, <1>7, <1>8
<1>11. /\ DOMAIN Told(m, facts) = Copied.action \cup KindNames \cup FactNames
       /\ Told(m, facts) = [f \in DOMAIN Told(m, facts) |-> Told(m, facts)[f]]
  BY <1>3, <1>7, <1>8
<1>. QED BY <1>8, <1>9, <1>10, <1>11 DEF plain, copied, kinds

LEMMA AlikeTold ==
  ASSUME TablesAligned, NEW m, NEW facts \in Facts, NEW others \in Facts
  PROVE  Alike(Told(m, facts), Told(m, others))
<1>1. "buoyancy" \in KindNames
  BY DEF KindNames
<1>. QED BY <1>1, ActionTold DEF Alike

\* The slots of both links, made of the same parts.
ActionSlot(m, slot, facts, kept) ==
  Slot(Received(m), Told(m, facts),
       [recent_terminal |-> IF Terminal(m.said.state) THEN <<Told(m, kept)>>
                            ELSE IF slot = Absent THEN <<>> ELSE slot.items.recent_terminal])

LEMMA ActionDecoded ==
  ASSUME TablesAligned, NEW m \in Messages("action")
  PROVE  BagDecoded(m, Decoding["action"][m.layout]) =
           ActionSlot(m, bag["action"],
                      Over(Known(m.said.goal_uuid, worker), Kept(bag["action"], m.said.goal_uuid)),
                      Kept(bag["action"], m.said.goal_uuid))
<1>. DEFINE d == Decoding["action"][m.layout]
<1>1. m.topic = "action" /\ m.layout \in Layouts("action") /\ m.said \in Said("action")
      /\ "action" \in Topics \ {"targets"}
  BY MessageIs, TopicNames
<1>2. Decoded(m, d, Consumed["action"]) = Copy(m, Copied["action"])
  BY <1>1, CopiedIsDecoded
<1>3. Consumed["action"] = Consumed.action /\ Copied["action"] = Copied.action
      /\ bag["action"] = bag.action
  OBVIOUS
<1>4. \A f \in Deciding("action", m.layout) : Got(m, d, f) = Value(m, f)
  BY <1>1, ReadTrue
<1>5. Deciding("action", m.layout) =
        {"owner", "state", "goal_uuid", "chassis_mode", "buoyancy_adjust"}
  BY DEF Deciding
<1>6. /\ DOMAIN m.said = {"owner", "state", "goal_uuid", "chassis_mode", "buoyancy_adjust"}
      /\ m.said.buoyancy_adjust \in Nat /\ m.said.owner \in Nat /\ m.said.chassis_mode \in Nat
  BY <1>1 DEF Said
<1>. HIDE DEF d
<1>7. \A f \in {"owner", "state", "goal_uuid", "chassis_mode", "buoyancy_adjust"} :
        Got(m, d, f)[2] = m.said[f]
  BY <1>1, <1>4, <1>5, <1>6, SaidIs
<1>8. /\ Buoyancy(m.said.buoyancy_adjust) = BuoyancyCommand(m.said.buoyancy_adjust)
      /\ ActionVerticalMode(m.said.owner, m.said.chassis_mode)
         = ActionVerticalControlMode(m.said.owner, m.said.chassis_mode)
  BY <1>6, SameEnumerations
<1>9. DecodeAction(m, d) =
        ActionSlot(m, bag["action"],
                   Over(Known(m.said.goal_uuid, worker), Kept(bag["action"], m.said.goal_uuid)),
                   Kept(bag["action"], m.said.goal_uuid))
  BY <1>2, <1>3, <1>7, <1>8 DEF DecodeAction, ActionSlot, Told, Kinds
<1>. QED BY <1>1, <1>9 DEF BagDecoded, d

LEMMA ActionCopied ==
  ASSUME NEW m \in Messages("action")
  PROVE  LET facts == Over(Known(m.said.goal_uuid, node), Kept(live["action"], m.said.goal_uuid))
         IN  ActionState(m) = ActionSlot(m, live["action"], facts, facts)
BY DEF ActionState, ActionSlot, Told, Kinds

LEMMA ActionSlotTells ==
  ASSUME TablesAligned, NEW m, NEW slot, NEW facts \in Facts, NEW kept
  PROVE  /\ TellsAction(ActionSlot(m, slot, facts, kept), m)
         /\ ActionSlot(m, slot, facts, kept).fields = Told(m, facts)
<1>. DEFINE made == ActionSlot(m, slot, facts, kept)
<1>1. made.fields = Told(m, facts)
  BY DEF ActionSlot, Slot
<1>2. made = Slot(Received(m), made.fields, [recent_terminal |-> made.items.recent_terminal])
  BY DEF ActionSlot, Slot
<1>. HIDE DEF made
<1>3. /\ DOMAIN Told(m, facts) = Copied.action \cup {"name", "buoyancy", "vertical"} \cup FactNames
      /\ Told(m, facts) = [f \in DOMAIN Told(m, facts) |-> Told(m, facts)[f]]
      /\ \A f \in Copied.action : Told(m, facts)[f] = Value(m, f)
      /\ \A f \in FactNames : Told(m, facts)[f] = <<f, facts[f]>> /\ facts[f] \in Nat
  BY ActionTold DEF KindNames, Facts
<1>4. TellsAction(made, m)
  BY <1>1, <1>2, <1>3 DEF TellsAction
<1>. QED BY <1>1, <1>4 DEF made

LEMMA ActionStep ==
  ASSUME TablesAligned, LinksInv, NEW m \in Messages("action"), Record(m, ActionState(m))
  PROVE  LinksInv'
<1>. DEFINE goal == m.said.goal_uuid
            here == live["action"]
            there == bag["action"]
            facts == Over(Known(goal, node), Kept(here, goal))
<1>1. /\ "action" \in Topics \ {"targets"} /\ "action" \notin Plain /\ "action" \notin Paths
      /\ m.topic = "action" /\ m # Absent
  BY MessageIs, TopicNames
<1>2. LinksTypeOK /\ opens = TRUE /\ worker = node /\ node \in Caches
  BY DEF LinksInv, LinksTypeOK
<1>3. Count /\ Observe(m) /\ UNCHANGED node /\ live' = With(live, m, ActionState(m)) /\ Replay(m)
  BY DEF Record
<1>4. \/ here = Absent /\ there = Absent
      \/ /\ here # Absent /\ there # Absent /\ here.fields = there.fields
         /\ \A f \in FactNames : here.fields[f][2] \in Nat
         /\ AlikeAll(here.items.recent_terminal, there.items.recent_terminal)
  <2>1. CASE last["action"] = Absent
    BY <1>1, <1>2, <2>1 DEF LinksTypeOK
  <2>2. CASE last["action"] # Absent
    <3>1. TellsAction(here, last["action"]) /\ TellsAction(there, last["action"])
          /\ here.fields = there.fields
          /\ AlikeAll(here.items.recent_terminal, there.items.recent_terminal)
      BY <2>2 DEF LinksInv, ActionHeld
    <3>2. here # Absent /\ there # Absent /\ \A f \in FactNames : here.fields[f][2] \in Nat
      BY <3>1, SlotIs DEF TellsAction
    <3>. QED BY <3>1, <3>2
  <2>. QED BY <2>1, <2>2
<1>. HIDE DEF here, there
<1>5. Kept(here, goal) = Kept(there, goal)
  BY <1>4 DEF Kept
<1>6. Kept(here, goal) \in Facts /\ facts \in Facts
  BY <1>2, <1>4, FactsKept, FactsKnown, FactsOver
<1>. DEFINE mine == ActionSlot(m, here, facts, facts)
            yours == ActionSlot(m, there, facts, Kept(here, goal))
<1>7. ActionState(m) = mine
  BY ActionCopied DEF here
<1>8. BagDecoded(m, Decoding["action"][m.layout]) = yours
  BY <1>2, <1>5, ActionDecoded DEF there
<1>9. /\ bag' = With(bag, m, yours) /\ opens' = TRUE /\ worker' = worker
  BY <1>1, <1>2, <1>3, <1>8, Replays
<1>10. live' = [live EXCEPT !["action"] = mine] /\ bag' = [bag EXCEPT !["action"] = yours]
  BY <1>1, <1>3, <1>7, <1>9 DEF With
<1>11. live = [u \in Topics |-> live[u]] /\ bag = [u \in Topics |-> bag[u]]
  BY <1>2 DEF LinksTypeOK
<1>12. TellsAction(mine, m) /\ TellsAction(yours, m) /\ mine.fields = yours.fields
  BY <1>6, ActionSlotTells
<1>13. AlikeAll(mine.items.recent_terminal, yours.items.recent_terminal)
  <2>1. CASE Terminal(m.said.state)
    <3>1. mine.items.recent_terminal = <<Told(m, facts)>>
          /\ yours.items.recent_terminal = <<Told(m, Kept(here, goal))>>
      BY <2>1 DEF ActionSlot, Slot
    <3>2. Alike(Told(m, facts), Told(m, Kept(here, goal)))
      BY <1>6, AlikeTold
    <3>. QED BY <3>1, <3>2 DEF AlikeAll
  <2>2. CASE ~Terminal(m.said.state) /\ here = Absent
    <3>1. mine.items.recent_terminal = <<>> /\ yours.items.recent_terminal = <<>>
      BY <1>4, <2>2 DEF ActionSlot, Slot
    <3>. QED BY <3>1 DEF AlikeAll
  <2>3. CASE ~Terminal(m.said.state) /\ here # Absent
    <3>1. mine.items.recent_terminal = here.items.recent_terminal
          /\ yours.items.recent_terminal = there.items.recent_terminal
      BY <1>4, <2>3 DEF ActionSlot, Slot
    <3>. QED BY <1>4, <2>3, <3>1
  <2>. QED BY <2>1, <2>2, <2>3
<1>. HIDE DEF mine, yours, facts, goal
<1>14. /\ live'["action"] = mine /\ bag'["action"] = yours
       /\ \A u \in Topics \ {"action"} : live'[u] = live[u] /\ bag'[u] = bag[u]
       /\ live' = [u \in Topics |-> live'[u]] /\ bag' = [u \in Topics |-> bag'[u]]
  BY <1>1, <1>10, <1>11, Zenon
<1>15. LinksTypeOK' /\ last'["action"] = m /\ \A u \in Topics \ {"action"} : last'[u] = last[u]
  <2>1. node' \in Caches /\ worker' = node'
    BY <1>2, <1>3, <1>9
  <2>. QED BY <1>1, <1>2, <1>3, <1>9, <1>14, <2>1, Observed
<1>16. PlainHeld'
  BY <1>1, <1>14, <1>15, TopicNames DEF LinksInv, PlainHeld
<1>17. PathsHeld'
  BY <1>1, <1>14, <1>15, TopicNames DEF LinksInv, PathsHeld, Plain
<1>18. TellsAction(live'["action"], last'["action"]) /\ TellsAction(bag'["action"], last'["action"])
       /\ live'["action"].fields = bag'["action"].fields
       /\ AlikeAll(live'["action"].items.recent_terminal, bag'["action"].items.recent_terminal)
  BY <1>12, <1>13, <1>14, <1>15
<1>19. ActionHeld'
  BY <1>18 DEF ActionHeld
<1>20. TargetsHeld'
  BY <1>1, <1>14, <1>15, TopicNames DEF LinksInv, TargetsHeld
<1>. QED BY <1>15, <1>16, <1>17, <1>19, <1>20 DEF LinksInv
-----------------------------------------------------------------------------
(* Sets of targets, hidden facts and every step.                           *)

LEMMA TargetsAlike ==
  ASSUME NEW m
  PROVE  DecodeFinalTargets(m) = FinalTargets(m)
<1>1. ASSUME NEW t
      PROVE  (IF t.class = 2 /\ t.boundary # "none" THEN t.boundary = "good" ELSE TRUE)
             = (t.class = 2 => t.boundary \in {"none", "good"})
  OBVIOUS
<1>. QED BY <1>1 DEF DecodeFinalTargets, FinalTargets

LEMMA TargetsRead ==
  ASSUME TargetsDecode, NEW m \in Messages("targets")
  PROVE  DecodesTargets(m)
<1>1. m.said \in Said("targets")
  BY MessageIs
<1>2. PICK set \in TargetSets : m.said.targets = set.targets /\ m.said.odom = set.odom
  BY <1>1 DEF Said
<1>3. DecodesTargets([said |-> set])
  BY DEF TargetsDecode
<1>. QED BY <1>2, <1>3 DEF DecodesTargets

LEMMA TargetsStep ==
  ASSUME LinksInv, NEW m \in Messages("targets"),
         Count, Observe(m), UNCHANGED <<node, opens, worker>>,
         live' = With(live, m, FinalTargets(m)),
         bag' = IF opens /\ DecodesTargets(m) THEN With(bag, m, DecodeFinalTargets(m)) ELSE bag
  PROVE  LinksInv'
<1>1. /\ "targets" \in Topics /\ "targets" \notin Plain /\ "targets" \notin Paths
      /\ "targets" # "action" /\ "targets" # "command" /\ m.topic = "targets" /\ m # Absent
  BY MessageIs, TopicNames
<1>2. LinksTypeOK /\ opens = TRUE /\ worker = node /\ node \in Caches
      /\ live = [u \in Topics |-> live[u]] /\ bag = [u \in Topics |-> bag[u]]
  BY DEF LinksInv, LinksTypeOK
<1>3. live' = [live EXCEPT !["targets"] = FinalTargets(m)]
      /\ bag' = IF DecodesTargets(m) THEN [bag EXCEPT !["targets"] = DecodeFinalTargets(m)] ELSE bag
  BY <1>1, <1>2 DEF With
<1>4. /\ live'["targets"] = FinalTargets(m)
      /\ DecodesTargets(m) => bag'["targets"] = DecodeFinalTargets(m)
      /\ \A u \in Topics \ {"targets"} : live'[u] = live[u] /\ bag'[u] = bag[u]
      /\ live' = [u \in Topics |-> live'[u]] /\ bag' = [u \in Topics |-> bag'[u]]
  <2>1. CASE DecodesTargets(m)
    BY <1>1, <1>2, <1>3, <2>1, Zenon
  <2>2. CASE ~DecodesTargets(m)
    BY <1>1, <1>2, <1>3, <2>2, Zenon
  <2>. QED BY <2>1, <2>2
<1>5. LinksTypeOK' /\ last'["targets"] = m /\ \A u \in Topics \ {"targets"} : last'[u] = last[u]
  <2>1. node' \in Caches /\ worker' = node' /\ opens' = TRUE
    BY <1>2
  <2>. QED BY <1>1, <1>2, <1>4, <2>1, Observed
<1>6. PlainHeld'
  BY <1>1, <1>4, <1>5, TopicNames DEF LinksInv, PlainHeld
<1>7. PathsHeld'
  BY <1>1, <1>4, <1>5, TopicNames DEF LinksInv, PathsHeld, Plain
<1>8. ActionHeld'
  BY <1>1, <1>4, <1>5, TopicNames DEF LinksInv, ActionHeld
<1>9. TargetsHeld'
  BY <1>4, <1>5, TargetsAlike DEF TargetsHeld
<1>. QED BY <1>5, <1>6, <1>7, <1>8, <1>9 DEF LinksInv

\* A hidden fact reaches the caches and the action of its UUID on both links.
LEMMA HiddenStep == TablesAligned /\ LinksInv /\ OnHidden => LinksInv'
<1>. SUFFICES ASSUME TablesAligned, LinksInv, OnHidden PROVE LinksInv'
  OBVIOUS
<1>1. PICK u \in Uuids, fact \in DOMAIN NoFacts :
        /\ Count /\ UNCHANGED <<opens, last>>
        /\ node' = [node EXCEPT ![u] = [@ EXCEPT ![fact] = n + 1]]
        /\ live' = [live EXCEPT !["action"] = WithFact(@, u, fact)]
        /\ IF opens THEN /\ worker' = [worker EXCEPT ![u] = [@ EXCEPT ![fact] = n + 1]]
                         /\ bag' = [bag EXCEPT !["action"] = WithFact(@, u, fact)]
           ELSE UNCHANGED <<worker, bag>>
  BY DEF OnHidden
<1>. DEFINE here == live["action"]
            there == bag["action"]
<1>2. /\ fact \in FactNames
      /\ "action" \in Topics /\ "action" \notin Plain /\ "action" \notin Paths
      /\ "action" # "targets" /\ "action" # "command"
  BY TopicNames DEF NoFacts, FactNames
<1>3. /\ LinksTypeOK /\ opens = TRUE /\ worker = node /\ node \in Caches /\ n + 1 \in Nat
      /\ live = [t \in Topics |-> live[t]] /\ bag = [t \in Topics |-> bag[t]]
  BY DEF LinksInv, LinksTypeOK
<1>4. node' \in Caches /\ worker' = node' /\ n' \in Nat /\ opens' = TRUE /\ last' = last
  BY <1>1, <1>2, <1>3 DEF Caches, Count
<1>5. /\ live'["action"] = WithFact(here, u, fact) /\ bag'["action"] = WithFact(there, u, fact)
      /\ \A t \in Topics \ {"action"} : live'[t] = live[t] /\ bag'[t] = bag[t]
      /\ live' = [t \in Topics |-> live'[t]] /\ bag' = [t \in Topics |-> bag'[t]]
  BY <1>1, <1>2, <1>3
<1>6. last["action"] = Absent => here = Absent /\ there = Absent
  BY <1>2, <1>3 DEF LinksTypeOK
<1>7. LinksTypeOK'
  <2>1. \A t \in Topics : last'[t] = Absent => live'[t] = Absent /\ bag'[t] = Absent
    BY <1>3, <1>4, <1>5, <1>6 DEF LinksTypeOK, WithFact
  <2>. QED BY <1>3, <1>4, <1>5, <2>1 DEF LinksTypeOK
<1>8. ASSUME NEW slot, NEW m, TellsAction(slot, m)
      PROVE  LET next == WithFact(slot, u, fact) IN
             /\ TellsAction(next, m) /\ next.items.recent_terminal = slot.items.recent_terminal
             /\ next.fields = IF SameGoal(u, slot.fields.goal_uuid[2])
                              THEN [slot.fields EXCEPT ![fact] = <<fact, n + 1>>] ELSE slot.fields
  <2>. DEFINE next == WithFact(slot, u, fact)
              told == [slot.fields EXCEPT ![fact] = <<fact, n + 1>>]
  <2>1. slot = Slot(Received(m), slot.fields, [recent_terminal |-> slot.items.recent_terminal])
        /\ slot # Absent
    BY <1>8, SlotIs DEF TellsAction
  <2>2. CASE ~SameGoal(u, slot.fields.goal_uuid[2])
    BY <1>8, <2>2 DEF WithFact
  <2>3. CASE SameGoal(u, slot.fields.goal_uuid[2])
    <3>1. next = [slot EXCEPT !.fields = told]
      BY <2>1, <2>3 DEF WithFact
    <3>2. next = Slot(Received(m), told, [recent_terminal |-> slot.items.recent_terminal])
      BY <2>1, <3>1 DEF Slot
    <3>3. next.fields = told
          /\ next.items.recent_terminal = slot.items.recent_terminal
      BY <3>2 DEF Slot
    <3>4. /\ DOMAIN slot.fields = Copied.action \cup {"name", "buoyancy", "vertical"} \cup FactNames
          /\ slot.fields = [f \in DOMAIN slot.fields |-> slot.fields[f]]
          /\ \A f \in Copied.action : slot.fields[f] = Value(m, f)
          /\ \A f \in FactNames : slot.fields[f] = <<f, slot.fields[f][2]>> /\ slot.fields[f][2] \in Nat
      BY <1>8 DEF TellsAction
    <3>5. fact \notin Copied.action
      <4>1. "action" \in Topics \ {"targets"} /\ "Current" \in Layouts("action")
            /\ "action" \notin {"local", "global", "chassis"}
        BY TopicNames DEF Layouts
      <4>2. Copied["action"] \cap Derived = {}
        BY <4>1 DEF TablesAligned
      <4>. QED BY <1>1, <4>2 DEF Derived
    <3>6. /\ DOMAIN told = DOMAIN slot.fields /\ told = [f \in DOMAIN told |-> told[f]]
          /\ \A f \in Copied.action : told[f] = Value(m, f)
          /\ \A f \in FactNames : told[f] = <<f, told[f][2]>> /\ told[f][2] \in Nat
      BY <1>2, <1>3, <3>4, <3>5
    <3>. QED BY <2>3, <3>2, <3>3, <3>4, <3>6 DEF TellsAction
  <2>. QED BY <2>2, <2>3
<1>9. ActionHeld'
  <2>1. CASE last["action"] = Absent
    BY <1>4, <2>1 DEF ActionHeld
  <2>2. CASE last["action"] # Absent
    <3>1. TellsAction(here, last["action"]) /\ TellsAction(there, last["action"])
          /\ here.fields = there.fields
          /\ AlikeAll(here.items.recent_terminal, there.items.recent_terminal)
      BY <2>2 DEF LinksInv, ActionHeld
    <3>2. TellsAction(live'["action"], last'["action"]) /\ TellsAction(bag'["action"], last'["action"])
          /\ live'["action"].fields = bag'["action"].fields
          /\ AlikeAll(live'["action"].items.recent_terminal, bag'["action"].items.recent_terminal)
      <4>. DEFINE m == last["action"]
                  mine == WithFact(here, u, fact)
                  yours == WithFact(there, u, fact)
      <4>1. /\ TellsAction(mine, m) /\ mine.items.recent_terminal = here.items.recent_terminal
            /\ mine.fields = IF SameGoal(u, here.fields.goal_uuid[2])
                             THEN [here.fields EXCEPT ![fact] = <<fact, n + 1>>] ELSE here.fields
        BY <1>8, <3>1
      <4>2. /\ TellsAction(yours, m) /\ yours.items.recent_terminal = there.items.recent_terminal
            /\ yours.fields = IF SameGoal(u, there.fields.goal_uuid[2])
                              THEN [there.fields EXCEPT ![fact] = <<fact, n + 1>>] ELSE there.fields
        BY <1>8, <3>1
      <4>3. live'["action"] = mine /\ bag'["action"] = yours /\ last'["action"] = m
        BY <1>4, <1>5
      <4>. HIDE DEF mine, yours, m, here, there
      <4>4. TellsAction(live'["action"], m) /\ TellsAction(bag'["action"], m)
        BY <4>1, <4>2, <4>3
      <4>5. mine.fields = yours.fields
            /\ AlikeAll(mine.items.recent_terminal, yours.items.recent_terminal)
        BY <3>1, <4>1, <4>2
      <4>. QED BY <4>3, <4>4, <4>5
    <3>. QED BY <3>2 DEF ActionHeld
  <2>. QED BY <2>1, <2>2
<1>10. PlainHeld'
  BY <1>2, <1>4, <1>5, TopicNames DEF LinksInv, PlainHeld
<1>11. PathsHeld'
  BY <1>2, <1>4, <1>5, TopicNames DEF LinksInv, PathsHeld, Plain
<1>12. TargetsHeld'
  BY <1>2, <1>4, <1>5, TopicNames DEF LinksInv, TargetsHeld
<1>. QED BY <1>7, <1>9, <1>10, <1>11, <1>12 DEF LinksInv

LEMMA LinksStep == TablesAligned /\ LinksInv /\ [Next]_vars => LinksInv'
<1>. SUFFICES ASSUME TablesAligned, LinksInv, [Next]_vars PROVE LinksInv'
  OBVIOUS
<1>. DEFINE number == n + 1
<1>1. number \in Nat
  BY DEF LinksInv, LinksTypeOK
<1>2. ASSUME NEW topic \in Topics, NEW layout \in Layouts(topic), NEW said \in Said(topic)
      PROVE  Message(topic, layout, said) \in Messages(topic)
  BY <1>1 DEF Message, Messages
<1>3. \A topic \in Topics \ {"chassis"} : "Current" \in Layouts(topic)
  BY DEF Layouts
<1>4. CASE OnLocation
  <2>1. PICK m \in Messages("location") : Record(m, Converted(m))
    <3>1. <<>> \in Said("location") /\ "location" \in Topics \ {"chassis"}
      BY DEF Said, Topics
    <3>. QED BY <1>2, <1>3, <1>4, <3>1 DEF OnLocation
  <2>. QED BY <2>1, PlainStep DEF Plain
<1>5. CASE OnChassisCommand
  <2>1. PICK m \in Messages("command") : Record(m, Converted(m))
    <3>1. PICK mode \in Modes, navi \in NaviModes, code \in Buoyancies, layout \in Layouts("command") :
            LET m == Message("command", layout,
                             [mode |-> mode, navi_mode |-> navi, buoyancy_adjust |-> code])
            IN  Record(m, Converted(m))
      BY <1>5 DEF OnChassisCommand
    <3>2. [mode |-> mode, navi_mode |-> navi, buoyancy_adjust |-> code] \in Said("command")
          /\ "command" \in Topics
      BY DEF Said, Topics
    <3>. QED BY <1>2, <3>1, <3>2
  <2>. QED BY <2>1, CommandStep
<1>6. CASE OnChassisStates
  <2>1. PICK m \in Messages("chassis") : Record(m, Converted(m))
    <3>1. PICK code \in TankCodes, layout \in ChassisLayouts :
            LET m == Message("chassis", layout, [water_tank_status |-> code])
            IN  Record(m, Converted(m))
      BY <1>6 DEF OnChassisStates
    <3>2. [water_tank_status |-> code] \in Said("chassis") /\ "chassis" \in Topics
          /\ layout \in Layouts("chassis")
      BY DEF Said, Topics, Layouts
    <3>. QED BY <1>2, <3>1, <3>2
  <2>. QED BY <2>1, PlainStep DEF Plain
<1>7. CASE OnTask
  <2>1. PICK m \in Messages("task") : Record(m, Converted(m))
    <3>1. PICK code \in Buoyancies :
            LET m == Message("task", "Current", [buoyancy_adjust |-> code]) IN Record(m, Converted(m))
      BY <1>7 DEF OnTask
    <3>2. [buoyancy_adjust |-> code] \in Said("task") /\ "task" \in Topics \ {"chassis"}
      BY DEF Said, Topics
    <3>. QED BY <1>2, <1>3, <3>1, <3>2
  <2>. QED BY <2>1, PlainStep DEF Plain
<1>8. CASE OnPerception
  <2>1. PICK t \in {"range", "inspection"}, stamp \in Stamps :
          LET m == Message(t, "Current", [stamp |-> stamp]) IN Record(m, Converted(m))
    BY <1>8 DEF OnPerception
  <2>2. PICK m \in Messages(t) : Record(m, Converted(m))
    <3>1. [stamp |-> stamp] \in Said(t) /\ t \in Topics \ {"chassis"}
      <4>1. [stamp |-> stamp] \in Said("range") /\ [stamp |-> stamp] \in Said("inspection")
        BY DEF Said
      <4>. QED BY <4>1 DEF Topics
    <3>. QED BY <1>2, <1>3, <2>1, <3>1
  <2>. QED BY <2>2, PlainStep DEF Plain
<1>9. CASE OnAction
  <2>1. PICK m \in Messages("action") : Record(m, ActionState(m))
    <3>1. PICK owner \in 0..2, state \in {1, 3}, mode \in {1, 2},
               goal \in {0} \cup {2 * u : u \in Uuids} \cup {2 * u + 1 : u \in Uuids} :
            LET m == Message("action", "Current",
                             [owner |-> owner, state |-> state, chassis_mode |-> mode,
                              goal_uuid |-> goal, buoyancy_adjust |-> 0])
            IN  Record(m, ActionState(m))
      BY <1>9 DEF OnAction
    <3>2. goal \in Nat
      BY LinksAssumption
    <3>3. [owner |-> owner, state |-> state, chassis_mode |-> mode,
           goal_uuid |-> goal, buoyancy_adjust |-> 0] \in Said("action")
          /\ "action" \in Topics \ {"chassis"}
      BY <3>2 DEF Said, Topics
    <3>. QED BY <1>2, <1>3, <3>1, <3>3
  <2>. QED BY <2>1, ActionStep
<1>10. CASE OnPath
  <2>1. PICK t \in {"local", "global"}, stamp \in Stamps, count \in Lengths :
          LET m == Message(t, "Current", [stamp |-> stamp, count |-> count]) IN
          /\ Count /\ UNCHANGED node
          /\ IF Turning(live) THEN UNCHANGED <<live, last>>
             ELSE live' = With(live, m, Trajectory(m)) /\ Observe(m)
          /\ IF Turning(bag) THEN UNCHANGED <<bag, opens, worker>> ELSE Replay(m)
    BY <1>10 DEF OnPath
  <2>2. PICK m \in Messages(t) :
          /\ Count /\ UNCHANGED node
          /\ IF Turning(live) THEN UNCHANGED <<live, last>>
             ELSE live' = With(live, m, Trajectory(m)) /\ Observe(m)
          /\ IF Turning(bag) THEN UNCHANGED <<bag, opens, worker>> ELSE Replay(m)
    <3>1. [stamp |-> stamp, count |-> count] \in Said(t) /\ t \in Topics \ {"chassis"}
      <4>1. /\ [stamp |-> stamp, count |-> count] \in Said("local")
            /\ [stamp |-> stamp, count |-> count] \in Said("global")
        BY DEF Said
      <4>. QED BY <4>1 DEF Topics
    <3>. QED BY <1>2, <1>3, <2>1, <3>1
  <2>. QED BY <2>2, PathStep DEF Paths
<1>11. CASE OnFinalTargets
  <2>1. PICK m \in Messages("targets") :
          /\ Count /\ Observe(m) /\ UNCHANGED <<node, opens, worker>>
          /\ live' = With(live, m, FinalTargets(m))
          /\ bag' = IF opens /\ DecodesTargets(m) THEN With(bag, m, DecodeFinalTargets(m)) ELSE bag
    <3>1. PICK set \in TargetSets, stamp \in Stamps :
            LET m == Message("targets", "Current",
                             [targets |-> set.targets, odom |-> set.odom, stamp |-> stamp]) IN
            /\ Count /\ Observe(m) /\ UNCHANGED <<node, opens, worker>>
            /\ live' = With(live, m, FinalTargets(m))
            /\ bag' = IF opens /\ DecodesTargets(m) THEN With(bag, m, DecodeFinalTargets(m)) ELSE bag
      BY <1>11 DEF OnFinalTargets
    <3>2. [targets |-> set.targets, odom |-> set.odom, stamp |-> stamp] \in Said("targets")
          /\ "targets" \in Topics \ {"chassis"}
      BY DEF Said, Topics
    <3>. QED BY <1>2, <1>3, <3>1, <3>2
  <2>. QED BY <2>1, TargetsStep
<1>12. CASE OnHidden
  BY <1>12, HiddenStep
<1>13. CASE UNCHANGED vars
  BY <1>13 DEF vars, LinksInv, LinksTypeOK, PlainHeld, PathsHeld, ActionHeld, TargetsHeld
<1>. QED BY <1>4, <1>5, <1>6, <1>7, <1>8, <1>9, <1>10, <1>11, <1>12, <1>13 DEF Next

\* After any messages each link holds of every topic what the last message
\* said, with tables that TablesAligned describes (no constant decides them).
THEOREM LinksCorrect == Spec => []LinksInv
<1>. USE TablesAssumption
<1>1. LinksInv /\ [Next]_vars => LinksInv'
  BY LinksStep
<1>. QED BY <1>1, LinksStart, PTL DEF Spec
-----------------------------------------------------------------------------
(* What the runs check of the links.                                       *)

\* What is shown of a topic, where its last message is of the newest layout.
Agrees(t) ==
  (last[t] = Absent \/ last[t].layout = Newest(t)) =>
    Comparable(Shown(t, live[t])) = Comparable(Shown(t, bag[t]))

LEMMA ChassisShownOf ==
  ASSUME TablesAligned, LinksInv, last["chassis"] # Absent
  PROVE  LET m == last["chassis"] IN
         /\ m \in Messages("chassis") /\ live["chassis"] # Absent /\ bag["chassis"] # Absent
         /\ Shown("chassis", live["chassis"])
            = ChassisSlot(m, Motors(m, TailThrusters \o VerticalThrusters))
         /\ Shown("chassis", bag["chassis"]) = ChassisSlot(m, BagMotors(m))
<1>. DEFINE m == last["chassis"]
<1>1. "chassis" \in Plain /\ "chassis" \in Topics /\ "chassis" # "location"
  BY TopicNames DEF Plain
<1>2. m \in Messages("chassis") /\ live["chassis"] = Converted(m) /\ bag["chassis"] = BagSlot(m)
  BY <1>1 DEF LinksInv, LinksTypeOK, PlainHeld
<1>3. m.topic = "chassis"
  BY <1>2, MessageIs
<1>4. Converted(m) # Absent /\ BagSlot(m) # Absent
  BY <1>3, SlotIs DEF Converted, ChassisState, BagSlot, DecodeChassis
<1>5. ShownChassis(Converted(m)) = ChassisSlot(m, Motors(m, TailThrusters \o VerticalThrusters))
  BY <1>2, LiveChassis
<1>6. ShownChassis(BagSlot(m)) = ChassisSlot(m, BagMotors(m))
  BY <1>1, <1>2, BagChassis, BagPlain
<1>. QED BY <1>2, <1>4, <1>5, <1>6 DEF Shown

LEMMA PlainAgrees ==
  ASSUME TablesAligned, LinksInv, NEW t \in Plain \cup Paths
  PROVE  Agrees(t)
<1>1. t \in Topics /\ (t \in Paths => t \notin Plain)
  BY TopicNames
<1>2. CASE last[t] = Absent
  BY <1>1, <1>2 DEF LinksInv, LinksTypeOK, Agrees
<1>3. CASE t \in Paths
  BY <1>3 DEF LinksInv, PathsHeld, Agrees
<1>4. CASE t \in Plain /\ last[t] # Absent /\ last[t].layout = Newest(t)
  <2>. DEFINE m == last[t]
  <2>1. m \in Messages(t) /\ live[t] = Converted(m) /\ bag[t] = BagSlot(m)
    BY <1>1, <1>4 DEF LinksInv, LinksTypeOK, PlainHeld
  <2>2. m.topic = t
    BY <2>1, MessageIs
  <2>3. CASE t \notin {"command", "chassis"}
    BY <2>1, <2>2, <2>3 DEF BagSlot, Agrees
  <2>4. CASE t = "command"
    <3>1. m.layout = "Current"
      BY <1>4, <2>4 DEF Newest
    <3>2. Converted(m) = CommandSlot(m, LiveVertical(m)) /\ BagVertical(m) = LiveVertical(m)
      BY <2>1, <2>4, <3>1, CommandAgrees DEF BagVertical
    <3>. QED BY <2>1, <2>2, <2>4, <3>2 DEF BagSlot, Agrees
  <2>5. CASE t = "chassis"
    <3>1. HasVerticals(m.layout)
      BY <1>4, <2>5 DEF Newest, HasVerticals
    <3>2. Shown(t, live[t]) = Shown(t, bag[t])
      BY <1>4, <2>5, <3>1, ChassisShownOf DEF BagMotors
    <3>. QED BY <3>2 DEF Agrees
  <2>. QED BY <2>3, <2>4, <2>5
<1>. QED BY <1>2, <1>3, <1>4 DEF Agrees

LEMMA ActionAgrees ==
  ASSUME LinksInv
  PROVE  Agrees("action")
<1>1. CASE last["action"] = Absent
  BY <1>1, TopicNames DEF LinksInv, LinksTypeOK, Agrees
<1>2. CASE last["action"] # Absent
  <2>. DEFINE here == live["action"]
              there == bag["action"]
              ones == here.items.recent_terminal
              twos == there.items.recent_terminal
              time == Received(last["action"])
              shown(records) == [recent_terminal |-> [i \in DOMAIN records |-> ActionShown(records[i])]]
              told(records) == [i \in DOMAIN records |->
                [f \in DOMAIN ActionShown(records[i]) \ FactNames |-> ActionShown(records[i])[f]]]
  <2>1. /\ TellsAction(here, last["action"]) /\ TellsAction(there, last["action"])
        /\ here.fields = there.fields /\ AlikeAll(ones, twos)
    BY <1>2 DEF LinksInv, ActionHeld
  <2>2. here # Absent /\ there # Absent /\ here.time = time /\ there.time = time
    BY <2>1, SlotIs DEF TellsAction
  <2>3. /\ Shown("action", here) = Slot(time, ActionShown(here.fields), shown(ones))
        /\ Shown("action", there) = Slot(time, ActionShown(there.fields), shown(twos))
    BY <2>2 DEF Shown, ShownAction
  <2>4. told(ones) = told(twos)
    <3>1. DOMAIN ones = DOMAIN twos
      BY <2>1 DEF AlikeAll
    <3>2. ASSUME NEW i \in DOMAIN ones
          PROVE  [f \in DOMAIN ActionShown(ones[i]) \ FactNames |-> ActionShown(ones[i])[f]]
                 = [f \in DOMAIN ActionShown(twos[i]) \ FactNames |-> ActionShown(twos[i])[f]]
      <4>1. Alike(ones[i], twos[i])
        BY <2>1 DEF AlikeAll
      <4>2. "buoyancy" \notin FactNames
        BY DEF FactNames
      <4>. QED BY <4>1, <4>2 DEF Alike, ActionShown
    <3>. QED BY <3>1, <3>2
  <2>5. ASSUME NEW fields, NEW records
        PROVE  Comparable(Slot(time, fields, shown(records)))
               = Slot(time, fields, [recent_terminal |-> told(records)])
    <3>. DEFINE slot == Slot(time, fields, shown(records))
    <3>1. slot # Absent /\ slot.items = shown(records)
      BY SlotIs
    <3>2. DOMAIN NoFacts = FactNames
      BY DEF NoFacts, FactNames
    <3>3. shown(records).recent_terminal = [i \in DOMAIN records |-> ActionShown(records[i])]
      OBVIOUS
    <3>4. told(records) =
            [i \in DOMAIN shown(records).recent_terminal |->
               [f \in DOMAIN shown(records).recent_terminal[i] \ FactNames |->
                  shown(records).recent_terminal[i][f]]]
      BY <3>3
    <3>. QED BY <3>1, <3>2, <3>4 DEF Comparable, Slot
  <2>6. Comparable(Slot(time, ActionShown(here.fields), shown(ones)))
        = Slot(time, ActionShown(here.fields), [recent_terminal |-> told(ones)])
    BY <2>5
  <2>7. Comparable(Slot(time, ActionShown(there.fields), shown(twos)))
        = Slot(time, ActionShown(there.fields), [recent_terminal |-> told(twos)])
    BY <2>5
  <2>. HIDE DEF shown, told
  <2>8. Comparable(Shown("action", here)) = Comparable(Shown("action", there))
    BY <2>1, <2>3, <2>4, <2>6, <2>7
  <2>. QED BY <2>8 DEF Agrees
<1>. QED BY <1>1, <1>2

LEMMA TargetsAgreeIf ==
  ASSUME LinksInv, last["targets"] = Absent \/ DecodesTargets(last["targets"])
  PROVE  live["targets"] = bag["targets"]
BY TopicNames DEF LinksInv, LinksTypeOK, TargetsHeld

\* Whatever messages came, and however many, both links show every topic but
\* the targets alike (RobotWsProtoConverter, RobotWsCdrDecoder).
THEOREM AgreeButTargets == Spec => [](\A t \in Topics \ {"targets"} : Agrees(t))
<1>. USE TablesAssumption
<1>1. LinksInv => \A t \in Topics \ {"targets"} : Agrees(t)
  BY PlainAgrees, ActionAgrees DEF Topics, Plain, Paths
<1>2. Spec => []LinksInv
  BY LinksCorrect
<1>. QED BY <1>1, <1>2, PTL

\* A set of targets is shown alike if the decoder reads it to its end, whatever
\* sets were skipped before: no set is mixed with an older one.
THEOREM TargetsWhole ==
  Spec => []((last["targets"] = Absent \/ DecodesTargets(last["targets"])) => TargetsAgree)
<1>1. LinksInv => ((last["targets"] = Absent \/ DecodesTargets(last["targets"])) => TargetsAgree)
  BY TargetsAgreeIf DEF TargetsAgree
<1>2. Spec => []LinksInv
  BY LinksCorrect
<1>. QED BY <1>1, <1>2, PTL

\* Both links show every topic alike, where no bytes follow a target that
\* rejects its set: run links_targets shows what the links do otherwise.
THEOREM LinksAgree == TargetsDecode => (Spec => []BothLinksAgree)
<1>. USE TablesAssumption
<1>. SUFFICES ASSUME TargetsDecode PROVE Spec => []BothLinksAgree
  OBVIOUS
<1>1. LinksInv => BothLinksAgree
  <2>1. ASSUME LinksInv PROVE Agrees("targets")
    <3>1. last["targets"] \in Messages("targets") \cup {Absent}
      BY <2>1, TopicNames DEF LinksInv, LinksTypeOK
    <3>2. live["targets"] = bag["targets"]
      BY <2>1, <3>1, TargetsRead, TargetsAgreeIf
    <3>. QED BY <3>2 DEF Agrees
  <2>2. ASSUME LinksInv, NEW t \in Topics PROVE Agrees(t)
    BY <2>1, <2>2, PlainAgrees, ActionAgrees DEF Topics, Plain, Paths
  <2>. QED BY <2>2 DEF BothLinksAgree, Agrees
<1>2. Spec => []LinksInv
  BY LinksCorrect
<1>. QED BY <1>1, <1>2, PTL

\* Of a command the vertical control shows, and only it, which one was told.
LEMMA CommandVertical ==
  ASSUME TablesAligned, NEW m \in Messages("command"), NEW one, NEW two
  PROVE  ShownCommand(CommandSlot(m, two)) =
           [ShownCommand(CommandSlot(m, one)) EXCEPT !.fields = [@ EXCEPT !.vertical = two]]
<1>. DEFINE copied == Copy(m, Copied.command)
            kinds(v) == CommandKinds(m.said.mode, BuoyancyCommand(m.said.buoyancy_adjust), v)
            all(v) == copied ++ kinds(v)
            shown(v) == [Without(CommandSlot(m, v), {"maneuver"}) EXCEPT !.buoyancy = BuoyancyShown(@)]
<1>1. DOMAIN copied \cap Derived = {}
  <2>1. m.layout \in Layouts("command") /\ "command" \in Topics \ {"targets"}
        /\ "command" \notin {"local", "global", "chassis"}
    BY MessageIs, TopicNames DEF Plain
  <2>2. Copied["command"] \cap Derived = {}
    BY <2>1 DEF TablesAligned
  <2>. QED BY <2>2 DEF Copy
<1>2. ASSUME NEW v
      PROVE  /\ DOMAIN kinds(v) = {"platform", "maneuver", "buoyancy", "vertical"}
             /\ kinds(v)["vertical"] = v
             /\ \A f \in DOMAIN kinds(v) \ {"vertical"} : kinds(v)[f] = kinds(one)[f]
  BY DEF CommandKinds
<1>3. {"platform", "maneuver", "buoyancy", "vertical"} \subseteq Derived
  BY DEF Derived
<1>. HIDE DEF copied, kinds
<1>4. ASSUME NEW v
      PROVE  /\ DOMAIN all(v) = DOMAIN copied \cup {"platform", "maneuver", "buoyancy", "vertical"}
             /\ all(v)["vertical"] = v
             /\ \A f \in DOMAIN all(v) \ {"vertical"} : all(v)[f] = all(one)[f]
  <2>1. DOMAIN kinds(v) = DOMAIN kinds(one)
    BY <1>2
  <2>. QED BY <1>1, <1>2, <1>3, <2>1 DEF ++
<1>5. ASSUME NEW v PROVE CommandSlot(m, v).fields = all(v)
  BY DEF CommandSlot, Slot, copied, kinds
<1>. HIDE DEF all
<1>6. ASSUME NEW v
      PROVE  /\ DOMAIN shown(v) = DOMAIN all(one) \ {"maneuver"}
             /\ shown(v)["vertical"] = v
             /\ shown(v) = [f \in DOMAIN shown(v) |-> shown(v)[f]]
             /\ \A f \in DOMAIN shown(v) \ {"vertical"} : shown(v)[f] = shown(one)[f]
  <2>1. DOMAIN all(v) = DOMAIN all(one) /\ "vertical" \in DOMAIN all(v)
    BY <1>4
  <2>. QED BY <1>4, <1>5, <2>1 DEF Without, KeptFields
<1>7. "vertical" \in DOMAIN shown(one)
  BY <1>4, <1>6
<1>8. ASSUME NEW v PROVE ShownCommand(CommandSlot(m, v)) = Slot(Received(m), shown(v), NoItems)
  BY SlotIs DEF ShownCommand, CommandSlot
<1>. HIDE DEF shown
<1>9. shown(two) = [shown(one) EXCEPT !.vertical = two]
  BY <1>6, <1>7
<1>. QED BY <1>8, <1>9 DEF Slot

\* The motors of an older layout are the first of the current one.
ShortOf(slot, count) ==
  [slot EXCEPT !.items = [slot.items EXCEPT !.motors = SubSeq(slot.items.motors, 1, count)]]

LEMMA ChassisMotors ==
  ASSUME NEW m, ~HasVerticals(m.layout)
  PROVE  ChassisSlot(m, BagMotors(m)) =
           ShortOf(ChassisSlot(m, Motors(m, TailThrusters \o VerticalThrusters)),
                   IF HasTails(m.layout) THEN 2 ELSE 0)
<1>. DEFINE motors == Motors(m, TailThrusters \o VerticalThrusters)
            count == IF HasTails(m.layout) THEN 2 ELSE 0
            short == SubSeq(motors, 1, count)
            warnings == Listed(m, "warning", 12)
            powers == Listed(m, "power", 16)
            shown == Without(ChassisState(m), HeadingDiagnostics)
            time == Received(m)
            items(ms) == [motors |-> ms, warning_code |-> warnings, power_channel |-> powers]
<1>1. BagMotors(m) = short
  <2>1. CASE HasTails(m.layout)
    <3>1. SubSeq(motors, 1, 2) = Motors(m, TailThrusters)
      BY ThrusterLists DEF Motors
    <3>. QED BY <2>1, <3>1 DEF BagMotors
  <2>2. CASE ~HasTails(m.layout)
    <3>1. SubSeq(motors, 1, 0) = <<>>
      BY ThrusterLists DEF Motors
    <3>. QED BY <2>2, <3>1 DEF BagMotors
  <2>. QED BY <2>1, <2>2
<1>2. ASSUME NEW ms PROVE ChassisSlot(m, ms) = [time |-> time, fields |-> shown, items |-> items(ms)]
  BY DEF ChassisSlot, Slot
<1>. HIDE DEF motors, count, warnings, powers, shown, time
<1>3. items(motors).motors = motors
  OBVIOUS
<1>4. ASSUME NEW new PROVE [items(motors) EXCEPT !.motors = new] = items(new)
  OBVIOUS
<1>. HIDE DEF items
<1>5. ASSUME NEW was, NEW new
      PROVE  /\ [time |-> time, fields |-> shown, items |-> was].items = was
             /\ [[time |-> time, fields |-> shown, items |-> was] EXCEPT !.items = new]
                = [time |-> time, fields |-> shown, items |-> new]
  OBVIOUS
<1>6. ShortOf(ChassisSlot(m, motors), count)
      = [time |-> time, fields |-> shown, items |-> items(short)]
  <2>. DEFINE slot == ChassisSlot(m, motors)
  <2>1. /\ slot.items = items(motors)
        /\ \A new : [slot EXCEPT !.items = new] = [time |-> time, fields |-> shown, items |-> new]
    BY <1>2, <1>5
  <2>2. [items(motors) EXCEPT !.motors = short] = items(short) /\ short = SubSeq(slot.items.motors, 1, count)
    BY <1>3, <1>4, <2>1
  <2>. HIDE DEF slot, short
  <2>3. ShortOf(slot, count) = [slot EXCEPT !.items = [slot.items EXCEPT !.motors = short]]
    BY <2>2 DEF ShortOf
  <2>. QED BY <2>1, <2>2, <2>3 DEF slot
<1>. HIDE DEF short
<1>. QED BY <1>1, <1>2, <1>6 DEF motors, count

\* A bag of an older layout opens and shows what it has, nothing shifted.
THEOREM OldBagsCorrect == Spec => []OldBagsAligned
<1>. USE TablesAssumption
<1>1. LinksInv => OldBagsAligned
  <2>. SUFFICES ASSUME LinksInv PROVE OldBagsAligned
    OBVIOUS
  <2>1. opens
    BY DEF LinksInv, LinksTypeOK
  <2>2. ASSUME last["command"] # Absent, last["command"].layout # Newest("command")
        PROVE  Shown("command", bag["command"]) =
                 [Shown("command", live["command"]) EXCEPT !.fields =
                   [@ EXCEPT !.vertical = VerticalControlMode(last["command"].said.navi_mode)]]
    <3>. DEFINE m == last["command"]
    <3>1. m \in Messages("command") /\ live["command"] = Converted(m) /\ bag["command"] = BagSlot(m)
      BY <2>2, TopicNames DEF LinksInv, LinksTypeOK, PlainHeld, Plain
    <3>2. m.layout # "Current" /\ m.topic = "command"
      BY <2>2, <3>1, MessageIs DEF Newest
    <3>3. BagVertical(m) = VerticalControlMode(m.said.navi_mode)
      BY <3>2 DEF BagVertical
    <3>4. live["command"] = CommandSlot(m, LiveVertical(m))
          /\ bag["command"] = CommandSlot(m, VerticalControlMode(m.said.navi_mode))
      BY <3>1, <3>2, <3>3, CommandAgrees DEF BagSlot
    <3>5. live["command"] # Absent /\ bag["command"] # Absent
      BY <3>1, <3>4, TurnTold
    <3>6. Shown("command", live["command"]) = ShownCommand(live["command"])
          /\ Shown("command", bag["command"]) = ShownCommand(bag["command"])
      BY <3>5 DEF Shown
    <3>. HIDE DEF m
    <3>7. ShownCommand(CommandSlot(m, VerticalControlMode(m.said.navi_mode))) =
            [ShownCommand(CommandSlot(m, LiveVertical(m))) EXCEPT !.fields =
               [@ EXCEPT !.vertical = VerticalControlMode(m.said.navi_mode)]]
      BY <3>1, CommandVertical
    <3>. QED BY <3>4, <3>6, <3>7 DEF m
  <2>3. ASSUME last["chassis"] # Absent, last["chassis"].layout # Newest("chassis")
        PROVE  Shown("chassis", bag["chassis"]) =
                 ShortOf(Shown("chassis", live["chassis"]),
                         IF HasTails(last["chassis"].layout) THEN 2 ELSE 0)
    <3>1. ~HasVerticals(last["chassis"].layout)
      BY <2>3 DEF HasVerticals, Newest
    <3>2. /\ Shown("chassis", live["chassis"])
             = ChassisSlot(last["chassis"], Motors(last["chassis"], TailThrusters \o VerticalThrusters))
          /\ Shown("chassis", bag["chassis"]) = ChassisSlot(last["chassis"], BagMotors(last["chassis"]))
      BY <2>3, ChassisShownOf
    <3>. QED BY <3>1, <3>2, ChassisMotors
  <2>. QED BY <2>1, <2>2, <2>3 DEF OldBagsAligned, ShortOf
<1>2. Spec => []LinksInv
  BY LinksCorrect
<1>. QED BY <1>1, <1>2, PTL

\* The fields of a message, and what is derived from it.
TellsFields(slot, m) ==
  \A f \in DOMAIN slot.fields \cap Names(Declared(m.topic, m.layout)) : slot.fields[f] = Value(m, f)

LEMMA FieldsApart ==
  ASSUME TablesAligned, NEW t \in Topics \ {"targets"}, NEW m \in Messages(t), NEW names, NEW kinds,
         DOMAIN kinds \subseteq Derived
  PROVE  \A time, items : TellsFields(Slot(time, Copy(m, names) ++ kinds, items), m)
<1>. DEFINE copied == Copy(m, names)
            known == Names(Declared(m.topic, m.layout))
<1>1. known \cap Derived = {}
  BY MessageIs, ReadTrue
<1>2. \A f \in DOMAIN copied : copied[f] = Value(m, f)
  BY DEF Copy
<1>. HIDE DEF copied, known
<1>3. ASSUME NEW f \in DOMAIN (copied ++ kinds) \cap known
      PROVE  (copied ++ kinds)[f] = Value(m, f)
  BY <1>1, <1>2 DEF ++
<1>. QED BY <1>3, SlotIs DEF TellsFields, copied, known

LEMMA ConvertedTells ==
  ASSUME TablesAligned, NEW t \in Plain, NEW m \in Messages(t)
  PROVE  TellsFields(Converted(m), m)
<1>1. m.topic = t /\ t \in Topics \ {"targets"}
  BY MessageIs, TopicNames
<1>2. CASE t \in {"location", "range", "inspection"}
  <2>1. \E names, time : Converted(m) = Slot(time, Copy(m, names), NoItems)
    BY <1>1, <1>2 DEF Converted, VehicleState, PerceptionRequest
  <2>. QED BY <2>1, SlotIs DEF TellsFields, Copy
<1>3. CASE t = "command"
  <2>1. \A v : DOMAIN CommandKinds(m.said.mode, BuoyancyCommand(m.said.buoyancy_adjust), v)
                 \subseteq Derived
    BY DEF CommandKinds, Derived
  <2>. QED BY <1>1, <1>3, <2>1, FieldsApart DEF Converted, ControlCommand
<1>4. CASE t = "chassis"
  <2>1. DOMAIN [tank |-> WaterTankState(m.said.water_tank_status)] \subseteq Derived
    BY DEF Derived
  <2>. QED BY <1>1, <1>4, <2>1, FieldsApart DEF Converted, ChassisState
<1>5. CASE t = "task"
  <2>1. DOMAIN [buoyancy |-> BuoyancyCommand(m.said.buoyancy_adjust)] \subseteq Derived
    BY DEF Derived
  <2>. QED BY <1>1, <1>5, <2>1, FieldsApart DEF Converted, TaskState
<1>. QED BY <1>2, <1>3, <1>4, <1>5 DEF Plain

LEMMA BagTells ==
  ASSUME TablesAligned, NEW t \in Plain, NEW m \in Messages(t)
  PROVE  TellsFields(BagSlot(m), m)
<1>1. m.topic = t /\ t \in Topics \ {"targets"} /\ m.layout \in Layouts(t)
  BY MessageIs, TopicNames
<1>2. CASE t = "command"
  <2>1. \A v : DOMAIN CommandKinds(m.said.mode, BuoyancyCommand(m.said.buoyancy_adjust), v)
                 \subseteq Derived
    BY DEF CommandKinds, Derived
  <2>. QED BY <1>1, <1>2, <2>1, FieldsApart DEF BagSlot, CommandSlot
<1>3. CASE t = "chassis"
  <2>. DEFINE d == Decoding["chassis"][m.layout]
              tank == [tank |-> TankState(Got(m, d, "water_tank_status")[2])]
  <2>1. DOMAIN tank \subseteq Derived
    BY DEF Derived
  <2>2. \A f \in DOMAIN d.from : Got(m, d, f) = Value(m, f)
    BY <1>1, <1>3, ReadTrue
  <2>3. Decoded(m, d, Consumed.chassis) = Copy(m, DOMAIN d.from \ Consumed.chassis)
    BY <2>2 DEF Decoded, Copy
  <2>. HIDE DEF d, tank
  <2>4. \E items : DecodeChassis(m, d) =
          Slot(Received(m), Decoded(m, d, Consumed.chassis) ++ tank, items)
    BY DEF DecodeChassis, tank
  <2>5. TellsFields(DecodeChassis(m, d), m)
    BY <1>1, <2>1, <2>3, <2>4, FieldsApart
  <2>. QED BY <1>1, <1>3, <2>5 DEF BagSlot, d
<1>4. CASE t \notin {"command", "chassis"}
  BY <1>1, <1>4, ConvertedTells DEF BagSlot
<1>. QED BY <1>2, <1>3, <1>4

LEMMA ActionFieldsTold ==
  ASSUME TablesAligned, NEW m \in Messages("action"), NEW slot, TellsAction(slot, m)
  PROVE  TellsFields(slot, m)
<1>1. m.topic = "action" /\ m.layout \in Layouts("action") /\ "action" \in Topics \ {"targets"}
  BY MessageIs, TopicNames
<1>2. Names(Declared("action", m.layout)) \cap Derived = {}
  BY <1>1, ReadTrue
<1>3. {"name", "buoyancy", "vertical"} \cup FactNames \subseteq Derived
  BY DEF Derived, NoFacts, FactNames
<1>. QED BY <1>1, <1>2, <1>3 DEF TellsAction, TellsFields

\* Whatever came before, either link's slot holds its topic's newest message,
\* every field under its own name, and no path outlives a turn.
THEOREM FieldsCorrect == Spec => []FieldsOfLastMessage
<1>. USE TablesAssumption
<1>1. LinksInv => FieldsOfLastMessage
  <2>. SUFFICES ASSUME LinksInv, NEW t \in Topics, NEW slot \in {live[t], bag[t]}, slot # Absent
                PROVE  /\ last[t] # Absent
                       /\ t \notin {"local", "global", "targets"} =>
                            \A f \in DOMAIN slot.fields \cap Names(Declared(t, last[t].layout)) :
                              slot.fields[f] = Value(last[t], f)
                       /\ t \in {"local", "global"} =>
                            /\ Len(slot.items.point) = last[t].said.count
                            /\ last.command # Absent => last.command.said.mode \notin {10, 11}
    BY DEF FieldsOfLastMessage
  <2>1. last[t] # Absent
    BY DEF LinksInv, LinksTypeOK
  <2>2. last[t] \in Messages(t) /\ last[t].topic = t
    BY <2>1, MessageIs DEF LinksInv, LinksTypeOK
  <2>3. CASE t \in Plain
    <3>1. live[t] = Converted(last[t]) /\ bag[t] = BagSlot(last[t])
      BY <2>1, <2>3 DEF LinksInv, PlainHeld
    <3>2. TellsFields(slot, last[t])
      BY <2>2, <2>3, <3>1, ConvertedTells, BagTells
    <3>. QED BY <2>1, <2>2, <2>3, <3>2, TopicNames DEF TellsFields
  <2>4. CASE t = "action"
    <3>1. TellsAction(slot, last[t])
      BY <2>1, <2>4 DEF LinksInv, ActionHeld
    <3>2. TellsFields(slot, last[t])
      BY <2>2, <2>4, <3>1, ActionFieldsTold
    <3>. QED BY <2>1, <2>2, <2>4, <3>2, TopicNames DEF TellsFields
  <2>5. CASE t \in Paths
    <3>1. slot = Trajectory(last[t]) /\ ~Turns(last["command"])
      BY <2>5 DEF LinksInv, PathsHeld
    <3>2. last[t].said.count \in Nat
      <4>1. (\A said \in Said("local") : said.count \in Lengths)
            /\ \A said \in Said("global") : said.count \in Lengths
        BY DEF Said
      <4>2. last[t].said \in Said(t)
        BY <2>2, MessageIs
      <4>. QED BY <2>5, <4>1, <4>2, LinksAssumption DEF Paths
    <3>. DEFINE points(m) ==
           [i \in 1..m.said.count |-> [f \in PointCopied(m.topic) |-> PointValue(m, f, i)]]
    <3>3. \A m : Trajectory(m) = Slot(Stamped(m.said.stamp, Received(m)),
                                      PathFields(m, points(m)), [point |-> points(m)])
      BY DEF Trajectory
    <3>4. slot.items.point = points(last[t])
      <4>1. slot = Slot(Stamped(last[t].said.stamp, Received(last[t])),
                        PathFields(last[t], points(last[t])), [point |-> points(last[t])])
        BY <3>1, <3>3
      <4>2. [point |-> points(last[t])].point = points(last[t])
        OBVIOUS
      <4>3. \A time, fields, items : Slot(time, fields, items).items = items
        BY SlotIs
      <4>. HIDE DEF points
      <4>. QED BY <4>1, <4>2, <4>3
    <3>5. Len(slot.items.point) = last[t].said.count
      BY <3>2, <3>4
    <3>6. last.command # Absent => last.command.said.mode \notin {10, 11}
      BY <3>1 DEF Turns, Maneuver
    <3>. QED BY <2>1, <2>5, <3>5, <3>6 DEF Paths
  <2>6. CASE t = "targets"
    BY <2>1, <2>6
  <2>. QED BY <2>3, <2>4, <2>5, <2>6 DEF Topics, Plain, Paths
<1>2. Spec => []LinksInv
  BY LinksCorrect
<1>. QED BY <1>1, <1>2, PTL
=============================================================================
