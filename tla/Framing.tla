------------------------------ MODULE Framing ------------------------------
(***************************************************************************)
(* Frame headers and payload blocks: how WebSocket::send turns a message   *)
(* into bytes (output_append_header of ClientSideWebSocket.cpp and         *)
(* ServerSideWebSocket.cpp, send_long_message_payload of WebSocket.cpp)    *)
(* and how read_message at the other end gets the message back.  Lengths   *)
(* have their real values; the bytes of a payload are all alike.           *)
(***************************************************************************)
EXTENDS Integers, Sequences

CONSTANTS
    SenderRoles,    \* which ends send: subset of {"client", "server"}
    Lengths,        \* the message lengths that are sent
    MaxMessages     \* bound: messages sent

kMaximumMessageLength == 128 * 1024 * 1024
kShortMessageLength == 128 * 1024
kPayloadBufferLength == 1024

Byte == 0 .. 255

ASSUME FramingAssumption ==
    /\ SenderRoles \subseteq {"client", "server"}
    /\ Lengths \subseteq Nat
    /\ MaxMessages \in Nat

-----------------------------------------------------------------------------
(* The length field of a header.                                           *)

\* (uint16_t) n, then htons: two bytes, most significant first.
Uint16Bytes(n) == <<(n \div 256) % 256, n % 256>>

\* htonll: eight bytes, most significant first.
Uint64Bytes(n) ==
    LET q1 == n \div 256   q2 == q1 \div 256   q3 == q2 \div 256
        q4 == q3 \div 256  q5 == q4 \div 256   q6 == q5 \div 256
        q7 == q6 \div 256
    IN <<q7 % 256, q6 % 256, q5 % 256, q4 % 256,
         q3 % 256, q2 % 256, q1 % 256, n % 256>>

\* data_length_126 and data_length_65536 of Frames.h are the thresholds.
LengthField(n) ==
    IF n < 126 THEN <<n>>
    ELSE IF n <= 65536 THEN <<126>> \o Uint16Bytes(n)
    ELSE <<127>> \o Uint64Bytes(n)

\* input_read_uint16 and input_read_uint64.
Uint16(b) == b[1] * 256 + b[2]

Uint64(b) ==
    ((((((b[1] * 256 + b[2]) * 256 + b[3]) * 256 + b[4]) * 256 + b[5]) * 256
        + b[6]) * 256 + b[7]) * 256 + b[8]

\* input_read_payload_length, given the whole field.
DecodedLength(field) ==
    IF field[1] < 126 THEN field[1]
    ELSE IF field[1] = 126 THEN Uint16(<<field[2], field[3]>>)
    ELSE Uint64(<<field[2], field[3], field[4], field[5],
                  field[6], field[7], field[8], field[9]>>)

\* The number of bytes of the field that follow the first.
ExtendedLength(first) ==
    IF first < 126 THEN 0 ELSE IF first = 126 THEN 2 ELSE 8

(***************************************************************************)
(* apply_mask starts over with mask[0] at every call, that is for every    *)
(* block of kPayloadBufferLength bytes: the mask byte for offset i.        *)
(***************************************************************************)
MaskIndex(i) == (i % kPayloadBufferLength) % 4

\* Mutant of BlockLength: a payload is handled in one block.
WholeLength(done, length) == length - done

\* The next block of a payload of which done bytes of length are handled.
BlockLength(done, length) ==
    IF done + kPayloadBufferLength > length THEN length - done
    ELSE kPayloadBufferLength

-----------------------------------------------------------------------------
(* The byte stream between the two ends, in runs of equal bytes.           *)

Run == [byte : Byte, count : Nat \ {0}]

RunOf(b) == [byte |-> b, count |-> 1]

PayloadByte == 97

\* 0x80 | opcode, for binary messages.
FirstByte == 130

Runs(bytes) == [i \in DOMAIN bytes |-> RunOf(bytes[i])]

Payload(n) == IF n = 0 THEN <<>> ELSE <<[byte |-> PayloadByte, count |-> n]>>

VARIABLES
    sender,     \* the end that sends; a client masks its frames
    stream,     \* the bytes written and not yet read
    sent,       \* the lengths of the messages for which send was accepted
    unsent,     \* bytes of the last message that are still to be written
    phase,      \* what read_message reads next: "header", "length", "mask"
                \* or "payload"; "error" after a RecvError
    need,       \* number of bytes of that to read
    field,      \* the length field as far as it was read
    done,       \* bytes of the payload that were read
    received    \* the lengths of the messages that were read

vars == <<sender, stream, sent, unsent, phase, need, field, done, received>>

TypeOK ==
    /\ sender \in SenderRoles
    /\ stream \in Seq(Run)
    /\ sent \in Seq(Lengths)
    /\ unsent \in Nat
    /\ phase \in {"header", "length", "mask", "payload", "error"}
    /\ need \in 0 .. kPayloadBufferLength
    /\ field \in Seq(Byte)
    /\ done \in Nat
    /\ received \in Seq(Nat)

Init ==
    /\ sender \in SenderRoles
    /\ stream = <<>> /\ sent = <<>> /\ unsent = 0
    /\ phase = "header" /\ need = 2 /\ field = <<>> /\ done = 0
    /\ received = <<>>

-----------------------------------------------------------------------------
(* send *)

MaskFlag == IF sender = "client" THEN 128 ELSE 0

MaskBytes == IF sender = "client" THEN <<0, 0, 0, 0>> ELSE <<>>

HeaderBytes(n) ==
    <<FirstByte, MaskFlag + LengthField(n)[1]>> \o Tail(LengthField(n)) \o MaskBytes

\* A short message is written in one piece, of a long one the header.
Send ==
    /\ unsent = 0
    /\ Len(sent) < MaxMessages
    /\ \E n \in Lengths :
          /\ n < kMaximumMessageLength
          /\ sent' = Append(sent, n)
          /\ LET header == Runs(HeaderBytes(n)) IN
             IF n < kShortMessageLength
             THEN /\ stream' = stream \o header \o Payload(n)
                  /\ unsent' = 0
             ELSE /\ stream' = stream \o header
                  /\ unsent' = n
    /\ UNCHANGED <<sender, phase, need, field, done, received>>

\* Mutant of SendBlock: the last block is always written in full.
SendFullBlock ==
    /\ unsent > 0
    /\ stream' = stream \o Payload(kPayloadBufferLength)
    /\ unsent' = IF unsent > kPayloadBufferLength THEN unsent - kPayloadBufferLength
                 ELSE 0
    /\ UNCHANGED <<sender, sent, phase, need, field, done, received>>

\* send_long_message_payload: one block.
SendBlock ==
    /\ unsent > 0
    /\ LET length == sent[Len(sent)]
           n == BlockLength(length - unsent, length)
       IN /\ stream' = stream \o Payload(n)
          /\ unsent' = unsent - n
    /\ UNCHANGED <<sender, sent, phase, need, field, done, received>>

-----------------------------------------------------------------------------
(* read_message *)

\* The first byte of the stream is read.
TakeByte ==
    stream' = IF Head(stream).count = 1 THEN Tail(stream)
              ELSE <<[Head(stream) EXCEPT !.count = @ - 1]>> \o Tail(stream)

\* The reader turns to the next part of the frame with field f read, and
\* skips the parts that are empty.
GoOn(f) ==
    IF Len(f) < 1 + ExtendedLength(f[1])
    THEN /\ phase' = "length"
         /\ need' = 1 + ExtendedLength(f[1]) - Len(f)
         /\ UNCHANGED received
    ELSE IF sender = "client" /\ phase # "mask"
    THEN phase' = "mask" /\ need' = 4 /\ UNCHANGED received
    ELSE IF DecodedLength(f) > 0
    THEN /\ phase' = "payload"
         /\ need' = BlockLength(0, DecodedLength(f))
         /\ UNCHANGED received
    ELSE phase' = "header" /\ need' = 2 /\ received' = Append(received, 0)

\* input_read_frame_header; input_assert_valid_message is done here too,
\* since its outcome does not depend on the bytes read in between.
ReadHeader ==
    /\ phase = "header" /\ stream # <<>>
    /\ TakeByte
    /\ LET b == Head(stream).byte IN
       IF need = 2
       THEN /\ phase' = IF b % 16 \in {0, 1, 2, 8, 9, 10} THEN "header" ELSE "error"
            /\ need' = 1
            /\ UNCHANGED <<field, received>>
       ELSE IF b \div 128 = MaskFlag \div 128
       THEN field' = <<b % 128>> /\ GoOn(<<b % 128>>)
       ELSE phase' = "error" /\ UNCHANGED <<need, field, received>>
    /\ done' = 0
    /\ UNCHANGED <<sender, sent, unsent>>

\* input_read_payload_length.
ReadLength ==
    /\ phase = "length" /\ stream # <<>>
    /\ TakeByte
    /\ field' = Append(field, Head(stream).byte)
    /\ IF need > 1
       THEN need' = need - 1 /\ UNCHANGED <<phase, received>>
       ELSE GoOn(Append(field, Head(stream).byte))
    /\ UNCHANGED <<sender, sent, unsent, done>>

\* input_read_payload_mask.
ReadMask ==
    /\ phase = "mask" /\ stream # <<>>
    /\ TakeByte
    /\ IF need > 1
       THEN need' = need - 1 /\ UNCHANGED <<phase, received>>
       ELSE GoOn(field)
    /\ UNCHANGED <<sender, sent, unsent, field, done>>

\* What recv() may return of the bytes asked for: those that are there or, at the
\* start of a block, only one (any other part is like it).
Received ==
    LET there == Head(stream).count IN
    {IF there < need THEN there ELSE need}
        \cup (IF done % kPayloadBufferLength = 0 THEN {1} ELSE {})

\* input_read_payload and BaseSocket::read: recv() until the block is complete.
ReadPayload ==
    /\ phase = "payload" /\ stream # <<>>
    /\ \E n \in Received :
       LET run == Head(stream)
           length == DecodedLength(field)
       IN /\ stream' = IF n = run.count THEN Tail(stream)
                       ELSE <<[run EXCEPT !.count = @ - n]>> \o Tail(stream)
          /\ done' = done + n
          /\ IF n < need
             THEN need' = need - n /\ UNCHANGED <<phase, received>>
             ELSE IF done + n < length
             THEN need' = BlockLength(done + n, length) /\ UNCHANGED <<phase, received>>
             ELSE /\ phase' = "header" /\ need' = 2
                  /\ received' = Append(received, length)
    /\ UNCHANGED <<sender, sent, unsent, field>>

Next == Send \/ SendBlock \/ ReadHeader \/ ReadLength \/ ReadMask \/ ReadPayload

Spec == Init /\ [][Next]_vars

-----------------------------------------------------------------------------
(***************************************************************************)
(* The receiver gets the messages with the lengths they were sent with and *)
(* stays aligned with the frames: a header is never looked for inside a    *)
(* payload, whatever lengths, short and long messages follow each other.   *)
(* The one length that breaks it is left out.                              *)
(***************************************************************************)
Aligned ==
    /\ phase # "error"
    /\ Len(received) <= Len(sent)
    /\ \A k \in 1 .. Len(received) : received[k] = sent[k]
    /\ stream = <<>> /\ unsent = 0 =>
          Len(received) = Len(sent) /\ phase = "header"

FramesAligned == (\A k \in 1 .. Len(sent) : sent[k] # 65536) => Aligned

(***************************************************************************)
(* As FramesAligned for every length that send accepts: the test           *)
(* read_message_of_size_65536 reads such a message, from a 127 header.     *)
(***************************************************************************)
AllFramesAligned == Aligned
=============================================================================
