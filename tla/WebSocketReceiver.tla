------------------------- MODULE WebSocketReceiver -------------------------
(***************************************************************************)
(* One librcom websocket that receives from a peer that is not librcom:    *)
(* WebSocket::recv (librcom/src/WebSocket.cpp) against everything RFC 6455 *)
(* lets a peer send (fragmented messages, pings, pongs, a Close with or    *)
(* without a code) and frames that break the protocol: those that break a  *)
(* rule recv enforces (Fault), and those that only break one that recv     *)
(* does not look at (Unchecked).                                           *)
(*                                                                         *)
(* The peer's frames form a stream; a frame is known by its position in    *)
(* it, and a message is the sequence of the positions its payload came     *)
(* from.  How closing interleaves with the other end's own closing is the  *)
(* subject of WebSocketConnection; here close_connection is one step.      *)
(***************************************************************************)
EXTENDS Integers, FiniteSets, SequencesExt

CONSTANTS
    Role,           \* "client" or "server": which end this websocket is
    MaxLength,      \* kMaximumPayloadLength = kMaximumMessageLength, scaled
    MaxControl,     \* the 125 bytes RFC 6455 lets a control frame have, scaled
    Frames,         \* the frames among which the peer chooses
    MaxFrames,      \* bound: frames the peer sends
    MaxFaults       \* bound: frames of the peer that break the protocol

ASSUME RoleAssumption == Role \in {"client", "server"}

ASSUME ReceiverBoundsAssumption ==
    /\ MaxLength \in Nat \ {0} /\ MaxControl \in Nat
    /\ MaxFrames \in Nat /\ MaxFaults \in Nat

\* The close codes of WebSocketConstants.h that recv and close use.
kCloseNormal == 1000
kCloseProtocolError == 1002
kCloseMissingCode == 1005
kCloseTooBig == 1009
kCloseInternalError == 1011

DataOps == {"text", "binary", "continuation"}
ControlOps == {"close", "ping", "pong"}

\* Whether this end must see masked frames: a server must, a client must not.
MaskExpected == Role = "server"

(***************************************************************************)
(* Any header and any payload length.  rsv: one of the reserved bits is    *)
(* set; code: the first two bytes of a Close's payload.                    *)
(***************************************************************************)
PeerFrame == [op : DataOps \cup ControlOps \cup {"reserved"}, fin : BOOLEAN,
              rsv : BOOLEAN, masked : BOOLEAN, len : Nat, code : Nat]

ASSUME FramesAssumption == Frames \subseteq PeerFrame

(***************************************************************************)
(* What RFC 6455 (5.2, 5.5) forbids in a frame and recv never looks at:    *)
(* input_read_frame_header drops the RSV bits, and a control frame may be  *)
(* a fragment, too long, or a Close with half a code.                      *)
(***************************************************************************)
Unchecked(f) ==
    \/ f.rsv
    \/ f.op \in ControlOps /\ (~ f.fin \/ f.len > MaxControl)
    \/ f.op = "close" /\ f.len = 1

VARIABLES
    stream,         \* all frames the peer has sent
    gone,           \* the peer has closed its end
    pos,            \* number of frames of the stream that were read
    sockfd,         \* "open" or "closed"
    pc,             \* "idle", "recv" or "wait_reply", as in WebSocketConnection
    message,        \* the MemBuffer recv fills
    isContinuation, \* is_continuation_
    isText,         \* is_text_
    written,        \* the frames written to the socket
    received,       \* the messages recv returned
    cutShort        \* a recv has timed out between two fragments

vars == <<stream, gone, pos, sockfd, pc, message, isContinuation, isText,
          written, received, cutShort>>

recvVars == <<message, isContinuation, isText, received>>
peerVars == <<stream, gone>>

Positions == 1 .. MaxFrames

Message == [type : {"text", "binary"}, parts : Seq(Positions)]

\* A frame that was written: value is the position of the ping, or the code.
Reply == [op : {"pong", "close"}, value : Nat]

TypeOK ==
    /\ stream \in Seq(Frames)
    /\ gone \in BOOLEAN
    /\ pos \in 0 .. Len(stream)
    /\ sockfd \in {"open", "closed"}
    /\ pc \in {"idle", "recv", "wait_reply"}
    /\ message \in Seq(Positions)
    /\ isContinuation \in BOOLEAN
    /\ isText \in BOOLEAN
    /\ written \in Seq(Reply)
    /\ received \in Seq(Message)
    /\ cutShort \in BOOLEAN

Init ==
    /\ stream = <<>> /\ gone = FALSE /\ pos = 0
    /\ sockfd = "open" /\ pc = "idle"
    /\ message = <<>> /\ isContinuation = FALSE /\ isText = FALSE
    /\ written = <<>> /\ received = <<>> /\ cutShort = FALSE

-----------------------------------------------------------------------------
(* The peer *)

\* Positions of the data frames among the first n frames.
Data(n) == {j \in 1 .. n : stream[j].op \in DataOps}

\* The fragments that come behind the last final one among the first n frames:
\* those of the message that is not finished there.
OpenParts(n) == {j \in Data(n) : \A k \in Data(n) : k >= j => ~ stream[k].fin}

InMessage(n) == OpenParts(n) # {}

LengthAt(positions) == SumFunction([j \in positions |-> stream[j].len])

(***************************************************************************)
(* The close code that the rules recv enforces call for when the i-th      *)
(* frame follows those before it; 0 when it breaks none of them: masks,    *)
(* opcodes, the length of a frame, fragments in order, the length of a     *)
(* message.  Independent of what the websocket keeps.                      *)
(***************************************************************************)
Fault(i) ==
    LET f == stream[i] IN
    IF f.masked # MaskExpected \/ f.op = "reserved" THEN kCloseProtocolError
    ELSE IF f.len > MaxLength THEN kCloseTooBig
    ELSE IF f.op \notin DataOps THEN 0
    ELSE IF (f.op = "continuation") # InMessage(i - 1) THEN kCloseProtocolError
    ELSE IF f.op = "continuation" /\ f.len + LengthAt(OpenParts(i - 1)) > MaxLength
         THEN kCloseTooBig ELSE 0

Faults(n) == {i \in 1 .. n : Fault(i) # 0}

\* The peer sends a frame; nothing after its Close, which ends the reading.
PeerSends ==
    /\ ~ gone
    /\ Len(stream) < MaxFrames
    /\ \A i \in DOMAIN stream : stream[i].op # "close"
    /\ \E f \in Frames :
          /\ stream' = Append(stream, f)
          /\ Cardinality({i \in DOMAIN stream' : Fault(i)' # 0 \/ Unchecked(stream'[i])})
                <= MaxFaults
    /\ UNCHANGED <<gone, pos, sockfd, pc, recvVars, written, cutShort>>

PeerGoes ==
    /\ ~ gone
    /\ gone' = TRUE
    /\ UNCHANGED <<stream, pos, sockfd, pc, recvVars, written, cutShort>>

-----------------------------------------------------------------------------
(* Helpers of the websocket *)

NextFrame == stream[pos + 1]

HasFrame == pos < Len(stream)

\* socket_send succeeds, or fails because the peer is gone.
SendOutcomes == IF gone THEN {TRUE, FALSE} ELSE {TRUE}

CloseMessage(code) == [op |-> "close", value |-> code]

PongMessage(i) == [op |-> "pong", value |-> i]

Return == pc' = "idle"

\* input_assert_valid_message: the code of the RecvError it throws, or 0.
HeaderError(f) ==
    IF f.masked # MaskExpected THEN kCloseProtocolError
    ELSE IF f.op \notin DataOps \cup ControlOps THEN kCloseProtocolError
    ELSE IF f.len > MaxLength THEN kCloseTooBig
    ELSE 0

LengthOf(parts) == LengthAt(ToSet(parts))

\* Mutant of DataError: the fragments received before are not counted.
FragmentError(f) ==
    IF (f.op = "continuation") # isContinuation THEN kCloseProtocolError
    ELSE IF f.len > MaxLength THEN kCloseTooBig
    ELSE 0

\* assert_continuation and assert_message_length, likewise.
DataError(f) ==
    IF (f.op = "continuation") # isContinuation THEN kCloseProtocolError
    ELSE IF f.len + (IF f.op = "continuation" THEN LengthOf(message) ELSE 0)
            > MaxLength THEN kCloseTooBig
    ELSE 0

RecvError(f) ==
    IF HeaderError(f) # 0 THEN HeaderError(f)
    ELSE IF f.op \in DataOps THEN DataError(f) ELSE 0

(***************************************************************************)
(* close_with_handshake: send a Close and wait for the peer's, or close    *)
(* the connection at once when the Close cannot be sent.                   *)
(***************************************************************************)
CloseWithHandshake(code) ==
    \/ /\ TRUE \in SendOutcomes
       /\ written' = Append(written, CloseMessage(code))
       /\ pc' = "wait_reply"
       /\ UNCHANGED sockfd
    \/ /\ FALSE \in SendOutcomes
       /\ sockfd' = "closed"
       /\ Return
       /\ UNCHANGED written

-----------------------------------------------------------------------------
(* recv *)

RecvCall ==
    /\ pc = "idle" /\ sockfd = "open"
    /\ pc' = "recv"
    /\ message' = <<>>
    /\ UNCHANGED <<peerVars, pos, sockfd, isContinuation, isText, received, written,
                   cutShort>>

RecvTimeout ==
    /\ pc = "recv"
    /\ Return
    /\ cutShort' = (cutShort \/ isContinuation)
    /\ UNCHANGED <<peerVars, pos, sockfd, recvVars, written>>

\* Mutant of RecvData: is_text_ is set by every frame, not by the first.
RecvDataRetyped ==
    /\ pc = "recv"
    /\ HasFrame
    /\ NextFrame.op \in DataOps /\ RecvError(NextFrame) = 0
    /\ pos' = pos + 1
    /\ LET f == NextFrame
           parts == IF f.op = "continuation" THEN Append(message, pos + 1)
                    ELSE <<pos + 1>>
       IN /\ isText' = (f.op = "text")
          /\ message' = parts
          /\ isContinuation' = ~ f.fin
          /\ IF f.fin
             THEN /\ received' = Append(received,
                          [type |-> IF f.op = "text" THEN "text" ELSE "binary",
                           parts |-> parts])
                  /\ Return
             ELSE UNCHANGED <<received, pc>>
    /\ UNCHANGED <<peerVars, sockfd, written, cutShort>>

\* A data frame in order: handle_data_payload; recv returns on the last one.
RecvData ==
    /\ pc = "recv"
    /\ HasFrame
    /\ NextFrame.op \in DataOps /\ RecvError(NextFrame) = 0
    /\ pos' = pos + 1
    /\ LET f == NextFrame
           text == IF f.op = "continuation" THEN isText ELSE f.op = "text"
           parts == IF f.op = "continuation" THEN Append(message, pos + 1)
                    ELSE <<pos + 1>>
       IN /\ isText' = text
          /\ message' = parts
          /\ isContinuation' = ~ f.fin
          /\ IF f.fin
             THEN /\ received' = Append(received,
                          [type |-> IF text THEN "text" ELSE "binary",
                           parts |-> parts])
                  /\ Return
             ELSE UNCHANGED <<received, pc>>
    /\ UNCHANGED <<peerVars, sockfd, written, cutShort>>

\* Mutant of RecvPing: has_complete_data_message forgets has_data_message, and
\* the FIN bit of a ping ends the message.
RecvPingCompletes ==
    /\ pc = "recv"
    /\ HasFrame
    /\ NextFrame.op = "ping" /\ RecvError(NextFrame) = 0
    /\ pos' = pos + 1
    /\ written' = Append(written, PongMessage(pos + 1))
    /\ received' = Append(received, [type |-> IF isText THEN "text" ELSE "binary",
                                     parts |-> message])
    /\ Return
    /\ UNCHANGED <<peerVars, sockfd, message, isContinuation, isText, cutShort>>

\* send_pong returns the ping's payload; when that fails the socket is closed
\* and recv returns kRecvClosed.
RecvPing ==
    /\ pc = "recv"
    /\ HasFrame
    /\ NextFrame.op = "ping" /\ RecvError(NextFrame) = 0
    /\ pos' = pos + 1
    /\ \/ /\ TRUE \in SendOutcomes
          /\ written' = Append(written, PongMessage(pos + 1))
          /\ UNCHANGED <<sockfd, pc>>
       \/ /\ FALSE \in SendOutcomes
          /\ sockfd' = "closed"
          /\ Return
          /\ UNCHANGED written
    /\ UNCHANGED <<peerVars, recvVars, cutShort>>

\* Mutant of RecvPong: a pong is answered like a ping.
RecvPongEchoes ==
    /\ pc = "recv"
    /\ HasFrame
    /\ NextFrame.op = "pong" /\ RecvError(NextFrame) = 0
    /\ pos' = pos + 1
    /\ written' = Append(written, PongMessage(pos + 1))
    /\ UNCHANGED <<peerVars, sockfd, pc, recvVars, cutShort>>

\* Mutant of RecvPong: the frame behind the pong is skipped with it.
RecvPongSkips ==
    /\ pc = "recv"
    /\ HasFrame
    /\ NextFrame.op = "pong" /\ RecvError(NextFrame) = 0
    /\ pos' = pos + 2
    /\ UNCHANGED <<peerVars, sockfd, pc, recvVars, written, cutShort>>

RecvPong ==
    /\ pc = "recv"
    /\ HasFrame
    /\ NextFrame.op = "pong" /\ RecvError(NextFrame) = 0
    /\ pos' = pos + 1
    /\ UNCHANGED <<peerVars, sockfd, pc, recvVars, written, cutShort>>

\* get_close_code: the peer's code if the payload is just that, else
\* kCloseMissingCode, also when a reason follows the code.
CloseCodeOf(f) == IF f.len = 2 THEN f.code ELSE kCloseMissingCode

\* answer_close_handshake: send the code back and close the connection.
RecvClose ==
    /\ pc = "recv"
    /\ HasFrame
    /\ NextFrame.op = "close" /\ RecvError(NextFrame) = 0
    /\ pos' = pos + 1
    /\ \/ /\ TRUE \in SendOutcomes
          /\ written' = Append(written, CloseMessage(CloseCodeOf(NextFrame)))
       \/ FALSE \in SendOutcomes /\ UNCHANGED written
    /\ sockfd' = "closed"
    /\ Return
    /\ UNCHANGED <<peerVars, recvVars, cutShort>>

\* read_message or process_message throws RecvError: kRecvError.
RecvInvalid ==
    /\ pc = "recv"
    /\ HasFrame
    /\ RecvError(NextFrame) # 0
    /\ pos' = pos + 1
    /\ CloseWithHandshake(RecvError(NextFrame))
    /\ UNCHANGED <<peerVars, recvVars, cutShort>>

\* The end of the stream: socket_read throws.
RecvEnd ==
    /\ pc = "recv"
    /\ ~ HasFrame /\ gone
    /\ CloseWithHandshake(kCloseInternalError)
    /\ UNCHANGED <<peerVars, pos, recvVars, cutShort>>

-----------------------------------------------------------------------------
(* close and closing_wait_reply *)

CloseCall ==
    /\ pc = "idle" /\ sockfd = "open"
    /\ CloseWithHandshake(kCloseNormal)
    /\ UNCHANGED <<peerVars, pos, recvVars, cutShort>>

\* A frame is read and dropped; a Close or a RecvError ends the wait.  (After
\* an invalid header the unread payload is taken for frames: dropped all the
\* same, and the wait may end at any time.)
WaitReplyFrame ==
    /\ pc = "wait_reply"
    /\ HasFrame
    /\ pos' = pos + 1
    /\ IF NextFrame.op = "close" \/ HeaderError(NextFrame) # 0
       THEN sockfd' = "closed" /\ Return
       ELSE UNCHANGED <<sockfd, pc>>
    /\ UNCHANGED <<peerVars, recvVars, written, cutShort>>

\* Five seconds have passed, or the stream has ended.
WaitReplyEnds ==
    /\ pc = "wait_reply"
    /\ sockfd' = "closed"
    /\ Return
    /\ UNCHANGED <<peerVars, pos, recvVars, written, cutShort>>

-----------------------------------------------------------------------------
Next ==
    \/ PeerSends \/ PeerGoes
    \/ RecvCall \/ RecvTimeout \/ RecvData \/ RecvPing \/ RecvPong \/ RecvClose
    \/ RecvInvalid \/ RecvEnd
    \/ CloseCall \/ WaitReplyFrame \/ WaitReplyEnds

Spec == Init /\ [][Next]_vars

-----------------------------------------------------------------------------
(* What the peer's frames mean, read off the stream.                       *)

\* The frames that were read before the first one that recv must refuse.
InOrder == {i \in 1 .. pos : \A j \in 1 .. i : Fault(j) = 0}

\* The positions at which messages end.
Ends == {i \in InOrder : stream[i].op \in DataOps /\ stream[i].fin}

Pings == {i \in 1 .. pos : stream[i].op = "ping"}

\* s goes through the positions in S from the lowest on and leaves none out, as
\* far as it goes; all says that it goes to the end.
GoesThrough(s, S, all) ==
    /\ \A k \in DOMAIN s : s[k] \in S
    /\ \A k, l \in DOMAIN s : k < l => s[k] < s[l]
    /\ \A i \in S : \/ \E k \in DOMAIN s : s[k] = i
                    \/ ~ all /\ \A k \in DOMAIN s : s[k] < i

\* The message that ends at position e begins at position b.
Begins(b, e) ==
    /\ b \in 1 .. e
    /\ stream[b].op \in {"text", "binary"}
    /\ \A j \in b + 1 .. e : stream[j].op \notin {"text", "binary"}

\* m is the message that ends at position e, without its fragments before f.
IsFrom(m, f, e) ==
    /\ GoesThrough(m.parts, {j \in Data(e) : j >= f}, TRUE)
    /\ \E b \in 1 .. f : Begins(b, e) /\ m.type = stream[b].op

IsWhole(m, e) == \E b \in 1 .. e : Begins(b, e) /\ IsFrom(m, b, e)

\* Where the messages that recv returned end.
ReceivedEnds == [k \in DOMAIN received |-> Last(received[k].parts)]

\* In normal operation: not closing, nothing thrown away.
Running == sockfd = "open" /\ pc # "wait_reply"

(***************************************************************************)
(* recv returns exactly the peer's messages: each one whole, with the type *)
(* of its first fragment, in order, none lost, none made of fragments of   *)
(* two, whatever control frames stand between the fragments, also ones     *)
(* that are not final or too long.  It holds as long as no recv times out  *)
(* in the middle of a message.                                             *)
(***************************************************************************)
WholeMessages ==
    ~ cutShort =>
        /\ \A k \in DOMAIN received :
              received[k].parts # <<>> /\ IsWhole(received[k], ReceivedEnds[k])
        /\ GoesThrough(ReceivedEnds, Ends, Running)

(***************************************************************************)
(* When the peer sends nothing to refuse, the harm of a recv that times out*)
(* between fragments is limited to that message: it loses leading          *)
(* fragments, but keeps its place, its last fragment and its type, and     *)
(* later messages are whole or truncated by timeouts of their own.         *)
(***************************************************************************)
DamageIsLocal ==
    Faults(pos) = {} =>
        /\ \A k \in DOMAIN received :
              /\ received[k].parts # <<>>
              /\ \E f \in 1 .. ReceivedEnds[k] : IsFrom(received[k], f, ReceivedEnds[k])
        /\ GoesThrough(ReceivedEnds, Ends, Running)

(***************************************************************************)
(* recv judges each frame by the rules it enforces, although it only keeps *)
(* one flag and the bytes so far: a frame that breaks one of them at its   *)
(* place in the stream is answered with the right Close code, a Close that *)
(* is just a code with that code, and no other frame makes recv close.     *)
(* So a frame that breaks RFC 6455 only by what recv does not look at      *)
(* (Unchecked) is taken like a good one, and the connection goes on.       *)
(***************************************************************************)
JudgesFrame ==
    pc = "recv" /\ pos' # pos /\ ~ cutShort =>
       LET fault == Fault(pos + 1)
           wrote(code) == written' = Append(written, CloseMessage(code))
           hungUp == sockfd' = "closed" /\ gone /\ written' = written
       IN IF fault # 0 THEN wrote(fault) \/ hungUp
          ELSE IF NextFrame.op = "close"
          THEN NextFrame.len = 2 => wrote(NextFrame.code) \/ hungUp
          ELSE pc' # "wait_reply" /\ (sockfd' = "open" \/ hungUp)

JudgesFrames == [][JudgesFrame]_vars

(***************************************************************************)
(* Every ping is answered once, with its own payload and in order, also    *)
(* between fragments; nothing else is answered with a pong.                *)
(***************************************************************************)
PongsAnswerPings ==
    LET pongs == {k \in DOMAIN written : written[k].op = "pong"}
    IN GoesThrough([k \in pongs |-> written[k].value], Pings, Running)
=============================================================================
