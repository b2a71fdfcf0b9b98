---------------------- MODULE WebSocketReceiverProofs ----------------------
(***************************************************************************)
(* What recv does with the frames of a peer, for every stream of frames    *)
(* with any header and length, any number of faults, and every limit of    *)
(* the length.                                                             *)
(*                                                                         *)
(* The properties speak of positions in the stream, and so do the proofs:  *)
(* a step reads the frame behind those that were read, or none; the peer   *)
(* adds frames behind all others and changes nothing before them.          *)
(***************************************************************************)
EXTENDS WebSocketReceiver, SequenceTheorems, TLAPS

\* A call of recv or close stands only at an open socket.
PlaceInv == pc # "idle" => sockfd = "open"

\* The message that is not finished after the frames read so far begins at b.
OpenFrom(b) == Begins(b, pos) /\ OpenParts(pos) = {j \in Data(pos) : j >= b}

(***************************************************************************)
(* What recv keeps between two frames, as long as it runs: one flag says   *)
(* whether the stream is inside a message, and the buffer has the          *)
(* fragments of that message, except those before the last timeout.        *)
(***************************************************************************)
FlagInv ==
    Running =>
        /\ ~ cutShort => Faults(pos) = {} /\ (pc = "idle" => ~ isContinuation)
        /\ Faults(pos) = {} =>
              /\ isContinuation = InMessage(pos)
              /\ isContinuation =>
                    \E b \in 1 .. pos :
                        /\ OpenFrom(b)
                        /\ isText = (stream[b].op = "text")
                        /\ \E f \in b .. pos + 1 :
                              /\ GoesThrough(message, {j \in Data(pos) : j >= f}, TRUE)
                              /\ ~ cutShort => f = b

\* WholeMessages and DamageIsLocal in one.
ReceivedInv ==
    ~ cutShort \/ Faults(pos) = {} =>
        /\ \A k \in DOMAIN received :
              /\ received[k].parts # <<>>
              /\ \E f \in 1 .. ReceivedEnds[k] :
                    /\ IsFrom(received[k], f, ReceivedEnds[k])
                    /\ ~ cutShort => Begins(f, ReceivedEnds[k])
        /\ GoesThrough(ReceivedEnds, Ends, Running)

IInv ==
    /\ TypeOK /\ Len(stream) <= MaxFrames
    /\ PlaceInv /\ FlagInv /\ ReceivedInv /\ PongsAnswerPings

-----------------------------------------------------------------------------
(* Positions in the stream.                                                *)

\* More frames behind the first n change nothing that is said of these.
LEMMA FramesKept ==
    ASSUME stream \in Seq(Frames), stream' \in Seq(Frames),
           NEW n \in 0 .. Len(stream),
           \A i \in 1 .. n : stream'[i] = stream[i]
    PROVE  /\ \A i \in 0 .. n : /\ Data(i)' = Data(i)
                                /\ OpenParts(i)' = OpenParts(i)
                                /\ InMessage(i)' = InMessage(i)
                                /\ LengthAt(OpenParts(i))' = LengthAt(OpenParts(i))
           /\ \A i \in 1 .. n : Fault(i)' = Fault(i)
           /\ \A b, e \in 1 .. n : Begins(b, e)' = Begins(b, e)
<1>1. ASSUME NEW i \in 0 .. n
      PROVE  Data(i)' = Data(i) /\ OpenParts(i)' = OpenParts(i)
  <2>1. \A j \in 1 .. i : j \in 1 .. n
    OBVIOUS
  <2>2. Data(i)' = Data(i)
    BY <2>1 DEF Data
  <2>3. \A j \in Data(i) : stream'[j] = stream[j]
    BY <2>1 DEF Data
  <2> QED
    BY <2>2, <2>3 DEF OpenParts
<1>2. ASSUME NEW i \in 0 .. n
      PROVE  LengthAt(OpenParts(i))' = LengthAt(OpenParts(i))
  <2>1. \A j \in OpenParts(i) : stream'[j] = stream[j]
    BY DEF OpenParts, Data
  <2>2. [j \in OpenParts(i) |-> stream'[j].len] = [j \in OpenParts(i) |-> stream[j].len]
    BY <2>1
  <2>3. OpenParts(i)' = OpenParts(i)
    BY <1>1
  <2> QED
    BY <2>2, <2>3 DEF LengthAt
<1>3. ASSUME NEW i \in 1 .. n
      PROVE  Fault(i)' = Fault(i)
  <2>1. i - 1 \in 0 .. n
    OBVIOUS
  <2>2. /\ InMessage(i - 1)' = InMessage(i - 1)
        /\ LengthAt(OpenParts(i - 1))' = LengthAt(OpenParts(i - 1))
    BY <1>1, <1>2, <2>1 DEF InMessage
  <2> QED
    BY <2>2 DEF Fault
<1>4. ASSUME NEW b \in 1 .. n, NEW e \in 1 .. n
      PROVE  Begins(b, e)' = Begins(b, e)
  <2>1. \A j \in b + 1 .. e : j \in 1 .. n
    OBVIOUS
  <2> QED
    BY <2>1 DEF Begins
<1> QED
  BY <1>1, <1>2, <1>3, <1>4 DEF InMessage

\* The data frames once one more frame is counted.
LEMMA DataNext ==
    ASSUME NEW n \in Nat
    PROVE  Data(n + 1) = IF stream[n + 1].op \in DataOps THEN Data(n) \cup {n + 1}
                         ELSE Data(n)
BY DEF Data

LEMMA OpenPartsNext ==
    ASSUME NEW n \in Nat
    PROVE  OpenParts(n + 1) =
               IF stream[n + 1].op \notin DataOps THEN OpenParts(n)
               ELSE IF stream[n + 1].fin THEN {}
               ELSE OpenParts(n) \cup {n + 1}
<1>1. \A j \in Data(n) : j \in Nat /\ j < n + 1
  BY DEF Data
<1>2. CASE stream[n + 1].op \notin DataOps
  <2>1. Data(n + 1) = Data(n)
    BY <1>2, DataNext
  <2> QED
    BY <1>2, <2>1 DEF OpenParts
<1>3. CASE stream[n + 1].op \in DataOps
  <2>1. Data(n + 1) = Data(n) \cup {n + 1}
    BY <1>3, DataNext
  <2> QED
    BY <1>1, <1>3, <2>1 DEF OpenParts
<1> QED
  BY <1>2, <1>3

LEMMA BeginsNext ==
    ASSUME NEW n \in Nat, NEW b \in 1 .. n, Begins(b, n),
           stream[n + 1].op \notin {"text", "binary"}
    PROVE  Begins(b, n + 1)
BY DEF Begins

LEMMA FaultsNext ==
    ASSUME NEW n \in Nat
    PROVE  Faults(n + 1) = IF Fault(n + 1) # 0 THEN Faults(n) \cup {n + 1} ELSE Faults(n)
BY DEF Faults

-----------------------------------------------------------------------------
(* Going through a set of positions.                                       *)

LEMMA GoesOn ==
    ASSUME NEW s, NEW S \in SUBSET Nat, NEW T \in SUBSET Nat, NEW all \in BOOLEAN,
           GoesThrough(s, S, all), S \subseteq T,
           \A i \in T \ S : \A j \in S : j < i
    PROVE  GoesThrough(s, T, FALSE)
BY DEF GoesThrough

LEMMA GoesLess ==
    ASSUME NEW s, NEW S, NEW all, GoesThrough(s, S, all)
    PROVE  GoesThrough(s, S, FALSE)
BY DEF GoesThrough

LEMMA GoesNowhere == GoesThrough(<<>>, {}, TRUE)
BY DEF GoesThrough

LEMMA GoesBeyond ==
    ASSUME NEW S \in SUBSET Nat, NEW x \in Nat, NEW s, NEW t, NEW n \in Nat,
           DOMAIN s \subseteq Nat, \A k \in DOMAIN s : k < n /\ t[k] = s[k],
           DOMAIN t = DOMAIN s \cup {n}, t[n] = x,
           GoesThrough(s, S, TRUE), \A j \in S : j < x
    PROVE  GoesThrough(t, S \cup {x}, TRUE)
<1>1. \A k \in DOMAIN t : t[k] \in S \cup {x}
  BY DEF GoesThrough
<1>2. ASSUME NEW k \in DOMAIN t, NEW l \in DOMAIN t, k < l
      PROVE  t[k] < t[l]
  <2>1. k \in DOMAIN s
    BY <1>2
  <2>2. CASE l \in DOMAIN s
    BY <1>2, <2>1, <2>2 DEF GoesThrough
  <2>3. CASE l = n
    BY <2>1, <2>3 DEF GoesThrough
  <2> QED
    BY <2>2, <2>3
<1>3. ASSUME NEW i \in S \cup {x}
      PROVE  \E k \in DOMAIN t : t[k] = i
  BY DEF GoesThrough
<1> QED
  BY <1>1, <1>2, <1>3 DEF GoesThrough

LEMMA GoesFurther ==
    ASSUME NEW P \in SUBSET Nat, NEW S \in SUBSET Nat, NEW s \in Seq(P), NEW x \in P,
           GoesThrough(s, S, TRUE), \A j \in S : j < x
    PROVE  GoesThrough(Append(s, x), S \cup {x}, TRUE)
<1> DEFINE t == Append(s, x)
<1>1. /\ Len(s) \in Nat /\ x \in Nat /\ t[Len(s) + 1] = x
      /\ DOMAIN s \subseteq Nat /\ \A k \in DOMAIN s : k < Len(s) + 1 /\ t[k] = s[k]
      /\ DOMAIN t = DOMAIN s \cup {Len(s) + 1}
  OBVIOUS
<1> HIDE DEF t
<1>2. Len(s) + 1 \in Nat
  BY <1>1
<1>3. GoesThrough(t, S \cup {x}, TRUE)
  BY <1>1, <1>2, GoesBeyond
<1> QED
  BY <1>3 DEF t

-----------------------------------------------------------------------------
(* The steps, by what they do to the stream and to what recv keeps.        *)

\* recv reads a ping or a pong and goes on.
ReadsControl ==
    /\ pc = "recv" /\ HasFrame /\ pos' = pos + 1
    /\ NextFrame.op \in {"ping", "pong"} /\ RecvError(NextFrame) = 0
    /\ written' = IF NextFrame.op = "ping" THEN Append(written, PongMessage(pos + 1))
                  ELSE written
    /\ UNCHANGED <<peerVars, sockfd, pc, recvVars, cutShort>>

\* recv or close ends the connection, or waits for its end.
Stops ==
    /\ sockfd' = "closed" \/ pc' = "wait_reply"
    /\ pc # "idle" \/ sockfd = "open"
    /\ pc' # "idle" => sockfd' = "open"
    /\ pc' \in {"idle", "wait_reply"} /\ sockfd' \in {"open", "closed"}
    /\ pos' = pos \/ (HasFrame /\ pos' = pos + 1)
    /\ \/ written' = written
       \/ \E code \in Nat : written' = Append(written, CloseMessage(code))
    /\ UNCHANGED <<peerVars, recvVars, cutShort>>

TypeInv == TypeOK /\ Len(stream) <= MaxFrames

LEMMA PeerFrameCases ==
    ASSUME NEW f \in PeerFrame
    PROVE  /\ f.fin \in BOOLEAN /\ f.len \in Nat /\ f.code \in Nat
           /\ f.op \in DataOps \cup ControlOps \cup {"reserved"}
BY DEF PeerFrame

LEMMA NextFrameType ==
    ASSUME TypeInv, HasFrame
    PROVE  /\ NextFrame \in PeerFrame
           /\ pos + 1 \in 1 .. Len(stream) /\ pos + 1 \in Positions
           /\ RecvError(NextFrame) \in Nat
<1>1. stream \in Seq(Frames) /\ pos \in 0 .. Len(stream) /\ Len(stream) \in Nat
      /\ Len(stream) <= MaxFrames /\ MaxFrames \in Nat
  BY ReceiverBoundsAssumption DEF TypeInv, TypeOK
<1>2. pos + 1 \in 1 .. Len(stream)
  BY <1>1 DEF HasFrame
<1>3. pos + 1 \in Positions
  BY <1>1, <1>2 DEF Positions
<1>4. NextFrame \in PeerFrame
  BY <1>1, <1>2, FramesAssumption DEF NextFrame
<1>5. RecvError(NextFrame) \in Nat
  BY DEF RecvError, HeaderError, DataError, kCloseProtocolError, kCloseTooBig
<1> QED
  BY <1>2, <1>3, <1>4, <1>5

LEMMA CloseStops ==
    ASSUME NEW code \in Nat, CloseWithHandshake(code), PlaceInv,
           pc # "idle" \/ sockfd = "open",
           pos' = pos \/ (HasFrame /\ pos' = pos + 1),
           UNCHANGED <<peerVars, recvVars, cutShort>>
    PROVE  Stops
BY DEF CloseWithHandshake, Stops, Return, PlaceInv

LEMMA NextCases ==
    ASSUME TypeInv, PlaceInv, [Next]_vars
    PROVE  \/ PeerSends \/ RecvCall \/ RecvTimeout \/ RecvData
           \/ ReadsControl \/ Stops
           \/ UNCHANGED <<stream, pos, sockfd, pc, recvVars, written, cutShort>>
              /\ gone' \in BOOLEAN
<1>1. CASE PeerGoes
  BY <1>1 DEF PeerGoes
<1>2. CASE RecvPing
  <2>1. CASE UNCHANGED <<sockfd, pc>>
    BY <1>2, <2>1 DEF RecvPing, ReadsControl, Return, PlaceInv
  <2>2. CASE sockfd' = "closed"
    BY <1>2, <2>2 DEF RecvPing, Stops, Return, PlaceInv
  <2> QED
    BY <1>2, <2>1, <2>2 DEF RecvPing
<1>3. CASE RecvPong
  BY <1>3 DEF RecvPong, ReadsControl
<1>4. CASE RecvClose
  <2>1. CloseCodeOf(NextFrame) \in Nat
    <3>1. NextFrame.code \in Nat
      BY <1>4, NextFrameType, PeerFrameCases DEF RecvClose
    <3> QED
      BY <3>1 DEF CloseCodeOf, kCloseMissingCode
  <2> QED
    BY <1>4, <2>1 DEF RecvClose, Stops, Return
<1>5. CASE RecvInvalid
  BY <1>5, NextFrameType, CloseStops DEF RecvInvalid
<1>6. CASE RecvEnd
  BY <1>6, CloseStops DEF RecvEnd, kCloseInternalError
<1>7. CASE CloseCall
  BY <1>7, CloseStops DEF CloseCall, kCloseNormal
<1>8. CASE WaitReplyFrame
  BY <1>8 DEF WaitReplyFrame, Stops, Return, PlaceInv, TypeInv, TypeOK
<1>9. CASE WaitReplyEnds
  BY <1>9 DEF WaitReplyEnds, Stops, Return
<1>10. CASE UNCHANGED vars
  BY <1>10 DEF vars, recvVars, TypeInv, TypeOK
<1> QED
  BY <1>1, <1>2, <1>3, <1>4, <1>5, <1>6, <1>7, <1>8, <1>9, <1>10 DEF Next

LEMMA TypeStep ==
    ASSUME TypeInv, PlaceInv, [Next]_vars
    PROVE  TypeInv' /\ PlaceInv'
<1> USE DEF TypeInv, TypeOK, PlaceInv
<1>0. MaxFrames \in Nat
  BY ReceiverBoundsAssumption
<1>1. CASE PeerSends
  <2>1. PICK f \in Frames : stream' = Append(stream, f)
    BY <1>1 DEF PeerSends
  <2>2. stream' \in Seq(Frames) /\ Len(stream') = Len(stream) + 1
    BY <2>1
  <2>3. Len(stream) < MaxFrames
        /\ UNCHANGED <<gone, pos, sockfd, pc, recvVars, written, cutShort>>
    BY <1>1 DEF PeerSends
  <2> QED
    BY <1>0, <2>2, <2>3 DEF recvVars
<1>2. CASE RecvCall
  BY <1>2 DEF RecvCall, peerVars
<1>3. CASE RecvTimeout
  BY <1>3 DEF RecvTimeout, peerVars, recvVars, Return
<1>4. CASE RecvData
  <2> DEFINE parts == IF NextFrame.op = "continuation" THEN Append(message, pos + 1)
                      ELSE <<pos + 1>>
             text == IF NextFrame.op = "continuation" THEN isText ELSE NextFrame.op = "text"
  <2>1. pos + 1 \in 1 .. Len(stream) /\ pos + 1 \in Positions /\ NextFrame \in PeerFrame
    BY <1>4, NextFrameType DEF RecvData
  <2>2. parts \in Seq(Positions)
    BY <2>1
  <2>3. text \in BOOLEAN /\ NextFrame.fin \in BOOLEAN
    BY <2>1 DEF PeerFrame
  <2>4. [type |-> IF text THEN "text" ELSE "binary", parts |-> parts] \in Message
    BY <2>2 DEF Message
  <2>5. /\ isText' = text /\ message' = parts /\ isContinuation' = ~ NextFrame.fin
        /\ \/ /\ received' = Append(received, [type |-> IF text THEN "text" ELSE "binary",
                                               parts |-> parts])
              /\ pc' = "idle"
           \/ UNCHANGED <<received, pc>>
        /\ pos' = pos + 1 /\ UNCHANGED <<peerVars, sockfd, written, cutShort>>
    BY <1>4 DEF RecvData, Return
  <2> HIDE DEF parts, text
  <2>6. received' \in Seq(Message)
    <3>1. \A m \in Message : Append(received, m) \in Seq(Message)
      OBVIOUS
    <3> QED
      BY <2>4, <2>5, <3>1
  <2>7. isContinuation' \in BOOLEAN
    BY <2>3, <2>5
  <2>8. pc' \in {"idle", "recv", "wait_reply"} /\ (pc' # "idle" => sockfd' = "open")
    BY <2>5
  <2> QED
    BY <2>1, <2>2, <2>3, <2>5, <2>6, <2>7, <2>8 DEF peerVars
<1>5. CASE ReadsControl
  <2>1. PongMessage(pos + 1) \in Reply
    BY DEF PongMessage, Reply
  <2> QED
    BY <1>5, <2>1, NextFrameType DEF ReadsControl, peerVars, recvVars
<1>6. CASE Stops
  <2>1. \A code \in Nat : CloseMessage(code) \in Reply
    BY DEF CloseMessage, Reply
  <2>2. \A r \in Reply : Append(written, r) \in Seq(Reply)
    OBVIOUS
  <2>3. written' = written \/ \E code \in Nat : written' = Append(written, CloseMessage(code))
    BY <1>6 DEF Stops
  <2>4. written' \in Seq(Reply)
    BY <2>1, <2>2, <2>3
  <2> QED
    BY <1>6, <2>4, NextFrameType DEF Stops, peerVars, recvVars
<1>7. CASE UNCHANGED <<stream, pos, sockfd, pc, recvVars, written, cutShort>>
           /\ gone' \in BOOLEAN
  BY <1>7 DEF recvVars
<1> QED
  BY <1>1, <1>2, <1>3, <1>4, <1>5, <1>6, <1>7, NextCases

-----------------------------------------------------------------------------
(* What a step makes of the frames that were read.                         *)

LEMMA StreamKept ==
    ASSUME TypeInv, PlaceInv, [Next]_vars
    PROVE  /\ \A i \in 1 .. Len(stream) : stream'[i] = stream[i]
           /\ stream' \in Seq(Frames) /\ Len(stream) \in Nat
           /\ Len(stream) <= Len(stream')
           /\ pos \in Nat /\ pos' \in 0 .. Len(stream)
           /\ pos' = pos \/ (HasFrame /\ pos' = pos + 1)
<1>1. stream \in Seq(Frames) /\ pos \in 0 .. Len(stream) /\ Len(stream) \in Nat
  BY DEF TypeInv, TypeOK
<1>2. CASE PeerSends
  <2>1. PICK f \in Frames : stream' = Append(stream, f)
    BY <1>2 DEF PeerSends
  <2>2. pos' = pos
    BY <1>2 DEF PeerSends
  <2> QED
    BY <1>1, <2>1, <2>2
<1>3. CASE UNCHANGED stream /\ (pos' = pos \/ (HasFrame /\ pos' = pos + 1))
  BY <1>1, <1>3 DEF HasFrame
<1> QED
  BY <1>2, <1>3, NextCases
     DEF RecvCall, RecvTimeout, RecvData, ReadsControl, Stops, peerVars

\* What is said of the frames that were read after a step is said of the
\* frames that were there before it.
LEMMA FramesRead ==
    ASSUME TypeInv, PlaceInv, [Next]_vars
    PROVE  /\ Faults(pos)' = Faults(pos')
           /\ Data(pos)' = Data(pos')
           /\ OpenParts(pos)' = OpenParts(pos')
           /\ InMessage(pos)' = InMessage(pos')
           /\ InOrder' = {i \in 1 .. pos' : \A j \in 1 .. i : Fault(j) = 0}
           /\ \A b, e \in 1 .. pos' : Begins(b, e)' = Begins(b, e)
           /\ \A e \in 1 .. pos' : Data(e)' = Data(e)
           /\ \A i \in 1 .. pos' : stream'[i] = stream[i]
<1>1. /\ \A i \in 1 .. Len(stream) : stream'[i] = stream[i]
      /\ stream' \in Seq(Frames) /\ Len(stream) \in Nat
      /\ pos' \in 0 .. Len(stream)
  BY StreamKept
<1>2. stream \in Seq(Frames)
  BY DEF TypeInv, TypeOK
<1>3. \A i \in 1 .. pos' : i \in 1 .. Len(stream)
  BY <1>1
<1>4. /\ \A i \in 0 .. pos' : /\ Data(i)' = Data(i) /\ OpenParts(i)' = OpenParts(i)
                              /\ InMessage(i)' = InMessage(i)
      /\ \A i \in 1 .. pos' : Fault(i)' = Fault(i)
      /\ \A b, e \in 1 .. pos' : Begins(b, e)' = Begins(b, e)
  BY <1>1, <1>2, <1>3, FramesKept
<1>5. pos' \in 0 .. pos'
  BY <1>1
<1>6. Data(pos)' = Data(pos') /\ OpenParts(pos)' = OpenParts(pos')
      /\ InMessage(pos)' = InMessage(pos')
  BY <1>4, <1>5
<1>7. Faults(pos)' = Faults(pos')
  BY <1>4 DEF Faults
<1>8. InOrder' = {i \in 1 .. pos' : \A j \in 1 .. i : Fault(j) = 0}
  <2>1. InOrder' = {i \in 1 .. pos' : \A j \in 1 .. i : Fault(j)' = 0}
    BY DEF InOrder
  <2>2. \A i \in 1 .. pos' : \A j \in 1 .. i : Fault(j)' = Fault(j)
    BY <1>1, <1>4
  <2> QED
    BY <2>1, <2>2
<1>9. \A e \in 1 .. pos' : Data(e)' = Data(e)
  BY <1>1, <1>4
<1> QED
  BY <1>1, <1>3, <1>4, <1>6, <1>7, <1>8, <1>9

-----------------------------------------------------------------------------
(***************************************************************************)
(* recv judges a frame by one flag and the bytes of the buffer; Fault      *)
(* judges it by the whole stream.  The two agree.                          *)
(***************************************************************************)
LEMMA JudgedRight ==
    ASSUME TypeInv, FlagInv, pc = "recv", sockfd = "open", HasFrame, ~ cutShort
    PROVE  RecvError(NextFrame) = Fault(pos + 1)
<1> DEFINE f == NextFrame
<1>1. f \in PeerFrame /\ f = stream[pos + 1] /\ pos \in Nat
  BY NextFrameType DEF NextFrame, TypeInv, TypeOK
<1>2. Running /\ Faults(pos) = {}
  BY DEF Running, FlagInv
<1>3. isContinuation = InMessage(pos)
  BY <1>2 DEF FlagInv
<1>4. isContinuation => LengthOf(message) = LengthAt(OpenParts(pos))
  <2>1. ASSUME isContinuation
        PROVE  ToSet(message) = OpenParts(pos)
    <3>1. PICK b \in 1 .. pos :
            OpenFrom(b) /\ GoesThrough(message, {j \in Data(pos) : j >= b}, TRUE)
      BY <1>2, <2>1 DEF FlagInv
    <3>2. OpenParts(pos) = {j \in Data(pos) : j >= b}
      BY <3>1 DEF OpenFrom
    <3>3. GoesThrough(message, OpenParts(pos), TRUE)
      BY <3>1, <3>2
    <3> QED
      BY <3>3 DEF GoesThrough, ToSet
  <2> QED
    BY <2>1 DEF LengthOf
<1>5. f.op \notin DataOps => f.op \in ControlOps \cup {"reserved"}
  BY <1>1, PeerFrameCases
<1>6. f.op \in DataOps => f.op \notin ControlOps \cup {"reserved"} /\ f.len \in Nat
  <2>1. DataOps \cap (ControlOps \cup {"reserved"}) = {}
    BY DEF DataOps, ControlOps
  <2> QED
    BY <1>1, <2>1, PeerFrameCases
<1>7. /\ "reserved" \notin ControlOps \cup DataOps /\ "continuation" \in DataOps
      /\ pos + 1 - 1 = pos /\ isContinuation \in BOOLEAN
  BY <1>1 DEF ControlOps, DataOps, TypeInv, TypeOK
<1> HIDE DEF f
<1>8. Fault(pos + 1) =
        IF f.masked # MaskExpected \/ f.op = "reserved" THEN kCloseProtocolError
        ELSE IF f.len > MaxLength THEN kCloseTooBig
        ELSE IF f.op \notin DataOps THEN 0
        ELSE IF (f.op = "continuation") # InMessage(pos) THEN kCloseProtocolError
        ELSE IF f.op = "continuation" /\ f.len + LengthAt(OpenParts(pos)) > MaxLength
             THEN kCloseTooBig ELSE 0
  BY <1>1, <1>7 DEF Fault
<1>9. RecvError(f) =
        IF f.masked # MaskExpected \/ f.op \notin DataOps \cup ControlOps
        THEN kCloseProtocolError
        ELSE IF f.len > MaxLength THEN kCloseTooBig
        ELSE IF f.op \notin DataOps THEN 0
        ELSE IF (f.op = "continuation") # isContinuation THEN kCloseProtocolError
        ELSE IF f.len + (IF f.op = "continuation" THEN LengthOf(message) ELSE 0) > MaxLength
             THEN kCloseTooBig ELSE 0
  BY DEF RecvError, HeaderError, DataError, kCloseProtocolError, kCloseTooBig
<1>10. RecvError(f) = Fault(pos + 1)
  <2> DEFINE misplaced == (f.op = "continuation") # isContinuation
             sum == f.len + LengthAt(OpenParts(pos))
  <2>1. misplaced = ((f.op = "continuation") # InMessage(pos))
    BY <1>3
  <2>2. CASE f.op \notin DataOps
    BY <1>5, <1>7, <1>8, <1>9, <2>2
  <2>3. CASE f.op \in DataOps /\ f.op # "continuation"
    <3>1. f.len + 0 = f.len
      BY <1>6, <2>3
    <3> HIDE DEF misplaced
    <3>2. Fault(pos + 1) = IF f.masked # MaskExpected THEN kCloseProtocolError
            ELSE IF f.len > MaxLength THEN kCloseTooBig
            ELSE IF misplaced THEN kCloseProtocolError ELSE 0
      BY <1>6, <1>8, <2>1, <2>3
    <3>3. RecvError(f) = IF f.masked # MaskExpected THEN kCloseProtocolError
            ELSE IF f.len > MaxLength THEN kCloseTooBig
            ELSE IF misplaced THEN kCloseProtocolError ELSE 0
      BY <1>6, <1>9, <2>3, <3>1 DEF misplaced
    <3> QED
      BY <3>2, <3>3
  <2>4. CASE f.op = "continuation"
    <3> HIDE DEF misplaced
    <3>1. Fault(pos + 1) = IF f.masked # MaskExpected THEN kCloseProtocolError
            ELSE IF f.len > MaxLength THEN kCloseTooBig
            ELSE IF misplaced THEN kCloseProtocolError
            ELSE IF sum > MaxLength THEN kCloseTooBig ELSE 0
      BY <1>6, <1>7, <1>8, <2>1, <2>4
    <3>2. RecvError(f) = IF f.masked # MaskExpected THEN kCloseProtocolError
            ELSE IF f.len > MaxLength THEN kCloseTooBig
            ELSE IF misplaced THEN kCloseProtocolError
            ELSE IF f.len + LengthOf(message) > MaxLength THEN kCloseTooBig ELSE 0
      BY <1>6, <1>7, <1>9, <2>4 DEF misplaced
    <3>3. ~ misplaced => f.len + LengthOf(message) = sum
      BY <1>4, <2>4 DEF misplaced
    <3> HIDE DEF sum
    <3> QED
      BY <3>1, <3>2, <3>3
  <2> QED
    BY <2>2, <2>3, <2>4
<1> QED
  BY <1>10 DEF f

\* A control frame that recv accepts is in order.
LEMMA ControlInOrder ==
    ASSUME HasFrame, NextFrame.op \in ControlOps, RecvError(NextFrame) = 0
    PROVE  Fault(pos + 1) = 0 /\ NextFrame.op \notin DataOps
BY DEF NextFrame, RecvError, HeaderError, Fault, ControlOps, DataOps, kCloseProtocolError

\* A frame that is accepted in order keeps what was read in order.
LEMMA InOrderNext ==
    ASSUME NEW n \in Nat
    PROVE  {i \in 1 .. n + 1 : \A j \in 1 .. i : Fault(j) = 0} =
           {i \in 1 .. n : \A j \in 1 .. i : Fault(j) = 0}
              \cup (IF Faults(n + 1) = {} THEN {n + 1} ELSE {})
BY DEF Faults

-----------------------------------------------------------------------------
\* The message of which recv takes the next fragment, f being the first that it
\* keeps.
LEMMA FragmentStep ==
    ASSUME TypeInv, PlaceInv, FlagInv, RecvData, Faults(pos + 1) = {}
    PROVE  \E b \in 1 .. pos + 1 :
              /\ Begins(b, pos + 1)
              /\ isText' = (stream[b].op = "text")
              /\ OpenParts(pos + 1) =
                    IF NextFrame.fin THEN {} ELSE {j \in Data(pos + 1) : j >= b}
              /\ \E f \in b .. pos + 1 :
                    /\ GoesThrough(message', {j \in Data(pos + 1) : j >= f}, TRUE)
                    /\ ~ cutShort => f = b
<1> DEFINE p == pos + 1
           o == NextFrame.op
<1>1. /\ pos \in Nat /\ p \in Nat /\ p \in 1 .. p
      /\ NextFrame = stream[p] /\ o \in DataOps
      /\ message \in Seq(Positions) /\ p \in Positions /\ Positions \in SUBSET Nat
      /\ NextFrame.fin \in BOOLEAN
  <2>1. message \in Seq(Positions) /\ pos \in Nat
    BY DEF TypeInv, TypeOK
  <2>2. NextFrame.fin \in BOOLEAN
    BY NextFrameType, PeerFrameCases DEF RecvData
  <2>3. pos + 1 \in Positions /\ Positions \in SUBSET Nat
    BY NextFrameType DEF RecvData, Positions
  <2> QED
    BY <2>1, <2>2, <2>3 DEF RecvData, NextFrame
<1>2. /\ Fault(p) = 0 /\ Faults(pos) = {}
  BY <1>1, FaultsNext
<1>3. /\ pc = "recv" /\ Running
  BY DEF RecvData, PlaceInv, Running
<1>4. isContinuation = InMessage(pos)
  BY <1>2, <1>3 DEF FlagInv
<1>5. (o = "continuation") = InMessage(pos)
  BY <1>1, <1>2 DEF Fault, kCloseProtocolError, kCloseTooBig
<1>6. Data(p) = Data(pos) \cup {p} /\ \A j \in Data(pos) : j \in Nat /\ j < p
  BY <1>1, DataNext DEF Data
<1>7. OpenParts(p) = IF NextFrame.fin THEN {} ELSE OpenParts(pos) \cup {p}
  BY <1>1, OpenPartsNext
<1>8. /\ isText' = IF o = "continuation" THEN isText ELSE o = "text"
      /\ message' = IF o = "continuation" THEN Append(message, p) ELSE <<p>>
  BY DEF RecvData
<1> HIDE DEF p, o
<1>9. CASE o = "continuation"
  <2>1. PICK b \in 1 .. pos :
          /\ OpenFrom(b) /\ isText = (stream[b].op = "text")
          /\ \E f \in b .. pos + 1 :
                /\ GoesThrough(message, {j \in Data(pos) : j >= f}, TRUE)
                /\ ~ cutShort => f = b
    BY <1>2, <1>3, <1>4, <1>5, <1>9 DEF FlagInv
  <2>2. PICK f \in b .. p : /\ GoesThrough(message, {j \in Data(pos) : j >= f}, TRUE)
                            /\ ~ cutShort => f = b
    BY <2>1 DEF p
  <2>3. Begins(b, p)
    BY <1>1, <1>9, <2>1, BeginsNext DEF OpenFrom, o, p
  <2>4. OpenParts(p) = IF NextFrame.fin THEN {} ELSE {j \in Data(p) : j >= b}
    <3>1. {j \in Data(p) : j >= b} = {j \in Data(pos) : j >= b} \cup {p}
      BY <1>1, <1>6, <2>1 DEF p
    <3>2. OpenParts(pos) = {j \in Data(pos) : j >= b}
      BY <2>1 DEF OpenFrom
    <3> QED
      BY <1>1, <1>7, <3>1, <3>2
  <2>5. {j \in Data(p) : j >= f} = {j \in Data(pos) : j >= f} \cup {p}
    BY <1>1, <1>6
  <2>6. GoesThrough(message', {j \in Data(p) : j >= f}, TRUE)
    <3> DEFINE S == {j \in Data(pos) : j >= f}
    <3>1. S \in SUBSET Nat /\ \A j \in S : j < p
      BY <1>6
    <3> HIDE DEF S
    <3>2. GoesThrough(Append(message, p), S \cup {p}, TRUE)
      BY <1>1, <2>2, <3>1, GoesFurther DEF S
    <3> QED
      BY <1>8, <1>9, <2>5, <3>2 DEF S
  <2>7. b \in 1 .. p /\ isText' = (stream[b].op = "text")
    BY <1>1, <1>8, <1>9, <2>1 DEF p
  <2> QED
    BY <2>2, <2>3, <2>4, <2>6, <2>7 DEF p
<1>10. CASE o # "continuation"
  <2>1. o \in {"text", "binary"} /\ stream[p].op = o
    BY <1>1, <1>10 DEF DataOps, o
  <2>2. Begins(p, p)
    BY <1>1, <2>1 DEF Begins
  <2>3. OpenParts(pos) = {}
    BY <1>5, <1>10 DEF InMessage
  <2>4. {j \in Data(p) : j >= p} = {p}
    BY <1>1, <1>6
  <2>5. GoesThrough(<<p>>, {p}, TRUE)
    BY <1>1 DEF GoesThrough
  <2>6. p \in p .. p
    BY <1>1
  <2> QED
    BY <1>1, <1>7, <1>8, <1>10, <2>1, <2>2, <2>3, <2>4, <2>5, <2>6 DEF p
<1> QED
  BY <1>9, <1>10

-----------------------------------------------------------------------------
(* What recv keeps between two frames is right after every step.           *)

\* FlagInv after a step that has read the frames up to n.
FlagAt(n) ==
    Running' =>
        /\ ~ cutShort' => Faults(n) = {} /\ (pc' = "idle" => ~ isContinuation')
        /\ Faults(n) = {} =>
              /\ isContinuation' = InMessage(n)
              /\ isContinuation' =>
                    \E b \in 1 .. n :
                        /\ Begins(b, n) /\ OpenParts(n) = {j \in Data(n) : j >= b}
                        /\ isText' = (stream[b].op = "text")
                        /\ \E f \in b .. n + 1 :
                              /\ GoesThrough(message', {j \in Data(n) : j >= f}, TRUE)
                              /\ ~ cutShort' => f = b

LEMMA FlagAgain ==
    ASSUME TypeInv, PlaceInv, [Next]_vars, FlagAt(pos')
    PROVE  FlagInv'
<1>1. /\ Faults(pos)' = Faults(pos') /\ Data(pos)' = Data(pos')
      /\ OpenParts(pos)' = OpenParts(pos') /\ InMessage(pos)' = InMessage(pos')
      /\ \A b, e \in 1 .. pos' : Begins(b, e)' = Begins(b, e)
      /\ \A i \in 1 .. pos' : stream'[i] = stream[i]
  BY FramesRead
<1>2. pos' \in Nat
  BY StreamKept
<1> SUFFICES ASSUME Running'
             PROVE  /\ ~ cutShort' => Faults(pos)' = {} /\ (pc' = "idle" => ~ isContinuation')
                    /\ Faults(pos)' = {} =>
                          /\ isContinuation' = InMessage(pos)'
                          /\ isContinuation' =>
                                \E b \in 1 .. pos' :
                                   /\ OpenFrom(b)'
                                   /\ isText' = (stream'[b].op = "text")
                                   /\ \E f \in b .. pos' + 1 :
                                         /\ GoesThrough(message', {j \in Data(pos)' : j >= f}, TRUE)
                                         /\ ~ cutShort' => f = b
  BY DEF FlagInv
<1>3. ~ cutShort' => Faults(pos)' = {} /\ (pc' = "idle" => ~ isContinuation')
  BY <1>1 DEF FlagAt
<1>4. ASSUME Faults(pos)' = {}
      PROVE  isContinuation' = InMessage(pos)'
  BY <1>1, <1>4 DEF FlagAt
<1>5. ASSUME Faults(pos)' = {}, isContinuation'
      PROVE  \E b \in 1 .. pos' :
                /\ OpenFrom(b)'
                /\ isText' = (stream'[b].op = "text")
                /\ \E f \in b .. pos' + 1 :
                      /\ GoesThrough(message', {j \in Data(pos)' : j >= f}, TRUE)
                      /\ ~ cutShort' => f = b
  <2>1. PICK b \in 1 .. pos' :
          /\ Begins(b, pos') /\ OpenParts(pos') = {j \in Data(pos') : j >= b}
          /\ isText' = (stream[b].op = "text")
          /\ \E f \in b .. pos' + 1 :
                /\ GoesThrough(message', {j \in Data(pos') : j >= f}, TRUE)
                /\ ~ cutShort' => f = b
    BY <1>1, <1>5 DEF FlagAt
  <2>2. pos' \in 1 .. pos'
    BY <1>2
  <2>3. OpenFrom(b)'
    BY <1>1, <2>1, <2>2 DEF OpenFrom
  <2> QED
    BY <1>1, <2>1, <2>3
<1> QED
  BY <1>3, <1>4, <1>5

LEMMA FlagStep ==
    ASSUME TypeInv, PlaceInv, FlagInv, [Next]_vars
    PROVE  FlagInv'
<1>0. pos \in Nat
  BY StreamKept
<1>1. CASE PeerSends \/ UNCHANGED <<stream, pos, sockfd, pc, recvVars, written, cutShort>>
  <2>1. UNCHANGED <<pos, sockfd, pc, recvVars, cutShort>>
    BY <1>1 DEF PeerSends
  <2>2. FlagAt(pos)
    BY <2>1 DEF FlagInv, FlagAt, Running, recvVars, OpenFrom
  <2> QED
    BY <2>1, <2>2, FlagAgain
<1>2. CASE RecvCall
  <2>1. /\ pc = "idle" /\ pc' = "recv" /\ Running /\ message' = <<>>
        /\ UNCHANGED <<pos, isContinuation, isText, cutShort>>
    BY <1>2 DEF RecvCall, Running
  <2>2. ASSUME Faults(pos) = {}, isContinuation
        PROVE  \E b \in 1 .. pos :
                 /\ Begins(b, pos) /\ OpenParts(pos) = {j \in Data(pos) : j >= b}
                 /\ isText = (stream[b].op = "text")
                 /\ \E f \in b .. pos + 1 :
                       /\ GoesThrough(<<>>, {j \in Data(pos) : j >= f}, TRUE)
                       /\ ~ cutShort => f = b
    <3>1. cutShort
      BY <2>1, <2>2 DEF FlagInv
    <3>2. PICK b \in 1 .. pos : OpenFrom(b) /\ isText = (stream[b].op = "text")
      BY <2>1, <2>2 DEF FlagInv
    <3>3. {j \in Data(pos) : j >= pos + 1} = {}
      BY <1>0 DEF Data
    <3>4. pos + 1 \in b .. pos + 1
      BY <1>0
    <3> QED
      BY <3>1, <3>2, <3>3, <3>4, GoesNowhere DEF OpenFrom
  <2>3. FlagAt(pos)
    BY <2>1, <2>2 DEF FlagAt, FlagInv
  <2> QED
    BY <2>1, <2>3, FlagAgain
<1>3. CASE RecvTimeout
  <2>1. /\ Running /\ cutShort' = (cutShort \/ isContinuation)
        /\ UNCHANGED <<pos, isContinuation, isText, message>>
    BY <1>3 DEF RecvTimeout, Running, PlaceInv, recvVars
  <2>2. FlagAt(pos)
    BY <2>1 DEF FlagInv, FlagAt, OpenFrom
  <2> QED
    BY <2>1, <2>2, FlagAgain
<1>4. CASE RecvData
  <2>1. /\ pc = "recv" /\ sockfd = "open" /\ HasFrame /\ RecvError(NextFrame) = 0
        /\ Running /\ pos' = pos + 1 /\ NextFrame.op \in DataOps
        /\ isContinuation' = ~ NextFrame.fin /\ cutShort' = cutShort
        /\ pc' = "idle" => NextFrame.fin
    BY <1>4 DEF RecvData, PlaceInv, Running
  <2>2. ~ cutShort => Faults(pos + 1) = {}
    <3>1. ASSUME ~ cutShort
          PROVE  Faults(pos) = {} /\ Fault(pos + 1) = 0
      BY <2>1, <3>1, JudgedRight DEF FlagInv
    <3> QED
      BY <1>0, <3>1, FaultsNext
  <2>3. ASSUME Faults(pos + 1) = {}
        PROVE  /\ isContinuation' = InMessage(pos + 1)
               /\ isContinuation' =>
                   \E b \in 1 .. pos + 1 :
                       /\ Begins(b, pos + 1)
                       /\ OpenParts(pos + 1) = {j \in Data(pos + 1) : j >= b}
                       /\ isText' = (stream[b].op = "text")
                       /\ \E f \in b .. pos + 1 + 1 :
                            /\ GoesThrough(message', {j \in Data(pos + 1) : j >= f}, TRUE)
                            /\ ~ cutShort => f = b
    <3>1. PICK b \in 1 .. pos + 1 :
              /\ Begins(b, pos + 1)
              /\ isText' = (stream[b].op = "text")
              /\ OpenParts(pos + 1) =
                    IF NextFrame.fin THEN {} ELSE {j \in Data(pos + 1) : j >= b}
              /\ \E f \in b .. pos + 1 :
                    /\ GoesThrough(message', {j \in Data(pos + 1) : j >= f}, TRUE)
                    /\ ~ cutShort => f = b
      BY <1>4, <2>3, FragmentStep
    <3>2. pos + 1 \in {j \in Data(pos + 1) : j >= b}
      BY <1>0, <2>1 DEF Data, NextFrame
    <3>3. NextFrame.fin \in BOOLEAN
      BY <2>1, NextFrameType, PeerFrameCases
    <3>4. isContinuation' = InMessage(pos + 1)
      <4>1. CASE NextFrame.fin
        <5>1. OpenParts(pos + 1) = {} /\ isContinuation' = FALSE
          BY <2>1, <3>1, <4>1
        <5> QED
          BY <5>1 DEF InMessage
      <4>2. CASE ~ NextFrame.fin
        <5>1. OpenParts(pos + 1) # {} /\ isContinuation' = TRUE
          BY <2>1, <3>1, <3>2, <4>2
        <5> QED
          BY <5>1 DEF InMessage
      <4> QED
        BY <3>3, <4>1, <4>2
    <3>5. \A f \in b .. pos + 1 : f \in b .. pos + 1 + 1
      BY <1>0
    <3> QED
      BY <2>1, <3>1, <3>4, <3>5
  <2>4. FlagAt(pos + 1)
    BY <2>1, <2>2, <2>3 DEF FlagAt
  <2> QED
    BY <2>1, <2>4, FlagAgain
<1>5. CASE ReadsControl
  <2>1. /\ Running /\ pos' = pos + 1 /\ HasFrame
        /\ NextFrame.op \in ControlOps /\ RecvError(NextFrame) = 0
        /\ NextFrame = stream[pos + 1] /\ pc = "recv"
        /\ UNCHANGED <<pc, sockfd, isContinuation, isText, message, cutShort>>
    BY <1>5 DEF ReadsControl, PlaceInv, Running, recvVars, ControlOps, NextFrame
  <2>2. Fault(pos + 1) = 0 /\ stream[pos + 1].op \notin DataOps
    BY <2>1, ControlInOrder
  <2>3. /\ Faults(pos + 1) = Faults(pos) /\ Data(pos + 1) = Data(pos)
        /\ OpenParts(pos + 1) = OpenParts(pos) /\ InMessage(pos + 1) = InMessage(pos)
    BY <1>0, <2>2, FaultsNext, DataNext, OpenPartsNext DEF InMessage
  <2>4. \A b \in 1 .. pos : OpenFrom(b) => Begins(b, pos + 1)
    BY <1>0, <2>2, BeginsNext DEF OpenFrom, DataOps
  <2>5. ASSUME Faults(pos) = {}, isContinuation
        PROVE  \E b \in 1 .. pos + 1 :
                 /\ Begins(b, pos + 1) /\ OpenParts(pos) = {j \in Data(pos) : j >= b}
                 /\ isText = (stream[b].op = "text")
                 /\ \E f \in b .. pos + 1 + 1 :
                       /\ GoesThrough(message, {j \in Data(pos) : j >= f}, TRUE)
                       /\ ~ cutShort => f = b
    <3>1. PICK b \in 1 .. pos :
            /\ OpenFrom(b) /\ isText = (stream[b].op = "text")
            /\ \E f \in b .. pos + 1 :
                  /\ GoesThrough(message, {j \in Data(pos) : j >= f}, TRUE)
                  /\ ~ cutShort => f = b
      BY <2>1, <2>5 DEF FlagInv
    <3>2. b \in 1 .. pos + 1 /\ \A f \in b .. pos + 1 : f \in b .. pos + 1 + 1
      BY <1>0
    <3> QED
      BY <2>4, <3>1, <3>2 DEF OpenFrom
  <2>6. FlagAt(pos + 1)
    BY <2>1, <2>3, <2>5 DEF FlagAt, FlagInv
  <2> QED
    BY <2>1, <2>6, FlagAgain
<1>6. CASE Stops
  BY <1>6 DEF Stops, FlagInv, Running
<1> QED
  BY <1>1, <1>2, <1>3, <1>4, <1>5, <1>6, NextCases

-----------------------------------------------------------------------------
(* The messages that recv returned are right after every step.             *)

\* The positions among the first n at which messages end.
EndsAt(n) == {i \in 1 .. n : /\ \A j \in 1 .. i : Fault(j) = 0
                             /\ stream[i].op \in DataOps /\ stream[i].fin}

LEMMA EndsNow == Ends = EndsAt(pos)
BY DEF Ends, EndsAt, InOrder

LEMMA EndsNext ==
    ASSUME NEW n \in Nat
    PROVE  /\ EndsAt(n + 1) = EndsAt(n) \/ EndsAt(n + 1) = EndsAt(n) \cup {n + 1}
           /\ stream[n + 1].op \notin DataOps \/ ~ stream[n + 1].fin
                => EndsAt(n + 1) = EndsAt(n)
           /\ stream[n + 1].op \in DataOps /\ stream[n + 1].fin /\ Faults(n + 1) = {}
                => EndsAt(n + 1) = EndsAt(n) \cup {n + 1}
           /\ EndsAt(n) \in SUBSET Nat /\ \A j \in EndsAt(n) : j < n + 1
           /\ Faults(n + 1) = {} => Faults(n) = {}
<1>1. \A i \in 1 .. n : i \in 1 .. n + 1 /\ i # n + 1
  OBVIOUS
<1>2. \A i \in 1 .. n + 1 : i \in 1 .. n \/ i = n + 1
  OBVIOUS
<1>3. Faults(n + 1) = {} => \A j \in 1 .. n + 1 : Fault(j) = 0
  BY DEF Faults
<1>4. EndsAt(n) \subseteq EndsAt(n + 1) /\ EndsAt(n + 1) \subseteq EndsAt(n) \cup {n + 1}
  BY <1>1, <1>2 DEF EndsAt
<1>5. n + 1 \in EndsAt(n + 1) <=> /\ \A j \in 1 .. n + 1 : Fault(j) = 0
                                 /\ stream[n + 1].op \in DataOps /\ stream[n + 1].fin
  BY DEF EndsAt
<1>6. EndsAt(n) \in SUBSET Nat /\ \A j \in EndsAt(n) : j < n + 1
  BY DEF EndsAt
<1>7. Faults(n + 1) = {} => Faults(n) = {}
  BY FaultsNext
<1> QED
  BY <1>3, <1>4, <1>5, <1>6, <1>7

\* ReceivedInv after a step that has read the frames up to n.
ReceivedAt(n) ==
    ~ cutShort' \/ Faults(n) = {} =>
        /\ \A k \in DOMAIN received' :
              /\ received'[k].parts # <<>>
              /\ \E f \in 1 .. ReceivedEnds'[k] :
                    /\ IsFrom(received'[k], f, ReceivedEnds'[k])
                    /\ ~ cutShort' => Begins(f, ReceivedEnds'[k])
        /\ GoesThrough(ReceivedEnds', EndsAt(n), Running')

\* What is said of a message that has ended is said of it after a step.
LEMMA MessageKept ==
    ASSUME TypeInv, PlaceInv, [Next]_vars,
           NEW m, NEW e \in 1 .. pos', NEW f \in 1 .. e
    PROVE  IsFrom(m, f, e)' = IsFrom(m, f, e) /\ Begins(f, e)' = Begins(f, e)
<1>1. /\ \A b \in 1 .. pos' : Begins(b, e)' = Begins(b, e)
      /\ Data(e)' = Data(e) /\ \A i \in 1 .. pos' : stream'[i] = stream[i]
  BY FramesRead
<1>2. pos' \in Nat
  BY StreamKept
<1>3. \A b \in 1 .. f : b \in 1 .. pos'
  BY <1>2
<1>4. f \in 1 .. pos'
  BY <1>2
<1> QED
  BY <1>1, <1>3, <1>4 DEF IsFrom

LEMMA ReceivedAgain ==
    ASSUME TypeInv, PlaceInv, [Next]_vars, ReceivedAt(pos')
    PROVE  ReceivedInv'
<1>1. /\ Faults(pos)' = Faults(pos')
      /\ InOrder' = {i \in 1 .. pos' : \A j \in 1 .. i : Fault(j) = 0}
      /\ \A b, e \in 1 .. pos' : Begins(b, e)' = Begins(b, e)
      /\ \A e \in 1 .. pos' : Data(e)' = Data(e)
      /\ \A i \in 1 .. pos' : stream'[i] = stream[i]
  BY FramesRead
<1>2. pos' \in Nat
  BY StreamKept
<1>3. Ends' = EndsAt(pos')
  BY <1>1 DEF Ends, EndsAt
<1> SUFFICES ASSUME ~ cutShort' \/ Faults(pos') = {}
             PROVE  /\ \A k \in DOMAIN received' :
                         /\ received'[k].parts # <<>>
                         /\ \E f \in 1 .. ReceivedEnds'[k] :
                              /\ IsFrom(received[k], f, ReceivedEnds[k])'
                              /\ ~ cutShort' => Begins(f, ReceivedEnds[k])'
                    /\ GoesThrough(ReceivedEnds', EndsAt(pos'), Running')
  BY <1>1, <1>3 DEF ReceivedInv
<1>4. GoesThrough(ReceivedEnds', EndsAt(pos'), Running')
  BY DEF ReceivedAt
<1>5. ASSUME NEW k \in DOMAIN received'
      PROVE  /\ received'[k].parts # <<>>
             /\ \E f \in 1 .. ReceivedEnds'[k] :
                  /\ IsFrom(received[k], f, ReceivedEnds[k])'
                  /\ ~ cutShort' => Begins(f, ReceivedEnds[k])'
  <2>1. ReceivedEnds'[k] \in 1 .. pos'
    <3>1. DOMAIN (ReceivedEnds') = DOMAIN received'
      BY DEF ReceivedEnds
    <3>2. ReceivedEnds'[k] \in EndsAt(pos')
      BY <1>4, <3>1 DEF GoesThrough
    <3> QED
      BY <3>2 DEF EndsAt
  <2>2. PICK e \in 1 .. pos' : e = ReceivedEnds'[k]
    BY <2>1
  <2>3. PICK m : m = received'[k]
    OBVIOUS
  <2>4. PICK f \in 1 .. e : IsFrom(m, f, e) /\ (~ cutShort' => Begins(f, e))
    BY <2>2, <2>3 DEF ReceivedAt
  <2>5. IsFrom(m, f, e)' /\ (~ cutShort' => Begins(f, e)')
    BY <2>4, MessageKept
  <2>6. IsFrom(received[k], f, ReceivedEnds[k])' /\ (~ cutShort' => Begins(f, ReceivedEnds[k])')
    BY <2>2, <2>3, <2>5 DEF IsFrom, Begins
  <2> QED
    BY <2>2, <2>4, <2>6 DEF ReceivedAt
<1> QED
  BY <1>4, <1>5

LEMMA LastPart ==
    ASSUME NEW s \in Seq(Positions), NEW x \in Positions
    PROVE  /\ Append(s, x) # <<>> /\ Last(Append(s, x)) = x
           /\ <<x>> # <<>> /\ Last(<<x>>) = x
BY DEF Last

LEMMA ReceivedStep ==
    ASSUME TypeInv, PlaceInv, FlagInv, ReceivedInv, [Next]_vars
    PROVE  ReceivedInv'
<1>0. pos \in Nat /\ pos' \in Nat
  BY StreamKept
<1>1. ASSUME UNCHANGED <<pos, received>>, Running' = Running, cutShort => cutShort'
      PROVE  ReceivedInv'
  <2>1. ReceivedEnds' = ReceivedEnds
    BY <1>1 DEF ReceivedEnds
  <2>2. ReceivedAt(pos)
    BY <1>1, <2>1, EndsNow DEF ReceivedInv, ReceivedAt
  <2> QED
    BY <1>1, <2>2, ReceivedAgain
<1>2. CASE PeerSends \/ UNCHANGED <<stream, pos, sockfd, pc, recvVars, written, cutShort>>
  BY <1>1, <1>2 DEF PeerSends, recvVars, Running
<1>3. CASE RecvCall
  BY <1>1, <1>3 DEF RecvCall, Running
<1>4. CASE RecvTimeout
  BY <1>1, <1>4 DEF RecvTimeout, recvVars, Running, Return
<1>5. ASSUME UNCHANGED <<received, cutShort>>, pos' = pos + 1, Running' = Running,
             EndsAt(pos + 1) = EndsAt(pos)
      PROVE  ReceivedInv'
  <2>1. ReceivedEnds' = ReceivedEnds
    BY <1>5 DEF ReceivedEnds
  <2>2. Faults(pos + 1) = {} => Faults(pos) = {}
    BY <1>0, EndsNext
  <2>3. ReceivedAt(pos + 1)
    BY <1>5, <2>1, <2>2, EndsNow DEF ReceivedInv, ReceivedAt
  <2> QED
    BY <1>5, <2>3, ReceivedAgain
<1>6. CASE ReadsControl
  <2>1. /\ pos' = pos + 1 /\ stream[pos + 1].op \notin DataOps
        /\ UNCHANGED <<received, cutShort, pc, sockfd>>
    BY <1>6 DEF ReadsControl, recvVars, NextFrame, DataOps
  <2>2. EndsAt(pos + 1) = EndsAt(pos)
    BY <1>0, <2>1, EndsNext
  <2> QED
    BY <1>5, <2>1, <2>2 DEF Running
<1>7. CASE Stops
  <2>1. /\ UNCHANGED <<received, cutShort>> /\ Running' = FALSE
        /\ pos' = pos \/ pos' = pos + 1
    BY <1>7 DEF Stops, recvVars, Running
  <2>2. ReceivedEnds' = ReceivedEnds
    BY <2>1 DEF ReceivedEnds
  <2>3. Faults(pos') = {} => Faults(pos) = {}
    BY <1>0, <2>1, EndsNext
  <2>4. /\ EndsAt(pos) \in SUBSET Nat /\ EndsAt(pos) \subseteq EndsAt(pos')
        /\ EndsAt(pos') \in SUBSET Nat
        /\ \A i \in EndsAt(pos') \ EndsAt(pos) : \A j \in EndsAt(pos) : j < i
    BY <1>0, <2>1, EndsNext
  <2>5. GoesThrough(ReceivedEnds, EndsAt(pos), Running)
          => GoesThrough(ReceivedEnds, EndsAt(pos'), FALSE)
    <3>1. Running \in BOOLEAN
      BY DEF Running
    <3> QED
      BY <2>4, <3>1, GoesOn
  <2>6. ReceivedAt(pos')
    BY <2>1, <2>2, <2>3, <2>5, EndsNow DEF ReceivedInv, ReceivedAt
  <2> QED
    BY <2>6, ReceivedAgain
<1>8. CASE RecvData
  <2> DEFINE p == pos + 1
  <2>1. /\ pc = "recv" /\ sockfd = "open" /\ HasFrame /\ RecvError(NextFrame) = 0
        /\ Running /\ Running' /\ pos' = p /\ NextFrame.op \in DataOps
        /\ NextFrame = stream[p] /\ cutShort' = cutShort
    BY <1>8 DEF RecvData, PlaceInv, Running, NextFrame, Return
  <2>2. NextFrame.fin \in BOOLEAN /\ p \in Positions
    BY <2>1, NextFrameType, PeerFrameCases
  <2>3. CASE ~ NextFrame.fin
    <3>1. EndsAt(p) = EndsAt(pos)
      BY <1>0, <2>1, <2>3, EndsNext
    <3>2. received' = received
      BY <1>8, <2>3 DEF RecvData
    <3> QED
      BY <1>5, <2>1, <3>1, <3>2
  <2>4. CASE NextFrame.fin
    <3> DEFINE text == IF NextFrame.op = "continuation" THEN isText ELSE NextFrame.op = "text"
               m == [type |-> IF text THEN "text" ELSE "binary",
                     parts |-> IF NextFrame.op = "continuation" THEN Append(message, p)
                               ELSE <<p>>]
    <3>1. received' = Append(received, m) /\ isText' = text /\ message' = m.parts
      BY <1>8, <2>4 DEF RecvData
    <3>2. m.parts # <<>> /\ Last(m.parts) = p
      BY <2>2, LastPart DEF TypeInv, TypeOK
    <3>3. m.type = IF text THEN "text" ELSE "binary"
      OBVIOUS
    <3> HIDE DEF m, text
    <3>4. /\ DOMAIN received = 1 .. Len(received) /\ Len(received) \in Nat
          /\ DOMAIN received' = 1 .. Len(received) + 1
          /\ received'[Len(received) + 1] = m
          /\ \A k \in DOMAIN received : received'[k] = received[k]
      BY <3>1 DEF TypeInv, TypeOK
    <3>5. /\ DOMAIN ReceivedEnds = 1 .. Len(received)
          /\ DOMAIN (ReceivedEnds') = DOMAIN ReceivedEnds \cup {Len(received) + 1}
          /\ ReceivedEnds'[Len(received) + 1] = p
          /\ \A k \in DOMAIN ReceivedEnds : ReceivedEnds'[k] = ReceivedEnds[k]
      BY <3>2, <3>4 DEF ReceivedEnds
    <3> SUFFICES ASSUME ~ cutShort \/ Faults(p) = {}
                 PROVE  /\ \A k \in DOMAIN received' :
                            /\ received'[k].parts # <<>>
                            /\ \E f \in 1 .. ReceivedEnds'[k] :
                                /\ IsFrom(received'[k], f, ReceivedEnds'[k])
                                /\ ~ cutShort => Begins(f, ReceivedEnds'[k])
                        /\ GoesThrough(ReceivedEnds', EndsAt(p), TRUE)
      BY <2>1, ReceivedAgain DEF ReceivedAt
    <3>6. Faults(pos) = {} /\ Faults(p) = {}
      <4>1. ASSUME ~ cutShort
            PROVE  Faults(pos) = {} /\ Fault(p) = 0
        BY <2>1, <4>1, JudgedRight DEF FlagInv
      <4>2. ~ cutShort => Faults(p) = {}
        BY <1>0, <4>1, FaultsNext
      <4> QED
        BY <1>0, <4>2, EndsNext
    <3>7. /\ \A k \in DOMAIN received :
               /\ received[k].parts # <<>>
               /\ \E f \in 1 .. ReceivedEnds[k] :
                    /\ IsFrom(received[k], f, ReceivedEnds[k])
                    /\ ~ cutShort => Begins(f, ReceivedEnds[k])
          /\ GoesThrough(ReceivedEnds, EndsAt(pos), TRUE)
      BY <2>1, <3>6, EndsNow DEF ReceivedInv
    <3>8. GoesThrough(ReceivedEnds', EndsAt(p), TRUE)
      <4>1. EndsAt(p) = EndsAt(pos) \cup {p} /\ EndsAt(pos) \in SUBSET Nat
            /\ \A j \in EndsAt(pos) : j < p
        BY <1>0, <2>1, <2>4, <3>6, EndsNext
      <4>2. /\ p \in Nat /\ Len(received) + 1 \in Nat /\ DOMAIN ReceivedEnds \subseteq Nat
            /\ \A k \in DOMAIN ReceivedEnds : k < Len(received) + 1
        BY <1>0, <3>4, <3>5
      <4> HIDE DEF p
      <4>3. PICK s, t, n, S, x : /\ s = ReceivedEnds /\ t = ReceivedEnds'
                                 /\ n = Len(received) + 1 /\ S = EndsAt(pos) /\ x = p
        OBVIOUS
      <4>4. /\ n \in Nat /\ DOMAIN s \subseteq Nat /\ DOMAIN t = DOMAIN s \cup {n} /\ t[n] = x
            /\ \A k \in DOMAIN s : k < n /\ t[k] = s[k]
        BY <3>5, <4>2, <4>3
      <4>5. /\ S \in SUBSET Nat /\ x \in Nat /\ \A j \in S : j < x
            /\ GoesThrough(s, S, TRUE)
        BY <3>7, <4>1, <4>2, <4>3
      <4>6. GoesThrough(t, S \cup {x}, TRUE)
        BY <4>4, <4>5, GoesBeyond
      <4> QED
        BY <4>1, <4>3, <4>6
    <3>9. \E f \in 1 .. p : IsFrom(m, f, p) /\ (~ cutShort => Begins(f, p))
      <4>1. PICK b \in 1 .. p :
              /\ Begins(b, p) /\ isText' = (stream[b].op = "text")
              /\ \E f \in b .. p :
                    /\ GoesThrough(message', {j \in Data(p) : j >= f}, TRUE)
                    /\ ~ cutShort => f = b
        BY <1>8, <3>6, FragmentStep
      <4>2. PICK f \in b .. p : /\ GoesThrough(message', {j \in Data(p) : j >= f}, TRUE)
                                /\ ~ cutShort => f = b
        BY <4>1
      <4>3. f \in 1 .. p /\ b \in 1 .. f
        BY <1>0, <4>2
      <4>4. stream[b].op \in {"text", "binary"}
        BY <4>1 DEF Begins
      <4>5. m.type = stream[b].op
        <5>1. text = (stream[b].op = "text")
          BY <3>1, <4>1
        <5>2. CASE stream[b].op = "text"
          BY <3>3, <5>1, <5>2
        <5>3. CASE stream[b].op = "binary"
          BY <3>3, <5>1, <5>3
        <5> QED
          BY <4>4, <5>2, <5>3
      <4>6. IsFrom(m, f, p)
        BY <3>1, <4>1, <4>2, <4>3, <4>5 DEF IsFrom
      <4> QED
        BY <4>1, <4>2, <4>3, <4>6
    <3>10. ASSUME NEW k \in DOMAIN received'
           PROVE  /\ received'[k].parts # <<>>
                  /\ \E f \in 1 .. ReceivedEnds'[k] :
                       /\ IsFrom(received'[k], f, ReceivedEnds'[k])
                       /\ ~ cutShort => Begins(f, ReceivedEnds'[k])
      <4>1. CASE k \in DOMAIN received
        <5>1. received'[k] = received[k] /\ ReceivedEnds'[k] = ReceivedEnds[k]
          BY <3>4, <3>5, <4>1
        <5> QED
          BY <3>7, <4>1, <5>1
      <4>2. CASE k = Len(received) + 1
        <5>1. received'[k] = m /\ ReceivedEnds'[k] = p
          BY <3>4, <3>5, <4>2
        <5> QED
          BY <3>2, <3>9, <5>1
      <4> QED
        BY <3>4, <4>1, <4>2
    <3> QED
      BY <3>8, <3>10
  <2> QED
    BY <2>2, <2>3, <2>4
<1> QED
  BY <1>2, <1>3, <1>4, <1>6, <1>7, <1>8, NextCases

-----------------------------------------------------------------------------
(* Every ping that was read is answered.                                   *)

Pongs == {k \in DOMAIN written : written[k].op = "pong"}

PongValues == [k \in Pongs |-> written[k].value]

\* The pings among the first n frames.
PingsAt(n) == {i \in 1 .. n : stream[i].op = "ping"}

LEMMA PingsNext ==
    ASSUME NEW n \in Nat
    PROVE  /\ PingsAt(n + 1) = IF stream[n + 1].op = "ping" THEN PingsAt(n) \cup {n + 1}
                               ELSE PingsAt(n)
           /\ PingsAt(n) \in SUBSET Nat /\ \A j \in PingsAt(n) : j < n + 1
BY DEF PingsAt

LEMMA PongStep ==
    ASSUME TypeInv, PlaceInv, PongsAnswerPings, [Next]_vars
    PROVE  PongsAnswerPings'
<1>0. pos \in Nat /\ pos' \in Nat
  BY StreamKept
<1>1. GoesThrough(PongValues, PingsAt(pos), Running)
  BY DEF PongsAnswerPings, PongValues, Pongs, Pings, PingsAt
<1>2. Pings' = PingsAt(pos')
  BY FramesRead DEF Pings, PingsAt
<1> SUFFICES GoesThrough(PongValues', PingsAt(pos'), Running')
  BY <1>2 DEF PongsAnswerPings, PongValues, Pongs
<1>3. /\ written \in Seq(Reply) /\ Len(written) \in Nat /\ DOMAIN written = 1 .. Len(written)
      /\ \A r : /\ DOMAIN Append(written, r) = DOMAIN written \cup {Len(written) + 1}
                /\ Append(written, r)[Len(written) + 1] = r
                /\ \A k \in DOMAIN written : Append(written, r)[k] = written[k]
  BY DEF TypeInv, TypeOK
<1>4. CASE UNCHANGED written /\ PingsAt(pos') = PingsAt(pos) /\ Running' = Running
  BY <1>1, <1>4 DEF PongValues, Pongs
<1>5. CASE PeerSends \/ UNCHANGED <<stream, pos, sockfd, pc, recvVars, written, cutShort>>
  BY <1>4, <1>5 DEF PeerSends, Running
<1>6. CASE RecvCall \/ RecvTimeout
  BY <1>4, <1>6 DEF RecvCall, RecvTimeout, Running, Return
<1>7. CASE RecvData
  <2>1. PingsAt(pos') = PingsAt(pos)
    BY <1>0, <1>7, PingsNext DEF RecvData, NextFrame, DataOps
  <2> QED
    BY <1>4, <1>7, <2>1 DEF RecvData, Running, Return, PlaceInv
<1>8. CASE ReadsControl
  <2>1. /\ Running /\ Running' /\ pos' = pos + 1 /\ NextFrame = stream[pos + 1]
    BY <1>8 DEF ReadsControl, Running, PlaceInv, NextFrame
  <2>2. CASE NextFrame.op # "ping"
    <3>1. PingsAt(pos') = PingsAt(pos)
      BY <1>0, <2>1, <2>2, PingsNext
    <3> QED
      BY <1>4, <1>8, <2>1, <2>2, <3>1 DEF ReadsControl
  <2>3. CASE NextFrame.op = "ping"
    <3> DEFINE x == pos + 1
               n == Len(written) + 1
    <3>1. written' = Append(written, PongMessage(x))
      BY <1>8, <2>3 DEF ReadsControl
    <3>2. PongMessage(x).op = "pong" /\ PongMessage(x).value = x
      BY DEF PongMessage
    <3>3. /\ DOMAIN written' = DOMAIN written \cup {n} /\ written'[n] = PongMessage(x)
          /\ \A k \in DOMAIN written : written'[k] = written[k]
      BY <1>3, <3>1
    <3>4. n \in Nat /\ x \in Nat /\ \A k \in DOMAIN written : k \in Nat /\ k < n
      BY <1>0, <1>3
    <3>5. PingsAt(pos') = PingsAt(pos) \cup {x} /\ PingsAt(pos) \in SUBSET Nat
          /\ \A j \in PingsAt(pos) : j < x
      BY <1>0, <2>1, <2>3, PingsNext
    <3> HIDE DEF x, n
    <3>6. Pongs' = Pongs \cup {n}
      BY <3>2, <3>3 DEF Pongs
    <3>7. /\ DOMAIN PongValues = Pongs /\ DOMAIN (PongValues') = Pongs \cup {n}
          /\ PongValues'[n] = x /\ \A k \in Pongs : PongValues'[k] = PongValues[k]
      <4>1. Pongs \subseteq DOMAIN written
        BY DEF Pongs
      <4> QED
        BY <3>2, <3>3, <3>6, <4>1 DEF PongValues
    <3>8. DOMAIN PongValues \subseteq Nat /\ \A k \in DOMAIN PongValues : k < n
      BY <3>4, <3>7 DEF Pongs
    <3>9. GoesThrough(PongValues, PingsAt(pos), TRUE)
      BY <1>1, <2>1
    <3>10. GoesThrough(PongValues', PingsAt(pos) \cup {x}, TRUE)
      <4>1. PICK s, t, S : s = PongValues /\ t = PongValues' /\ S = PingsAt(pos)
        OBVIOUS
      <4>2. /\ DOMAIN s \subseteq Nat /\ DOMAIN t = DOMAIN s \cup {n} /\ t[n] = x
            /\ \A k \in DOMAIN s : k < n /\ t[k] = s[k]
        BY <3>7, <3>8, <4>1
      <4>3. /\ S \in SUBSET Nat /\ \A j \in S : j < x
            /\ GoesThrough(s, S, TRUE)
        BY <3>5, <3>9, <4>1
      <4>4. GoesThrough(t, S \cup {x}, TRUE)
        BY <3>4, <4>2, <4>3, GoesBeyond
      <4> QED
        BY <4>1, <4>4
    <3> QED
      BY <2>1, <3>5, <3>10
  <2> QED
    BY <2>2, <2>3
<1>9. CASE Stops
  <2>1. Running' = FALSE /\ (pos' = pos \/ pos' = pos + 1)
    BY <1>9 DEF Stops, Running
  <2>2. PongValues' = PongValues
    <3>1. CASE written' = written
      BY <3>1 DEF PongValues, Pongs
    <3>2. ASSUME NEW code \in Nat, written' = Append(written, CloseMessage(code))
          PROVE  PongValues' = PongValues
      <4>1. CloseMessage(code).op # "pong"
        BY DEF CloseMessage
      <4>2. /\ DOMAIN written' = DOMAIN written \cup {Len(written) + 1}
            /\ written'[Len(written) + 1] = CloseMessage(code)
            /\ \A k \in DOMAIN written : written'[k] = written[k]
        BY <1>3, <3>2
      <4>3. Pongs' = Pongs
        BY <4>1, <4>2 DEF Pongs
      <4>4. \A k \in Pongs : written'[k].value = written[k].value
        BY <4>2 DEF Pongs
      <4> QED
        BY <4>3, <4>4 DEF PongValues
    <3> QED
      BY <1>9, <3>1, <3>2 DEF Stops
  <2>3. /\ PingsAt(pos) \in SUBSET Nat /\ PingsAt(pos) \subseteq PingsAt(pos')
        /\ PingsAt(pos') \in SUBSET Nat
        /\ \A i \in PingsAt(pos') \ PingsAt(pos) : \A j \in PingsAt(pos) : j < i
    BY <1>0, <2>1, PingsNext
  <2>4. Running \in BOOLEAN
    BY DEF Running
  <2>5. GoesThrough(PongValues, PingsAt(pos'), FALSE)
    BY <1>1, <2>3, <2>4, GoesOn
  <2> QED
    BY <2>1, <2>2, <2>5
<1> QED
  BY <1>5, <1>6, <1>7, <1>8, <1>9, NextCases

-----------------------------------------------------------------------------
(* The theorems.                                                           *)

\* What recv keeps, holds as long as the program runs.
THEOREM IInvHolds == Spec => []IInv
<1>1. Init => IInv
  <2> SUFFICES ASSUME Init
               PROVE  IInv
    OBVIOUS
  <2>1. TypeOK /\ Len(stream) <= MaxFrames /\ PlaceInv
    <3>1. /\ <<>> \in Seq(Frames) /\ <<>> \in Seq(Positions) /\ <<>> \in Seq(Reply)
          /\ <<>> \in Seq(Message) /\ Len(<<>>) = 0 /\ 0 <= MaxFrames
      BY ReceiverBoundsAssumption
    <3>2. /\ stream = <<>> /\ pos = 0 /\ message = <<>> /\ written = <<>> /\ received = <<>>
          /\ sockfd = "open" /\ pc = "idle"
      BY DEF Init
    <3>3. /\ gone \in BOOLEAN /\ isContinuation \in BOOLEAN /\ isText \in BOOLEAN
          /\ cutShort \in BOOLEAN
      BY DEF Init
    <3>4. pos \in 0 .. Len(stream)
      BY <3>1, <3>2
    <3> QED
      BY <3>1, <3>2, <3>3, <3>4 DEF TypeOK, PlaceInv
  <2>2. Faults(0) = {} /\ Data(0) = {}
    BY DEF Faults, Data
  <2>3. InMessage(0) = FALSE
    BY <2>2 DEF InMessage, OpenParts
  <2>4. FlagInv
    <3>1. pos = 0 /\ isContinuation = FALSE
      BY DEF Init
    <3>2. isContinuation = InMessage(pos) /\ Faults(pos) = {}
      BY <2>2, <2>3, <3>1
    <3> QED
      BY <3>1, <3>2 DEF FlagInv
  <2>5. Ends = {} /\ Pings = {}
    BY DEF Init, Ends, InOrder, Pings
  <2>6. ReceivedEnds = <<>> /\ DOMAIN received = {}
    BY DEF Init, ReceivedEnds
  <2>7. ReceivedInv
    BY <2>5, <2>6 DEF ReceivedInv, GoesThrough
  <2>8. PongsAnswerPings
    BY <2>5 DEF Init, PongsAnswerPings, GoesThrough
  <2> QED
    BY <2>1, <2>4, <2>7, <2>8 DEF IInv
<1>2. IInv /\ [Next]_vars => IInv'
  <2> SUFFICES ASSUME IInv, [Next]_vars
               PROVE  IInv'
    OBVIOUS
  <2>1. TypeInv /\ PlaceInv /\ FlagInv /\ ReceivedInv /\ PongsAnswerPings
    BY DEF IInv, TypeInv
  <2>2. TypeInv' /\ PlaceInv'
    BY <2>1, TypeStep
  <2>3. FlagInv'
    BY <2>1, FlagStep
  <2>4. ReceivedInv'
    BY <2>1, ReceivedStep
  <2>5. PongsAnswerPings'
    BY <2>1, PongStep
  <2> QED
    BY <2>2, <2>3, <2>4, <2>5 DEF IInv, TypeInv
<1> QED
  BY <1>1, <1>2, PTL DEF Spec

\* The variables of recv and of the peer have their types.
THEOREM TypeCorrect == Spec => []TypeOK
<1>1. IInv => TypeOK
  BY DEF IInv
<1> QED
  BY <1>1, IInvHolds, PTL

\* recv returns each message of the peer whole, with its type, in order.
THEOREM MessagesAreWhole == Spec => []WholeMessages
<1>1. IInv => WholeMessages
  <2> SUFFICES ASSUME ReceivedInv, ~ cutShort
               PROVE  /\ \A k \in DOMAIN received :
                           /\ received[k].parts # <<>>
                           /\ IsWhole(received[k], ReceivedEnds[k])
                      /\ GoesThrough(ReceivedEnds, Ends, Running)
    BY DEF IInv, WholeMessages
  <2> QED
    BY DEF ReceivedInv, IsWhole
<1> QED
  BY <1>1, IInvHolds, PTL

\* A recv that times out between fragments harms that message and no other.
THEOREM TimeoutHarmIsLocal == Spec => []DamageIsLocal
<1>1. IInv => DamageIsLocal
  BY DEF IInv, ReceivedInv, DamageIsLocal
<1> QED
  BY <1>1, IInvHolds, PTL

\* Every ping is answered once, in order, with its own payload.
THEOREM PingsAreAnswered == Spec => []PongsAnswerPings
<1>1. IInv => PongsAnswerPings
  BY DEF IInv
<1> QED
  BY <1>1, IInvHolds, PTL

\* A step of recv that reads a frame judges it by the rules recv enforces.
LEMMA JudgesStep ==
    ASSUME IInv, Next
    PROVE  JudgesFrame
<1> SUFFICES ASSUME pc = "recv", pos' # pos, ~ cutShort
             PROVE  JudgesFrame
  BY DEF JudgesFrame
<1> USE DEF JudgesFrame
<1>1. TypeInv /\ PlaceInv /\ FlagInv /\ sockfd = "open"
  BY DEF IInv, TypeInv, PlaceInv
<1>2. RecvData \/ RecvPing \/ RecvPong \/ RecvClose \/ RecvInvalid
  BY DEF Next, PeerSends, PeerGoes, RecvCall, RecvTimeout, RecvEnd, CloseCall,
         WaitReplyFrame, WaitReplyEnds
<1>3. HasFrame
  BY <1>2 DEF RecvData, RecvPing, RecvPong, RecvClose, RecvInvalid
<1>4. RecvError(NextFrame) = Fault(pos + 1)
  BY <1>1, <1>3, JudgedRight
<1>5. CASE RecvData
  BY <1>1, <1>4, <1>5 DEF RecvData, Return, DataOps
<1>6. CASE RecvPing
  BY <1>1, <1>4, <1>6 DEF RecvPing, Return, SendOutcomes
<1>7. CASE RecvPong
  BY <1>1, <1>4, <1>7 DEF RecvPong
<1>8. CASE RecvClose
  <2>1. NextFrame.len = 2 => CloseCodeOf(NextFrame) = NextFrame.code
    BY DEF CloseCodeOf
  <2>2. FALSE \in SendOutcomes => gone
    BY DEF SendOutcomes
  <2>3. /\ Fault(pos + 1) = 0 /\ NextFrame.op = "close" /\ sockfd' = "closed"
        /\ \/ written' = Append(written, CloseMessage(CloseCodeOf(NextFrame)))
           \/ FALSE \in SendOutcomes /\ written' = written
    BY <1>4, <1>8 DEF RecvClose
  <2> QED
    BY <2>1, <2>2, <2>3
<1>9. CASE RecvInvalid
  BY <1>4, <1>9 DEF RecvInvalid, CloseWithHandshake, SendOutcomes, Return
<1> QED
  BY <1>2, <1>5, <1>6, <1>7, <1>8, <1>9

(***************************************************************************)
(* By one flag and its buffer recv applies the rules on masks, opcodes,    *)
(* lengths and fragments to whatever frames any peer sends, and no other:  *)
(* frames that only break a rule it does not look at are taken.            *)
(***************************************************************************)
THEOREM FramesAreJudged == Spec => JudgesFrames
<1>1. IInv /\ [Next]_vars => [JudgesFrame]_vars
  BY JudgesStep
<1> QED
  BY <1>1, IInvHolds, PTL DEF Spec, JudgesFrames
=============================================================================
