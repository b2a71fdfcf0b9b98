--------------------- MODULE WebSocketConnectionProofs ---------------------
(***************************************************************************)
(* Proofs about WebSocketConnection, for every bound and every choice of   *)
(* the endpoints that crash or are reset: type correctness, that nothing   *)
(* follows a Close frame, that recv returns the messages in order and has  *)
(* returned all of them when it reports kRecvClosed, and that a connection *)
(* implements MessageChannel.                                              *)
(***************************************************************************)
EXTENDS WebSocketConnection, TLAPS

LEMMA PeerIsEndpoint == \A e \in Endpoint : Peer(e) \in Endpoint /\ Peer(e) # e
  BY DEF Endpoint, Peer

-----------------------------------------------------------------------------
(* The operations on the TCP connection keep its types.                    *)

\* A write of a frame, or its failure, keeps the types of the connection.
LEMMA WriteType ==
  ASSUME TcpTypeOK, NEW e \in Endpoint, NEW f \in Frame, Write(e, f) \/ WriteFails(e)
  PROVE  TcpTypeOK'
  <1>1. CASE Write(e, f)
    <2>1. CASE sockfd[Peer(e)] = "open"
      <3>1. Append(inbox[Peer(e)], f) \in Seq(Frame)
        BY PeerIsEndpoint DEF TcpTypeOK
      <3>2. inbox' \in [Endpoint -> Seq(Frame)]
        BY <1>1, <2>1, <3>1 DEF Write, TcpTypeOK
      <3> QED  BY <1>1, <2>1, <3>2 DEF Write, TcpTypeOK
    <2>2. CASE sockfd[Peer(e)] # "open"
      BY <1>1, <2>2 DEF Write, TcpTypeOK
    <2> QED  BY <2>1, <2>2
  <1>2. CASE WriteFails(e)
    BY <1>2 DEF WriteFails, ErrorReported, TcpTypeOK
  <1> QED  BY <1>1, <1>2

\* Reading a frame, or failing to, keeps the types of the connection.
LEMMA ReadType ==
  ASSUME TypeOK, NEW e \in Endpoint, NEW f \in Inputs(e), ReadMessage(e, f)
  PROVE  TcpTypeOK' /\ spurious' \in [Endpoint -> BOOLEAN] /\ f.id \in Nat
  <1> USE DEF TypeOK, TcpTypeOK, HistoryTypeOK
  <1>1. CASE NextInput(e) = "frame"
    <2>1. inbox[e] \in Seq(Frame) /\ inbox[e] # <<>>
      BY <1>1 DEF NextInput
    <2>2. Head(inbox[e]) \in Frame /\ Tail(inbox[e]) \in Seq(Frame)
      BY <2>1
    <2>3. f = Head(inbox[e]) /\ inbox' = [inbox EXCEPT ![e] = Tail(@)]
          /\ UNCHANGED <<rst, spurious, sockfd, eof>>
      BY <1>1 DEF ReadMessage
    <2> QED  BY <2>2, <2>3 DEF Frame
  <1>2. CASE NextInput(e) = "error"
    <2>1. f.id = 0 /\ ErrorReported(e) /\ UNCHANGED <<inbox, sockfd, eof>>
          /\ (spurious' = spurious \/ spurious' = [spurious EXCEPT ![e] = TRUE])
      BY <1>2 DEF ReadMessage
    <2>2. rst' \in [Endpoint -> {"none", "owed", "pending", "cut", "read"}]
      BY <2>1 DEF ErrorReported
    <2>3. spurious' \in [Endpoint -> BOOLEAN]
      BY <2>1
    <2> QED  BY <2>1, <2>2, <2>3
  <1>3. CASE NextInput(e) = "end"
    BY <1>3 DEF ReadMessage, MadeUp
  <1> QED  BY <1>1, <1>2, <1>3 DEF NextInput

\* The kinds of frame read_message can come up with.
LEMMA InputOps ==
  ASSUME TypeOK, NEW e \in Endpoint, NEW f \in Inputs(e)
  PROVE  f.op \in {"data", "close", "ping", "pong", "invalid"}
  <1>1. CASE inbox[e] # <<>>
    <2>1. inbox[e] \in Seq(Frame)
      BY DEF TypeOK, TcpTypeOK
    <2>2. Head(inbox[e]) \in Frame
      BY <1>1, <2>1
    <2> QED  BY <1>1, <2>2 DEF Inputs, MadeUp, Frame
  <1>2. CASE inbox[e] = <<>>
    BY <1>2 DEF Inputs, MadeUp
  <1> QED  BY <1>1, <1>2

\* Closing a socket, by close_connection or by the death of the process.
LEMMA CloseSocketType ==
  ASSUME TcpTypeOK, NEW e \in Endpoint, CloseSocket(e)
  PROVE  TcpTypeOK'
  <1>1. CASE sockfd[e] = "open"
    <2>0. <<>> \in Seq(Frame)
      OBVIOUS
    <2>1. inbox' \in [Endpoint -> Seq(Frame)]
      BY <1>1, <2>0 DEF CloseSocket, Disconnect, TcpTypeOK
    <2>2. rst' \in [Endpoint -> {"none", "owed", "pending", "cut", "read"}]
      BY <1>1 DEF CloseSocket, Disconnect, TcpTypeOK
    <2> QED  BY <1>1, <2>1, <2>2 DEF CloseSocket, Disconnect, TcpTypeOK
  <1>2. CASE sockfd[e] # "open"
    BY <1>2 DEF CloseSocket, tcpVars, TcpTypeOK
  <1> QED  BY <1>1, <1>2

\* An arriving reset leaves a prefix of what could be read.
LEMMA ResetType ==
  ASSUME TcpTypeOK, NEW e \in Endpoint, ResetArrives(e)
  PROVE  TcpTypeOK'
  <1>1. PICK k \in 0 .. Len(inbox[e]), error \in {"pending", "cut"} :
          /\ inbox' = [inbox EXCEPT ![e] = SubSeq(@, 1, k)]
          /\ rst' = [rst EXCEPT ![e] = error]
    BY DEF ResetArrives
  <1>2. inbox[e] \in Seq(Frame)
    BY DEF TcpTypeOK
  <1>3. SubSeq(inbox[e], 1, k) \in Seq(Frame)
    BY <1>2
  <1> QED  BY <1>1, <1>3 DEF ResetArrives, TcpTypeOK

-----------------------------------------------------------------------------
(* Type correctness                                                        *)

LEMMA InitTypeOK == Init => TypeOK
  BY DEF Init, TcpInit, TypeOK, TcpTypeOK, CallTypeOK, HistoryTypeOK, Contexts

\* Moving inside a call, entering close_connection and returning from a call
\* keep the types of the control state.
LEMMA ControlType ==
  ASSUME CallTypeOK, NEW e \in Endpoint
  PROVE  /\ \A label \in {"idle", "send", "recv", "reply", "pong", "handshake",
                          "wait_reply", "close", "sleep", "crashed"} :
               Goto(e, label) => CallTypeOK'
         /\ \A from \in Contexts : CloseConnection(e, from) => CallTypeOK'
         /\ \A result \in {"ok", "failed", "message", "timeout", "closed",
                           "error", "void", "thrown"} :
               Return(e, result) => CallTypeOK'
  BY DEF CallTypeOK, Goto, CloseConnection, Return, Contexts

\* A signal that ends a blocked write sends the call into close_connection.
LEMMA InterruptedWrite ==
  ASSUME NEW e \in Endpoint, WriteInterrupted(e)
  PROVE  \/ pc[e] = "send" /\ CloseConnection(e, "send")
         \/ pc[e] = "reply" /\ CloseConnection(e, "reply_failed")
         \/ pc[e] = "handshake" /\ CloseConnection(e, "close_failed")
  BY DEF WriteInterrupted, Blocked

\* After close_connection a call goes on to well-formed control state.
LEMMA AfterCloseType ==
  ASSUME CallTypeOK, NEW e \in Endpoint, ctx[e] # "none", AfterCloseConnection(e)
  PROVE  CallTypeOK'
  <1>1. ctx[e] \in Contexts \ {"none"}
    BY DEF CallTypeOK
  <1>2. \/ \E result \in {"failed", "closed"} : Return(e, result)
        \/ \E from \in {"answer", "close"} : CloseConnection(e, from)
        \/ Return(e, HandshakeResult(e))
    BY <1>1 DEF AfterCloseConnection, Contexts
  <1>3. HandshakeResult(e) \in {"error", "void"}
    BY DEF HandshakeResult
  <1> QED  BY <1>2, <1>3, ControlType DEF Contexts

\* Every step keeps the types of all variables.
LEMMA NextTypeOK == TypeOK /\ ContextOK /\ [Next]_vars => TypeOK'
  <1> SUFFICES ASSUME TypeOK, ContextOK, [Next]_vars PROVE TypeOK'
    OBVIOUS
  <1>a. TcpTypeOK /\ CallTypeOK /\ HistoryTypeOK
    BY DEF TypeOK
  <1>b. UNCHANGED tcpVars => TcpTypeOK'
    BY <1>a DEF tcpVars, TcpTypeOK
  <1>c. UNCHANGED <<history, signals>> => HistoryTypeOK'
    BY <1>a DEF history, HistoryTypeOK
  <1>d. CloseFrame \in Frame /\ CloseFrame.op = "close"
    BY DEF CloseFrame, Frame
  <1>e. ASSUME NEW e \in Endpoint, NEW f \in Frame,
               wire' = [wire EXCEPT ![e] = Append(@, f)]
        PROVE  wire' \in [Endpoint -> Seq(Frame)]
    BY <1>a, <1>e DEF HistoryTypeOK
  <1>0. CASE UNCHANGED vars
    BY <1>0, <1>a, <1>b, <1>c DEF vars, callVars, CallTypeOK, TypeOK
  <1>1. ASSUME NEW e \in Endpoint, Send(e) PROVE TypeOK'
    <2>1. DataFrame(sent[e] + 1) \in Frame
      BY <1>a DEF DataFrame, Frame, HistoryTypeOK
    <2>2. TcpTypeOK'
      BY <1>1, <1>a, <2>1, WriteType DEF Send
    <2>3. HistoryTypeOK'
      <3>1. wire' \in [Endpoint -> Seq(Frame)]
        BY <1>1, <1>e, <2>1 DEF Send
      <3>2. sent' \in [Endpoint -> Nat]
        BY <1>1, <1>a DEF Send, HistoryTypeOK
      <3> QED  BY <1>1, <1>a, <3>1, <3>2 DEF Send, HistoryTypeOK
    <2>4. CallTypeOK'
      BY <1>1, <1>a, ControlType DEF Send
    <2> QED  BY <2>2, <2>3, <2>4 DEF TypeOK
  <1>2. ASSUME NEW e \in Endpoint, SendFails(e) PROVE TypeOK'
    <2>1. TcpTypeOK'
      BY <1>2, <1>a, <1>d, WriteType DEF SendFails
    <2>2. CallTypeOK'
      BY <1>2, <1>a, ControlType DEF SendFails, Contexts
    <2> QED  BY <1>2, <1>c, <2>1, <2>2 DEF SendFails, TypeOK
  <1>3. ASSUME NEW e \in Endpoint, RecvCall(e) PROVE TypeOK'
    <2>1. CallTypeOK'
      BY <1>3, <1>a DEF RecvCall, CallTypeOK
    <2> QED  BY <1>3, <1>b, <1>c, <2>1 DEF RecvCall, TypeOK
  <1>4. ASSUME NEW e \in Endpoint, CloseCall(e) PROVE TypeOK'
    <2>1. CallTypeOK'
      BY <1>4, <1>a DEF CloseCall, CallTypeOK
    <2> QED  BY <1>4, <1>b, <1>c, <2>1 DEF CloseCall, TypeOK
  <1>5. ASSUME NEW e \in Endpoint, RecvTimeout(e) PROVE TypeOK'
    BY <1>5, <1>a, <1>b, <1>c, ControlType DEF RecvTimeout, TypeOK
  <1>6. ASSUME NEW e \in Endpoint, RecvData(e) PROVE TypeOK'
    <2>1. PICK f \in Inputs(e) :
            ReadMessage(e, f) /\ delivered' = [delivered EXCEPT ![e] = Append(@, f.id)]
      BY <1>6 DEF RecvData
    <2>2. TcpTypeOK' /\ spurious' \in [Endpoint -> BOOLEAN] /\ f.id \in Nat
      BY <2>1, ReadType
    <2>3. delivered' \in [Endpoint -> Seq(Nat)]
      BY <1>a, <2>1, <2>2 DEF HistoryTypeOK
    <2>4. HistoryTypeOK'
      BY <1>6, <1>a, <2>2, <2>3 DEF RecvData, HistoryTypeOK
    <2>5. CallTypeOK'
      BY <1>6, <1>a, ControlType DEF RecvData
    <2> QED  BY <2>2, <2>4, <2>5 DEF TypeOK
  <1>7. ASSUME NEW e \in Endpoint, RecvOther(e) PROVE TypeOK'
    <2>1. PICK f \in Inputs(e) :
            /\ f.op # "data" /\ ReadMessage(e, f)
            /\ Goto(e, CASE f.op = "close"   -> "reply"
                         [] f.op = "ping"    -> "pong"
                         [] f.op = "pong"    -> "recv"
                         [] f.op = "invalid" -> "handshake")
      BY <1>7 DEF RecvOther
    <2>2. TcpTypeOK' /\ spurious' \in [Endpoint -> BOOLEAN]
      BY <2>1, ReadType
    <2>3. f.op \in {"close", "ping", "pong", "invalid"}
      BY <2>1, InputOps
    <2>4. \E label \in {"reply", "pong", "recv", "handshake"} : Goto(e, label)
      BY <2>1, <2>3
    <2>5. CallTypeOK'
      BY <1>a, <2>4, ControlType
    <2>6. HistoryTypeOK'
      BY <1>7, <1>a, <2>2 DEF RecvOther, HistoryTypeOK
    <2> QED  BY <2>2, <2>5, <2>6 DEF TypeOK
  <1>8. ASSUME NEW e \in Endpoint, Reply(e) PROVE TypeOK'
    <2>1. TcpTypeOK'
      BY <1>8, <1>a, <1>d, WriteType DEF Reply
    <2>2. HistoryTypeOK'
      <3>1. wire' \in [Endpoint -> Seq(Frame)]
        BY <1>8, <1>a, <1>d, <1>e DEF Reply, HistoryTypeOK
      <3> QED  BY <1>8, <1>a, <3>1 DEF Reply, HistoryTypeOK
    <2>3. CallTypeOK'
      BY <1>8, <1>a, ControlType DEF Reply, Contexts
    <2> QED  BY <2>1, <2>2, <2>3 DEF TypeOK
  <1>9. ASSUME NEW e \in Endpoint, Pong(e) PROVE TypeOK'
    <2>1. TcpTypeOK'
      BY <1>9, <1>a, <1>d, WriteType DEF Pong
    <2>2. CallTypeOK'
      BY <1>9, <1>a, ControlType DEF Pong, Contexts
    <2> QED  BY <1>9, <1>c, <2>1, <2>2 DEF Pong, TypeOK
  <1>10. ASSUME NEW e \in Endpoint, Handshake(e) PROVE TypeOK'
    <2>1. TcpTypeOK'
      BY <1>10, <1>a, <1>d, WriteType DEF Handshake
    <2>2. HistoryTypeOK'
      <3>1. wire' \in [Endpoint -> Seq(Frame)]
        BY <1>10, <1>a, <1>d, <1>e DEF Handshake, HistoryTypeOK
      <3> QED  BY <1>10, <1>a, <3>1 DEF Handshake, HistoryTypeOK
    <2>3. CallTypeOK'
      BY <1>10, <1>a, ControlType DEF Handshake, Contexts
    <2> QED  BY <2>1, <2>2, <2>3 DEF TypeOK
  <1>11. ASSUME NEW e \in Endpoint, WaitReplyFrame(e) PROVE TypeOK'
    <2>1. PICK f \in Inputs(e) :
            /\ ReadMessage(e, f)
            /\ CASE f.op = "close"   -> CloseConnection(e, "close")
                 [] f.op = "invalid" -> CloseConnection(e, "fallback")
                 [] OTHER            -> UNCHANGED callVars
      BY <1>11 DEF WaitReplyFrame
    <2>2. TcpTypeOK' /\ spurious' \in [Endpoint -> BOOLEAN]
      BY <2>1, ReadType
    <2>3. \/ \E from \in {"close", "fallback"} : CloseConnection(e, from)
          \/ UNCHANGED callVars
      BY <2>1
    <2>4. CallTypeOK'
      BY <1>a, <2>3, ControlType DEF Contexts, callVars, CallTypeOK
    <2>5. HistoryTypeOK'
      BY <1>11, <1>a, <2>2 DEF WaitReplyFrame, HistoryTypeOK
    <2> QED  BY <2>2, <2>4, <2>5 DEF TypeOK
  <1>12. ASSUME NEW e \in Endpoint, WaitReplyTimeout(e) PROVE TypeOK'
    BY <1>12, <1>a, <1>b, <1>c, ControlType DEF WaitReplyTimeout, TypeOK, Contexts
  <1>13. ASSUME NEW e \in Endpoint, CloseTcp(e) PROVE TypeOK'
    <2>1. TcpTypeOK'
      BY <1>13, <1>a, CloseSocketType DEF CloseTcp
    <2>2. ctx[e] # "none" /\ AfterCloseConnection(e)
      BY <1>13 DEF CloseTcp, ContextOK
    <2>3. CallTypeOK'
      BY <1>a, <2>2, AfterCloseType
    <2> QED  BY <1>13, <1>c, <2>1, <2>3 DEF CloseTcp, TypeOK
  <1>14. ASSUME NEW e \in Endpoint, Linger(e) PROVE TypeOK'
    <2>1. TcpTypeOK'
      BY <1>14, <1>a DEF Linger, ErrorReported, TcpTypeOK
    <2>2. CallTypeOK'
      BY <1>14, <1>a, ControlType DEF Linger
    <2> QED  BY <1>14, <1>c, <2>1, <2>2 DEF Linger, TypeOK
  <1>15. ASSUME NEW e \in Endpoint, LingerWakes(e) PROVE TypeOK'
    BY <1>15, <1>a, <1>b, <1>c, ControlType DEF LingerWakes, TypeOK
  <1>16. ASSUME NEW e \in Endpoint, RecvInterrupted(e) PROVE TypeOK'
    <2>1. HistoryTypeOK'
      BY <1>16, <1>a DEF RecvInterrupted, history, HistoryTypeOK
    <2> QED  BY <1>16, <1>a, <1>b, <2>1, ControlType DEF RecvInterrupted, TypeOK
  <1>17. ASSUME NEW e \in Endpoint, LingerInterrupted(e) PROVE TypeOK'
    <2>1. interrupted' \in [Endpoint -> BOOLEAN]
      BY <1>17, <1>a, Zenon DEF LingerInterrupted, HistoryTypeOK
    <2>2. HistoryTypeOK'
      BY <1>17, <1>a, <2>1 DEF LingerInterrupted, HistoryTypeOK
    <2>3. CallTypeOK'
      BY <1>17, <1>a, ControlType DEF LingerInterrupted, Contexts
    <2> QED  BY <1>17, <1>b, <2>2, <2>3 DEF LingerInterrupted, TypeOK
  <1>18. ASSUME NEW e \in Endpoint, Crash(e) PROVE TypeOK'
    <2>1. TcpTypeOK'
      BY <1>18, <1>a, CloseSocketType DEF Crash
    <2>2. CallTypeOK'
      BY <1>18, <1>a DEF Crash, CallTypeOK, Contexts
    <2> QED  BY <1>18, <1>c, <2>1, <2>2 DEF Crash, TypeOK
  <1>19. ASSUME NEW e \in Endpoint, Reset(e) PROVE TypeOK'
    <2>1. TcpTypeOK'
      BY <1>19, <1>a, ResetType DEF Reset
    <2>2. CallTypeOK'
      BY <1>19, <1>a DEF Reset, callVars, CallTypeOK
    <2> QED  BY <1>19, <1>c, <2>1, <2>2 DEF Reset, TypeOK
  <1>20. ASSUME NEW e \in Endpoint, SendCall(e) PROVE TypeOK'
    <2>1. CallTypeOK'
      BY <1>20, <1>a DEF SendCall, CallTypeOK
    <2> QED  BY <1>20, <1>b, <1>c, <2>1 DEF SendCall, TypeOK
  <1>21. ASSUME NEW e \in Endpoint, WriteInterrupted(e) PROVE TypeOK'
    <2>1. HistoryTypeOK'
      BY <1>21, <1>a DEF WriteInterrupted, history, HistoryTypeOK
    <2>2. CallTypeOK'
      BY <1>21, <1>a, ControlType, InterruptedWrite DEF Contexts
    <2> QED  BY <1>21, <1>b, <2>1, <2>2 DEF WriteInterrupted, TypeOK
  <1> QED  BY <1>0, <1>1, <1>2, <1>3, <1>4, <1>5, <1>6, <1>7, <1>8, <1>9, <1>10,
              <1>11, <1>12, <1>13, <1>14, <1>15, <1>16, <1>17, <1>18, <1>19, <1>20,
              <1>21
           DEF Next, Step

-----------------------------------------------------------------------------
(* Nothing follows a Close frame                                           *)

\* A step keeps track of which place called close_connection.
LEMMA NextContextOK == TypeOK /\ ContextOK /\ [Next]_vars => ContextOK'
  <1> SUFFICES ASSUME TypeOK, ContextOK, [Next]_vars PROVE ContextOK'
    OBVIOUS
  <1> USE DEF ContextOK, Goto, CloseConnection, Return
  <1>a. CallTypeOK
    BY DEF TypeOK
  <1>0. CASE UNCHANGED vars
    BY <1>0 DEF vars, callVars
  <1>1. ASSUME NEW e \in Endpoint,
               Send(e) \/ RecvTimeout(e) \/ RecvData(e)
        PROVE  ContextOK'
    BY <1>1, <1>a DEF Send, RecvTimeout, RecvData, CallTypeOK
  <1>2. ASSUME NEW e \in Endpoint,
               SendCall(e) \/ SendFails(e) \/ RecvCall(e) \/ CloseCall(e) \/ Crash(e)
        PROVE  ContextOK'
    BY <1>2, <1>a DEF SendCall, SendFails, RecvCall, CloseCall, Crash, CallTypeOK
  <1>3. ASSUME NEW e \in Endpoint, RecvOther(e) PROVE ContextOK'
    <2>1. PICK f \in Inputs(e) :
            /\ f.op # "data"
            /\ Goto(e, CASE f.op = "close"   -> "reply"
                         [] f.op = "ping"    -> "pong"
                         [] f.op = "pong"    -> "recv"
                         [] f.op = "invalid" -> "handshake")
      BY <1>3 DEF RecvOther
    <2>2. \E label \in {"reply", "pong", "recv", "handshake"} : Goto(e, label)
      BY <2>1, InputOps
    <2> QED  BY <1>3, <1>a, <2>2 DEF RecvOther, CallTypeOK
  <1>4. ASSUME NEW e \in Endpoint, Reply(e) \/ Pong(e) \/ Handshake(e)
        PROVE  ContextOK'
    BY <1>4, <1>a DEF Reply, Pong, Handshake, CallTypeOK
  <1>5. ASSUME NEW e \in Endpoint, WaitReplyFrame(e) \/ WaitReplyTimeout(e)
        PROVE  ContextOK'
    BY <1>5, <1>a DEF WaitReplyFrame, WaitReplyTimeout, callVars, CallTypeOK
  <1>6. ASSUME NEW e \in Endpoint, CloseTcp(e) PROVE ContextOK'
    <2>1. ctx[e] \in Contexts \ {"none"}
      BY <1>6, <1>a DEF CloseTcp, CallTypeOK
    <2>2. \/ \E result \in {"failed", "closed"} : Return(e, result)
          \/ \E from \in {"answer", "close"} : CloseConnection(e, from)
          \/ Return(e, HandshakeResult(e))
      BY <1>6, <2>1 DEF CloseTcp, AfterCloseConnection, Contexts
    <2> QED  BY <1>a, <2>2 DEF CallTypeOK
  <1>7. ASSUME NEW e \in Endpoint,
               Linger(e) \/ LingerWakes(e) \/ RecvInterrupted(e)
        PROVE  ContextOK'
    BY <1>7, <1>a DEF Linger, LingerWakes, RecvInterrupted, CallTypeOK
  <1>9. ASSUME NEW e \in Endpoint, LingerInterrupted(e) PROVE ContextOK'
    <2>1. CloseConnection(e, "fallback") \/ Return(e, "thrown")
      BY <1>9 DEF LingerInterrupted
    <2> QED  BY <1>a, <2>1 DEF CallTypeOK
  <1>8. ASSUME NEW e \in Endpoint, Reset(e) PROVE ContextOK'
    BY <1>8 DEF Reset, callVars
  <1>10. ASSUME NEW e \in Endpoint, WriteInterrupted(e) PROVE ContextOK'
    <2>1. \E from \in {"send", "reply_failed", "close_failed"} : CloseConnection(e, from)
      BY <1>10, InterruptedWrite
    <2> QED  BY <1>a, <2>1 DEF CallTypeOK
  <1> QED  BY <1>0, <1>1, <1>2, <1>3, <1>4, <1>5, <1>6, <1>7, <1>8, <1>9, <1>10
           DEF Next, Step

\* Only close_connection and death change a descriptor, and they close it.
LEMMA SocketsClose ==
  ASSUME TcpTypeOK, NEW e \in Endpoint, CloseSocket(e)
  PROVE  sockfd' = [sockfd EXCEPT ![e] = "closed"]
  BY DEF CloseSocket, Disconnect, TcpTypeOK, tcpVars

\* A frame written by an endpoint that has not sent a Close is its last.
LEMMA WriteAfterNoClose ==
  ASSUME HistoryTypeOK, NothingAfterClose, NEW e \in Endpoint, NEW f \in Frame,
         interrupted[e] \/ ~ SentClose(e),
         wire' = [wire EXCEPT ![e] = Append(@, f)], UNCHANGED interrupted
  PROVE  /\ NothingAfterClose'
         /\ \A d \in Endpoint : d # e => (SentClose(d)' <=> SentClose(d))
         /\ f.op # "close" => (SentClose(e)' <=> SentClose(e))
  <1>1. wire[e] \in Seq(Frame) /\ wire'[e] = Append(wire[e], f)
        /\ \A d \in Endpoint : d # e => wire'[d] = wire[d]
    BY DEF HistoryTypeOK
  <1>2. /\ Len(wire'[e]) = Len(wire[e]) + 1
        /\ Len(wire[e]) \in Nat
        /\ \A i \in 1 .. Len(wire[e]) : wire'[e][i] = wire[e][i]
        /\ wire'[e][Len(wire[e]) + 1] = f
    BY <1>1
  <1>3. ASSUME NEW d \in Endpoint, ~ interrupted'[d],
               NEW i \in 1 .. Len(wire'[d]), wire'[d][i].op = "close"
        PROVE  i = Len(wire'[d])
    <2>1. CASE d = e
      <3>1. i \notin 1 .. Len(wire[e])
        BY <1>2, <1>3, <2>1 DEF SentClose
      <3> QED  BY <1>2, <2>1, <3>1
    <2>2. CASE d # e
      BY <1>1, <1>3, <2>2 DEF NothingAfterClose
    <2> QED  BY <2>1, <2>2
  <1>4. NothingAfterClose'
    BY <1>3 DEF NothingAfterClose
  <1>5. \A d \in Endpoint : d # e => (SentClose(d)' <=> SentClose(d))
    BY <1>1 DEF SentClose
  <1>6. ASSUME f.op # "close" PROVE SentClose(e)' <=> SentClose(e)
    <2>1. 1 .. Len(wire'[e]) = (1 .. Len(wire[e])) \cup {Len(wire[e]) + 1}
      BY <1>2
    <2> QED  BY <1>2, <1>6, <2>1 DEF SentClose
  <1> QED  BY <1>4, <1>5, <1>6

\* A step that writes no frame leaves what was written as it is.
LEMMA NoWrite ==
  ASSUME NothingAfterClose, UNCHANGED wire,
         \A d \in Endpoint : interrupted[d] => interrupted'[d]
  PROVE  NothingAfterClose' /\ \A d \in Endpoint : SentClose(d)' <=> SentClose(d)
  BY DEF NothingAfterClose, SentClose

\* The induction step of the close discipline.
LEMMA NextClose == CloseInv /\ [Next]_vars => CloseEndsTheCall' /\ NothingAfterClose'
  <1> SUFFICES ASSUME CloseInv, [Next]_vars
               PROVE  CloseEndsTheCall' /\ NothingAfterClose'
    OBVIOUS
  <1>a. /\ TcpTypeOK /\ CallTypeOK /\ HistoryTypeOK
        /\ ContextOK /\ CloseEndsTheCall /\ NothingAfterClose
    BY DEF CloseInv, TypeOK
  <1>b. CloseFrame \in Frame /\ CloseFrame.op = "close"
    BY DEF CloseFrame, Frame
  <1>c. ASSUME UNCHANGED <<wire, interrupted>>
        PROVE  NothingAfterClose' /\ \A d \in Endpoint : SentClose(d)' <=> SentClose(d)
    BY <1>a, <1>c, NoWrite
  <1>0. CASE UNCHANGED vars
    BY <1>0, <1>a, <1>c DEF vars, callVars, tcpVars, history, CloseEndsTheCall
  <1>1. ASSUME NEW e \in Endpoint, Send(e)
        PROVE  CloseEndsTheCall' /\ NothingAfterClose'
    <2>1. DataFrame(sent[e] + 1) \in Frame /\ DataFrame(sent[e] + 1).op # "close"
      BY <1>a DEF DataFrame, Frame, HistoryTypeOK
    <2>2. interrupted[e] \/ ~ SentClose(e)
      BY <1>1, <1>a DEF Send, Write, CanWrite, CloseEndsTheCall
    <2>3. /\ NothingAfterClose'
          /\ \A d \in Endpoint : SentClose(d)' <=> SentClose(d)
      BY <1>1, <1>a, <2>1, <2>2, WriteAfterNoClose DEF Send
    <2> QED  BY <1>1, <1>a, <2>2, <2>3
             DEF Send, Write, Return, CloseEndsTheCall, CallTypeOK
  <1>2. ASSUME NEW e \in Endpoint, Reply(e)
        PROVE  CloseEndsTheCall' /\ NothingAfterClose'
    <2>1. CASE Write(e, CloseFrame) /\ wire' = [wire EXCEPT ![e] = Append(@, CloseFrame)]
               /\ CloseConnection(e, "answer")
      <3>1. interrupted[e] \/ ~ SentClose(e)
        BY <1>2, <1>a, <2>1 DEF Reply, Write, CanWrite, CloseEndsTheCall
      <3>2. /\ NothingAfterClose'
            /\ \A d \in Endpoint : d # e => (SentClose(d)' <=> SentClose(d))
        BY <1>2, <1>a, <1>b, <2>1, <3>1, WriteAfterNoClose DEF Reply
      <3> QED  BY <1>2, <1>a, <2>1, <3>2
               DEF Reply, Write, CloseConnection, CloseEndsTheCall, CallTypeOK
    <2>2. CASE WriteFails(e) /\ UNCHANGED wire /\ CloseConnection(e, "reply_failed")
      BY <1>2, <1>a, <1>c, <2>2
      DEF Reply, WriteFails, CloseConnection, CloseEndsTheCall, CallTypeOK
    <2> QED  BY <1>2, <2>1, <2>2 DEF Reply
  <1>3. ASSUME NEW e \in Endpoint, Handshake(e)
        PROVE  CloseEndsTheCall' /\ NothingAfterClose'
    <2>1. CASE Write(e, CloseFrame) /\ wire' = [wire EXCEPT ![e] = Append(@, CloseFrame)]
               /\ Goto(e, "wait_reply")
      <3>1. interrupted[e] \/ ~ SentClose(e)
        BY <1>3, <1>a, <2>1 DEF Handshake, Write, CanWrite, CloseEndsTheCall
      <3>2. /\ NothingAfterClose'
            /\ \A d \in Endpoint : d # e => (SentClose(d)' <=> SentClose(d))
        BY <1>3, <1>a, <1>b, <2>1, <3>1, WriteAfterNoClose DEF Handshake
      <3> QED  BY <1>3, <1>a, <2>1, <3>2
               DEF Handshake, Write, Goto, CloseEndsTheCall, CallTypeOK
    <2>2. CASE WriteFails(e) /\ UNCHANGED wire /\ CloseConnection(e, "close_failed")
      BY <1>3, <1>a, <1>c, <2>2
      DEF Handshake, WriteFails, CloseConnection, CloseEndsTheCall, CallTypeOK
    <2> QED  BY <1>3, <2>1, <2>2 DEF Handshake
  <1>4. ASSUME NEW e \in Endpoint,
               SendCall(e) \/ SendFails(e) \/ RecvCall(e) \/ CloseCall(e)
                  \/ RecvTimeout(e)
        PROVE  CloseEndsTheCall' /\ NothingAfterClose'
    <2>1. UNCHANGED <<wire, interrupted, sockfd>> /\ pc[e] \in {"idle", "send", "recv"}
      BY <1>4 DEF SendCall, SendFails, RecvCall, CloseCall, RecvTimeout, WriteFails,
                  history, tcpVars
    <2> QED  BY <1>4, <1>a, <1>c, <2>1
             DEF SendCall, SendFails, RecvCall, CloseCall, RecvTimeout, Return,
                 CloseConnection, CloseEndsTheCall, CallTypeOK
  <1>5. ASSUME NEW e \in Endpoint, RecvData(e) \/ RecvOther(e) \/ Pong(e)
        PROVE  CloseEndsTheCall' /\ NothingAfterClose'
    <2>1. UNCHANGED <<wire, interrupted, sockfd>> /\ pc[e] \in {"recv", "pong"}
      BY <1>5 DEF RecvData, RecvOther, Pong, ReadMessage, WriteFails, history
    <2>2. \A d \in Endpoint : d # e => pc'[d] = pc[d]
      BY <1>5, <1>a DEF RecvData, RecvOther, Pong, Return, Goto, CloseConnection,
                        CallTypeOK
    <2> QED  BY <1>a, <1>c, <2>1, <2>2 DEF CloseEndsTheCall
  <1>6. ASSUME NEW e \in Endpoint,
               WaitReplyFrame(e) \/ WaitReplyTimeout(e) \/ Linger(e) \/ LingerWakes(e)
        PROVE  CloseEndsTheCall' /\ NothingAfterClose'
    <2>1. UNCHANGED <<wire, interrupted, sockfd>>
      BY <1>6 DEF WaitReplyFrame, WaitReplyTimeout, Linger, LingerWakes, ReadMessage,
                  tcpVars, history
    <2>2. /\ pc'[e] \in {"wait_reply", "close", "sleep"}
          /\ \A d \in Endpoint : d # e => pc'[d] = pc[d]
      BY <1>6, <1>a DEF WaitReplyFrame, WaitReplyTimeout, Linger, LingerWakes, Goto,
                        CloseConnection, callVars, CallTypeOK
    <2> QED  BY <1>a, <1>c, <2>1, <2>2 DEF CloseEndsTheCall
  <1>7. ASSUME NEW e \in Endpoint, CloseTcp(e) \/ Crash(e)
        PROVE  CloseEndsTheCall' /\ NothingAfterClose'
    <2>1. UNCHANGED <<wire, interrupted>> /\ sockfd' = [sockfd EXCEPT ![e] = "closed"]
      BY <1>7, <1>a, SocketsClose DEF CloseTcp, Crash, history
    <2>2. \A d \in Endpoint : d # e => pc'[d] = pc[d]
      <3>1. CASE Crash(e)
        BY <1>a, <3>1 DEF Crash, CallTypeOK
      <3>2. CASE CloseTcp(e)
        <4>1. ctx[e] \in Contexts \ {"none"}
          BY <1>a, <3>2 DEF CloseTcp, ContextOK, CallTypeOK
        <4> QED  BY <1>a, <3>2, <4>1 DEF CloseTcp, AfterCloseConnection, Return,
                                         CloseConnection, CallTypeOK, Contexts
      <3> QED  BY <1>7, <3>1, <3>2
    <2> QED  BY <1>a, <1>c, <2>1, <2>2 DEF CloseEndsTheCall, TcpTypeOK
  <1>8. ASSUME NEW e \in Endpoint, RecvInterrupted(e) \/ Reset(e)
        PROVE  CloseEndsTheCall' /\ NothingAfterClose'
    <2>1. UNCHANGED <<wire, interrupted, sockfd>>
      BY <1>8 DEF RecvInterrupted, Reset, ResetArrives, tcpVars, history
    <2>2. \A d \in Endpoint : pc'[d] = pc[d] \/ pc[d] = "recv"
      BY <1>8, <1>a DEF RecvInterrupted, Reset, Goto, callVars, CallTypeOK
    <2> QED  BY <1>a, <1>c, <2>1, <2>2 DEF CloseEndsTheCall
  <1>9. ASSUME NEW e \in Endpoint, LingerInterrupted(e)
        PROVE  CloseEndsTheCall' /\ NothingAfterClose'
    <2>1. CASE CloseConnection(e, "fallback") /\ UNCHANGED interrupted
      BY <1>9, <1>a, <1>c, <2>1
      DEF LingerInterrupted, CloseConnection, tcpVars, CloseEndsTheCall, CallTypeOK
    <2>2. CASE /\ Return(e, "thrown")
               /\ interrupted' = [interrupted EXCEPT ![e] = @ \/ sockfd[e] = "open"]
      <3>1. /\ interrupted'[e] = (interrupted[e] \/ sockfd[e] = "open")
            /\ \A d \in Endpoint : d # e => interrupted'[d] = interrupted[d]
        BY <1>a, <2>2, Zenon DEF HistoryTypeOK
      <3>2. UNCHANGED <<wire, sockfd>>
        BY <1>9 DEF LingerInterrupted, tcpVars
      <3>3. \A d \in Endpoint : d # e => pc'[d] = pc[d]
        BY <1>a, <2>2 DEF Return, CallTypeOK
      <3>4. NothingAfterClose' /\ \A d \in Endpoint : SentClose(d)' <=> SentClose(d)
        BY <1>a, <3>1, <3>2, NoWrite
      <3>5. sockfd[e] \in {"open", "closed"}
        BY <1>a DEF TcpTypeOK
      <3> QED  BY <1>a, <3>1, <3>2, <3>3, <3>4, <3>5 DEF CloseEndsTheCall
    <2> QED  BY <1>9, <2>1, <2>2 DEF LingerInterrupted
  <1>10. ASSUME NEW e \in Endpoint, WriteInterrupted(e)
         PROVE  CloseEndsTheCall' /\ NothingAfterClose'
    <2>1. UNCHANGED <<wire, interrupted, sockfd>>
      BY <1>10 DEF WriteInterrupted, tcpVars, history
    <2>2. pc'[e] = "close" /\ \A d \in Endpoint : d # e => pc'[d] = pc[d]
      BY <1>10, <1>a, InterruptedWrite DEF CloseConnection, CallTypeOK
    <2> QED  BY <1>a, <1>c, <2>1, <2>2 DEF CloseEndsTheCall
  <1> QED  BY <1>0, <1>1, <1>2, <1>3, <1>4, <1>5, <1>6, <1>7, <1>8, <1>9, <1>10
           DEF Next, Step

LEMMA InitCloseInv == Init => CloseInv
  <1> SUFFICES ASSUME Init PROVE CloseInv
    OBVIOUS
  <1>1. TypeOK
    BY InitTypeOK
  <1>2. ContextOK
    BY DEF Init, ContextOK
  <1>3. CloseEndsTheCall /\ NothingAfterClose
    BY DEF Init, CloseEndsTheCall, NothingAfterClose, SentClose
  <1> QED  BY <1>1, <1>2, <1>3 DEF CloseInv

LEMMA NextCloseInv == CloseInv /\ [Next]_vars => CloseInv'
  BY NextTypeOK, NextContextOK, NextClose DEF CloseInv

\* CloseInv is an invariant: types, the bookkeeping of close_connection, and
\* that an endpoint that has sent its Close does nothing but close.
THEOREM CloseInvHolds == Spec => []CloseInv
  BY InitCloseInv, NextCloseInv, PTL DEF Spec

\* Every variable of the connection keeps its type, for all bounds.
THEOREM TypeCorrect == Spec => []TypeOK
  <1>1. CloseInv => TypeOK
    BY DEF CloseInv
  <1> QED  BY <1>1, CloseInvHolds, PTL

\* No endpoint of any connection sends a frame after its Close, or a second
\* Close, unless a signal has thrown a call out of close_connection.
THEOREM CloseIsLast == Spec => []NothingAfterClose
  <1>1. CloseInv => NothingAfterClose
    BY DEF CloseInv
  <1> QED  BY <1>1, CloseInvHolds, PTL

-----------------------------------------------------------------------------
(* The order of messages                                                   *)

\* The first i frames that e can still read are data frames.
DataUpTo(e, i) == \A j \in 1 .. i : inbox[e][j].op = "data"

\* A reset is owed by an endpoint that is gone, and a descriptor that is gone
\* has nothing to read.
LinkInv ==
    \A e \in Endpoint :
        /\ rst[e] # "none" => sockfd[Peer(e)] = "closed"
        /\ sockfd[e] = "closed" => inbox[e] = <<>>

\* What e can still read was sent, is newer than all that it has received, and
\* rises.
Stream(e) ==
    /\ \A i \in 1 .. Len(inbox[e]) :
          inbox[e][i].op = "close" => SentClose(Peer(e))
    /\ \A i \in 1 .. Len(inbox[e]) :
          inbox[e][i].op = "data" => inbox[e][i].id \in 1 .. sent[Peer(e)]
    /\ \A i \in 1 .. Len(inbox[e]), k \in 1 .. Len(delivered[e]) :
          inbox[e][i].op = "data" => delivered[e][k] < inbox[e][i].id
    /\ \A i, j \in 1 .. Len(inbox[e]) :
          i < j /\ inbox[e][i].op = "data" /\ inbox[e][j].op = "data"
              => inbox[e][i].id < inbox[e][j].id

StreamInv == \A e \in Endpoint : Stream(e)

\* A made-up message is the last one ever: behind the error that made it up
\* there is nothing to read.
MadeUpLast(e) ==
    /\ \A k \in 1 .. Len(delivered[e]) :
          /\ delivered[e][k] \in 0 .. sent[Peer(e)]
          /\ delivered[e][k] = 0 => spurious[e] /\ k = Len(delivered[e])
    /\ spurious[e] =>
          inbox[e] = <<>> /\ (sockfd[e] = "closed" \/ rst[e] = "read")

MadeUpInv == \A e \in Endpoint : MadeUpLast(e)

\* e has not begun to close: the calls to come may return messages.
Receiving(e) ==
    /\ sockfd[e] = "open" /\ pc[e] \in {"idle", "send", "recv"}
    /\ ~ spurious[e] /\ ~ interrupted[e]

\* Up to a Close the frames that e will read continue what it has received, and
\* are all that its peer has sent, unless the network has cut them short.
NextComes(e) ==
    Receiving(e) =>
        /\ \A i \in 1 .. Len(inbox[e]) :
              DataUpTo(e, i) => inbox[e][i].id = Len(delivered[e]) + i
        /\ sockfd[Peer(e)] = "open" /\ DataUpTo(e, Len(inbox[e])) =>
              sent[Peer(e)] = Len(delivered[e]) + Len(inbox[e])
        /\ \A i \in 1 .. Len(inbox[e]) :
              /\ ~ interrupted[Peer(e)]
              /\ inbox[e][i].op = "close" /\ DataUpTo(e, i - 1)
              => sent[Peer(e)] = Len(delivered[e]) + i - 1

NextInv == \A e \in Endpoint : NextComes(e)

\* e has read its peer's Close and is to answer it, or has.
Answers(e) ==
    \/ pc[e] = "reply"
    \/ ctx[e] \in {"answer", "reply_failed"}
    \/ ret[e] = "closed"

\* Such an endpoint had received everything, and no more is sent to it.
Answered(e) ==
    /\ ret[e] = "closed" => sockfd[e] = "closed"
    /\ pc[e] = "pong" \/ ctx[e] = "pong_failed" => spurious[e]
    /\ /\ Answers(e)
       /\ ~ spurious[e] /\ ~ interrupted[e] /\ ~ interrupted[Peer(e)]
       => SentClose(Peer(e)) /\ Len(delivered[e]) = sent[Peer(e)]

AnswerInv == \A e \in Endpoint : Answered(e)

OrderInv ==
    /\ CloseInv /\ LinkInv /\ StreamInv /\ MadeUpInv /\ NextInv
    /\ DeliveredInOrder /\ AnswerInv

-----------------------------------------------------------------------------
(* What a step does to the messages.                                       *)

\* Nothing is sent, received or lost; an error may be reported, and a signal
\* may throw e out of a call.
Quiet(e) ==
    /\ UNCHANGED <<sockfd, inbox, wire, sent, delivered, spurious>>
    /\ \A d \in Endpoint :
          rst'[d] = rst[d] \/ (rst[d] \in {"pending", "cut"} /\ rst'[d] = "read")
    /\ \/ UNCHANGED interrupted
       \/ sockfd[e] = "open" /\ interrupted' = [interrupted EXCEPT ![e] = TRUE]

\* e's socket accepts frame f.
Wrote(e, f) ==
    /\ CanWrite(e) /\ (interrupted[e] \/ ~ SentClose(e))
    /\ IF sockfd[Peer(e)] = "open"
       THEN inbox' = [inbox EXCEPT ![Peer(e)] = Append(@, f)] /\ UNCHANGED rst
       ELSE rst' = [rst EXCEPT ![e] = "owed"] /\ UNCHANGED inbox
    /\ wire' = [wire EXCEPT ![e] = Append(@, f)]
    /\ \/ /\ f.op = "data" /\ f.id = sent[e] + 1
          /\ sent' = [sent EXCEPT ![e] = @ + 1]
       \/ f.op = "close" /\ UNCHANGED sent
    /\ UNCHANGED <<sockfd, delivered, spurious, interrupted>>

\* e takes the frame f that its peer has sent: recv returns it, or it is dropped
\* on the way to closing.
Took(e, f) ==
    /\ inbox[e] # <<>> /\ f = Head(inbox[e])
    /\ inbox' = [inbox EXCEPT ![e] = Tail(@)]
    /\ \/ /\ pc[e] = "recv" /\ f.op = "data"
          /\ delivered' = [delivered EXCEPT ![e] = Append(@, f.id)]
       \/ pc'[e] \notin {"idle", "send", "recv"} /\ UNCHANGED delivered
    /\ UNCHANGED <<sockfd, rst, wire, sent, spurious, interrupted>>

\* e takes a failed read for a frame.
MadeOneUp(e) ==
    /\ sockfd[e] = "open" /\ inbox[e] = <<>> /\ rst[e] \in {"pending", "cut"}
    /\ rst' = [rst EXCEPT ![e] = "read"]
    /\ spurious' = [spurious EXCEPT ![e] = TRUE]
    /\ \/ delivered' = [delivered EXCEPT ![e] = Append(@, 0)]
       \/ UNCHANGED delivered
    /\ UNCHANGED <<sockfd, inbox, wire, sent, interrupted>>

\* e's socket is closed, and a reset may be owed to its peer for it.
WentDown(e) ==
    /\ sockfd' = [sockfd EXCEPT ![e] = "closed"]
    /\ inbox' = [inbox EXCEPT ![e] = <<>>]
    /\ rst'[e] = "none"
    /\ UNCHANGED <<wire, sent, delivered, spurious, interrupted>>
    /\ \/ rst'[Peer(e)] = rst[Peer(e)]
       \/ rst[Peer(e)] = "none" /\ rst'[Peer(e)] = "owed"

\* A reset arrives at e.
CutShort(e) ==
    /\ rst[e] = "owed"
    /\ \E k \in 0 .. Len(inbox[e]), error \in {"pending", "cut"} :
          /\ inbox' = [inbox EXCEPT ![e] = SubSeq(@, 1, k)]
          /\ rst' = [rst EXCEPT ![e] = error]
    /\ UNCHANGED <<sockfd, wire, sent, delivered, spurious, interrupted>>

Effect(e) ==
    \/ Quiet(e) \/ MadeOneUp(e) \/ WentDown(e) \/ CutShort(e)
    \/ \E f \in Frame : Wrote(e, f) \/ Took(e, f)

LEMMA Unframed ==
  ASSUME OrderInv
  PROVE  /\ TypeOK /\ TcpTypeOK /\ CallTypeOK /\ HistoryTypeOK /\ ContextOK
         /\ CloseEndsTheCall /\ NothingAfterClose /\ CloseInv
         /\ LinkInv /\ StreamInv /\ MadeUpInv /\ NextInv /\ DeliveredInOrder
         /\ AnswerInv
  BY DEF OrderInv, CloseInv, TypeOK

\* A read of e takes a frame, makes one up, or fails.
LEMMA ReadEffect ==
  ASSUME TypeOK, NEW e \in Endpoint, NEW f \in Inputs(e), ReadMessage(e, f)
  PROVE  /\ UNCHANGED sockfd
         /\ \/ /\ inbox[e] # <<>> /\ f = Head(inbox[e]) /\ f \in Frame
               /\ inbox' = [inbox EXCEPT ![e] = Tail(@)]
               /\ UNCHANGED <<rst, spurious>>
            \/ /\ f.op # "invalid" /\ f.id = 0
               /\ sockfd[e] = "open" /\ inbox[e] = <<>>
               /\ rst[e] \in {"pending", "cut"}
               /\ rst' = [rst EXCEPT ![e] = "read"]
               /\ spurious' = [spurious EXCEPT ![e] = TRUE]
               /\ UNCHANGED inbox
            \/ /\ f.op = "invalid" /\ inbox[e] = <<>>
               /\ UNCHANGED <<inbox, spurious>>
               /\ \A d \in Endpoint :
                     \/ rst'[d] = rst[d]
                     \/ rst[d] \in {"pending", "cut"} /\ rst'[d] = "read"
  <1> USE DEF TypeOK, TcpTypeOK, HistoryTypeOK
  <1>1. CASE NextInput(e) = "frame"
    <2>1. inbox[e] \in Seq(Frame) /\ inbox[e] # <<>>
      BY <1>1 DEF NextInput
    <2>2. Head(inbox[e]) \in Frame
      BY <2>1
    <2> QED  BY <1>1, <2>1, <2>2 DEF ReadMessage
  <1>2. CASE NextInput(e) = "error"
    <2>1. inbox[e] = <<>> /\ rst[e] \in {"pending", "cut"}
      BY <1>2 DEF NextInput
    <2>2. sockfd[e] = "open" /\ f.id = 0 /\ UNCHANGED <<inbox, sockfd>>
          /\ rst' = [rst EXCEPT ![e] = "read"]
      BY <1>2, <2>1 DEF ReadMessage, Readable, ErrorReported
    <2>3. IF f.op = "invalid" THEN UNCHANGED spurious
          ELSE spurious' = [spurious EXCEPT ![e] = TRUE]
      BY <1>2 DEF ReadMessage
    <2>4. \A d \in Endpoint :
             \/ rst'[d] = rst[d]
             \/ rst[d] \in {"pending", "cut"} /\ rst'[d] = "read"
      BY <2>1, <2>2
    <2> QED  BY <2>1, <2>2, <2>3, <2>4
  <1>3. CASE NextInput(e) = "end"
    BY <1>3 DEF ReadMessage, MadeUp, NextInput
  <1> QED  BY <1>1, <1>2, <1>3 DEF NextInput

\* The failure of a write reports an error at most.
LEMMA FailureEffect ==
  ASSUME TypeOK, NEW e \in Endpoint, WriteFails(e)
  PROVE  /\ UNCHANGED <<sockfd, inbox>>
         /\ \A d \in Endpoint :
               \/ rst'[d] = rst[d]
               \/ rst[d] \in {"pending", "cut"} /\ rst'[d] = "read"
  BY DEF WriteFails, ErrorReported, TypeOK, TcpTypeOK

\* Closing the socket of e, if it is open.
LEMMA CloseEffect ==
  ASSUME TypeOK, NEW e \in Endpoint, CloseSocket(e), UNCHANGED history
  PROVE  Quiet(e) \/ WentDown(e)
  <1>1. CASE sockfd[e] = "open"
    <2>1. Peer(e) \in Endpoint /\ Peer(e) # e
      BY PeerIsEndpoint
    <2>2. /\ rst'[e] = "none"
          /\ \/ rst'[Peer(e)] = rst[Peer(e)]
             \/ rst[Peer(e)] = "none" /\ rst'[Peer(e)] = "owed"
      BY <1>1, <2>1 DEF CloseSocket, Disconnect, TypeOK, TcpTypeOK
    <2> QED  BY <1>1, <2>2 DEF CloseSocket, Disconnect, WentDown, history
  <1>2. CASE sockfd[e] # "open"
    BY <1>2 DEF CloseSocket, tcpVars, Quiet, history
  <1> QED  BY <1>1, <1>2

\* Every step has one of these effects on the messages.
LEMMA NextEffect ==
  ASSUME OrderInv, [Next]_vars
  PROVE  \E e \in Endpoint : Effect(e)
  <1>a. TypeOK /\ HistoryTypeOK /\ CloseEndsTheCall
    BY Unframed
  <1>b. CloseFrame \in Frame /\ CloseFrame.op = "close"
    BY DEF CloseFrame, Frame
  <1>c. ASSUME NEW e \in Endpoint,
               UNCHANGED <<tcpVars, sent, wire, delivered, interrupted, spurious>>
        PROVE  Quiet(e)
    BY <1>c DEF tcpVars, Quiet
  <1>0. CASE UNCHANGED vars
    <2>1. "client" \in Endpoint
      BY DEF Endpoint
    <2> QED  BY <1>0, <1>c, <2>1 DEF vars, history, Effect
  <1>1. ASSUME NEW e \in Endpoint, Send(e) PROVE Effect(e)
    <2> DEFINE f == DataFrame(sent[e] + 1)
    <2>1. f \in Frame /\ f.op = "data" /\ f.id = sent[e] + 1
      BY <1>a DEF DataFrame, Frame, HistoryTypeOK
    <2>2. CanWrite(e) /\ (interrupted[e] \/ ~ SentClose(e))
      BY <1>1, <1>a DEF Send, Write, CanWrite, CloseEndsTheCall
    <2>3. Wrote(e, f)
      BY <1>1, <2>1, <2>2 DEF Send, Write, Wrote
    <2> QED  BY <2>1, <2>3 DEF Effect
  <1>2. ASSUME NEW e \in Endpoint, SendFails(e) \/ Pong(e) PROVE Effect(e)
    <2>1. WriteFails(e) /\ UNCHANGED history
      BY <1>2 DEF SendFails, Pong
    <2> QED  BY <1>a, <2>1, FailureEffect DEF history, Quiet, Effect
  <1>3. ASSUME NEW e \in Endpoint,
               SendCall(e) \/ RecvCall(e) \/ CloseCall(e) \/ RecvTimeout(e)
                  \/ WaitReplyTimeout(e) \/ LingerWakes(e) \/ RecvInterrupted(e)
                  \/ WriteInterrupted(e)
        PROVE  Effect(e)
    <2>1. UNCHANGED <<tcpVars, history>>
      BY <1>3 DEF SendCall, RecvCall, CloseCall, RecvTimeout, WaitReplyTimeout,
                  LingerWakes, RecvInterrupted, WriteInterrupted
    <2> QED  BY <1>c, <2>1 DEF history, Effect
  <1>4. ASSUME NEW e \in Endpoint, RecvData(e) PROVE Effect(e)
    <2>1. PICK f \in Inputs(e) :
            /\ f.op = "data" /\ ReadMessage(e, f)
            /\ delivered' = [delivered EXCEPT ![e] = Append(@, f.id)]
      BY <1>4 DEF RecvData
    <2>2. pc[e] = "recv" /\ UNCHANGED <<sent, wire, interrupted>>
      BY <1>4 DEF RecvData
    <2>3. CASE inbox[e] # <<>>
      <3>1. f \in Frame /\ Took(e, f)
        BY <1>a, <2>1, <2>2, <2>3, ReadEffect DEF Took
      <3> QED  BY <3>1 DEF Effect
    <2>4. CASE inbox[e] = <<>>
      BY <1>a, <2>1, <2>2, <2>4, ReadEffect DEF MadeOneUp, Effect
    <2> QED  BY <2>3, <2>4
  <1>5. ASSUME NEW e \in Endpoint, RecvOther(e) \/ WaitReplyFrame(e) PROVE Effect(e)
    <2>1. PICK f \in Inputs(e) :
            /\ ReadMessage(e, f)
            /\ inbox[e] # <<>> => pc'[e] \notin {"idle", "send", "recv"}
      <3>1. CASE RecvOther(e)
        <4>1. PICK f \in Inputs(e) :
                /\ f.op # "data" /\ ReadMessage(e, f)
                /\ Goto(e, CASE f.op = "close"   -> "reply"
                             [] f.op = "ping"    -> "pong"
                             [] f.op = "pong"    -> "recv"
                             [] f.op = "invalid" -> "handshake")
          BY <3>1 DEF RecvOther
        <4>2. ASSUME inbox[e] # <<>> PROVE f.op = "close"
          <5>1. NextInput(e) = "frame"
            BY <4>2 DEF NextInput
          <5>2. f = Head(inbox[e]) /\ inbox[e] \in Seq(Frame)
            BY <1>a, <4>1, <5>1 DEF ReadMessage, TypeOK, TcpTypeOK
          <5>3. f \in Frame
            BY <4>2, <5>2
          <5> QED  BY <4>1, <5>3 DEF Frame
        <4>3. inbox[e] # <<>> => pc'[e] = "reply"
          BY <1>a, <4>1, <4>2 DEF Goto, TypeOK, CallTypeOK
        <4> QED  BY <4>1, <4>3
      <3>2. CASE WaitReplyFrame(e)
        <4>1. PICK f \in Inputs(e) :
                /\ ReadMessage(e, f)
                /\ CASE f.op = "close"   -> CloseConnection(e, "close")
                     [] f.op = "invalid" -> CloseConnection(e, "fallback")
                     [] OTHER            -> UNCHANGED callVars
          BY <3>2 DEF WaitReplyFrame
        <4>2. \/ \E from \in Contexts : CloseConnection(e, from)
              \/ UNCHANGED callVars
          BY <4>1 DEF Contexts
        <4>3. pc'[e] \in {"close", "wait_reply"}
          BY <1>a, <3>2, <4>2
          DEF CloseConnection, callVars, WaitReplyFrame, TypeOK, CallTypeOK
        <4> QED  BY <4>1, <4>3
      <3> QED  BY <1>5, <3>1, <3>2
    <2>2. UNCHANGED <<sent, wire, delivered, interrupted>>
      BY <1>5 DEF RecvOther, WaitReplyFrame
    <2>3. CASE inbox[e] # <<>>
      <3>1. /\ f = Head(inbox[e]) /\ f \in Frame
            /\ inbox' = [inbox EXCEPT ![e] = Tail(@)]
            /\ UNCHANGED <<sockfd, rst, spurious>>
        BY <1>a, <2>1, <2>3, ReadEffect
      <3>2. Took(e, f)
        BY <2>1, <2>2, <2>3, <3>1 DEF Took
      <3> QED  BY <3>1, <3>2 DEF Effect
    <2>4. CASE inbox[e] = <<>>
      <3>1. MadeOneUp(e) \/ Quiet(e)
        BY <1>a, <2>1, <2>2, <2>4, ReadEffect DEF MadeOneUp, Quiet
      <3> QED  BY <3>1 DEF Effect
    <2> QED  BY <2>3, <2>4
  <1>6. ASSUME NEW e \in Endpoint, Reply(e) \/ Handshake(e) PROVE Effect(e)
    <2>1. \/ /\ Write(e, CloseFrame)
             /\ wire' = [wire EXCEPT ![e] = Append(@, CloseFrame)]
          \/ WriteFails(e) /\ UNCHANGED wire
      BY <1>6 DEF Reply, Handshake
    <2>2. /\ pc[e] \in {"reply", "handshake"}
          /\ UNCHANGED <<sent, delivered, interrupted, spurious>>
      BY <1>6 DEF Reply, Handshake
    <2>3. CASE /\ Write(e, CloseFrame)
               /\ wire' = [wire EXCEPT ![e] = Append(@, CloseFrame)]
      <3>1. CanWrite(e) /\ (interrupted[e] \/ ~ SentClose(e))
        BY <1>a, <2>2, <2>3 DEF Write, CanWrite, CloseEndsTheCall
      <3>2. Wrote(e, CloseFrame)
        BY <1>b, <2>2, <2>3, <3>1 DEF Write, Wrote
      <3> QED  BY <1>b, <3>2 DEF Effect
    <2>4. CASE WriteFails(e) /\ UNCHANGED wire
      BY <1>a, <2>2, <2>4, FailureEffect DEF Quiet, Effect
    <2> QED  BY <2>1, <2>3, <2>4
  <1>7. ASSUME NEW e \in Endpoint, CloseTcp(e) \/ Crash(e) PROVE Effect(e)
    <2>1. CloseSocket(e) /\ UNCHANGED history
      BY <1>7 DEF CloseTcp, Crash
    <2> QED  BY <1>a, <2>1, CloseEffect DEF Effect
  <1>8. ASSUME NEW e \in Endpoint, Linger(e) PROVE Effect(e)
    <2>1. \A d \in Endpoint :
             \/ rst'[d] = rst[d]
             \/ rst[d] \in {"pending", "cut"} /\ rst'[d] = "read"
      BY <1>8, <1>a DEF Linger, ErrorReported, TypeOK, TcpTypeOK
    <2> QED  BY <1>8, <2>1 DEF Linger, history, Quiet, Effect
  <1>9. ASSUME NEW e \in Endpoint, LingerInterrupted(e) PROVE Effect(e)
    <2>1. \/ UNCHANGED interrupted
          \/ interrupted' = [interrupted EXCEPT ![e] = @ \/ sockfd[e] = "open"]
      BY <1>9 DEF LingerInterrupted
    <2>2. ASSUME interrupted' = [interrupted EXCEPT ![e] = @ \/ sockfd[e] = "open"]
          PROVE  \/ UNCHANGED interrupted
                 \/ /\ sockfd[e] = "open"
                    /\ interrupted' = [interrupted EXCEPT ![e] = TRUE]
      <3>1. CASE sockfd[e] = "open"
        BY <2>2, <3>1, Zenon
      <3>2. CASE sockfd[e] # "open"
        <4>1. interrupted \in [Endpoint -> BOOLEAN]
          BY <1>a DEF HistoryTypeOK
        <4>2. (interrupted[e] \/ sockfd[e] = "open") <=> interrupted[e]
          BY <3>2, Zenon
        <4>3. interrupted' = interrupted
          BY <2>2, <4>1, <4>2
        <4> QED  BY <4>3
      <3> QED  BY <3>1, <3>2
    <2> QED  BY <1>9, <2>1, <2>2 DEF LingerInterrupted, tcpVars, Quiet, Effect
  <1>10. ASSUME NEW e \in Endpoint, Reset(e) PROVE Effect(e)
    <2>1. PICK k \in 0 .. Len(inbox[e]), error \in {"pending", "cut"} :
            /\ inbox' = [inbox EXCEPT ![e] = SubSeq(@, 1, k)]
            /\ rst' = [rst EXCEPT ![e] = error]
      BY <1>10 DEF Reset, ResetArrives
    <2> QED  BY <1>10, <2>1 DEF Reset, ResetArrives, history, CutShort, Effect
  <1> QED  BY <1>0, <1>1, <1>2, <1>3, <1>4, <1>5, <1>6, <1>7, <1>8, <1>9, <1>10
           DEF Next, Step

-----------------------------------------------------------------------------
(* What a step does to the calls.                                          *)

\* What was closed, sent or noted stays so.
LEMMA Monotone ==
  ASSUME TypeOK, NEW e \in Endpoint, Effect(e), NEW d \in Endpoint
  PROVE  /\ sockfd'[d] = "open" => sockfd[d] = "open"
         /\ sockfd[d] = "closed" => sockfd'[d] = "closed"
         /\ spurious[d] => spurious'[d]
         /\ interrupted[d] => interrupted'[d]
         /\ sent'[d] \in Nat /\ sent[d] <= sent'[d]
         /\ SentClose(d) => SentClose(d)'
  <1> USE DEF TypeOK, TcpTypeOK, HistoryTypeOK
  <1>1. ASSUME UNCHANGED <<sockfd, spurious, sent, wire>>,
               interrupted[d] => interrupted'[d]
        PROVE  /\ sockfd'[d] = "open" => sockfd[d] = "open"
               /\ sockfd[d] = "closed" => sockfd'[d] = "closed"
               /\ spurious[d] => spurious'[d]
               /\ interrupted[d] => interrupted'[d]
               /\ sent'[d] \in Nat /\ sent[d] <= sent'[d]
               /\ SentClose(d) => SentClose(d)'
    BY <1>1 DEF SentClose
  <1>2. CASE Quiet(e)
    <2>1. interrupted[d] => interrupted'[d]
      <3>1. CASE UNCHANGED interrupted
        BY <3>1, Zenon
      <3>2. CASE interrupted' = [interrupted EXCEPT ![e] = TRUE]
        BY <3>2, Zenon
      <3> QED  BY <1>2, <3>1, <3>2 DEF Quiet
    <2> QED  BY <1>1, <1>2, <2>1 DEF Quiet
  <1>3. CASE MadeOneUp(e)
    <2>1. spurious[d] => spurious'[d]
      BY <1>3, Zenon DEF MadeOneUp
    <2> QED  BY <1>3, <2>1 DEF MadeOneUp, SentClose
  <1>4. CASE WentDown(e)
    BY <1>4 DEF WentDown, SentClose
  <1>5. CASE CutShort(e)
    BY <1>1, <1>5 DEF CutShort
  <1>6. ASSUME NEW f \in Frame, Wrote(e, f) PROVE SentClose(d) => SentClose(d)'
    <2>1. wire[d] \in Seq(Frame) /\ wire[e] \in Seq(Frame)
      OBVIOUS
    <2>2. wire' = [wire EXCEPT ![e] = Append(@, f)]
      BY <1>6 DEF Wrote
    <2>3. CASE d = e
      <3>1. wire'[d] = Append(wire[d], f)
        BY <2>2, <2>3
      <3>2. /\ Len(wire'[d]) = Len(wire[d]) + 1 /\ Len(wire[d]) \in Nat
            /\ \A i \in 1 .. Len(wire[d]) : wire'[d][i] = wire[d][i]
        BY <2>1, <3>1
      <3>3. ASSUME NEW i \in 1 .. Len(wire[d]), wire[d][i].op = "close"
            PROVE  i \in 1 .. Len(wire'[d]) /\ wire'[d][i].op = "close"
        BY <3>2, <3>3
      <3> QED  BY <3>3 DEF SentClose
    <2>4. CASE d # e
      BY <2>2, <2>4 DEF SentClose
    <2> QED  BY <2>3, <2>4
  <1>7. ASSUME NEW f \in Frame, Wrote(e, f)
        PROVE  UNCHANGED <<sockfd, spurious, interrupted>>
               /\ sent'[d] \in Nat /\ sent[d] <= sent'[d]
    <2>1. sent' = sent \/ sent' = [sent EXCEPT ![e] = @ + 1]
      BY <1>7 DEF Wrote
    <2>2. sent'[d] = sent[d] \/ sent'[d] = sent[d] + 1
      BY <2>1
    <2> QED  BY <1>7, <2>2 DEF Wrote
  <1>8. ASSUME NEW f \in Frame, Took(e, f)
        PROVE  UNCHANGED <<sockfd, spurious, sent, wire, interrupted>>
    BY <1>8 DEF Took
  <1> QED  BY <1>1, <1>2, <1>3, <1>4, <1>5, <1>6, <1>7, <1>8 DEF Effect

\* d reads its peer's Close.
MeetsClose(d) ==
    /\ pc[d] = "recv" /\ inbox[d] # <<>> /\ Head(inbox[d]).op = "close"
    /\ UNCHANGED <<sent, delivered>>

\* How an endpoint comes to where its calls stand.
ControlStep(d) ==
    /\ pc'[d] \in {"idle", "send", "recv"} =>
          \/ pc[d] \in {"idle", "send", "recv"}
          \/ sockfd'[d] = "closed" \/ interrupted'[d]
    /\ pc'[d] = "pong" \/ ctx'[d] = "pong_failed" => spurious'[d]
    /\ ret'[d] = "closed" => sockfd'[d] = "closed"
    /\ Answers(d)' => Answers(d) \/ spurious'[d] \/ MeetsClose(d)

\* The calls of d stand where they stood.
Same(d) == pc'[d] = pc[d] /\ ctx'[d] = ctx[d] /\ ret'[d] = ret[d]

LEMMA SameStep ==
  ASSUME OrderInv, NEW e \in Endpoint, Effect(e), NEW d \in Endpoint, Same(d)
  PROVE  ControlStep(d)
  <1>1. (sockfd[d] = "closed" => sockfd'[d] = "closed")
        /\ (spurious[d] => spurious'[d])
    BY Unframed, Monotone
  <1>2. /\ ret[d] = "closed" => sockfd[d] = "closed"
        /\ pc[d] = "pong" \/ ctx[d] = "pong_failed" => spurious[d]
    BY Unframed DEF AnswerInv, Answered
  <1> QED  BY <1>1, <1>2 DEF Same, ControlStep, Answers

\* What the three ways of moving on do to the calls.
LEMMA Moves ==
  ASSUME CallTypeOK, NEW e \in Endpoint
  PROVE  /\ \A label : Goto(e, label) =>
               /\ pc'[e] = label /\ ctx'[e] = ctx[e] /\ ret'[e] = ret[e]
               /\ \A d \in Endpoint \ {e} : Same(d)
         /\ \A from : CloseConnection(e, from) =>
               /\ pc'[e] = "close" /\ ctx'[e] = from /\ ret'[e] = ret[e]
               /\ \A d \in Endpoint \ {e} : Same(d)
         /\ \A result : Return(e, result) =>
               /\ pc'[e] = "idle" /\ ctx'[e] = "none" /\ ret'[e] = result
               /\ \A d \in Endpoint \ {e} : Same(d)
  BY DEF CallTypeOK, Goto, CloseConnection, Return, Same

\* Every step moves the calls like that.
LEMMA NextControl ==
  ASSUME OrderInv, Next, NEW d \in Endpoint
  PROVE  ControlStep(d)
  <1>a. TypeOK /\ CallTypeOK /\ ContextOK /\ AnswerInv
    BY Unframed
  <1>b. PICK m \in Endpoint : Effect(m)
    BY NextEffect
  <1>c. (sockfd[d] = "closed" => sockfd'[d] = "closed")
        /\ (spurious[d] => spurious'[d])
    BY <1>a, <1>b, Monotone
  <1>d. /\ ret[d] = "closed" => sockfd[d] = "closed"
        /\ pc[d] = "pong" \/ ctx[d] = "pong_failed" => spurious[d]
    BY <1>a DEF AnswerInv, Answered
  <1>0. CASE Same(d)
    BY <1>0, <1>b, SameStep
  <1>1. ASSUME Send(d) PROVE ControlStep(d)
    <2>1. Return(d, "ok") /\ pc[d] = "send"
      BY <1>1 DEF Send
    <2> QED  BY <1>a, <2>1, Moves DEF ControlStep, Answers
  <1>2. ASSUME SendCall(d) \/ SendFails(d) \/ RecvCall(d) \/ CloseCall(d) \/ Crash(d)
        PROVE  ControlStep(d)
    <2>1. \/ pc'[d] = "close" /\ ctx'[d] = "send" /\ ret'[d] = ret[d]
          \/ /\ pc[d] = "idle" /\ pc'[d] \in {"send", "recv"}
             /\ ctx'[d] = ctx[d] /\ ret'[d] = ret[d]
          \/ pc'[d] = "handshake" /\ ctx'[d] = ctx[d] /\ ret'[d] = ret[d]
          \/ pc'[d] = "crashed" /\ ctx'[d] = "none" /\ ret'[d] = "none"
      BY <1>2, <1>a
      DEF SendCall, SendFails, RecvCall, CloseCall, Crash, CloseConnection, CallTypeOK
    <2> QED  BY <1>c, <1>d, <2>1 DEF ControlStep, Answers
  <1>3. ASSUME RecvTimeout(d) \/ RecvData(d) PROVE ControlStep(d)
    <2>1. pc[d] = "recv" /\ (Return(d, "timeout") \/ Return(d, "message"))
      BY <1>3 DEF RecvTimeout, RecvData
    <2> QED  BY <1>a, <2>1, Moves DEF ControlStep, Answers
  <1>4. ASSUME RecvInterrupted(d) \/ Linger(d) \/ LingerWakes(d) PROVE ControlStep(d)
    <2>1. Goto(d, "handshake") \/ Goto(d, "sleep") \/ Goto(d, "close")
      BY <1>4 DEF RecvInterrupted, Linger, LingerWakes
    <2>2. /\ pc'[d] \in {"handshake", "sleep", "close"}
          /\ ctx'[d] = ctx[d] /\ ret'[d] = ret[d]
      BY <1>a, <2>1, Moves
    <2> QED  BY <1>c, <1>d, <2>2 DEF ControlStep, Answers
  <1>5. ASSUME RecvOther(d) PROVE ControlStep(d)
    <2>1. PICK f \in Inputs(d) :
            /\ f.op # "data" /\ ReadMessage(d, f)
            /\ Goto(d, CASE f.op = "close"   -> "reply"
                         [] f.op = "ping"    -> "pong"
                         [] f.op = "pong"    -> "recv"
                         [] f.op = "invalid" -> "handshake")
      BY <1>5 DEF RecvOther
    <2>2. pc[d] = "recv" /\ UNCHANGED <<sent, delivered>>
      BY <1>5 DEF RecvOther
    <2>3. f.op \in {"close", "ping", "pong", "invalid"}
      BY <1>a, <2>1, InputOps
    <2>4. /\ f.op = "close" => Goto(d, "reply")
          /\ f.op = "ping" => Goto(d, "pong")
          /\ f.op = "pong" => Goto(d, "recv")
          /\ f.op = "invalid" => Goto(d, "handshake")
      BY <2>1
    <2>5. /\ f.op = "close" => pc'[d] = "reply"
          /\ f.op = "ping" => pc'[d] = "pong"
          /\ f.op = "pong" => pc'[d] = "recv"
          /\ f.op = "invalid" => pc'[d] = "handshake"
          /\ ctx'[d] = ctx[d] /\ ret'[d] = ret[d]
      BY <1>a, <2>3, <2>4, Moves
    <2>6. CASE inbox[d] # <<>>
      <3>1. f = Head(inbox[d]) /\ f \in Frame
        BY <1>a, <2>1, <2>6, ReadEffect
      <3>2. f.op = "close"
        BY <2>1, <3>1 DEF Frame
      <3>3. MeetsClose(d)
        BY <2>2, <2>6, <3>1, <3>2 DEF MeetsClose
      <3> QED  BY <1>c, <1>d, <2>5, <3>2, <3>3 DEF ControlStep, Answers
    <2>7. CASE inbox[d] = <<>> /\ f.op # "invalid"
      <3>1. spurious' = [spurious EXCEPT ![d] = TRUE]
        BY <1>a, <2>1, <2>7, ReadEffect
      <3>2. spurious'[d]
        BY <1>a, <3>1 DEF TypeOK, HistoryTypeOK
      <3> QED  BY <1>c, <1>d, <2>2, <2>5, <3>2 DEF ControlStep, Answers
    <2>8. CASE f.op = "invalid"
      BY <1>c, <1>d, <2>5, <2>8 DEF ControlStep, Answers
    <2> QED  BY <2>6, <2>7, <2>8
  <1>6. ASSUME Reply(d) PROVE ControlStep(d)
    <2>1. pc[d] = "reply"
          /\ (CloseConnection(d, "answer") \/ CloseConnection(d, "reply_failed"))
      BY <1>6 DEF Reply
    <2>2. pc'[d] = "close" /\ ctx'[d] \in {"answer", "reply_failed"} /\ ret'[d] = ret[d]
      BY <1>a, <2>1, Moves
    <2> QED  BY <1>c, <1>d, <2>1, <2>2 DEF ControlStep, Answers
  <1>7. ASSUME Pong(d) PROVE ControlStep(d)
    <2>1. pc[d] = "pong" /\ CloseConnection(d, "pong_failed")
      BY <1>7 DEF Pong
    <2>2. pc'[d] = "close" /\ ret'[d] = ret[d]
      BY <1>a, <2>1, Moves
    <2> QED  BY <1>c, <1>d, <2>1, <2>2 DEF ControlStep, Answers
  <1>8. ASSUME Handshake(d) PROVE ControlStep(d)
    <2>1. Goto(d, "wait_reply") \/ CloseConnection(d, "close_failed")
      BY <1>8 DEF Handshake
    <2>2. /\ pc'[d] \in {"wait_reply", "close"}
          /\ ctx'[d] \in {ctx[d], "close_failed"} /\ ret'[d] = ret[d]
      BY <1>a, <2>1, Moves
    <2> QED  BY <1>c, <1>d, <2>2 DEF ControlStep, Answers
  <1>9. ASSUME WaitReplyFrame(d) \/ WaitReplyTimeout(d) PROVE ControlStep(d)
    <2>1. \/ CloseConnection(d, "close") \/ CloseConnection(d, "fallback")
          \/ UNCHANGED callVars
      BY <1>9 DEF WaitReplyFrame, WaitReplyTimeout
    <2>2. CASE UNCHANGED callVars
      BY <1>0, <2>2 DEF callVars, Same
    <2>3. CASE CloseConnection(d, "close") \/ CloseConnection(d, "fallback")
      <3>1. pc'[d] = "close" /\ ctx'[d] \in {"close", "fallback"} /\ ret'[d] = ret[d]
        BY <1>a, <2>3, Moves
      <3> QED  BY <1>c, <1>d, <3>1 DEF ControlStep, Answers
    <2> QED  BY <2>1, <2>2, <2>3
  <1>10. ASSUME CloseTcp(d) PROVE ControlStep(d)
    <2>1. pc[d] = "close" /\ CloseSocket(d) /\ AfterCloseConnection(d)
      BY <1>10 DEF CloseTcp
    <2>2. sockfd'[d] = "closed"
      BY <1>a, <2>1 DEF CloseSocket, Disconnect, tcpVars, TypeOK, TcpTypeOK
    <2>3. ctx[d] \in Contexts \ {"none"}
      BY <1>a, <2>1 DEF ContextOK, CallTypeOK
    <2>4. HandshakeResult(d) # "closed"
      BY DEF HandshakeResult
    <2>5. /\ ctx[d] = "send" => Return(d, "failed")
          /\ ctx[d] = "reply_failed" => CloseConnection(d, "answer")
          /\ ctx[d] \in {"answer", "pong_failed"} => Return(d, "closed")
          /\ ctx[d] = "close_failed" => CloseConnection(d, "close")
          /\ ctx[d] \in {"close", "fallback"} => Return(d, HandshakeResult(d))
      BY <2>1 DEF AfterCloseConnection
    <2>6. /\ ctx[d] \notin {"reply_failed", "close_failed"} =>
                /\ ctx'[d] = "none" /\ pc'[d] = "idle"
                /\ ctx[d] \notin {"answer", "pong_failed"} => ret'[d] # "closed"
          /\ ctx[d] \in {"reply_failed", "close_failed"} =>
                /\ pc'[d] = "close" /\ ret'[d] = ret[d]
                /\ ctx'[d] = IF ctx[d] = "reply_failed" THEN "answer" ELSE "close"
      BY <1>a, <2>3, <2>4, <2>5, Moves DEF Contexts
    <2> QED  BY <1>c, <1>d, <2>1, <2>2, <2>6 DEF ControlStep, Answers
  <1>11. ASSUME LingerInterrupted(d) PROVE ControlStep(d)
    <2>1. CASE CloseConnection(d, "fallback")
      <3>1. pc'[d] = "close" /\ ctx'[d] = "fallback" /\ ret'[d] = ret[d]
        BY <1>a, <2>1, Moves
      <3> QED  BY <1>c, <1>d, <3>1 DEF ControlStep, Answers
    <2>2. CASE /\ Return(d, "thrown")
               /\ interrupted' = [interrupted EXCEPT ![d] = @ \/ sockfd[d] = "open"]
      <3>1. pc'[d] = "idle" /\ ctx'[d] = "none" /\ ret'[d] = "thrown"
        BY <1>a, <2>2, Moves
      <3>2. sockfd'[d] = "closed" \/ interrupted'[d]
        <4>1. CASE sockfd[d] = "open"
          <5>1. interrupted'[d]
            BY <1>a, <2>2, <4>1, Zenon DEF TypeOK, HistoryTypeOK
          <5> QED  BY <5>1
        <4>2. CASE sockfd[d] = "closed"
          BY <1>c, <4>2
        <4> QED  BY <1>a, <4>1, <4>2 DEF TypeOK, TcpTypeOK
      <3> QED  BY <1>c, <1>d, <3>1, <3>2 DEF ControlStep, Answers
    <2> QED  BY <1>11, <2>1, <2>2 DEF LingerInterrupted
  <1>12. ASSUME NEW e \in Endpoint, e # d,
                SendCall(e) \/ Send(e) \/ SendFails(e) \/ RecvCall(e) \/ CloseCall(e)
                \/ Crash(e)
                \/ RecvTimeout(e) \/ RecvData(e) \/ RecvInterrupted(e) \/ Linger(e)
                \/ LingerWakes(e) \/ Reply(e) \/ Pong(e) \/ Handshake(e)
                \/ WaitReplyFrame(e) \/ WaitReplyTimeout(e) \/ LingerInterrupted(e)
         PROVE  Same(d)
    BY <1>a, <1>12
    DEF SendCall, Send, SendFails, RecvCall, CloseCall, Crash, RecvTimeout, RecvData,
        RecvInterrupted, Linger, LingerWakes, Reply, Pong, Handshake,
        WaitReplyFrame, WaitReplyTimeout, LingerInterrupted, Goto, Return,
        CloseConnection, callVars, CallTypeOK, Same
  <1>13. ASSUME NEW e \in Endpoint, e # d, RecvOther(e) PROVE Same(d)
    <2>1. PICK f \in Inputs(e) :
            Goto(e, CASE f.op = "close"   -> "reply"
                      [] f.op = "ping"    -> "pong"
                      [] f.op = "pong"    -> "recv"
                      [] f.op = "invalid" -> "handshake")
      BY <1>13 DEF RecvOther
    <2> QED  BY <1>a, <1>13, <2>1 DEF Goto, CallTypeOK, Same
  <1>14. ASSUME NEW e \in Endpoint, e # d, CloseTcp(e) PROVE Same(d)
    <2>1. ctx[e] \in Contexts \ {"none"} /\ AfterCloseConnection(e)
      BY <1>a, <1>14 DEF CloseTcp, ContextOK, CallTypeOK
    <2>2. \/ \E result : Return(e, result)
          \/ \E from : CloseConnection(e, from)
      BY <2>1 DEF AfterCloseConnection, Contexts, HandshakeResult
    <2> QED  BY <1>a, <1>14, <2>2, Moves
  <1>15. ASSUME NEW e \in Endpoint, Reset(e) PROVE Same(d)
    BY <1>15 DEF Reset, callVars, Same
  <1>16. ASSUME WriteInterrupted(d) PROVE ControlStep(d)
    <2>1. /\ pc'[d] = "close" /\ ret'[d] = ret[d]
          /\ \/ ctx'[d] \in {"send", "close_failed"}
             \/ pc[d] = "reply" /\ ctx'[d] = "reply_failed"
      BY <1>16, <1>a, InterruptedWrite, Moves
    <2> QED  BY <1>c, <1>d, <2>1 DEF ControlStep, Answers
  <1>17. ASSUME NEW e \in Endpoint, e # d, WriteInterrupted(e) PROVE Same(d)
    BY <1>17, <1>a, InterruptedWrite, Moves
  <1> QED  BY <1>0, <1>1, <1>2, <1>3, <1>4, <1>5, <1>6, <1>7, <1>8, <1>9, <1>10,
              <1>11, <1>12, <1>13, <1>14, <1>15, <1>16, <1>17
           DEF Next, Step

\* An endpoint does not come back from closing.
LEMMA ReceivingBefore ==
  ASSUME OrderInv, Next, NEW d \in Endpoint, Receiving(d)'
  PROVE  Receiving(d)
  <1>1. PICK e \in Endpoint : Effect(e)
    BY NextEffect
  <1>2. /\ sockfd'[d] = "open" => sockfd[d] = "open"
        /\ spurious[d] => spurious'[d]
        /\ interrupted[d] => interrupted'[d]
    BY <1>1, Unframed, Monotone
  <1> QED  BY <1>2, NextControl DEF ControlStep, Receiving

-----------------------------------------------------------------------------
(* Each part of the invariant is kept.                                     *)

LEMMA PeerOfPeer ==
  \A e \in Endpoint : /\ Peer(e) \in Endpoint /\ Peer(e) # e /\ Peer(Peer(e)) = e
                      /\ \A d \in Endpoint : d = e \/ d = Peer(e)
  BY DEF Endpoint, Peer

LEMMA LinkStep ==
  ASSUME OrderInv, TypeOK', NEW e \in Endpoint, Effect(e)
  PROVE  LinkInv'
  <1>a. TypeOK /\ LinkInv
    BY Unframed
  <1> USE <1>a, PeerOfPeer DEF TypeOK, TcpTypeOK, LinkInv
  <1>1. CASE Quiet(e)
    BY <1>1 DEF Quiet
  <1>2. CASE MadeOneUp(e)
    BY <1>2 DEF MadeOneUp
  <1>3. CASE WentDown(e)
    <2>1. /\ sockfd'[e] = "closed" /\ inbox'[e] = <<>> /\ rst'[e] = "none"
          /\ sockfd'[Peer(e)] = sockfd[Peer(e)] /\ inbox'[Peer(e)] = inbox[Peer(e)]
      BY <1>3 DEF WentDown
    <2> QED  BY <2>1
  <1>4. CASE CutShort(e)
    <2>1. PICK k \in 0 .. Len(inbox[e]), error \in {"pending", "cut"} :
            /\ inbox' = [inbox EXCEPT ![e] = SubSeq(@, 1, k)]
            /\ rst' = [rst EXCEPT ![e] = error]
      BY <1>4 DEF CutShort
    <2>2. rst[e] = "owed" /\ UNCHANGED sockfd
      BY <1>4 DEF CutShort
    <2>3. inbox[e] = <<>> => inbox'[e] = <<>>
      BY <2>1
    <2> QED  BY <2>1, <2>2, <2>3
  <1>5. ASSUME NEW f \in Frame, Wrote(e, f) PROVE LinkInv'
    <2>1. UNCHANGED sockfd
      BY <1>5 DEF Wrote
    <2>2. CASE sockfd[Peer(e)] = "open"
      BY <1>5, <2>1, <2>2 DEF Wrote
    <2>3. CASE sockfd[Peer(e)] = "closed"
      BY <1>5, <2>1, <2>3 DEF Wrote
    <2> QED  BY <2>2, <2>3
  <1>6. ASSUME NEW f \in Frame, Took(e, f) PROVE LinkInv'
    BY <1>6 DEF Took
  <1> QED  BY <1>1, <1>2, <1>3, <1>4, <1>5, <1>6 DEF Effect

\* The frame taken from the head of what e can read.
LEMMA TakenFrame ==
  ASSUME OrderInv, NEW e \in Endpoint, NEW f \in Frame, Took(e, f)
  PROVE  /\ inbox[e] \in Seq(Frame) /\ Len(inbox[e]) \in Nat /\ Len(inbox[e]) > 0
         /\ f = inbox[e][1]
         /\ inbox'[e] = Tail(inbox[e]) /\ Len(inbox'[e]) = Len(inbox[e]) - 1
         /\ \A i \in 1 .. Len(inbox'[e]) :
               inbox'[e][i] = inbox[e][i + 1] /\ i + 1 \in 1 .. Len(inbox[e])
         /\ inbox'[Peer(e)] = inbox[Peer(e)]
         /\ sockfd[e] = "open" /\ ~ spurious[e]
  <1>1. inbox[e] \in Seq(Frame) /\ inbox[e] # <<>>
    BY Unframed DEF TcpTypeOK, Took
  <1>2. /\ f = Head(inbox[e]) /\ inbox' = [inbox EXCEPT ![e] = Tail(@)]
        /\ inbox \in [Endpoint -> Seq(Frame)]
    BY Unframed DEF Took, TcpTypeOK
  <1>3. inbox'[e] = Tail(inbox[e]) /\ inbox'[Peer(e)] = inbox[Peer(e)]
    BY <1>2, PeerOfPeer
  <1>4. sockfd[e] = "open" /\ ~ spurious[e]
    BY <1>1, Unframed DEF LinkInv, MadeUpInv, MadeUpLast, TcpTypeOK
  <1> QED  BY <1>1, <1>2, <1>3, <1>4

\* What recv appends to the messages.
LEMMA TakenMessage ==
  ASSUME OrderInv, NEW e \in Endpoint, NEW f \in Frame, Took(e, f)
  PROVE  /\ delivered'[Peer(e)] = delivered[Peer(e)]
         /\ \/ delivered'[e] = delivered[e] /\ pc'[e] \notin {"idle", "send", "recv"}
            \/ /\ f.op = "data" /\ pc[e] = "recv"
               /\ f.id \in 1 .. sent[Peer(e)]
               /\ \A k \in 1 .. Len(delivered[e]) : delivered[e][k] < f.id
               /\ delivered'[e] = Append(delivered[e], f.id)
               /\ Len(delivered'[e]) = Len(delivered[e]) + 1
               /\ delivered'[e][Len(delivered[e]) + 1] = f.id
               /\ \A k \in 1 .. Len(delivered[e]) : delivered'[e][k] = delivered[e][k]
  <1>a. /\ delivered \in [Endpoint -> Seq(Nat)] /\ sent \in [Endpoint -> Nat]
        /\ StreamInv
    BY Unframed DEF HistoryTypeOK
  <1>1. f = inbox[e][1] /\ 1 \in 1 .. Len(inbox[e])
    BY TakenFrame
  <1>2. CASE UNCHANGED delivered /\ pc'[e] \notin {"idle", "send", "recv"}
    BY <1>2
  <1>3. CASE /\ pc[e] = "recv" /\ f.op = "data"
             /\ delivered' = [delivered EXCEPT ![e] = Append(@, f.id)]
    <2>1. /\ f.id \in 1 .. sent[Peer(e)]
          /\ \A k \in 1 .. Len(delivered[e]) : delivered[e][k] < f.id
      BY <1>a, <1>1, <1>3 DEF StreamInv, Stream
    <2>2. delivered'[e] = Append(delivered[e], f.id)
          /\ delivered'[Peer(e)] = delivered[Peer(e)]
      BY <1>a, <1>3, PeerOfPeer
    <2>3. delivered[e] \in Seq(Nat) /\ f.id \in Nat
      BY <1>a DEF Frame
    <2> QED  BY <1>3, <2>1, <2>2, <2>3
  <1> QED  BY <1>2, <1>3 DEF Took

\* What a write does to the number of messages sent, and to the peer's frames.
LEMMA WrittenFrame ==
  ASSUME OrderInv, NEW e \in Endpoint, NEW f \in Frame, Wrote(e, f)
  PROVE  /\ sent'[Peer(e)] = sent[Peer(e)] /\ inbox'[e] = inbox[e]
         /\ \/ f.op = "data" /\ f.id = sent[e] + 1 /\ sent'[e] = sent[e] + 1
            \/ f.op = "close" /\ sent'[e] = sent[e]
         /\ f.op = "close" => SentClose(e)'
         /\ sockfd[e] = "open" /\ rst[e] \in {"none", "owed"}
         /\ \/ inbox'[Peer(e)] = inbox[Peer(e)] /\ sockfd[Peer(e)] # "open"
            \/ /\ inbox[Peer(e)] \in Seq(Frame) /\ sockfd[Peer(e)] = "open"
               /\ inbox'[Peer(e)] = Append(inbox[Peer(e)], f)
               /\ Len(inbox'[Peer(e)]) = Len(inbox[Peer(e)]) + 1
               /\ inbox'[Peer(e)][Len(inbox[Peer(e)]) + 1] = f
               /\ \A i \in 1 .. Len(inbox[Peer(e)]) :
                     inbox'[Peer(e)][i] = inbox[Peer(e)][i]
  <1>a. /\ sent \in [Endpoint -> Nat] /\ inbox \in [Endpoint -> Seq(Frame)]
        /\ wire \in [Endpoint -> Seq(Frame)]
    BY Unframed DEF HistoryTypeOK, TcpTypeOK
  <1>b. Peer(e) \in Endpoint /\ Peer(e) # e
    BY PeerOfPeer
  <1>1. \/ f.op = "data" /\ f.id = sent[e] + 1 /\ sent' = [sent EXCEPT ![e] = @ + 1]
        \/ f.op = "close" /\ UNCHANGED sent
    BY DEF Wrote
  <1>2. /\ sent'[Peer(e)] = sent[Peer(e)]
        /\ \/ f.op = "data" /\ f.id = sent[e] + 1 /\ sent'[e] = sent[e] + 1
           \/ f.op = "close" /\ sent'[e] = sent[e]
    BY <1>a, <1>b, <1>1
  <1>3. f.op = "close" => SentClose(e)'
    <2>1. wire'[e] = Append(wire[e], f) /\ wire[e] \in Seq(Frame)
      BY <1>a DEF Wrote
    <2>2. /\ Len(wire[e]) + 1 \in 1 .. Len(wire'[e])
          /\ wire'[e][Len(wire[e]) + 1] = f
      BY <2>1
    <2> QED  BY <2>2 DEF SentClose
  <1>4. sockfd[e] = "open" /\ rst[e] \in {"none", "owed"}
    BY DEF Wrote, CanWrite
  <1>5. CASE sockfd[Peer(e)] # "open"
    <2>1. UNCHANGED inbox
      BY <1>5 DEF Wrote
    <2> QED  BY <1>2, <1>3, <1>4, <1>5, <2>1
  <1>6. CASE sockfd[Peer(e)] = "open"
    <2>1. inbox' = [inbox EXCEPT ![Peer(e)] = Append(@, f)]
      BY <1>6 DEF Wrote
    <2>2. /\ inbox'[e] = inbox[e] /\ inbox'[Peer(e)] = Append(inbox[Peer(e)], f)
          /\ inbox[Peer(e)] \in Seq(Frame)
      BY <1>a, <1>b, <2>1
    <2>3. /\ Len(inbox'[Peer(e)]) = Len(inbox[Peer(e)]) + 1
          /\ inbox'[Peer(e)][Len(inbox[Peer(e)]) + 1] = f
          /\ \A i \in 1 .. Len(inbox[Peer(e)]) :
                     inbox'[Peer(e)][i] = inbox[Peer(e)][i]
      BY <2>2
    <2> QED  BY <1>2, <1>3, <1>4, <1>6, <2>2, <2>3
  <1> QED  BY <1>5, <1>6

\* What is left of the frames after a reset.
LEMMA Remains ==
  ASSUME OrderInv, NEW e \in Endpoint, CutShort(e)
  PROVE  /\ rst[e] = "owed" /\ sockfd[Peer(e)] = "closed"
         /\ inbox'[Peer(e)] = inbox[Peer(e)]
         /\ Len(inbox'[e]) \in 0 .. Len(inbox[e])
         /\ \A i \in 1 .. Len(inbox'[e]) :
               inbox'[e][i] = inbox[e][i] /\ i \in 1 .. Len(inbox[e])
         /\ inbox[e] = <<>> => inbox'[e] = <<>>
  <1>a. inbox \in [Endpoint -> Seq(Frame)] /\ LinkInv
    BY Unframed DEF TcpTypeOK
  <1>1. PICK k \in 0 .. Len(inbox[e]) : inbox' = [inbox EXCEPT ![e] = SubSeq(@, 1, k)]
    BY DEF CutShort
  <1>2. /\ inbox'[e] = SubSeq(inbox[e], 1, k) /\ inbox[e] \in Seq(Frame)
        /\ inbox'[Peer(e)] = inbox[Peer(e)]
    BY <1>a, <1>1, PeerOfPeer
  <1>3. rst[e] = "owed" /\ sockfd[Peer(e)] = "closed"
    BY <1>a DEF CutShort, LinkInv
  <1>4. Len(inbox[e]) \in Nat /\ Len(inbox'[e]) = k
    BY <1>2
  <1>5. \A i \in 1 .. k : inbox'[e][i] = inbox[e][i] /\ i \in 1 .. Len(inbox[e])
    BY <1>2, <1>4
  <1>6. inbox[e] = <<>> => inbox'[e] = <<>>
    BY <1>2
  <1> QED  BY <1>2, <1>3, <1>4, <1>5, <1>6

\* A stream of which only frames are lost, at its beginning or its end.
LEMMA StreamLess ==
  ASSUME TypeOK, NEW d \in Endpoint, Stream(d), NEW s \in Nat,
         \A i \in 1 .. Len(inbox'[d]) :
            inbox'[d][i] = inbox[d][i + s] /\ i + s \in 1 .. Len(inbox[d]),
         delivered'[d] = delivered[d],
         SentClose(Peer(d)) => SentClose(Peer(d))',
         sent'[Peer(d)] \in Nat, sent[Peer(d)] <= sent'[Peer(d)]
  PROVE  Stream(d)'
  <1>a. sent[Peer(d)] \in Nat
    BY PeerOfPeer DEF TypeOK, HistoryTypeOK
  <1>1. ASSUME NEW i \in 1 .. Len(inbox'[d]), inbox'[d][i].op = "close"
        PROVE  SentClose(Peer(d))'
    BY <1>1 DEF Stream
  <1>2. ASSUME NEW i \in 1 .. Len(inbox'[d]), inbox'[d][i].op = "data"
        PROVE  inbox'[d][i].id \in 1 .. sent'[Peer(d)]
    <2>1. inbox'[d][i].id \in 1 .. sent[Peer(d)]
      BY <1>2 DEF Stream
    <2> QED  BY <1>a, <2>1
  <1>3. ASSUME NEW i \in 1 .. Len(inbox'[d]), inbox'[d][i].op = "data",
               NEW k \in 1 .. Len(delivered'[d])
        PROVE  delivered'[d][k] < inbox'[d][i].id
    BY <1>3 DEF Stream
  <1>4. ASSUME NEW i \in 1 .. Len(inbox'[d]), NEW j \in 1 .. Len(inbox'[d]), i < j,
               inbox'[d][i].op = "data", inbox'[d][j].op = "data"
        PROVE  inbox'[d][i].id < inbox'[d][j].id
    <2>1. /\ inbox'[d][i] = inbox[d][i + s] /\ i + s \in 1 .. Len(inbox[d])
          /\ inbox'[d][j] = inbox[d][j + s] /\ j + s \in 1 .. Len(inbox[d])
      OBVIOUS
    <2>2. i + s < j + s
      BY <1>4, <2>1
    <2> QED  BY <1>4, <2>1, <2>2 DEF Stream
  <1> QED  BY <1>1, <1>2, <1>3, <1>4 DEF Stream

LEMMA StreamStep ==
  ASSUME OrderInv, TypeOK', NEW e \in Endpoint, Effect(e)
  PROVE  StreamInv'
  <1> SUFFICES ASSUME NEW d \in Endpoint PROVE Stream(d)'
    BY DEF StreamInv
  <1>a. /\ TypeOK /\ Stream(d) /\ Stream(Peer(d)) /\ MadeUpLast(d) /\ LinkInv
        /\ Len(inbox[d]) \in Nat /\ Len(delivered[d]) \in Nat
        /\ sent \in [Endpoint -> Nat] /\ delivered[d] \in Seq(Nat)
        /\ inbox \in [Endpoint -> Seq(Frame)]
    BY Unframed, PeerOfPeer DEF StreamInv, MadeUpInv, TcpTypeOK, HistoryTypeOK
  <1>b. /\ SentClose(Peer(d)) => SentClose(Peer(d))'
        /\ sent[Peer(d)] \in Nat /\ sent'[Peer(d)] \in Nat
        /\ sent[Peer(d)] <= sent'[Peer(d)]
    BY <1>a, Unframed, PeerOfPeer, Monotone
  <1>1. ASSUME inbox'[d] = inbox[d], delivered'[d] = delivered[d]
        PROVE  Stream(d)'
    <2>1. \A i \in 1 .. Len(inbox'[d]) :
             inbox'[d][i] = inbox[d][i + 0] /\ i + 0 \in 1 .. Len(inbox[d])
      BY <1>1
    <2> QED  BY <1>a, <1>b, <1>1, <2>1, StreamLess
  <1>2. ASSUME inbox'[d] = <<>> PROVE Stream(d)'
    BY <1>2 DEF Stream
  <1>3. CASE Quiet(e)
    BY <1>1, <1>3 DEF Quiet
  <1>4. CASE MadeOneUp(e)
    <2>1. CASE d = e
      <3>1. inbox'[d] = <<>>
        BY <1>4, <2>1 DEF MadeOneUp
      <3> QED  BY <1>2, <3>1
    <2>2. CASE d # e
      <3>1. inbox'[d] = inbox[d] /\ delivered'[d] = delivered[d]
        BY <1>a, <1>4, <2>2 DEF MadeOneUp, TypeOK, HistoryTypeOK
      <3> QED  BY <1>1, <3>1
    <2> QED  BY <2>1, <2>2
  <1>5. CASE WentDown(e)
    <2>1. UNCHANGED delivered /\ inbox' = [inbox EXCEPT ![e] = <<>>]
      BY <1>5 DEF WentDown
    <2>2. inbox'[d] = <<>> \/ inbox'[d] = inbox[d]
      BY <1>a, <2>1
    <2> QED  BY <1>1, <1>2, <2>1, <2>2
  <1>6. CASE CutShort(e)
    <2>1. UNCHANGED delivered
      BY <1>6 DEF CutShort
    <2>2. CASE d = e
      <3>1. /\ Len(inbox'[d]) \in 0 .. Len(inbox[d])
            /\ \A i \in 1 .. Len(inbox'[d]) :
                  inbox'[d][i] = inbox[d][i + 0] /\ i + 0 \in 1 .. Len(inbox[d])
        BY <1>6, <2>2, Remains
      <3> QED  BY <1>a, <1>b, <2>1, <3>1, StreamLess
    <2>3. CASE d = Peer(e)
      BY <1>1, <1>6, <2>1, <2>3, Remains
    <2> QED  BY <2>2, <2>3, PeerOfPeer
  <1>7. ASSUME NEW f \in Frame, Wrote(e, f) PROVE Stream(d)'
    <2>1. UNCHANGED delivered
      BY <1>7 DEF Wrote
    <2>2. CASE d = e
      BY <1>1, <1>7, <2>1, <2>2, WrittenFrame
    <2>3. CASE d = Peer(e) /\ inbox'[d] = inbox[d]
      BY <1>1, <2>1, <2>3
    <2>4. CASE d = Peer(e) /\ inbox'[d] # inbox[d]
      <3> DEFINE n == Len(inbox[d])
      <3>0. Peer(d) = e
        BY <2>4, PeerOfPeer
      <3>1. /\ Len(inbox'[d]) = n + 1 /\ inbox'[d][n + 1] = f
            /\ \A i \in 1 .. n : inbox'[d][i] = inbox[d][i]
        BY <1>7, <2>4, WrittenFrame
      <3>2. /\ \/ f.op = "data" /\ f.id = sent[e] + 1 /\ sent'[e] = sent[e] + 1
               \/ f.op = "close" /\ sent'[e] = sent[e]
            /\ f.op = "close" => SentClose(e)'
        BY <1>7, WrittenFrame
      <3>3. \A k \in 1 .. Len(delivered[d]) :
               delivered[d][k] \in Nat /\ delivered[d][k] <= sent[e]
        BY <1>a, <3>0 DEF MadeUpLast
      <3>4. \A i \in 1 .. n :
               inbox[d][i].op = "data" => inbox[d][i].id \in 1 .. sent[e]
        BY <1>a, <3>0 DEF Stream
      <3>5. ASSUME NEW i \in 1 .. n + 1
            PROVE  /\ inbox'[d][i].op = "close" => SentClose(Peer(d))'
                   /\ inbox'[d][i].op = "data" =>
                         /\ inbox'[d][i].id \in 1 .. sent'[Peer(d)]
                         /\ \A k \in 1 .. Len(delivered'[d]) :
                               delivered'[d][k] < inbox'[d][i].id
        <4>1. CASE i \in 1 .. n
          <5>1. /\ inbox[d][i].op = "close" => SentClose(Peer(d))'
                /\ inbox[d][i].op = "data" =>
                      /\ inbox[d][i].id \in 1 .. sent[Peer(d)]
                      /\ \A k \in 1 .. Len(delivered[d]) :
                            delivered[d][k] < inbox[d][i].id
            BY <1>a, <1>b, <4>1 DEF Stream
          <5>2. inbox'[d][i] = inbox[d][i] /\ delivered'[d] = delivered[d]
            BY <2>1, <3>1, <4>1
          <5>3. \A id \in 1 .. sent[Peer(d)] : id \in 1 .. sent'[Peer(d)]
            BY <1>b
          <5> QED  BY <5>1, <5>2, <5>3
        <4>2. CASE i = n + 1
          <5>1. inbox'[d][i] = f
            BY <3>1, <4>2
          <5>2. f.op = "close" => SentClose(Peer(d))'
            BY <3>0, <3>2
          <5>3. f.op = "data" => f.id \in 1 .. sent'[Peer(d)]
            BY <1>b, <3>0, <3>2
          <5>4. f.op = "data" => \A k \in 1 .. Len(delivered'[d]) :
                                    delivered'[d][k] < f.id
            BY <1>b, <2>1, <3>0, <3>2, <3>3
          <5> QED  BY <5>1, <5>2, <5>3, <5>4
        <4> QED  BY <1>a, <4>1, <4>2
      <3>6. ASSUME NEW i \in 1 .. n + 1, NEW j \in 1 .. n + 1, i < j,
                   inbox'[d][i].op = "data", inbox'[d][j].op = "data"
            PROVE  inbox'[d][i].id < inbox'[d][j].id
        <4>1. i \in 1 .. n /\ inbox'[d][i] = inbox[d][i]
          BY <1>a, <3>1, <3>6
        <4>2. CASE j \in 1 .. n
          BY <1>a, <3>1, <3>6, <4>1, <4>2 DEF Stream
        <4>3. CASE j = n + 1
          <5>1. inbox[d][i].id \in 1 .. sent[e]
            BY <3>4, <3>6, <4>1
          <5>2. inbox'[d][j].id = sent[e] + 1
            BY <3>1, <3>2, <3>6, <4>3
          <5> QED  BY <1>b, <3>0, <4>1, <5>1, <5>2
        <4> QED  BY <1>a, <4>2, <4>3
      <3> QED  BY <3>1, <3>5, <3>6 DEF Stream
    <2> QED  BY <2>2, <2>3, <2>4, PeerOfPeer
  <1>8. ASSUME NEW f \in Frame, Took(e, f) PROVE Stream(d)'
    <2>1. UNCHANGED <<sent, wire>>
      BY <1>8 DEF Took
    <2>2. CASE d = Peer(e)
      BY <1>1, <1>8, <2>2, TakenFrame, TakenMessage
    <2>3. CASE d = e
      <3> DEFINE n == Len(delivered[d])
      <3>1. /\ Len(inbox[d]) > 0 /\ f = inbox[d][1]
            /\ \A i \in 1 .. Len(inbox'[d]) :
                  inbox'[d][i] = inbox[d][i + 1] /\ i + 1 \in 1 .. Len(inbox[d])
        BY <1>8, <2>3, TakenFrame
      <3>2. CASE delivered'[d] = delivered[d]
        BY <1>a, <1>b, <3>1, <3>2, StreamLess
      <3>3. CASE delivered'[d] # delivered[d]
        <4>1. /\ f.op = "data" /\ Len(delivered'[d]) = n + 1
              /\ delivered'[d][n + 1] = f.id
              /\ \A k \in 1 .. n : delivered'[d][k] = delivered[d][k]
          BY <1>8, <2>3, <3>3, TakenMessage
        <4>2. ASSUME NEW i \in 1 .. Len(inbox'[d])
              PROVE  /\ inbox'[d][i].op = "close" => SentClose(Peer(d))'
                     /\ inbox'[d][i].op = "data" =>
                            inbox'[d][i].id \in 1 .. sent'[Peer(d)]
          BY <1>a, <1>b, <2>1, <3>1 DEF Stream
        <4>3. ASSUME NEW i \in 1 .. Len(inbox'[d]), inbox'[d][i].op = "data",
                     NEW k \in 1 .. n + 1
              PROVE  delivered'[d][k] < inbox'[d][i].id
          <5>1. inbox'[d][i] = inbox[d][i + 1] /\ i + 1 \in 1 .. Len(inbox[d])
            BY <3>1
          <5>2. CASE k \in 1 .. n
            BY <1>a, <4>1, <4>3, <5>1, <5>2 DEF Stream
          <5>3. CASE k = n + 1
            <6>1. 1 \in 1 .. Len(inbox[d]) /\ 1 < i + 1
              BY <1>a, <3>1
            <6>2. f.id < inbox[d][i + 1].id
              BY <1>a, <3>1, <4>1, <4>3, <5>1, <6>1 DEF Stream
            <6> QED  BY <4>1, <5>1, <5>3, <6>2
          <5> QED  BY <1>a, <5>2, <5>3
        <4>4. ASSUME NEW i \in 1 .. Len(inbox'[d]), NEW j \in 1 .. Len(inbox'[d]),
                     i < j, inbox'[d][i].op = "data", inbox'[d][j].op = "data"
              PROVE  inbox'[d][i].id < inbox'[d][j].id
          <5>1. /\ inbox'[d][i] = inbox[d][i + 1] /\ i + 1 \in 1 .. Len(inbox[d])
                /\ inbox'[d][j] = inbox[d][j + 1] /\ j + 1 \in 1 .. Len(inbox[d])
            BY <3>1
          <5>2. i + 1 < j + 1
            BY <4>4, <5>1
          <5> QED  BY <1>a, <4>4, <5>1, <5>2 DEF Stream
        <4> QED  BY <4>1, <4>2, <4>3, <4>4 DEF Stream
      <3> QED  BY <3>2, <3>3
    <2> QED  BY <2>2, <2>3, PeerOfPeer
  <1> QED  BY <1>3, <1>4, <1>5, <1>6, <1>7, <1>8 DEF Effect

LEMMA MadeUpStep ==
  ASSUME OrderInv, NEW e \in Endpoint, Effect(e)
  PROVE  MadeUpInv'
  <1> SUFFICES ASSUME NEW d \in Endpoint PROVE MadeUpLast(d)'
    BY DEF MadeUpInv
  <1>a. /\ TypeOK /\ MadeUpLast(d) /\ LinkInv /\ Len(delivered[d]) \in Nat
        /\ sent \in [Endpoint -> Nat] /\ delivered \in [Endpoint -> Seq(Nat)]
        /\ sockfd \in [Endpoint -> {"open", "closed"}]
        /\ spurious \in [Endpoint -> BOOLEAN]
    BY Unframed DEF MadeUpInv, TcpTypeOK, HistoryTypeOK
  <1>b. /\ sent[Peer(d)] \in Nat /\ sent'[Peer(d)] \in Nat
        /\ sent[Peer(d)] <= sent'[Peer(d)]
        /\ spurious[d] => spurious'[d]
        /\ sockfd[d] = "closed" => sockfd'[d] = "closed"
    BY <1>a, PeerOfPeer, Monotone
  <1>c. \A k \in 1 .. Len(delivered[d]) :
           /\ delivered[d][k] \in 0 .. sent'[Peer(d)]
           /\ delivered[d][k] = 0 => spurious'[d] /\ k = Len(delivered[d])
    <2> SUFFICES ASSUME NEW k \in 1 .. Len(delivered[d])
                 PROVE  /\ delivered[d][k] \in 0 .. sent'[Peer(d)]
                        /\ delivered[d][k] = 0 =>
                              spurious'[d] /\ k = Len(delivered[d])
      OBVIOUS
    <2>1. /\ delivered[d][k] \in 0 .. sent[Peer(d)]
          /\ delivered[d][k] = 0 => spurious[d] /\ k = Len(delivered[d])
      BY <1>a DEF MadeUpLast
    <2> QED  BY <1>b, <2>1
  <1>1. ASSUME delivered'[d] = delivered[d], spurious'[d] = spurious[d],
               spurious[d] => inbox'[d] = <<>>,
               spurious[d] /\ rst[d] = "read" =>
                  rst'[d] = "read" \/ sockfd'[d] = "closed"
        PROVE  MadeUpLast(d)'
    <2>1. spurious'[d] =>
             inbox'[d] = <<>> /\ (sockfd'[d] = "closed" \/ rst'[d] = "read")
      BY <1>a, <1>b, <1>1 DEF MadeUpLast
    <2> QED  BY <1>1, <1>c, <2>1 DEF MadeUpLast
  <1>d. spurious[d] => inbox[d] = <<>>
    BY <1>a DEF MadeUpLast
  <1>2. CASE Quiet(e)
    <2>1. rst[d] = "read" => rst'[d] = "read"
      BY <1>2 DEF Quiet
    <2> QED  BY <1>d, <1>1, <1>2, <2>1 DEF Quiet
  <1>3. CASE MadeOneUp(e)
    <2>1. CASE d # e
      <3>1. /\ delivered'[d] = delivered[d] /\ spurious'[d] = spurious[d]
            /\ inbox'[d] = inbox[d] /\ rst'[d] = rst[d]
        BY <1>a, <1>3, <2>1 DEF MadeOneUp, TypeOK, TcpTypeOK
      <3> QED  BY <1>d, <1>1, <3>1
    <2>2. CASE d = e
      <3>1. inbox'[d] = <<>> /\ rst'[d] = "read" /\ spurious'[d]
        BY <1>a, <1>3, <2>2 DEF MadeOneUp, TypeOK, TcpTypeOK
      <3>2. ~ spurious[d]
        BY <1>3, <1>a, <2>2 DEF MadeOneUp, MadeUpLast
      <3>3. CASE UNCHANGED delivered
        BY <1>c, <3>1, <3>3 DEF MadeUpLast
      <3>4. CASE delivered' = [delivered EXCEPT ![e] = Append(@, 0)]
        <4> DEFINE n == Len(delivered[d])
        <4>1. delivered'[d] = Append(delivered[d], 0) /\ delivered[d] \in Seq(Nat)
          BY <1>a, <2>2, <3>4
        <4>2. /\ Len(delivered'[d]) = n + 1 /\ delivered'[d][n + 1] = 0
              /\ \A k \in 1 .. n : delivered'[d][k] = delivered[d][k]
          BY <4>1
        <4>3. \A k \in 1 .. n : /\ delivered[d][k] \in 0 .. sent'[Peer(d)]
                                /\ delivered[d][k] # 0
          BY <1>a, <1>c, <3>2 DEF MadeUpLast
        <4>4. \A k \in 1 .. n + 1 :
                 /\ delivered'[d][k] \in 0 .. sent'[Peer(d)]
                 /\ delivered'[d][k] = 0 => k = n + 1
          <5> SUFFICES ASSUME NEW k \in 1 .. n + 1
                       PROVE  /\ delivered'[d][k] \in 0 .. sent'[Peer(d)]
                              /\ delivered'[d][k] = 0 => k = n + 1
            OBVIOUS
          <5>1. CASE k \in 1 .. n
            BY <4>2, <4>3, <5>1
          <5>2. CASE k = n + 1
            BY <1>b, <4>2, <5>2
          <5> QED  BY <1>a, <5>1, <5>2
        <4> QED  BY <3>1, <4>2, <4>4 DEF MadeUpLast
      <3> QED  BY <1>3, <3>3, <3>4 DEF MadeOneUp
    <2> QED  BY <2>1, <2>2
  <1>4. CASE WentDown(e)
    <2>1. UNCHANGED <<delivered, spurious>>
      BY <1>4 DEF WentDown
    <2>2. CASE d = e
      <3>1. inbox'[d] = <<>> /\ sockfd'[d] = "closed"
        BY <1>a, <1>4, <2>2 DEF WentDown, TypeOK, TcpTypeOK
      <3> QED  BY <1>1, <2>1, <3>1
    <2>3. CASE d = Peer(e)
      <3>1. inbox'[d] = inbox[d] /\ (rst'[d] = rst[d] \/ rst[d] = "none")
        BY <1>a, <1>4, <2>3, PeerOfPeer DEF WentDown, TypeOK, TcpTypeOK
      <3> QED  BY <1>d, <1>1, <2>1, <3>1
    <2> QED  BY <2>2, <2>3, PeerOfPeer
  <1>5. CASE CutShort(e)
    <2>1. UNCHANGED <<delivered, spurious, sockfd>>
      BY <1>5 DEF CutShort
    <2>2. CASE d = e
      <3>1. (inbox[d] = <<>> => inbox'[d] = <<>>) /\ rst[d] = "owed"
        BY <1>5, <2>2, Remains
      <3> QED  BY <1>d, <1>1, <2>1, <3>1
    <2>3. CASE d = Peer(e)
      <3>1. inbox'[d] = inbox[d] /\ rst'[d] = rst[d]
        BY <1>a, <1>5, <2>3, PeerOfPeer, Remains DEF CutShort, TypeOK, TcpTypeOK
      <3> QED  BY <1>d, <1>1, <2>1, <3>1
    <2> QED  BY <2>2, <2>3, PeerOfPeer
  <1>6. ASSUME NEW f \in Frame, Wrote(e, f) PROVE MadeUpLast(d)'
    <2>1. UNCHANGED <<delivered, spurious, sockfd>>
      BY <1>6 DEF Wrote
    <2>2. sockfd[e] = "open" /\ rst[e] \in {"none", "owed"} /\ inbox'[e] = inbox[e]
      BY <1>6, WrittenFrame
    <2>3. CASE d = e
      BY <1>d, <1>1, <2>1, <2>2, <2>3
    <2>4. CASE d = Peer(e) /\ sockfd[d] = "open"
      <3>1. rst[d] # "read"
        BY <1>a, <2>2, <2>4, PeerOfPeer DEF LinkInv
      <3>2. ~ spurious[d]
        BY <1>a, <2>4, <3>1 DEF MadeUpLast
      <3> QED  BY <1>1, <2>1, <3>2
    <2>5. CASE d = Peer(e) /\ sockfd[d] # "open"
      <3>1. inbox'[d] = inbox[d] /\ sockfd'[d] = "closed"
        BY <1>6, <1>a, <1>b, <2>5, WrittenFrame
      <3> QED  BY <1>d, <1>1, <2>1, <3>1
    <2> QED  BY <2>3, <2>4, <2>5, PeerOfPeer
  <1>7. ASSUME NEW f \in Frame, Took(e, f) PROVE MadeUpLast(d)'
    <2>1. UNCHANGED <<sockfd, rst, spurious, sent>>
      BY <1>7 DEF Took
    <2>2. CASE d = Peer(e)
      <3>1. inbox'[d] = inbox[d] /\ delivered'[d] = delivered[d]
        BY <1>7, <2>2, TakenFrame, TakenMessage
      <3> QED  BY <1>d, <1>1, <2>1, <3>1
    <2>3. CASE d = e
      <3> DEFINE n == Len(delivered[d])
      <3>1. ~ spurious[d]
        BY <1>7, <2>3, TakenFrame
      <3>2. CASE delivered'[d] = delivered[d]
        BY <1>1, <2>1, <3>1, <3>2
      <3>3. CASE delivered'[d] # delivered[d]
        <4>1. /\ f.id \in 1 .. sent[Peer(d)]
              /\ Len(delivered'[d]) = n + 1 /\ delivered'[d][n + 1] = f.id
              /\ \A k \in 1 .. n : delivered'[d][k] = delivered[d][k]
          BY <1>7, <2>3, <3>3, TakenMessage
        <4>2. \A k \in 1 .. n + 1 :
                 delivered'[d][k] \in 0 .. sent'[Peer(d)] /\ delivered'[d][k] # 0
          <5> SUFFICES ASSUME NEW k \in 1 .. n + 1
                       PROVE  delivered'[d][k] \in 0 .. sent'[Peer(d)]
                              /\ delivered'[d][k] # 0
            OBVIOUS
          <5>1. CASE k \in 1 .. n
            BY <1>a, <1>c, <3>1, <4>1, <5>1 DEF MadeUpLast
          <5>2. CASE k = n + 1
            BY <1>b, <4>1, <5>2
          <5> QED  BY <1>a, <5>1, <5>2
        <4> QED  BY <2>1, <3>1, <4>1, <4>2 DEF MadeUpLast
      <3> QED  BY <3>2, <3>3
    <2> QED  BY <2>2, <2>3, PeerOfPeer
  <1> QED  BY <1>2, <1>3, <1>4, <1>5, <1>6, <1>7 DEF Effect

\* What is left at the end of a stream does not change what comes next.
LEMMA NextLess ==
  ASSUME TypeOK, NEW d \in Endpoint, NextComes(d), Receiving(d)' => Receiving(d),
         Len(inbox'[d]) \in 0 .. Len(inbox[d]),
         \A i \in 1 .. Len(inbox'[d]) : inbox'[d][i] = inbox[d][i],
         sockfd'[Peer(d)] = "closed" \/ Len(inbox'[d]) = Len(inbox[d]),
         sockfd'[Peer(d)] = "open" => sockfd[Peer(d)] = "open",
         interrupted[Peer(d)] => interrupted'[Peer(d)],
         delivered'[d] = delivered[d], sent'[Peer(d)] = sent[Peer(d)]
  PROVE  NextComes(d)'
  <1> SUFFICES ASSUME Receiving(d)'
               PROVE  /\ \A i \in 1 .. Len(inbox'[d]) :
                            DataUpTo(d, i)' => inbox'[d][i].id = Len(delivered'[d]) + i
                      /\ sockfd'[Peer(d)] = "open" /\ DataUpTo(d, Len(inbox[d]))' =>
                            sent'[Peer(d)] = Len(delivered'[d]) + Len(inbox'[d])
                      /\ \A i \in 1 .. Len(inbox'[d]) :
                            /\ ~ interrupted'[Peer(d)]
                            /\ inbox'[d][i].op = "close" /\ DataUpTo(d, i - 1)'
                            => sent'[Peer(d)] = Len(delivered'[d]) + i - 1
    BY DEF NextComes
  <1>a. Len(inbox[d]) \in Nat
    BY DEF TypeOK, TcpTypeOK
  <1>b. Receiving(d)
    OBVIOUS
  <1>1. \A j \in 0 .. Len(inbox'[d]) : DataUpTo(d, j)' => DataUpTo(d, j)
    BY <1>a DEF DataUpTo
  <1>2. ASSUME NEW i \in 1 .. Len(inbox'[d]), DataUpTo(d, i)'
        PROVE  inbox'[d][i].id = Len(delivered'[d]) + i
    <2>1. DataUpTo(d, i) /\ i \in 1 .. Len(inbox[d])
      BY <1>a, <1>1, <1>2
    <2> QED  BY <1>b, <2>1 DEF NextComes
  <1>3. ASSUME sockfd'[Peer(d)] = "open", DataUpTo(d, Len(inbox[d]))'
        PROVE  sent'[Peer(d)] = Len(delivered'[d]) + Len(inbox'[d])
    <2>1. DataUpTo(d, Len(inbox[d])) /\ Len(inbox'[d]) = Len(inbox[d])
      BY <1>a, <1>3 DEF DataUpTo
    <2> QED  BY <1>b, <1>3, <2>1 DEF NextComes
  <1>4. ASSUME NEW i \in 1 .. Len(inbox'[d]), ~ interrupted'[Peer(d)],
               inbox'[d][i].op = "close", DataUpTo(d, i - 1)'
        PROVE  sent'[Peer(d)] = Len(delivered'[d]) + i - 1
    <2>1. DataUpTo(d, i - 1) /\ i \in 1 .. Len(inbox[d])
      BY <1>a, <1>1, <1>4
    <2> QED  BY <1>b, <1>4, <2>1 DEF NextComes
  <1> QED  BY <1>2, <1>3, <1>4

LEMMA Shift == \A a, b \in Int : a + (b + 1) = (a + 1) + b
  OBVIOUS

LEMMA NextStep ==
  ASSUME OrderInv, NEW e \in Endpoint, Effect(e),
         \A d \in Endpoint : Receiving(d)' => Receiving(d)
  PROVE  NextInv'
  <1> SUFFICES ASSUME NEW d \in Endpoint PROVE NextComes(d)'
    BY DEF NextInv
  <1>a. /\ TypeOK /\ NextComes(d) /\ Stream(d)
        /\ Len(inbox[d]) \in Nat /\ Len(delivered[d]) \in Nat
        /\ inbox \in [Endpoint -> Seq(Frame)] /\ sent \in [Endpoint -> Nat]
        /\ sockfd \in [Endpoint -> {"open", "closed"}]
        /\ delivered \in [Endpoint -> Seq(Nat)]
        /\ spurious \in [Endpoint -> BOOLEAN]
        /\ Peer(d) \in Endpoint /\ sent[Peer(d)] \in Nat
    BY Unframed, PeerOfPeer DEF NextInv, StreamInv, TcpTypeOK, HistoryTypeOK
  <1>b. /\ Receiving(d)' => Receiving(d)
        /\ sockfd'[Peer(d)] = "open" => sockfd[Peer(d)] = "open"
        /\ interrupted[Peer(d)] => interrupted'[Peer(d)]
    BY <1>a, Monotone
  <1>1. ASSUME inbox'[d] = inbox[d], delivered'[d] = delivered[d],
               sent'[Peer(d)] = sent[Peer(d)]
        PROVE  NextComes(d)'
    <2>1. /\ Len(inbox'[d]) = Len(inbox[d]) /\ Len(inbox'[d]) \in 0 .. Len(inbox[d])
          /\ \A i \in 1 .. Len(inbox'[d]) : inbox'[d][i] = inbox[d][i]
      BY <1>a, <1>1
    <2> QED  BY <1>a, <1>b, <1>1, <2>1, NextLess
  <1>2. ASSUME ~ Receiving(d)' PROVE NextComes(d)'
    BY <1>2 DEF NextComes
  <1>3. CASE Quiet(e)
    BY <1>1, <1>3 DEF Quiet
  <1>4. CASE MadeOneUp(e)
    <2>1. CASE d = e
      <3>1. spurious'[d]
        BY <1>a, <1>4, <2>1 DEF MadeOneUp
      <3> QED  BY <1>2, <3>1 DEF Receiving
    <2>2. CASE d # e
      <3>1. delivered'[d] = delivered[d]
        BY <1>a, <1>4, <2>2 DEF MadeOneUp
      <3> QED  BY <1>1, <1>4, <3>1 DEF MadeOneUp
    <2> QED  BY <2>1, <2>2
  <1>5. CASE WentDown(e)
    <2>1. CASE d = e
      <3>1. sockfd'[d] = "closed"
        BY <1>a, <1>5, <2>1 DEF WentDown
      <3> QED  BY <1>2, <3>1 DEF Receiving
    <2>2. CASE d # e
      <3>1. inbox'[d] = inbox[d]
        BY <1>a, <1>5, <2>2 DEF WentDown
      <3> QED  BY <1>1, <1>5, <3>1 DEF WentDown
    <2> QED  BY <2>1, <2>2
  <1>6. CASE CutShort(e)
    <2>1. UNCHANGED <<sockfd, delivered, sent>>
      BY <1>6 DEF CutShort
    <2>2. CASE d = e
      <3>1. /\ sockfd'[Peer(d)] = "closed"
            /\ Len(inbox'[d]) \in 0 .. Len(inbox[d])
            /\ \A i \in 1 .. Len(inbox'[d]) : inbox'[d][i] = inbox[d][i]
        BY <1>6, <2>1, <2>2, Remains
      <3> QED  BY <1>a, <1>b, <2>1, <3>1, NextLess
    <2>3. CASE d = Peer(e)
      BY <1>1, <1>6, <2>1, <2>3, Remains
    <2> QED  BY <2>2, <2>3, PeerOfPeer
  <1>7. ASSUME NEW f \in Frame, Wrote(e, f) PROVE NextComes(d)'
    <2>1. UNCHANGED <<sockfd, delivered, interrupted>>
      BY <1>7 DEF Wrote
    <2>2. CASE d = e
      BY <1>1, <1>7, <2>1, <2>2, WrittenFrame
    <2>3. CASE d = Peer(e) /\ sockfd[d] # "open"
      BY <1>2, <2>1, <2>3 DEF Receiving
    <2>4. CASE d = Peer(e) /\ sockfd[d] = "open" /\ Receiving(d)
      <3>n. PICK n \in Nat : n = Len(inbox[d])
        BY <1>a
      <3> USE <3>n
      <3>0. Peer(d) = e
        BY <2>4, PeerOfPeer
      <3>1. /\ Len(inbox'[d]) = n + 1 /\ inbox'[d][n + 1] = f
            /\ \A i \in 1 .. n : inbox'[d][i] = inbox[d][i]
        BY <1>7, <2>4, WrittenFrame
      <3>2. /\ \/ f.op = "data" /\ f.id = sent[e] + 1 /\ sent'[e] = sent[e] + 1
               \/ f.op = "close" /\ sent'[e] = sent[e]
            /\ sockfd[e] = "open"
        BY <1>7, WrittenFrame
      <3>3. ASSUME NEW j \in 0 .. n, DataUpTo(d, j)' PROVE DataUpTo(d, j)
        <4> SUFFICES ASSUME NEW k \in 1 .. j PROVE inbox[d][k].op = "data"
          BY DEF DataUpTo
        <4>1. inbox'[d][k].op = "data"
          BY <3>3 DEF DataUpTo
        <4>2. k \in 1 .. n
          OBVIOUS
        <4> QED  BY <3>1, <4>1, <4>2
      <3>4. DataUpTo(d, n) => sent[e] = Len(delivered[d]) + n
        BY <1>a, <2>4, <3>0, <3>2 DEF NextComes
      <3>5. ASSUME NEW i \in 1 .. n + 1, DataUpTo(d, i)'
            PROVE  inbox'[d][i].id = Len(delivered[d]) + i
        <4>1. CASE i \in 1 .. n
          <5>1. DataUpTo(d, i)
            BY <1>a, <3>3, <3>5, <4>1
          <5> QED  BY <1>a, <2>4, <3>1, <4>1, <5>1 DEF NextComes
        <4>2. CASE i = n + 1
          <5>1. inbox'[d][n + 1].op = "data" /\ \A k \in 1 .. n : inbox'[d][k].op = "data"
            BY <3>5, <4>2 DEF DataUpTo
          <5>2. DataUpTo(d, n)
            BY <3>1, <5>1 DEF DataUpTo
          <5>3. f.op = "data"
            BY <3>1, <5>1
          <5>4. f.id = (Len(delivered[d]) + n) + 1
            BY <3>2, <3>4, <5>2, <5>3
          <5>5. inbox'[d][i] = f
            BY <3>1, <4>2, Zenon
          <5>6. \A a, b, c \in Int : b = c + 1 => (a + c) + 1 = a + b
            OBVIOUS
          <5>7. Len(delivered[d]) \in Int /\ n \in Int /\ i \in Int
            BY <1>a
          <5> QED  BY <4>2, <5>4, <5>5, <5>6, <5>7
        <4>3. i \in 1 .. n \/ i = n + 1
          OBVIOUS
        <4> QED  BY <4>1, <4>2, <4>3
      <3>6. ASSUME DataUpTo(d, n + 1)'
            PROVE  sent'[Peer(d)] = Len(delivered[d]) + (n + 1)
        <4>1. inbox'[d][n + 1].op = "data" /\ \A k \in 1 .. n : inbox'[d][k].op = "data"
          BY <3>6 DEF DataUpTo
        <4>2. DataUpTo(d, n)
          BY <3>1, <4>1 DEF DataUpTo
        <4> QED  BY <1>a, <3>0, <3>1, <3>2, <3>4, <4>1, <4>2
      <3>7. ASSUME NEW i \in 1 .. n + 1, ~ interrupted[Peer(d)],
                   inbox'[d][i].op = "close", DataUpTo(d, i - 1)'
            PROVE  sent'[Peer(d)] = Len(delivered[d]) + i - 1
        <4>1. CASE i \in 1 .. n
          <5>1. SentClose(e)
            BY <1>a, <3>0, <3>1, <3>7, <4>1 DEF Stream
          <5>2. FALSE
            BY <1>7, <3>0, <3>7, <5>1 DEF Wrote
          <5> QED  BY <5>2
        <4>2. CASE i = n + 1
          <5>1. f.op = "close" /\ i - 1 = n
            BY <3>1, <3>7, <4>2
          <5>2. DataUpTo(d, n)
            BY <3>3, <3>7, <5>1
          <5>3. sent'[Peer(d)] = Len(delivered[d]) + n
            BY <3>0, <3>2, <3>4, <5>1, <5>2
          <5>4. \A a, b, c \in Int : b = c + 1 => a + c = a + b - 1
            OBVIOUS
          <5>5. Len(delivered[d]) \in Int /\ n \in Int /\ i \in Int
            BY <1>a
          <5> QED  BY <4>2, <5>3, <5>4, <5>5
        <4>3. i \in 1 .. n \/ i = n + 1
          OBVIOUS
        <4> QED  BY <4>1, <4>2, <4>3
      <3>8. DataUpTo(d, Len(inbox[d]))' => DataUpTo(d, n + 1)'
        BY <3>1 DEF DataUpTo
      <3> QED  BY <2>1, <3>1, <3>5, <3>6, <3>7, <3>8 DEF NextComes
    <2> QED  BY <1>2, <1>b, <2>2, <2>3, <2>4, PeerOfPeer
  <1>8. ASSUME NEW f \in Frame, Took(e, f) PROVE NextComes(d)'
    <2>1. UNCHANGED <<sockfd, sent, interrupted>>
      BY <1>8 DEF Took
    <2>2. CASE d = Peer(e)
      BY <1>1, <1>8, <2>1, <2>2, TakenFrame, TakenMessage
    <2>3. CASE d = e /\ delivered'[d] = delivered[d] /\ pc'[d] \notin {"idle", "send", "recv"}
      BY <1>2, <2>3 DEF Receiving
    <2>4. CASE /\ d = e /\ Receiving(d)
               /\ ~ (delivered'[d] = delivered[d] /\ pc'[d] \notin {"idle", "send", "recv"})
      <3>n. PICK n \in Nat, m \in Nat : n = Len(inbox[d]) /\ m = Len(delivered[d])
        BY <1>a
      <3> USE <3>n
      <3>1. /\ n > 0 /\ f = inbox[d][1] /\ Len(inbox'[d]) = n - 1
            /\ \A i \in 1 .. n - 1 : inbox'[d][i] = inbox[d][i + 1]
        BY <1>8, <2>4, TakenFrame
      <3>2. f.op = "data" /\ Len(delivered'[d]) = m + 1
        BY <1>8, <2>4, TakenMessage
      <3>3. \A j \in 0 .. n - 1 : DataUpTo(d, j)' => DataUpTo(d, j + 1)
        <4> SUFFICES ASSUME NEW j \in 0 .. n - 1, DataUpTo(d, j)',
                            NEW k \in 1 .. j + 1
                     PROVE  inbox[d][k].op = "data"
          BY DEF DataUpTo
        <4>1. CASE k = 1
          BY <3>1, <3>2, <4>1
        <4>2. CASE k # 1
          <5>1. k - 1 \in 1 .. j /\ k - 1 \in 1 .. n - 1 /\ (k - 1) + 1 = k
            BY <1>a, <3>1, <4>2
          <5> QED  BY <3>1, <5>1 DEF DataUpTo
        <4> QED  BY <4>1, <4>2
      <3>4. ASSUME NEW i \in 1 .. n - 1, DataUpTo(d, i)'
            PROVE  inbox'[d][i].id = (m + 1) + i
        <4>1. DataUpTo(d, i + 1) /\ i + 1 \in 1 .. n
          BY <1>a, <3>1, <3>3, <3>4
        <4>2. inbox[d][i + 1].id = m + (i + 1)
          BY <1>a, <2>4, <4>1 DEF NextComes
        <4>3. inbox'[d][i] = inbox[d][i + 1]
          BY <3>1
        <4>4. i \in Int /\ m \in Int
          OBVIOUS
        <4> QED  BY <4>2, <4>3, <4>4, Shift
      <3>5. ASSUME sockfd[Peer(d)] = "open", DataUpTo(d, n - 1)'
            PROVE  sent[Peer(d)] = (m + 1) + (n - 1)
        <4>1. DataUpTo(d, n)
          BY <1>a, <3>1, <3>3, <3>5
        <4>2. sent[Peer(d)] = m + n
          BY <1>a, <2>4, <3>5, <4>1 DEF NextComes
        <4> QED  BY <1>a, <4>2
      <3>6. ASSUME NEW i \in 1 .. n - 1, ~ interrupted[Peer(d)],
                   inbox'[d][i].op = "close", DataUpTo(d, i - 1)'
            PROVE  sent[Peer(d)] = (m + 1) + i - 1
        <4>1. /\ DataUpTo(d, (i + 1) - 1) /\ i + 1 \in 1 .. n
              /\ inbox[d][i + 1].op = "close"
          BY <1>a, <3>1, <3>3, <3>6
        <4>2. sent[Peer(d)] = m + (i + 1) - 1
          BY <1>a, <2>4, <3>6, <4>1 DEF NextComes
        <4> QED  BY <1>a, <4>2
      <3>7. DataUpTo(d, Len(inbox[d]))' => DataUpTo(d, n - 1)'
        BY <3>1 DEF DataUpTo
      <3> QED  BY <2>1, <3>1, <3>2, <3>4, <3>5, <3>6, <3>7 DEF NextComes
    <2> QED  BY <1>2, <1>b, <2>2, <2>3, <2>4, PeerOfPeer
  <1> QED  BY <1>3, <1>4, <1>5, <1>6, <1>7, <1>8 DEF Effect

LEMMA InOrderStep ==
  ASSUME OrderInv, NEW e \in Endpoint, Effect(e)
  PROVE  DeliveredInOrder'
  <1> SUFFICES ASSUME NEW d \in Endpoint, ~ spurious'[d], ~ interrupted'[d]
               PROVE  InOrder(d)'
    BY DEF DeliveredInOrder
  <1>a. /\ TypeOK /\ NextComes(d)
        /\ Len(inbox[d]) \in Nat /\ Len(delivered[d]) \in Nat
        /\ delivered \in [Endpoint -> Seq(Nat)]
        /\ Peer(d) \in Endpoint /\ sent[Peer(d)] \in Nat
    BY Unframed, PeerOfPeer DEF NextInv, TcpTypeOK, HistoryTypeOK
  <1>b. /\ sent'[Peer(d)] \in Nat /\ sent[Peer(d)] <= sent'[Peer(d)]
        /\ ~ spurious[d] /\ ~ interrupted[d]
    BY <1>a, Monotone
  <1>c. InOrder(d)
    BY <1>b, Unframed DEF DeliveredInOrder
  <1>1. ASSUME delivered'[d] = delivered[d] PROVE InOrder(d)'
    BY <1>a, <1>b, <1>c, <1>1 DEF InOrder
  <1>2. CASE Quiet(e) \/ WentDown(e) \/ CutShort(e) \/ \E f \in Frame : Wrote(e, f)
    BY <1>1, <1>2 DEF Quiet, WentDown, CutShort, Wrote
  <1>3. CASE MadeOneUp(e)
    <2>1. spurious' = [spurious EXCEPT ![e] = TRUE] /\ spurious \in [Endpoint -> BOOLEAN]
      BY <1>3, <1>a DEF MadeOneUp, TypeOK, HistoryTypeOK
    <2>2. d # e
      BY <2>1
    <2>3. delivered'[d] = delivered[d]
      BY <1>a, <1>3, <2>2 DEF MadeOneUp
    <2> QED  BY <1>1, <2>3
  <1>4. ASSUME NEW f \in Frame, Took(e, f) PROVE InOrder(d)'
    <2>1. CASE delivered'[d] = delivered[d]
      BY <1>1, <2>1
    <2>2. CASE delivered'[d] # delivered[d]
      <3> DEFINE n == Len(delivered[d])
      <3>1. d = e
        BY <1>4, <2>2, TakenMessage, PeerOfPeer
      <3>2. /\ pc[d] = "recv" /\ f.op = "data" /\ f.id \in 1 .. sent[Peer(d)]
            /\ Len(delivered'[d]) = n + 1 /\ delivered'[d][n + 1] = f.id
            /\ \A k \in 1 .. n : delivered'[d][k] = delivered[d][k]
        BY <1>4, <2>2, <3>1, TakenMessage
      <3>3. sockfd[d] = "open" /\ f = inbox[d][1] /\ 1 \in 1 .. Len(inbox[d])
        BY <1>4, <3>1, TakenFrame
      <3>4. Receiving(d) /\ DataUpTo(d, 1)
        BY <1>b, <3>2, <3>3 DEF Receiving, DataUpTo
      <3>5. f.id = n + 1
        BY <1>a, <3>3, <3>4 DEF NextComes
      <3>6. \A k \in 1 .. n + 1 : delivered'[d][k] = k
        <4> SUFFICES ASSUME NEW k \in 1 .. n + 1 PROVE delivered'[d][k] = k
          OBVIOUS
        <4>1. CASE k \in 1 .. n
          BY <1>c, <3>2, <4>1 DEF InOrder
        <4>2. CASE k = n + 1
          BY <3>2, <3>5, <4>2
        <4> QED  BY <1>a, <4>1, <4>2
      <3>7. n + 1 <= sent'[Peer(d)]
        BY <1>a, <1>b, <3>2, <3>5
      <3> QED  BY <3>2, <3>6, <3>7 DEF InOrder
    <2> QED  BY <2>1, <2>2
  <1> QED  BY <1>2, <1>3, <1>4 DEF Effect

LEMMA AnswerStep ==
  ASSUME OrderInv, NEW e \in Endpoint, Effect(e),
         \A d \in Endpoint : ControlStep(d)
  PROVE  AnswerInv'
  <1> SUFFICES ASSUME NEW d \in Endpoint PROVE Answered(d)'
    BY DEF AnswerInv
  <1>a. /\ TypeOK /\ ContextOK /\ LinkInv /\ Answered(d) /\ Stream(d) /\ NextComes(d)
        /\ MadeUpLast(d)
        /\ Len(inbox[d]) \in Nat /\ Len(delivered[d]) \in Nat
        /\ inbox \in [Endpoint -> Seq(Frame)] /\ sent \in [Endpoint -> Nat]
        /\ delivered \in [Endpoint -> Seq(Nat)]
        /\ sockfd \in [Endpoint -> {"open", "closed"}]
        /\ spurious \in [Endpoint -> BOOLEAN]
        /\ Peer(d) \in Endpoint /\ sent[Peer(d)] \in Nat
    BY Unframed, PeerOfPeer
    DEF AnswerInv, StreamInv, NextInv, MadeUpInv, TcpTypeOK, HistoryTypeOK
  <1>b. /\ spurious[d] => spurious'[d]
        /\ interrupted[d] => interrupted'[d]
        /\ interrupted[Peer(d)] => interrupted'[Peer(d)]
        /\ SentClose(Peer(d)) => SentClose(Peer(d))'
    BY <1>a, Monotone
  <1>c. ControlStep(d)
    OBVIOUS
  <1> SUFFICES ASSUME Answers(d)', ~ spurious'[d], ~ interrupted'[d],
                      ~ interrupted'[Peer(d)]
               PROVE  SentClose(Peer(d))' /\ Len(delivered'[d]) = sent'[Peer(d)]
    BY <1>c DEF ControlStep, Answered
  <1>1. ~ spurious[d] /\ ~ interrupted[d] /\ ~ interrupted[Peer(d)]
    BY <1>b
  <1>2. CASE MeetsClose(d)
    <2>1. inbox[d] # <<>> /\ inbox[d] \in Seq(Frame)
      BY <1>a, <1>2 DEF MeetsClose
    <2>2. sockfd[d] = "open"
      BY <1>a, <2>1 DEF LinkInv
    <2>3. Receiving(d)
      BY <1>1, <1>2, <2>2 DEF MeetsClose, Receiving
    <2>4. 1 \in 1 .. Len(inbox[d]) /\ inbox[d][1].op = "close"
      BY <1>2, <2>1 DEF MeetsClose
    <2>5. SentClose(Peer(d))
      BY <1>a, <2>4 DEF Stream
    <2>6. DataUpTo(d, 1 - 1)
      BY DEF DataUpTo
    <2>7. sent[Peer(d)] = Len(delivered[d]) + 1 - 1
      BY <1>1, <1>a, <2>3, <2>4, <2>6 DEF NextComes
    <2> QED  BY <1>a, <1>b, <1>2, <2>5, <2>7 DEF MeetsClose
  <1>3. CASE Answers(d)
    <2>1. SentClose(Peer(d)) /\ Len(delivered[d]) = sent[Peer(d)]
      BY <1>1, <1>3, <1>a DEF Answered
    <2>2. ASSUME delivered'[d] = delivered[d], sent'[Peer(d)] = sent[Peer(d)]
          PROVE  SentClose(Peer(d))' /\ Len(delivered'[d]) = sent'[Peer(d)]
      BY <1>b, <2>1, <2>2
    <2>3. CASE Quiet(e) \/ WentDown(e) \/ CutShort(e)
      BY <2>2, <2>3 DEF Quiet, WentDown, CutShort
    <2>4. CASE MadeOneUp(e)
      <3>1. d # e
        BY <1>a, <2>4 DEF MadeOneUp
      <3>2. delivered'[d] = delivered[d]
        BY <1>a, <2>4, <3>1 DEF MadeOneUp
      <3> QED  BY <2>2, <2>4, <3>2 DEF MadeOneUp
    <2>5. ASSUME NEW f \in Frame, Wrote(e, f)
          PROVE  SentClose(Peer(d))' /\ Len(delivered'[d]) = sent'[Peer(d)]
      <3>1. e # Peer(d)
        BY <1>1, <2>1, <2>5 DEF Wrote
      <3>2. Peer(d) = Peer(e)
        BY <3>1, PeerOfPeer
      <3>3. sent'[Peer(d)] = sent[Peer(d)]
        BY <2>5, <3>2, WrittenFrame
      <3> QED  BY <2>2, <2>5, <3>3 DEF Wrote
    <2>6. ASSUME NEW f \in Frame, Took(e, f)
          PROVE  SentClose(Peer(d))' /\ Len(delivered'[d]) = sent'[Peer(d)]
      <3>1. delivered'[d] = delivered[d]
        <4>1. CASE d = Peer(e)
          BY <2>6, <4>1, TakenMessage
        <4>2. CASE d = e
          <5>1. sockfd[d] = "open"
            BY <2>6, <4>2, TakenFrame
          <5>2. ret[d] # "closed"
            BY <1>a, <5>1 DEF Answered
          <5>3. pc[d] # "recv"
            BY <1>3, <1>a, <5>2 DEF Answers, ContextOK
          <5> QED  BY <2>6, <4>2, <5>3, TakenMessage
        <4> QED  BY <4>1, <4>2, PeerOfPeer
      <3> QED  BY <2>2, <2>6, <3>1 DEF Took
    <2> QED  BY <2>3, <2>4, <2>5, <2>6 DEF Effect
  <1> QED  BY <1>2, <1>3, <1>c DEF ControlStep

-----------------------------------------------------------------------------
(* The invariant, and what an application may rely on.                     *)

LEMMA InitOrderInv == Init => OrderInv
  <1> SUFFICES ASSUME Init PROVE OrderInv
    OBVIOUS
  <1>1. CloseInv
    BY InitCloseInv
  <1>2. /\ sent = [e \in Endpoint |-> 0] /\ delivered = [e \in Endpoint |-> <<>>]
        /\ inbox = [e \in Endpoint |-> <<>>] /\ rst = [e \in Endpoint |-> "none"]
        /\ sockfd = [e \in Endpoint |-> "open"]
        /\ spurious = [e \in Endpoint |-> FALSE]
        /\ pc = [e \in Endpoint |-> "idle"] /\ ctx = [e \in Endpoint |-> "none"]
        /\ ret = [e \in Endpoint |-> "none"]
    BY DEF Init, TcpInit
  <1>3. LinkInv /\ AnswerInv
    BY <1>2 DEF LinkInv, AnswerInv, Answered, Answers
  <1>4. ASSUME NEW e \in Endpoint
        PROVE  /\ inbox[e] = <<>> /\ delivered[e] = <<>> /\ sent[Peer(e)] = 0
               /\ ~ spurious[e]
    BY <1>2, PeerOfPeer
  <1>5. StreamInv
    BY <1>4 DEF StreamInv, Stream
  <1>6. MadeUpInv
    BY <1>4 DEF MadeUpInv, MadeUpLast
  <1>7. NextInv
    <2> SUFFICES ASSUME NEW e \in Endpoint PROVE NextComes(e)
      BY DEF NextInv
    <2>1. Len(inbox[e]) = 0 /\ Len(delivered[e]) = 0 /\ sent[Peer(e)] = 0
      BY <1>4
    <2> QED  BY <2>1 DEF NextComes
  <1>8. DeliveredInOrder
    BY <1>4 DEF DeliveredInOrder, InOrder
  <1> QED  BY <1>1, <1>3, <1>5, <1>6, <1>7, <1>8 DEF OrderInv

LEMMA NextOrderInv == OrderInv /\ [Next]_vars => OrderInv'
  <1> SUFFICES ASSUME OrderInv, [Next]_vars PROVE OrderInv'
    OBVIOUS
  <1>1. CASE Next
    <2>1. CloseInv' /\ TypeOK'
      BY <1>1, Unframed, NextCloseInv DEF CloseInv
    <2>2. PICK e \in Endpoint : Effect(e)
      BY NextEffect
    <2>3. \A d \in Endpoint : ControlStep(d) /\ (Receiving(d)' => Receiving(d))
      BY <1>1, NextControl, ReceivingBefore
    <2>4. LinkInv' /\ StreamInv' /\ MadeUpInv' /\ DeliveredInOrder'
      BY <2>1, <2>2, LinkStep, StreamStep, MadeUpStep, InOrderStep
    <2>5. NextInv' /\ AnswerInv'
      BY <2>2, <2>3, NextStep, AnswerStep
    <2> QED  BY <2>1, <2>4, <2>5 DEF OrderInv
  <1>2. CASE UNCHANGED vars
    BY <1>2
    DEF vars, callVars, tcpVars, history, OrderInv, CloseInv, TypeOK, TcpTypeOK,
        CallTypeOK, HistoryTypeOK, ContextOK, CloseEndsTheCall, NothingAfterClose,
        SentClose, LinkInv, StreamInv, Stream, MadeUpInv, MadeUpLast, NextInv,
        NextComes, Receiving, DataUpTo, DeliveredInOrder, InOrder, AnswerInv,
        Answered, Answers
  <1> QED  BY <1>1, <1>2

\* OrderInv is an invariant: what is on its way to an endpoint continues what it
\* has received, until a Close, a made-up frame or a signal ends that.
THEOREM OrderInvHolds == Spec => []OrderInv
  BY InitOrderInv, NextOrderInv, PTL DEF Spec

\* recv returns the peer's messages in order, each once and none skipped.
THEOREM DeliveredOrder == Spec => []DeliveredInOrder
  <1>1. OrderInv => DeliveredInOrder
    BY DEF OrderInv
  <1> QED  BY <1>1, OrderInvHolds, PTL

\* After kRecvClosed there is nothing that recv has not returned.
THEOREM ClosedIsComplete == Spec => []ClosedMeansAllReceived
  <1>1. OrderInv => ClosedMeansAllReceived
    BY PeerOfPeer DEF OrderInv, AnswerInv, Answered, Answers, ClosedMeansAllReceived
  <1> QED  BY <1>1, OrderInvHolds, PTL

-----------------------------------------------------------------------------
(* A connection is a message channel.                                      *)

\* What the channel sees of the messages that recv has returned.
LEMMA ReceivedIs ==
  ASSUME OrderInv, NEW d \in Endpoint
  PROVE  /\ delivered'[d] = delivered[d] => Received(d)' = Received(d)
         /\ ~ spurious[d] => Received(d) = delivered[d]
         /\ delivered'[d] = Append(delivered[d], 0) /\ ~ spurious[d] =>
               Received(d)' = Received(d)
         /\ \A n \in Nat : n # 0 /\ delivered'[d] = Append(delivered[d], n) =>
               Received(d)' = delivered'[d]
  <1>a. delivered[d] \in Seq(Nat) /\ Len(delivered[d]) \in Nat /\ MadeUpLast(d)
    BY Unframed DEF HistoryTypeOK, MadeUpInv
  <1>1. delivered'[d] = delivered[d] => Received(d)' = Received(d)
    BY DEF Received
  <1>2. ~ spurious[d] => Received(d) = delivered[d]
    BY <1>a DEF Received, MadeUpLast
  <1>3. ASSUME delivered'[d] = Append(delivered[d], 0), ~ spurious[d]
        PROVE  Received(d)' = Received(d)
    <2> DEFINE n == Len(delivered[d])
    <2>1. Len(delivered'[d]) = n + 1 /\ delivered'[d][n + 1] = 0
      BY <1>a, <1>3
    <2>2. Received(d)' = SubSeq(delivered'[d], 1, (n + 1) - 1)
      BY <1>a, <2>1 DEF Received
    <2>3. SubSeq(Append(delivered[d], 0), 1, n) = delivered[d]
      BY <1>a
    <2>4. (n + 1) - 1 = n
      BY <1>a
    <2> QED  BY <1>2, <1>3, <2>2, <2>3, <2>4
  <1>4. ASSUME NEW n \in Nat, n # 0, delivered'[d] = Append(delivered[d], n)
        PROVE  Received(d)' = delivered'[d]
    <2>1. delivered'[d][Len(delivered'[d])] = n
      BY <1>a, <1>4
    <2> QED  BY <1>4, <2>1 DEF Received
  <1> QED  BY <1>1, <1>2, <1>3, <1>4

LEMMA ChannelInit == Init => Channel!Init
  <1> SUFFICES ASSUME Init PROVE Channel!Init
    OBVIOUS
  <1>1. /\ sent = [e \in Endpoint |-> 0]
        /\ interrupted = [e \in Endpoint |-> FALSE]
    BY DEF Init
  <1>2. ASSUME NEW e \in Endpoint
        PROVE  sockfd[e] = "open" /\ Received(e) = <<>>
    BY DEF Init, TcpInit, Received
  <1>3. [e \in Endpoint |-> sockfd[e] = "open"] = [e \in Endpoint |-> TRUE]
    BY <1>2, Zenon
  <1>4. [e \in Endpoint |-> Received(e)] = [e \in Endpoint |-> <<>>]
    BY <1>2
  <1>5. Channel!Endpoint = Endpoint
    BY DEF Channel!Endpoint, Endpoint
  <1> QED  BY <1>1, <1>3, <1>4, <1>5 DEF Channel!Init

\* Every step of the connection is a step of the channel, or not visible in it.
LEMMA ChannelStep == OrderInv /\ OrderInv' /\ [Next]_vars => [Channel!Next]_(Channel!vars)
  <1> SUFFICES ASSUME OrderInv, OrderInv', [Next]_vars
               PROVE  Channel!Next \/ UNCHANGED Channel!vars
    OBVIOUS
  <1> DEFINE Up == [d \in Endpoint |-> sockfd[d] = "open"]
             Rcvd == [d \in Endpoint |-> Received(d)]
  <1>0. PICK e \in Endpoint : Effect(e)
    BY NextEffect
  <1>a. /\ TypeOK /\ NextComes(e) /\ Stream(e) /\ DeliveredInOrder
        /\ Peer(e) \in Endpoint /\ sent[Peer(e)] \in Nat
        /\ delivered \in [Endpoint -> Seq(Nat)] /\ Len(delivered[e]) \in Nat
        /\ spurious \in [Endpoint -> BOOLEAN]
        /\ sockfd \in [Endpoint -> {"open", "closed"}]
    BY Unframed, PeerOfPeer DEF NextInv, StreamInv, TcpTypeOK, HistoryTypeOK
  <1>b. Channel!Endpoint = Endpoint /\ Channel!Peer(e) = Peer(e)
    BY DEF Channel!Endpoint, Endpoint, Channel!Peer, Peer
  <1>1. ASSUME UNCHANGED <<sent, sockfd, interrupted>>,
               \A d \in Endpoint : Received(d)' = Received(d)
        PROVE  UNCHANGED Channel!vars
    <2>1. Rcvd' = Rcvd
      BY <1>1
    <2> QED  BY <1>1, <2>1 DEF Channel!vars
  <1>2. ASSUME UNCHANGED delivered PROVE \A d \in Endpoint : Received(d)' = Received(d)
    BY <1>2, ReceivedIs
  <1>3. CASE Quiet(e)
    <2>1. UNCHANGED <<sent, sockfd, delivered>>
      BY <1>3 DEF Quiet
    <2>2. CASE UNCHANGED interrupted
      BY <1>1, <1>2, <2>1, <2>2
    <2>3. CASE sockfd[e] = "open" /\ interrupted' = [interrupted EXCEPT ![e] = TRUE]
      <3>1. Up[e] /\ Up' = Up /\ Rcvd' = Rcvd
        BY <1>2, <2>1, <2>3
      <3>2. Channel!Throw(e)
        BY <2>1, <2>3, <3>1 DEF Channel!Throw
      <3> QED  BY <1>b, <3>2 DEF Channel!Next
    <2> QED  BY <1>3, <2>2, <2>3 DEF Quiet
  <1>4. CASE MadeOneUp(e)
    <2>1. UNCHANGED <<sent, sockfd, interrupted>>
      BY <1>4 DEF MadeOneUp
    <2>2. CASE UNCHANGED delivered
      BY <1>1, <1>2, <2>1, <2>2
    <2>3. CASE delivered' = [delivered EXCEPT ![e] = Append(@, 0)]
      <3>1. ~ spurious[e]
        BY <1>4, Unframed DEF MadeOneUp, MadeUpInv, MadeUpLast
      <3>2. \A d \in Endpoint :
               IF d = e THEN delivered'[d] = Append(delivered[d], 0)
               ELSE delivered'[d] = delivered[d]
        BY <1>a, <2>3
      <3>3. \A d \in Endpoint : Received(d)' = Received(d)
        BY <3>1, <3>2, ReceivedIs
      <3> QED  BY <1>1, <2>1, <3>3
    <2> QED  BY <1>4, <2>2, <2>3 DEF MadeOneUp
  <1>5. CASE WentDown(e)
    <2>1. UNCHANGED <<sent, delivered, interrupted>>
          /\ sockfd' = [sockfd EXCEPT ![e] = "closed"]
      BY <1>5 DEF WentDown
    <2>2. Rcvd' = Rcvd
      BY <1>2, <2>1
    <2>3. \A d \in Endpoint : (sockfd'[d] = "open") <=> (d # e /\ sockfd[d] = "open")
      BY <1>a, <2>1
    <2>4. Up' = [Up EXCEPT ![e] = FALSE]
      BY <2>3, Zenon
    <2>5. Channel!GoDown(e)
      BY <2>1, <2>2, <2>4 DEF Channel!GoDown
    <2> QED  BY <1>b, <2>5 DEF Channel!Next
  <1>6. CASE CutShort(e)
    BY <1>1, <1>2, <1>6 DEF CutShort
  <1>7. ASSUME NEW f \in Frame, Wrote(e, f)
        PROVE  Channel!Next \/ UNCHANGED Channel!vars
    <2>1. UNCHANGED <<sockfd, delivered, interrupted>> /\ sockfd[e] = "open"
      BY <1>7 DEF Wrote, CanWrite
    <2>2. CASE UNCHANGED sent
      BY <1>1, <1>2, <2>1, <2>2
    <2>3. CASE sent' = [sent EXCEPT ![e] = @ + 1]
      <3>1. Up[e] /\ Up' = Up /\ Rcvd' = Rcvd
        BY <1>2, <2>1
      <3>2. Channel!Send(e)
        BY <2>1, <2>3, <3>1 DEF Channel!Send
      <3> QED  BY <1>b, <3>2 DEF Channel!Next
    <2> QED  BY <1>7, <2>2, <2>3 DEF Wrote
  <1>8. ASSUME NEW f \in Frame, Took(e, f)
        PROVE  Channel!Next \/ UNCHANGED Channel!vars
    <2>1. UNCHANGED <<sent, sockfd, interrupted>>
      BY <1>8 DEF Took
    <2>2. CASE UNCHANGED delivered
      BY <1>1, <1>2, <2>1, <2>2
    <2>3. CASE /\ pc[e] = "recv" /\ f.op = "data"
               /\ delivered' = [delivered EXCEPT ![e] = Append(@, f.id)]
      <3> DEFINE k == Len(delivered[e])
      <3>1. /\ sockfd[e] = "open" /\ ~ spurious[e]
            /\ f = inbox[e][1] /\ 1 \in 1 .. Len(inbox[e])
        BY <1>8, TakenFrame
      <3>2. Received(e) = delivered[e]
        BY <3>1, ReceivedIs
      <3>3. Channel!LastOf(e) = IF k = 0 THEN 0 ELSE delivered[e][k]
        BY <1>a, <3>2 DEF Channel!LastOf
      <3>4. f.id \in 1 .. sent[Peer(e)]
        BY <1>a, <2>3, <3>1 DEF Stream
      <3>5. Channel!LastOf(e) \in Nat /\ Channel!LastOf(e) < f.id
        <4>1. CASE k = 0
          BY <3>3, <3>4, <4>1
        <4>2. CASE k # 0
          <5>1. k \in 1 .. Len(delivered[e]) /\ delivered[e] \in Seq(Nat)
            BY <1>a, <4>2
          <5>2. delivered[e][k] < f.id /\ delivered[e][k] \in Nat
            BY <1>a, <2>3, <3>1, <5>1 DEF Stream
          <5> QED  BY <3>3, <4>2, <5>2
        <4> QED  BY <4>1, <4>2
      <3>6. f.id = Channel!LastOf(e) + 1 \/ interrupted[e]
        <4> SUFFICES ASSUME ~ interrupted[e] PROVE f.id = Channel!LastOf(e) + 1
          OBVIOUS
        <4>1. Receiving(e) /\ DataUpTo(e, 1)
          BY <2>3, <3>1 DEF Receiving, DataUpTo
        <4>2. f.id = k + 1
          BY <1>a, <3>1, <4>1 DEF NextComes
        <4>3. InOrder(e)
          BY <1>a, <3>1 DEF DeliveredInOrder
        <4>4. k # 0 => delivered[e][k] = k
          BY <1>a, <4>3 DEF InOrder
        <4> QED  BY <3>3, <4>2, <4>4
      <3>7. f.id \in Channel!LastOf(e) + 1 .. sent[Peer(e)]
        BY <1>a, <3>4, <3>5
      <3>8. Received(e)' = delivered'[e] /\ delivered'[e] = Append(delivered[e], f.id)
        <4>1. delivered'[e] = Append(delivered[e], f.id)
          BY <1>a, <2>3
        <4>2. f.id \in Nat /\ f.id # 0
          BY <1>a, <3>4
        <4> QED  BY <4>1, <4>2, ReceivedIs
      <3>9. \A d \in Endpoint : d # e => Received(d)' = Received(d)
        <4>1. \A d \in Endpoint : d # e => delivered'[d] = delivered[d]
          BY <1>a, <2>3
        <4> QED  BY <4>1, ReceivedIs
      <3>10. Rcvd' = [Rcvd EXCEPT ![e] = Append(@, f.id)]
        BY <3>2, <3>8, <3>9
      <3>11. Up[e] /\ Up' = Up
        BY <2>1, <3>1
      <3>12. Channel!Deliver(e)
        BY <1>b, <2>1, <3>6, <3>7, <3>10, <3>11 DEF Channel!Deliver
      <3> QED  BY <1>b, <3>12 DEF Channel!Next
    <2> QED  BY <1>8, <2>2, <2>3 DEF Took
  <1> QED  BY <1>0, <1>3, <1>4, <1>5, <1>6, <1>7, <1>8 DEF Effect

\* A connection is the channel that IWebSocket promises, whatever befalls it.
THEOREM ConnectionIsChannel == Spec => ImplementsChannel
  <1>1. Init => Channel!Init
    BY ChannelInit
  <1>2. OrderInv /\ OrderInv' /\ [Next]_vars => [Channel!Next]_(Channel!vars)
    BY ChannelStep
  <1> QED  BY <1>1, <1>2, OrderInvHolds, PTL DEF Spec, ImplementsChannel, Channel!Spec
=============================================================================
