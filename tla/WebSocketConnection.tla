------------------------ MODULE WebSocketConnection ------------------------
(***************************************************************************)
(* The two ends of one established librcom connection: a                   *)
(* ClientSideWebSocket and a ServerSideWebSocket, both subclasses of       *)
(* WebSocket (librcom/src/WebSocket.cpp), over a TCP connection.           *)
(*                                                                         *)
(* WebSocket::send, recv and close hold mutex_ from beginning to end, so   *)
(* at most one call is in progress at an endpoint; pc says where it        *)
(* stands.  Every system call is a step of its own, and everything the     *)
(* other endpoint or the network does may happen in between.  librcom      *)
(* sends unfragmented data frames and Close frames only; a foreign peer's  *)
(* fragments, pings and invalid frames are in module WebSocketReceiver.    *)
(***************************************************************************)
EXTENDS Tcp

CONSTANTS
    MaxSend,        \* bound: MaxSend[e] is the number of data messages e sends
    MaxSignals,     \* bound: signals that interrupt a blocking call
    CrashAt         \* the endpoints whose process may die

ASSUME BoundsAssumption ==
    MaxSend \in [Endpoint -> Nat] /\ MaxSignals \in Nat /\ CrashAt \subseteq Endpoint

VARIABLES
    pc,             \* pc[e]: where the call that holds e's mutex_ stands
    call,           \* call[e]: the method that holds e's mutex_
    ctx,            \* ctx[e]: which call of close_connection is in progress
    ret,            \* ret[e]: what the last call returned
    sent,           \* sent[e]: number of messages for which send returned true
    wire,           \* wire[e]: the frames e's socket accepted, in order
    delivered,      \* delivered[e]: the messages recv returned, in order
    signals,        \* number of signals so far
    interrupted,    \* interrupted[e]: an exception left a call of e with the
                    \* socket still open
    spurious        \* spurious[e]: e has taken a failed read for a frame

callVars == <<pc, call, ctx, ret>>
history == <<sent, wire, delivered, interrupted, spurious>>
vars == <<tcpVars, callVars, history, signals>>

SentClose(e) == \E i \in 1 .. Len(wire[e]) : wire[e][i].op = "close"

Contexts == {"none", "send", "reply_failed", "answer", "pong_failed",
             "close_failed", "close", "fallback"}

CallTypeOK ==
    /\ pc \in [Endpoint -> {"idle", "send", "recv", "reply", "pong", "handshake",
                            "wait_reply", "close", "sleep", "crashed"}]
    /\ call \in [Endpoint -> {"none", "send", "recv", "close"}]
    /\ ctx \in [Endpoint -> Contexts]
    /\ ret \in [Endpoint -> {"none", "ok", "failed", "message", "timeout",
                             "closed", "error", "void", "thrown"}]

HistoryTypeOK ==
    /\ sent \in [Endpoint -> Nat]
    /\ wire \in [Endpoint -> Seq(Frame)]
    /\ delivered \in [Endpoint -> Seq(Nat)]
    /\ interrupted \in [Endpoint -> BOOLEAN]
    /\ spurious \in [Endpoint -> BOOLEAN]
    /\ signals \in Nat

TypeOK == TcpTypeOK /\ CallTypeOK /\ HistoryTypeOK

Init ==
    /\ TcpInit
    /\ pc = [e \in Endpoint |-> "idle"]
    /\ call = [e \in Endpoint |-> "none"]
    /\ ctx = [e \in Endpoint |-> "none"]
    /\ ret = [e \in Endpoint |-> "none"]
    /\ sent = [e \in Endpoint |-> 0]
    /\ wire = [e \in Endpoint |-> <<>>]
    /\ delivered = [e \in Endpoint |-> <<>>]
    /\ signals = 0
    /\ interrupted = [e \in Endpoint |-> FALSE]
    /\ spurious = [e \in Endpoint |-> FALSE]

-----------------------------------------------------------------------------
(* Control: entering a call, moving inside it, returning from it.          *)

Goto(e, label) ==
    /\ pc' = [pc EXCEPT ![e] = label]
    /\ UNCHANGED <<call, ctx, ret>>

\* The virtual close_connection, entered from the place ctx names.
CloseConnection(e, from) ==
    /\ pc' = [pc EXCEPT ![e] = "close"]
    /\ ctx' = [ctx EXCEPT ![e] = from]
    /\ UNCHANGED <<call, ret>>

\* The call returns result and mutex_ is released.
Return(e, result) ==
    /\ pc' = [pc EXCEPT ![e] = "idle"]
    /\ call' = [call EXCEPT ![e] = "none"]
    /\ ctx' = [ctx EXCEPT ![e] = "none"]
    /\ ret' = [ret EXCEPT ![e] = result]

\* Mutant of HandshakeResult: recv reports an error as an orderly closure.
ClosedResult(e) == IF call[e] = "recv" THEN "closed" ELSE "void"

\* What close_with_handshake's caller returns: recv kRecvError, close nothing.
HandshakeResult(e) == IF call[e] = "recv" THEN "error" ELSE "void"

(***************************************************************************)
(* close_connection returned, the socket is closed.  socket_send's caller  *)
(* closes it once more after a reply or a Close that could not be sent.    *)
(***************************************************************************)
AfterCloseConnection(e) ==
    CASE ctx[e] = "send"                       -> Return(e, "failed")
      [] ctx[e] = "reply_failed"               -> CloseConnection(e, "answer")
      [] ctx[e] \in {"answer", "pong_failed"}  -> Return(e, "closed")
      [] ctx[e] = "close_failed"               -> CloseConnection(e, "close")
      [] ctx[e] \in {"close", "fallback"}      -> Return(e, HandshakeResult(e))

-----------------------------------------------------------------------------
(* send *)

\* The message is made; socket_send begins.
SendCall(e) ==
    /\ pc[e] = "idle"
    /\ sent[e] < MaxSend[e]
    /\ pc' = [pc EXCEPT ![e] = "send"]
    /\ call' = [call EXCEPT ![e] = "send"]
    /\ UNCHANGED <<ctx, ret, tcpVars, history, signals>>

Send(e) ==
    /\ pc[e] = "send"
    /\ sent' = [sent EXCEPT ![e] = @ + 1]
    /\ Write(e, DataFrame(sent[e] + 1))
    /\ wire' = [wire EXCEPT ![e] = Append(@, DataFrame(sent[e] + 1))]
    /\ Return(e, "ok")
    /\ UNCHANGED <<delivered, interrupted, spurious, signals>>

\* Mutant of SendFails: the failure of socket_send is not noticed.
SendFailsUnnoticed(e) ==
    /\ pc[e] = "send"
    /\ WriteFails(e)
    /\ sent' = [sent EXCEPT ![e] = @ + 1]
    /\ Return(e, "ok")
    /\ UNCHANGED <<wire, delivered, interrupted, spurious, signals>>

\* socket_send failed: "Just close the socket."
SendFails(e) ==
    /\ pc[e] = "send"
    /\ WriteFails(e)
    /\ CloseConnection(e, "send")
    /\ UNCHANGED <<history, signals>>

\* A write that waits for the peer to read.
Blocked(e) ==
    pc[e] \in {"send", "reply", "handshake"} /\ CanWrite(e) /\ WindowFull(e)

(***************************************************************************)
(* A signal ends a send() that blocks (EINTR), which BaseSocket::write     *)
(* takes for any other failure: in WebSocket::send, in the answer to a     *)
(* Close, or in close_with_handshake.                                      *)
(***************************************************************************)
WriteInterrupted(e) ==
    /\ Blocked(e)
    /\ signals < MaxSignals
    /\ signals' = signals + 1
    /\ CloseConnection(e, CASE pc[e] = "send"      -> "send"
                            [] pc[e] = "reply"     -> "reply_failed"
                            [] pc[e] = "handshake" -> "close_failed")
    /\ UNCHANGED <<tcpVars, history>>

-----------------------------------------------------------------------------
(* recv *)

RecvCall(e) ==
    /\ pc[e] = "idle"
    /\ pc' = [pc EXCEPT ![e] = "recv"]
    /\ call' = [call EXCEPT ![e] = "recv"]
    /\ UNCHANGED <<ctx, ret, tcpVars, history, signals>>

\* remaining_time is used up: kRecvTimeOut, also on a closed socket.
RecvTimeout(e) ==
    /\ pc[e] = "recv"
    /\ Return(e, "timeout")
    /\ UNCHANGED <<tcpVars, history, signals>>

\* poll() fails with EINTR: wait_for_data throws RecvError.
RecvInterrupted(e) ==
    /\ pc[e] = "recv"
    /\ signals < MaxSignals
    /\ signals' = signals + 1
    /\ Goto(e, "handshake")
    /\ UNCHANGED <<tcpVars, history>>

(***************************************************************************)
(* BaseSocket::read takes recv() = -1 for progress (it tests n < -1): the  *)
(* first read after a reset "succeeds" and leaves its buffer as it was.    *)
(* Reads after that one meet the end of the stream.  So either the last    *)
(* read of a cut frame is made up, or a frame header is; a header must be  *)
(* that of an empty frame to be believed, and a server still fails to read *)
(* the mask.  A made-up pong, or first fragment, leaves recv in its loop.  *)
(***************************************************************************)
MadeUpFrames(e) ==
    {"invalid"} \cup (IF rst[e] = "cut" THEN {"data", "close"} ELSE {})
                \cup (IF e = "client"
                      THEN {"data", "close", "ping", "pong"} ELSE {})

MadeUp(kind) == [op |-> kind, id |-> 0]

(***************************************************************************)
(* read_message: one frame, or "fails" when it throws RecvError (the end   *)
(* of the stream, or an invalid made-up header).                           *)
(***************************************************************************)
ReadMessage(e, f) ==
    /\ Readable(e)
    /\ \/ /\ NextInput(e) = "frame"
          /\ f = Head(inbox[e])
          /\ inbox' = [inbox EXCEPT ![e] = Tail(@)]
          /\ UNCHANGED <<rst, spurious>>
       \/ /\ NextInput(e) = "error"
          /\ f.op \in MadeUpFrames(e) /\ f.id = 0
          /\ ErrorReported(e)
          /\ IF f.op = "invalid" THEN UNCHANGED spurious
             ELSE spurious' = [spurious EXCEPT ![e] = TRUE]
          /\ UNCHANGED inbox
       \/ /\ NextInput(e) = "end"
          /\ f = MadeUp("invalid")
          /\ UNCHANGED <<inbox, rst, spurious>>
    /\ UNCHANGED <<sockfd, eof>>

\* What read_message can come up with.
Inputs(e) ==
    {MadeUp(kind) : kind \in {"invalid", "data", "close", "ping", "pong"}}
        \cup (IF inbox[e] # <<>> THEN {Head(inbox[e])} ELSE {})

\* Mutant of RecvData: recv returns the frame's opcode for its status.
RecvDataReturnsOpcode(e) ==
    /\ pc[e] = "recv"
    /\ \E f \in Inputs(e) :
          /\ f.op = "data"
          /\ ReadMessage(e, f)
          /\ delivered' = [delivered EXCEPT ![e] = Append(@, f.id)]
          /\ Return(e, f.op)
    /\ UNCHANGED <<sent, wire, interrupted, signals>>

\* A data frame: recv returns its payload.
RecvData(e) ==
    /\ pc[e] = "recv"
    /\ \E f \in Inputs(e) :
          /\ f.op = "data"
          /\ ReadMessage(e, f)
          /\ delivered' = [delivered EXCEPT ![e] = Append(@, f.id)]
    /\ Return(e, "message")
    /\ UNCHANGED <<sent, wire, interrupted, signals>>

\* A Close, a ping, a pong or RecvError.
RecvOther(e) ==
    /\ pc[e] = "recv"
    /\ \E f \in Inputs(e) :
          /\ f.op # "data"
          /\ ReadMessage(e, f)
          /\ Goto(e, CASE f.op = "close"   -> "reply"
                       [] f.op = "ping"    -> "pong"
                       [] f.op = "pong"    -> "recv"
                       [] f.op = "invalid" -> "handshake")
    /\ UNCHANGED <<sent, wire, delivered, interrupted, signals>>

\* answer_close_handshake: send the Close back, then close_connection.
Reply(e) ==
    /\ pc[e] = "reply"
    /\ \/ /\ Write(e, CloseFrame)
          /\ wire' = [wire EXCEPT ![e] = Append(@, CloseFrame)]
          /\ CloseConnection(e, "answer")
       \/ /\ WriteFails(e)
          /\ UNCHANGED wire
          /\ CloseConnection(e, "reply_failed")
    /\ UNCHANGED <<sent, delivered, interrupted, spurious, signals>>

\* send_pong, reached after a reset only: the write fails.
Pong(e) ==
    /\ pc[e] = "pong"
    /\ WriteFails(e)
    /\ CloseConnection(e, "pong_failed")
    /\ UNCHANGED <<history, signals>>

-----------------------------------------------------------------------------
(* close, and close_with_handshake after a RecvError *)

CloseCall(e) ==
    /\ pc[e] = "idle"
    /\ pc' = [pc EXCEPT ![e] = "handshake"]
    /\ call' = [call EXCEPT ![e] = "close"]
    /\ UNCHANGED <<ctx, ret, tcpVars, history, signals>>

\* Mutant of Handshake: a Close that cannot be sent leaves the socket open.
HandshakeGivesUp(e) ==
    /\ pc[e] = "handshake"
    /\ \/ /\ Write(e, CloseFrame)
          /\ wire' = [wire EXCEPT ![e] = Append(@, CloseFrame)]
          /\ Goto(e, "wait_reply")
       \/ /\ WriteFails(e)
          /\ UNCHANGED wire
          /\ Return(e, HandshakeResult(e))
    /\ UNCHANGED <<sent, delivered, interrupted, spurious, signals>>

Handshake(e) ==
    /\ pc[e] = "handshake"
    /\ \/ /\ Write(e, CloseFrame)
          /\ wire' = [wire EXCEPT ![e] = Append(@, CloseFrame)]
          /\ Goto(e, "wait_reply")
       \/ /\ WriteFails(e)
          /\ UNCHANGED wire
          /\ CloseConnection(e, "close_failed")
    /\ UNCHANGED <<sent, delivered, interrupted, spurious, signals>>

\* closing_wait_reply reads one frame and drops it, whatever it is; the Close
\* ends the wait, a RecvError is caught by close_with_handshake.
WaitReplyFrame(e) ==
    /\ pc[e] = "wait_reply"
    /\ \E f \in Inputs(e) :
          /\ ReadMessage(e, f)
          /\ CASE f.op = "close"   -> CloseConnection(e, "close")
               [] f.op = "invalid" -> CloseConnection(e, "fallback")
               [] OTHER            -> UNCHANGED callVars
    /\ UNCHANGED <<sent, wire, delivered, interrupted, signals>>

\* Mutant of WaitReplyTimeout: close returns without close_connection.
WaitReplyGivesUp(e) ==
    /\ pc[e] = "wait_reply"
    /\ Return(e, HandshakeResult(e))
    /\ UNCHANGED <<tcpVars, history, signals>>

\* Mutant of WaitReplyTimeout: closing_wait_reply waits until it can read.
WaitReplyForever(e) ==
    /\ pc[e] = "wait_reply"
    /\ Readable(e)
    /\ CloseConnection(e, "close")
    /\ UNCHANGED <<tcpVars, history, signals>>

\* The five seconds are over.
WaitReplyTimeout(e) ==
    /\ pc[e] = "wait_reply"
    /\ CloseConnection(e, "close")
    /\ UNCHANGED <<tcpVars, history, signals>>

-----------------------------------------------------------------------------
(* close_connection *)

\* The end of the client's wait for the server's FIN (it came, or half a
\* second passed), and all of the server's close_connection: socket_->close().
CloseTcp(e) ==
    /\ pc[e] = "close"
    /\ CloseSocket(e)
    /\ AfterCloseConnection(e)
    /\ UNCHANGED <<history, signals>>

\* The client sleeps while the server's end seems connected; the probe is a
\* recv() and clears a pending error.
Linger(e) ==
    /\ e = "client"
    /\ pc[e] = "close"
    /\ IsEndpointConnected(e)
    /\ IF inbox[e] = <<>> THEN ErrorReported(e) ELSE UNCHANGED rst
    /\ Goto(e, "sleep")
    /\ UNCHANGED <<sockfd, inbox, eof, history, signals>>

LingerWakes(e) ==
    /\ pc[e] = "sleep"
    /\ Goto(e, "close")
    /\ UNCHANGED <<tcpVars, history, signals>>

(***************************************************************************)
(* rcom_sleep throws on EINTR.  close_with_handshake catches that and      *)
(* calls close_connection again; everywhere else it leaves recv, send or   *)
(* close with the socket open.                                             *)
(***************************************************************************)
LingerInterrupted(e) ==
    /\ pc[e] = "sleep"
    /\ signals < MaxSignals
    /\ signals' = signals + 1
    /\ IF ctx[e] \in {"close_failed", "close"}
       THEN CloseConnection(e, "fallback") /\ UNCHANGED interrupted
       ELSE /\ Return(e, "thrown")
            /\ interrupted' = [interrupted EXCEPT ![e] = @ \/ sockfd[e] = "open"]
    /\ UNCHANGED <<tcpVars, sent, wire, delivered, spurious>>

-----------------------------------------------------------------------------
(* The environment *)

\* The process of e dies with all that its calls had; its kernel closes the socket.
Crash(e) ==
    /\ e \in CrashAt
    /\ pc[e] # "crashed"
    /\ pc' = [pc EXCEPT ![e] = "crashed"]
    /\ call' = [call EXCEPT ![e] = "none"]
    /\ ctx' = [ctx EXCEPT ![e] = "none"]
    /\ ret' = [ret EXCEPT ![e] = "none"]
    /\ CloseSocket(e)
    /\ UNCHANGED <<history, signals>>

Reset(e) == ResetArrives(e) /\ UNCHANGED <<callVars, history, signals>>

-----------------------------------------------------------------------------
\* The steps of a call in progress.
Step(e) ==
    \/ Send(e) \/ SendFails(e)
    \/ RecvTimeout(e) \/ RecvData(e) \/ RecvOther(e) \/ Reply(e) \/ Pong(e)
    \/ Handshake(e) \/ WaitReplyFrame(e) \/ WaitReplyTimeout(e)
    \/ CloseTcp(e) \/ Linger(e) \/ LingerWakes(e)

Next ==
    \E e \in Endpoint :
        \/ SendCall(e) \/ RecvCall(e) \/ CloseCall(e)
        \/ Step(e)
        \/ RecvInterrupted(e) \/ WriteInterrupted(e) \/ LingerInterrupted(e)
        \/ Crash(e) \/ Reset(e)

Spec == Init /\ [][Next]_vars

(***************************************************************************)
(* A thread inside a call keeps running; bytes that were sent arrive, so   *)
(* that a recv that is called again and again reads them; the client's     *)
(* half second passes.  The server's recv is called for every link in each *)
(* round of WebSocketServer::handle_events; nothing makes the client's     *)
(* application call recv.                                                  *)
(***************************************************************************)
Fairness ==
    /\ \A e \in Endpoint :
          /\ WF_vars(Step(e))
          /\ SF_vars(RecvData(e) \/ RecvOther(e))
          /\ SF_vars(CloseTcp(e))
    /\ WF_vars(RecvCall("server"))

FairSpec == Spec /\ Fairness

-----------------------------------------------------------------------------
(* What an application may rely on.                                        *)

(***************************************************************************)
(* RFC 6455, 5.5.1: after its Close frame an endpoint sends nothing more,  *)
(* and in particular not a second Close, however its own close, a peer's   *)
(* Close, read errors, failing writes and further calls follow each other. *)
(* Only a signal that interrupts the client's close_connection breaks it.  *)
(***************************************************************************)
NothingAfterClose ==
    \A e \in Endpoint :
        ~ interrupted[e] =>
            \A i \in 1 .. Len(wire[e]) :
                wire[e][i].op = "close" => i = Len(wire[e])

(***************************************************************************)
(* recv returns the peer's messages in the order they were sent, each at   *)
(* most once and none skipped, although closing_wait_reply throws frames   *)
(* away and resets cut the stream short.  It fails for an endpoint that    *)
(* took a failed read for a frame, or that was left open by a signal.      *)
(***************************************************************************)
InOrder(e) ==
    /\ Len(delivered[e]) <= sent[Peer(e)]
    /\ \A i \in 1 .. Len(delivered[e]) : delivered[e][i] = i

DeliveredInOrder ==
    \A e \in Endpoint : ~ (spurious[e] \/ interrupted[e]) => InOrder(e)

(***************************************************************************)
(* As DeliveredInOrder, but relying on the comment in ISocket.h that read  *)
(* returns false when an error occurs before the requested number of bytes *)
(* was read: then a reset cannot make recv deliver what nobody sent.       *)
(***************************************************************************)
DeliveredWasSent ==
    \A e \in Endpoint : ~ interrupted[e] => InOrder(e)

(***************************************************************************)
(* When recv reports kRecvClosed, every message that the peer had sent     *)
(* has been returned before: the closing handshake loses nothing that was  *)
(* sent towards the endpoint that answers it.                              *)
(***************************************************************************)
ClosedMeansAllReceived ==
    \A e \in Endpoint :
        /\ ret[e] = "closed"
        /\ ~ spurious[e]
        /\ \A d \in Endpoint : ~ interrupted[d]
        => Len(delivered[e]) = sent[Peer(e)]

Returned(e) == pc[e] \in {"idle", "crashed"}

(***************************************************************************)
(* A call of send, recv or close returns: no closing handshake waits for   *)
(* ever for an endpoint that is itself waiting or has crashed.  Only a     *)
(* write to a peer that lives and does not read can hold a call, at the    *)
(* server that of any client; at the client, as the server calls recv      *)
(* again and again, only while the server is held in a write to it.        *)
(***************************************************************************)
CallReturns ==
    /\ []<>Returned("server") \/ <>[]Blocked("server")
    /\ []<>Returned("client") \/ <>[](Blocked("client") /\ Blocked("server"))

(***************************************************************************)
(* The hub gets rid of its end of a link whose client has closed, crashed  *)
(* or been reset, in whatever state the link was.                          *)
(***************************************************************************)
ServerNotices == sockfd["client"] = "closed" ~> sockfd["server"] = "closed"

\* The messages that e received, without the one that was made up at the end
\* (DeliveredWasSent).
Received(e) ==
    LET n == Len(delivered[e]) IN
    IF n > 0 /\ delivered[e][n] = 0 THEN SubSeq(delivered[e], 1, n - 1)
    ELSE delivered[e]

Channel == INSTANCE MessageChannel WITH
               up <- [e \in Endpoint |-> sockfd[e] = "open"],
               delivered <- [e \in Endpoint |-> Received(e)],
               thrown <- interrupted

(***************************************************************************)
(* A connection is the channel that IWebSocket promises, whatever resets,  *)
(* crashes and timeouts befall it: every recv that returns a message is    *)
(* the delivery of the next one, and no other step of recv, send, close or *)
(* of the network is visible.  Messages that a reader made up do not       *)
(* count.                                                                  *)
(***************************************************************************)
ImplementsChannel == Channel!Spec

-----------------------------------------------------------------------------
(* The inductive invariant behind NothingAfterClose.                       *)

\* close_connection is under way exactly when some place has called it.
ContextOK ==
    \A e \in Endpoint : pc[e] \in {"close", "sleep"} <=> ctx[e] # "none"

\* Once it has sent its Close an endpoint stays inside the call that sent it
\* until its socket is closed.
CloseEndsTheCall ==
    \A e \in Endpoint :
        ~ interrupted[e] /\ SentClose(e) =>
            sockfd[e] = "closed" \/ pc[e] \in {"wait_reply", "close", "sleep"}

CloseInv == TypeOK /\ ContextOK /\ CloseEndsTheCall /\ NothingAfterClose
=============================================================================
