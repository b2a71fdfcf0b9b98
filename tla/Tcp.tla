-------------------------------- MODULE Tcp --------------------------------
(***************************************************************************)
(* One TCP connection between a client and a server endpoint, as seen      *)
(* through rcom's BaseSocket (librcom/src/BaseSocket.cpp): the descriptor  *)
(* each side holds and what the kernels and the network keep between them. *)
(*                                                                         *)
(* The kernel's part is external: it is modelled from how BaseSocket uses  *)
(* it.  inbox[e] holds the frames on their way to e as well as those in    *)
(* e's receive queue; the network's delay shows in the readers, which may  *)
(* time out whether or not inbox[e] is empty.                              *)
(***************************************************************************)
EXTENDS Integers, Sequences

CONSTANTS
    ResetAt,    \* the endpoints at which a TCP reset (RST) may arrive
    Window      \* frames that the kernels hold in each direction

Endpoint == {"client", "server"}

Peer(e) == IF e = "client" THEN "server" ELSE "client"

ASSUME TcpAssumption == ResetAt \subseteq Endpoint /\ Window \in Nat \ {0}

(***************************************************************************)
(* A whole websocket frame is the unit of transfer.  A data frame carries  *)
(* the number of the message in its sender's order, a Close frame 0.       *)
(***************************************************************************)
Frame == [op : {"data", "close"}, id : Nat]

CloseFrame == [op |-> "close", id |-> 0]

DataFrame(n) == [op |-> "data", id |-> n]

VARIABLES
    sockfd,     \* sockfd[e]: "open", or "closed" once sockfd_ = kInvalidSocket
    inbox,      \* inbox[e]: the frames e can still read
    eof,        \* eof[e]: the peer's FIN follows the frames of inbox[e]
    rst         \* rst[e]: "none"; "owed": the peer's kernel has answered, or
                \* will answer, with an RST; "pending": the RST has arrived and
                \* the next failing call reports it; "cut": likewise, and part
                \* of a frame is left in front of it; "read": it was reported

tcpVars == <<sockfd, inbox, eof, rst>>

TcpTypeOK ==
    /\ sockfd \in [Endpoint -> {"open", "closed"}]
    /\ inbox \in [Endpoint -> Seq(Frame)]
    /\ eof \in [Endpoint -> BOOLEAN]
    /\ rst \in [Endpoint -> {"none", "owed", "pending", "cut", "read"}]

TcpInit ==
    /\ sockfd = [e \in Endpoint |-> "open"]
    /\ inbox = [e \in Endpoint |-> <<>>]
    /\ eof = [e \in Endpoint |-> FALSE]
    /\ rst = [e \in Endpoint |-> "none"]

(***************************************************************************)
(* What poll() reports as POLLIN: data, an end of stream, or an error.     *)
(* With sockfd_ = -1 poll() ignores the entry and only ever times out.     *)
(***************************************************************************)
Readable(e) ==
    /\ sockfd[e] = "open"
    /\ inbox[e] # <<>> \/ eof[e] \/ rst[e] \in {"pending", "cut", "read"}

(***************************************************************************)
(* What a recv() on e's socket meets: the queued data first, then the      *)
(* pending error (-1), then the end of the stream (0).                     *)
(***************************************************************************)
NextInput(e) ==
    IF inbox[e] # <<>> THEN "frame"
    ELSE IF rst[e] \in {"pending", "cut"} THEN "error" ELSE "end"

\* BaseSocket::is_endpoint_connected: only a recv() of 0 says "no".  An error,
\* or the invalid descriptor, counts as connected.
IsEndpointConnected(e) == ~ (Readable(e) /\ NextInput(e) = "end")

\* send() does not fail until a reset has arrived, also when the peer is gone.
CanWrite(e) == sockfd[e] = "open" /\ rst[e] \in {"none", "owed"}

\* A recv() or send() that reports the pending error clears it.
ErrorReported(e) ==
    rst' = [rst EXCEPT ![e] = IF @ \in {"pending", "cut"} THEN "read" ELSE @]

(***************************************************************************)
(* send() blocks while the window of a peer that lives is full: sockets    *)
(* have no send timeout.  The kernels may hold part of the frame already;  *)
(* the peer then reads on as soon as it reads at all.                      *)
(***************************************************************************)
WindowFull(e) == sockfd[Peer(e)] = "open" /\ Len(inbox[Peer(e)]) >= Window

(***************************************************************************)
(* BaseSocket::write of a whole frame, which returns when the last byte is *)
(* taken.  What reaches a closed peer is lost and earns the writer an RST. *)
(***************************************************************************)
Write(e, frame) ==
    /\ CanWrite(e)
    /\ ~ WindowFull(e)
    /\ IF sockfd[Peer(e)] = "open"
       THEN inbox' = [inbox EXCEPT ![Peer(e)] = Append(@, frame)] /\ UNCHANGED rst
       ELSE rst' = [rst EXCEPT ![e] = "owed"] /\ UNCHANGED inbox
    /\ UNCHANGED <<sockfd, eof>>

\* BaseSocket::write when send() returns -1.
WriteFails(e) ==
    /\ ~ CanWrite(e)
    /\ ErrorReported(e)
    /\ UNCHANGED <<sockfd, inbox, eof>>

\* The descriptor is gone, by BaseSocket::close or with its process: the peer
\* gets a FIN, followed by an RST if a frame arrives after the queue was drained.
Disconnect(e) ==
    /\ sockfd' = [sockfd EXCEPT ![e] = "closed"]
    /\ inbox' = [inbox EXCEPT ![e] = <<>>]
    /\ eof' = [eof EXCEPT ![Peer(e)] = TRUE]
    /\ \/ rst' = [rst EXCEPT ![e] = "none"]
       \/ /\ inbox[e] # <<>>
          /\ sockfd[Peer(e)] = "open" /\ rst[Peer(e)] = "none"
          /\ rst' = [rst EXCEPT ![e] = "none", ![Peer(e)] = "owed"]

\* BaseSocket::close: shutdown, drain, close; nothing on an invalid descriptor.
CloseSocket(e) ==
    IF sockfd[e] = "open" THEN Disconnect(e) ELSE UNCHANGED tcpVars

(***************************************************************************)
(* An RST reaches e.  What the peer's kernel had not transmitted yet is    *)
(* lost: a prefix of inbox[e] survives, which may end inside a frame.      *)
(***************************************************************************)
ResetArrives(e) ==
    /\ e \in ResetAt
    /\ sockfd[e] = "open"
    /\ rst[e] = "owed"
    /\ \E k \in 0 .. Len(inbox[e]), error \in {"pending", "cut"} :
          /\ error = "cut" => k < Len(inbox[e])
          /\ inbox' = [inbox EXCEPT ![e] = SubSeq(@, 1, k)]
          /\ rst' = [rst EXCEPT ![e] = error]
    /\ UNCHANGED <<sockfd, eof>>
=============================================================================
