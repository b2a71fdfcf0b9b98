-------------------------------- MODULE Hub --------------------------------
(***************************************************************************)
(* WebSocketServer (librcom/src/WebSocketServer.cpp), the event loop of    *)
(* MessageHub, RcomServer and rcom-registry, with several clients.         *)
(*                                                                         *)
(* The hub is one thread: its application calls handle_events again and    *)
(* again, may call broadcast in between, and in the end destroys the hub.  *)
(* Every call that may wait for a client (accept's handshake, a write into *)
(* a full window, the rest of a frame that has begun, the wait for a       *)
(* Close) is a step of its own; meanwhile the clients connect, send, read, *)
(* close, stop and die.  A connection is what MessageChannel promises,     *)
(* with a bounded window in each direction: BaseSocket::write returns when *)
(* everything is written, BaseSocket::read when everything is read.        *)
(***************************************************************************)
EXTENDS Integers, FiniteSets, Sequences, SequencesExt

CONSTANTS
    Client,         \* the clients; one that comes back is another client
    NoClient,       \* in place of broadcast's nullptr
    Window,         \* messages that the kernels hold in each direction
    MaxThrows,      \* bound: exceptions thrown by the listener
    MaxFaults       \* bound: invalid frames and signals that end a recv

ASSUME WindowAssumption == Window \in Nat \ {0}
ASSUME HubBoundsAssumption == MaxThrows \in Nat /\ MaxFaults \in Nat
ASSUME NoClientAssumption == NoClient \notin Client

VARIABLES
    pc,             \* where the hub's thread stands
    at,             \* index of the link that is being served or closed
    next,           \* index of the link that broadcast comes to next
    exclude,        \* broadcast's argument
    due,            \* links that the broadcast in progress has still to reach
    links,          \* links_: the clients of the websockets, in order
    hub,            \* hub[c]: the hub's socket of c
    backlog,        \* connections that wait for accept
    client,         \* client[c]: what c is doing
    toHub,          \* toHub[c]: what c has written and the hub has not read,
                    \* "part" at its end when that is not yet a whole frame
    toClient,       \* toClient[c]: what the hub has written and c has not read
    throws, faults  \* exceptions and faults so far

callVars == <<pc, at, next, exclude, due>>
wireVars == <<toHub, toClient>>
bounds == <<throws, faults>>
vars == <<callVars, links, hub, backlog, client, wireVars, bounds>>

Places == {"idle", "accept", "handshake", "messages", "listener", "reply",
           "broadcast", "answer", "say_close", "wait_reply", "remove",
           "stop", "stop_close", "stop_wait", "stopped"}

TypeOK ==
    /\ pc \in Places
    /\ at \in Nat /\ next \in Nat
    /\ exclude \in Client \cup {NoClient}
    /\ due \subseteq Client
    /\ links \in Seq(Client)
    /\ hub \in [Client -> {"none", "open", "closed"}]
    /\ backlog \in Seq(Client)
    /\ client \in [Client -> {"off", "silent", "waiting", "open", "sending",
                              "parting", "halfway", "closing", "gone"}]
    /\ toHub \in [Client -> Seq({"data", "close", "part"})]
    /\ toClient \in [Client -> Seq({"data", "news", "close"})]
    /\ throws \in 0 .. MaxThrows /\ faults \in 0 .. MaxFaults

Init ==
    /\ pc = "idle" /\ at = 0 /\ next = 0
    /\ exclude = NoClient /\ due = {}
    /\ links = <<>> /\ backlog = <<>>
    /\ hub = [c \in Client |-> "none"]
    /\ client = [c \in Client |-> "off"]
    /\ toHub = [c \in Client |-> <<>>]
    /\ toClient = [c \in Client |-> <<>>]
    /\ throws = 0 /\ faults = 0

-----------------------------------------------------------------------------
(* The thread: where it goes when it is done with a link.                  *)

Current == links[at]

Linked(c) == \E k \in 1 .. Len(links) : links[k] = c

OpenLinks == {c \in Client : Linked(c) /\ hub[c] = "open"}

Goto(place) == pc' = place /\ UNCHANGED <<at, next, exclude, due>>

\* The next turn of the loop over links_, of handle_new_messages or of the destructor.
NextLink(loop) ==
    /\ pc' = loop
    /\ at' = at + 1
    /\ UNCHANGED <<next, exclude, due>>

\* handle_events or broadcast returns to the application.
Return ==
    /\ pc' = "idle" /\ at' = 0 /\ next' = 0
    /\ exclude' = NoClient /\ due' = {}

-----------------------------------------------------------------------------
(* Writing to a client and closing its socket.                             *)

Gone(c) == client[c] = "gone"

\* socket_->send(): waits while the window is full; what is sent to a client
\* that is gone may be lost without notice.
Write(c, m) ==
    /\ hub[c] = "open"
    /\ \/ /\ Gone(c)
          /\ UNCHANGED toClient
       \/ /\ ~ Gone(c)
          /\ Len(toClient[c]) < Window
          /\ toClient' = [toClient EXCEPT ![c] = Append(@, m)]

WriteFails(c) == hub[c] = "open" /\ Gone(c)

\* close_connection of the server's side: what was not read is thrown away.
CloseSocket(c) ==
    /\ hub' = [hub EXCEPT ![c] = "closed"]
    /\ toHub' = [toHub EXCEPT ![c] = <<>>]

-----------------------------------------------------------------------------
(* handle_events: new connections *)

HandleEvents ==
    /\ pc = "idle"
    /\ Goto("accept")
    /\ UNCHANGED <<links, hub, backlog, client, wireVars, bounds>>

\* accept(0.0) finds a connection, and the handshake begins; or it finds none.
Accept ==
    /\ pc = "accept"
    /\ IF backlog # <<>> THEN Goto("handshake")
       ELSE /\ pc' = "messages"
            /\ at' = 1
            /\ UNCHANGED <<next, exclude, due>>
    /\ UNCHANGED <<links, hub, backlog, client, wireVars, bounds>>

(***************************************************************************)
(* The request is read and answered, the websocket is appended to links_.  *)
(* A client that has given up meanwhile has left its request behind, and   *)
(* the answer to it may well be written.                                   *)
(***************************************************************************)
HandshakeDone ==
    /\ pc = "handshake"
    /\ LET c == Head(backlog) IN
          /\ client[c] \in {"waiting", "gone"}
          /\ links' = Append(links, c)
          /\ hub' = [hub EXCEPT ![c] = "open"]
          /\ client' = [client EXCEPT ![c] = IF Gone(c) THEN "gone" ELSE "open"]
    /\ backlog' = Tail(backlog)
    /\ Goto("accept")
    /\ UNCHANGED <<wireVars, bounds>>


\* No request within five seconds, or the connection breaks: try_new_connection
\* catches the exception, the socket is closed.
HandshakeFails ==
    /\ pc = "handshake"
    /\ client[Head(backlog)] \in {"silent", "gone"}
    /\ hub' = [hub EXCEPT ![Head(backlog)] = "closed"]
    /\ backlog' = Tail(backlog)
    /\ Goto("accept")
    /\ UNCHANGED <<links, client, wireVars, bounds>>

-----------------------------------------------------------------------------
(* handle_events: new messages, one recv(0.0) for each link *)

EndOfRound ==
    /\ pc = "messages"
    /\ at > Len(links)
    /\ Goto("remove")
    /\ UNCHANGED <<links, hub, backlog, client, wireVars, bounds>>

SkipClosed ==
    /\ pc = "messages"
    /\ at <= Len(links)
    /\ hub[Current] # "open"
    /\ NextLink("messages")
    /\ UNCHANGED <<links, hub, backlog, client, wireVars, bounds>>

Recv(c) == pc = "messages" /\ at <= Len(links) /\ Current = c /\ hub[c] = "open"

\* A frame has arrived, or its beginning.  Then wait finds data, and the reads
\* that follow have no timeout: neither RecvTimeout nor the end of the five
\* seconds of closing_wait_reply comes before the rest.
Whole(c) == toHub[c] # <<>> /\ Head(toHub[c]) # "part"
Begun(c) == toHub[c] # <<>> /\ Head(toHub[c]) = "part"

\* Mutant of RecvFrame: the loop goes on to where the frame's opcode says.
RecvFrameByOpcode(c) ==
    /\ Recv(c)
    /\ Whole(c)
    /\ toHub' = [toHub EXCEPT ![c] = Tail(@)]
    /\ Goto(Head(toHub[c]))
    /\ UNCHANGED <<links, hub, backlog, client, toClient, bounds>>

\* A message, which goes to the listener, or a Close, which is answered.
RecvFrame(c) ==
    /\ Recv(c)
    /\ Whole(c)
    /\ toHub' = [toHub EXCEPT ![c] = Tail(@)]
    /\ Goto(IF Head(toHub[c]) = "data" THEN "listener" ELSE "answer")
    /\ UNCHANGED <<links, hub, backlog, client, toClient, bounds>>

RecvTimeout(c) ==
    /\ Recv(c)
    /\ toHub[c] = <<>> /\ ~ Gone(c)
    /\ NextLink("messages")
    /\ UNCHANGED <<links, hub, backlog, client, wireVars, bounds>>

\* Mutant of RecvEnd: the end of the stream is taken for "no data yet".
RecvEndIgnored(c) ==
    /\ Recv(c)
    /\ Gone(c)
    /\ NextLink("messages")
    /\ UNCHANGED <<links, hub, backlog, client, wireVars, bounds>>

\* The client's end, in order or by a reset, also in the middle of a frame:
\* RecvError inside recv, whose close_with_handshake finds nobody;
\* handle_new_messages closes once more.
RecvEnd(c) ==
    /\ Recv(c)
    /\ Gone(c)
    /\ CloseSocket(c)
    /\ NextLink("messages")
    /\ UNCHANGED <<links, backlog, client, toClient, bounds>>

\* An invalid frame of a living client, or a signal: RecvError, and recv goes
\* through the closing handshake.
RecvFault(c) ==
    /\ Recv(c)
    /\ ~ Gone(c)
    /\ faults < MaxFaults
    /\ faults' = faults + 1
    /\ Goto("say_close")
    /\ UNCHANGED <<links, hub, backlog, client, wireVars, throws>>

-----------------------------------------------------------------------------
(* Closing a link, in a round or in the destructor *)

Loop == IF pc \in {"stop_close", "stop_wait"} THEN "stop" ELSE "messages"

\* answer_close_handshake: the Close is sent back, then the socket is closed.
Answer(c) ==
    /\ pc = "answer" /\ Current = c
    /\ Write(c, "close") \/ (WriteFails(c) /\ UNCHANGED toClient)
    /\ CloseSocket(c)
    /\ NextLink("messages")
    /\ UNCHANGED <<links, backlog, client, bounds>>

\* send_close_message; when that fails there is no wait for a reply.
SayClose(c) ==
    /\ pc \in {"say_close", "stop_close"} /\ Current = c
    /\ \/ /\ Write(c, "close")
          /\ Goto(IF pc = "say_close" THEN "wait_reply" ELSE "stop_wait")
          /\ UNCHANGED <<hub, toHub>>
       \/ /\ WriteFails(c)
          /\ CloseSocket(c)
          /\ NextLink(Loop)
          /\ UNCHANGED toClient
    /\ UNCHANGED <<links, backlog, client, bounds>>

\* closing_wait_reply throws every frame but a Close away.
WaitReply(c) ==
    /\ pc \in {"wait_reply", "stop_wait"} /\ Current = c
    /\ Whole(c) /\ Head(toHub[c]) = "data"
    /\ toHub' = [toHub EXCEPT ![c] = Tail(@)]
    /\ UNCHANGED <<callVars, links, hub, backlog, client, toClient, bounds>>

\* The Close, the end of the stream, or the end of the five seconds, at which
\* the loop looks between two frames.
WaitReplyEnds(c) ==
    /\ pc \in {"wait_reply", "stop_wait"} /\ Current = c
    /\ Begun(c) => Gone(c)
    /\ CloseSocket(c)
    /\ NextLink(Loop)
    /\ UNCHANGED <<links, backlog, client, toClient, bounds>>

-----------------------------------------------------------------------------
(* The listener: IMessageListener::onmessage for a message of the current  *)
(* link.  It may do nothing, answer (RegistryServer, RcomMessageHandler),  *)
(* broadcast to the others, or throw.                                      *)

\* Mutant of ListenerIgnores: the round ends at the first message.
ListenerEndsRound ==
    /\ pc = "listener"
    /\ Goto("remove")
    /\ UNCHANGED <<links, hub, backlog, client, wireVars, bounds>>

ListenerIgnores ==
    /\ pc = "listener"
    /\ NextLink("messages")
    /\ UNCHANGED <<links, hub, backlog, client, wireVars, bounds>>

ListenerReplies ==
    /\ pc = "listener"
    /\ Goto("reply")
    /\ UNCHANGED <<links, hub, backlog, client, wireVars, bounds>>

\* websocket.send(): a failure closes the socket, the listener goes on.
Reply(c) ==
    /\ pc = "reply" /\ Current = c
    /\ \/ Write(c, "data") /\ UNCHANGED <<hub, toHub>>
       \/ WriteFails(c) /\ CloseSocket(c) /\ UNCHANGED toClient
    /\ NextLink("messages")
    /\ UNCHANGED <<links, backlog, client, bounds>>

\* The exception leaves handle_events: the links behind this one are not
\* served, and remove_closed_links is not called.  The application catches it.
ListenerThrows ==
    /\ pc = "listener"
    /\ throws < MaxThrows
    /\ throws' = throws + 1
    /\ Return
    /\ UNCHANGED <<links, hub, backlog, client, wireVars, faults>>

-----------------------------------------------------------------------------
(* broadcast *)

Broadcast(but) ==
    /\ pc' = "broadcast"
    /\ next' = 1
    /\ exclude' = but
    /\ due' = OpenLinks \ {but}
    /\ UNCHANGED at

ListenerRelays ==
    /\ pc = "listener"
    /\ Broadcast(Current)
    /\ UNCHANGED <<links, hub, backlog, client, wireVars, bounds>>

ApplicationBroadcasts ==
    /\ pc = "idle"
    /\ Broadcast(NoClient)
    /\ UNCHANGED <<links, hub, backlog, client, wireVars, bounds>>

NextReceiver == next' = next + 1 /\ UNCHANGED <<pc, at, exclude>>

BroadcastSkips(c) ==
    /\ c = exclude \/ hub[c] # "open"
    /\ UNCHANGED <<due, links, hub, wireVars>>

\* Mutant of BroadcastSends: a relayed message comes back to its sender.
BroadcastEchoes(c) ==
    /\ Write(c, "news")
    /\ due' = due \ {c}
    /\ UNCHANGED <<links, hub, toHub>>

BroadcastSends(c) ==
    /\ c # exclude
    /\ Write(c, "news")
    /\ due' = due \ {c}
    /\ UNCHANGED <<links, hub, toHub>>

\* Mutant of BroadcastFails: the link is erased from links_ at once.
BroadcastErases(c) ==
    /\ c # exclude
    /\ WriteFails(c)
    /\ CloseSocket(c)
    /\ links' = RemoveAt(links, next)
    /\ UNCHANGED <<due, toClient>>

\* send has closed the socket; the close that follows finds it closed.
BroadcastFails(c) ==
    /\ c # exclude
    /\ WriteFails(c)
    /\ CloseSocket(c)
    /\ UNCHANGED <<due, links, toClient>>

BroadcastTo(c) ==
    /\ pc = "broadcast"
    /\ next <= Len(links) /\ links[next] = c
    /\ NextReceiver
    /\ BroadcastSkips(c) \/ BroadcastSends(c) \/ BroadcastFails(c)
    /\ UNCHANGED <<backlog, client, bounds>>

\* broadcast returns, to the listener and its round or to the application.
BroadcastReturns ==
    /\ pc = "broadcast"
    /\ next > Len(links)
    /\ IF at = 0 THEN Return
       ELSE /\ pc' = "messages" /\ at' = at + 1 /\ next' = 0
            /\ exclude' = NoClient /\ due' = {}
    /\ UNCHANGED <<links, hub, backlog, client, wireVars, bounds>>

-----------------------------------------------------------------------------
(* remove_closed_links and the destructor *)

\* One closed link leaves links_; when there is none, handle_events returns.
RemoveClosedLinks ==
    /\ pc = "remove"
    /\ IF \E k \in 1 .. Len(links) : hub[links[k]] # "open"
       THEN /\ \E k \in 1 .. Len(links) :
                  hub[links[k]] # "open" /\ links' = RemoveAt(links, k)
            /\ UNCHANGED callVars
       ELSE /\ Return
            /\ UNCHANGED links
    /\ UNCHANGED <<hub, backlog, client, wireVars, bounds>>

\* The server socket is closed, and with it what waits in the backlog.
Destroy ==
    /\ pc = "idle"
    /\ pc' = "stop" /\ at' = 1
    /\ hub' = [c \in Client |-> IF \E k \in 1 .. Len(backlog) : backlog[k] = c
                                THEN "closed" ELSE hub[c]]
    /\ backlog' = <<>>
    /\ UNCHANGED <<next, exclude, due, links, client, wireVars, bounds>>

\* One turn of the destructor's loop: close(kCloseGoingAway) of an open link.
DestroyLink ==
    /\ pc = "stop"
    /\ IF at > Len(links) THEN Goto("stopped")
       ELSE IF hub[Current] = "open" THEN Goto("stop_close")
       ELSE NextLink("stop")
    /\ UNCHANGED <<links, hub, backlog, client, wireVars, bounds>>

-----------------------------------------------------------------------------
(* The clients: MessageLinks, whose send holds the websocket's mutex_ and  *)
(* its thread until everything is written; or foreign programs that        *)
(* connect and say nothing, or stop in the middle of a frame.              *)

Become(c, state) == client' = [client EXCEPT ![c] = state]

Connect(c) ==
    /\ client[c] = "off"
    /\ pc \notin {"stop", "stop_close", "stop_wait", "stopped"}
    /\ Become(c, "waiting") \/ Become(c, "silent")
    /\ backlog' = Append(backlog, c)
    /\ UNCHANGED <<callVars, links, hub, wireVars, bounds>>

\* The client's process dies, or its patience with the handshake (five seconds
\* for each character of the response) ends; its kernel closes the socket.
\* What it wrote may be lost or not.
Leave(c) ==
    /\ client[c] \notin {"off", "gone"}
    /\ Become(c, "gone")
    /\ toClient' = [toClient EXCEPT ![c] = <<>>]
    /\ \/ UNCHANGED toHub
       \/ toHub' = [toHub EXCEPT ![c] = <<>>]
    /\ UNCHANGED <<callVars, links, hub, backlog, bounds>>

\* send or close is called, and waits for room in the window.
SendCall(c) ==
    /\ client[c] = "open"
    /\ Become(c, "sending") \/ Become(c, "parting")
    /\ UNCHANGED <<callVars, links, hub, backlog, wireVars, bounds>>

SendReturns(c) ==
    /\ client[c] \in {"sending", "parting"}
    /\ hub[c] = "open"
    /\ Len(toHub[c]) < Window
    /\ LET data == client[c] = "sending" IN
          /\ toHub' = [toHub EXCEPT ![c] =
                          Append(@, IF data THEN "data" ELSE "close")]
          /\ Become(c, IF data THEN "open" ELSE "closing")
    /\ UNCHANGED <<callVars, links, hub, backlog, toClient, bounds>>

\* Only the beginning of the frame is written; the rest may come, or never.
SendBegins(c) ==
    /\ client[c] \in {"sending", "parting"}
    /\ hub[c] = "open"
    /\ Len(toHub[c]) < Window
    /\ toHub' = [toHub EXCEPT ![c] = Append(@, "part")]
    /\ Become(c, "halfway")
    /\ UNCHANGED <<callVars, links, hub, backlog, toClient, bounds>>

SendRest(c) ==
    /\ client[c] = "halfway"
    /\ hub[c] = "open"
    /\ \E m \in {"data", "close"} :
          /\ toHub' = [toHub EXCEPT ![c] = Append(Front(@), m)]
          /\ Become(c, IF m = "data" THEN "open" ELSE "closing")
    /\ UNCHANGED <<callVars, links, hub, backlog, toClient, bounds>>

\* A message is read, or thrown away by a client that closes.
Read(c) ==
    /\ client[c] \in {"open", "closing"}
    /\ toClient[c] # <<>> /\ Head(toClient[c]) # "close"
    /\ toClient' = [toClient EXCEPT ![c] = Tail(@)]
    /\ UNCHANGED <<callVars, links, hub, backlog, client, toHub, bounds>>

\* A Close is read; the answer to it goes where there is room, and the client
\* waits until the hub has closed its end, or half a second.
ReadClose(c) ==
    /\ client[c] \in {"open", "closing"}
    /\ toClient[c] # <<>> /\ Head(toClient[c]) = "close"
    /\ \/ hub[c] # "open" /\ UNCHANGED toHub
       \/ client[c] = "closing" /\ UNCHANGED toHub
       \/ /\ client[c] = "open" /\ hub[c] = "open" /\ Len(toHub[c]) < Window
          /\ toHub' = [toHub EXCEPT ![c] = Append(@, "close")]
    /\ toClient' = [toClient EXCEPT ![c] = <<>>]
    /\ Become(c, "gone")
    /\ UNCHANGED <<callVars, links, hub, backlog, bounds>>

\* The hub's end is closed: a read finds the end of the stream, a write fails,
\* a handshake breaks.
FindClosed(c) ==
    /\ hub[c] = "closed"
    /\ \/ client[c] \in {"waiting", "sending", "parting", "halfway"}
       \/ client[c] \in {"open", "closing"} /\ toClient[c] = <<>>
    /\ Become(c, "gone")
    /\ toClient' = [toClient EXCEPT ![c] = <<>>]
    /\ UNCHANGED <<callVars, links, hub, backlog, toHub, bounds>>

-----------------------------------------------------------------------------
\* The steps of handle_events, broadcast and the destructor.
HubStep ==
    \/ Accept \/ HandshakeDone \/ HandshakeFails
    \/ EndOfRound \/ SkipClosed
    \/ ListenerIgnores \/ ListenerReplies \/ ListenerRelays \/ ListenerThrows
    \/ BroadcastReturns \/ RemoveClosedLinks \/ DestroyLink
    \/ \E c \in Client :
          \/ RecvFrame(c) \/ RecvTimeout(c) \/ RecvEnd(c) \/ RecvFault(c)
          \/ Answer(c) \/ SayClose(c) \/ WaitReply(c) \/ WaitReplyEnds(c)
          \/ Reply(c) \/ BroadcastTo(c)

ClientStep(c) ==
    \/ Connect(c) \/ Leave(c) \/ SendCall(c) \/ SendReturns(c)
    \/ SendBegins(c) \/ SendRest(c)
    \/ Read(c) \/ ReadClose(c) \/ FindClosed(c)

Next ==
    \/ HandleEvents \/ ApplicationBroadcasts \/ Destroy
    \/ HubStep
    \/ \E c \in Client : ClientStep(c)

Spec == Init /\ [][Next]_vars

(***************************************************************************)
(* The hub's thread runs on unless it waits for a client; its timeouts     *)
(* pass (closing_wait_reply looks at the clock after each frame); its      *)
(* application calls handle_events again and again, whatever it broadcasts *)
(* in between.  The clients need not do anything: to read, to finish a     *)
(* frame or to go is up to them.                                           *)
(***************************************************************************)
Fairness ==
    /\ WF_vars(HubStep)
    /\ SF_vars(\E c \in Client : WaitReplyEnds(c))
    /\ SF_vars(HandleEvents)

FairSpec == Spec /\ Fairness

-----------------------------------------------------------------------------
(***************************************************************************)
(* A broadcast is written to every link that was open when it began and    *)
(* still is, but for the excluded one: what is due is ahead of its loop,   *)
(* although links that fail are closed on the way.                         *)
(***************************************************************************)
BroadcastReachesAll ==
    pc = "broadcast" =>
        \A c \in due :
            hub[c] = "open" => \E k \in next .. Len(links) : links[k] = c

(***************************************************************************)
(* broadcast writes only to the links that it has still to reach: to none  *)
(* twice, to no link that came later, and never back to the client whose   *)
(* message is relayed.                                                     *)
(***************************************************************************)
BroadcastOnce ==
    [][\A c \in Client :
          toClient'[c] = Append(toClient[c], "news") => c \in due]_vars

(***************************************************************************)
(* The hub waits for c without a timeout: in a write, until c reads, or in *)
(* a read, until the rest of a frame comes.                                *)
(***************************************************************************)
Writing(c) ==
    \/ pc \in {"reply", "answer", "say_close", "stop_close"} /\ Current = c
    \/ pc = "broadcast" /\ next <= Len(links) /\ links[next] = c /\ c # exclude

Reading(c) == Recv(c) \/ (pc \in {"wait_reply", "stop_wait"} /\ Current = c)

Held(c) ==
    /\ hub[c] = "open" /\ ~ Gone(c)
    /\ \/ Writing(c) /\ Len(toClient[c]) = Window
       \/ Reading(c) /\ Begun(c)

\* One living client keeps the hub waiting for ever.
HeldForEver == \E c \in Client : <>[]Held(c)


(***************************************************************************)
(* The link of a client that is gone leaves links_, although exceptions of *)
(* the listener skip remove_closed_links: also that of a client which gave *)
(* up before its handshake was served or in the middle of a frame.         *)
(***************************************************************************)
DeadLinksGo ==
    \/ HeldForEver
    \/ \A c \in Client : Linked(c) /\ Gone(c) ~> ~ Linked(c) \/ pc = "stopped"

(***************************************************************************)
(* What a client has sent is given to the listener, or its link is closed: *)
(* no other client can keep the hub busy for ever, neither by sending      *)
(* without pause nor by making the listener throw (MaxThrows times).       *)
(***************************************************************************)
Served(c) == pc = "listener" /\ Current = c

MessagesServed ==
    \/ HeldForEver
    \/ \A c \in Client : Linked(c) /\ Whole(c) ~> Served(c) \/ hub[c] # "open"
=============================================================================
