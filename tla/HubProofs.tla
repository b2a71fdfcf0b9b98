------------------------------ MODULE HubProofs ------------------------------
(***************************************************************************)
(* What the hub does with links_, for every set of clients, every window   *)
(* and every number of exceptions and faults: a broadcast misses no open   *)
(* link and reaches none twice.  The second needs that links_ names no     *)
(* client twice, and so that a connection is accepted once.                *)
(***************************************************************************)
EXTENDS Hub, SequenceTheorems, TLAPS

\* The elements of a sequence without its k-th.
LEMMA RemoveAtElements ==
    ASSUME NEW S, NEW es \in Seq(S), NEW k \in 1 .. Len(es)
    PROVE  /\ RemoveAt(es, k) \in Seq(S)
           /\ Len(RemoveAt(es, k)) = Len(es) - 1
           /\ \A i \in 1 .. Len(es) - 1 :
                RemoveAt(es, k)[i] = IF i < k THEN es[i] ELSE es[i + 1]
<1> DEFINE front == SubSeq(es, 1, k - 1)
           back == SubSeq(es, k + 1, Len(es))
<1>1. front \in Seq(S) /\ Len(front) = k - 1
      /\ \A i \in 1 .. k - 1 : front[i] = es[i]
  OBVIOUS
<1>2. back \in Seq(S) /\ Len(back) = Len(es) - k
      /\ \A i \in 1 .. Len(es) - k : back[i] = es[i + k]
  OBVIOUS
<1>3. RemoveAt(es, k) = front \o back
  BY DEF RemoveAt
<1> HIDE DEF front, back
<1>4. front \o back \in Seq(S) /\ Len(front \o back) = Len(es) - 1
  <2>1. /\ front \o back \in Seq(S)
        /\ Len(front \o back) = Len(front) + Len(back)
    BY <1>1, <1>2, ConcatProperties
  <2> QED
    BY <1>1, <1>2, <2>1
<1>5. ASSUME NEW i \in 1 .. Len(es) - 1
      PROVE  (front \o back)[i] = IF i < k THEN es[i] ELSE es[i + 1]
  BY <1>1, <1>2
<1> QED
  BY <1>3, <1>4, <1>5

\* TypeOK in two parts: the wires, and everything else.
WireOK ==
    /\ toHub \in [Client -> Seq({"data", "close", "part"})]
    /\ toClient \in [Client -> Seq({"data", "news", "close"})]

StateOK ==
    /\ pc \in Places
    /\ at \in Nat /\ next \in Nat
    /\ exclude \in Client \cup {NoClient}
    /\ due \subseteq Client
    /\ links \in Seq(Client)
    /\ hub \in [Client -> {"none", "open", "closed"}]
    /\ backlog \in Seq(Client)
    /\ client \in [Client -> {"off", "silent", "waiting", "open", "sending",
                              "parting", "halfway", "closing", "gone"}]
    /\ throws \in 0 .. MaxThrows /\ faults \in 0 .. MaxFaults

\* The thread is at a link of links_, which nobody erases meanwhile.
AtLink == {"listener", "reply", "answer", "say_close", "wait_reply",
           "stop_close", "stop_wait"}

PlacesInv ==
    /\ pc = "handshake" => backlog # <<>>
    /\ pc \in {"messages", "stop"} => at >= 1
    /\ pc \in AtLink => at \in 1 .. Len(links)

NoTwice(s) == \A j, k \in 1 .. Len(s) : s[j] = s[k] => j = k

\* A client connects, is accepted and is closed, in this order and once.
LinksInv ==
    /\ NoTwice(links)
    /\ NoTwice(backlog)
    /\ \A k \in 1 .. Len(links) : hub[links[k]] # "none"
    /\ \A k \in 1 .. Len(backlog) :
          hub[backlog[k]] = "none" /\ client[backlog[k]] # "off"
    /\ \A c \in Client : client[c] = "off" => hub[c] = "none"

\* What is due is what is open and ahead, but for the excluded link.
BroadcastInv ==
    pc = "broadcast" =>
        /\ next \in 1 .. Len(links) + 1
        /\ exclude \notin due
        /\ \A c \in due :
              hub[c] = "open" => \E k \in next .. Len(links) : links[k] = c
        /\ \A k \in next .. Len(links) :
              hub[links[k]] = "open" /\ links[k] # exclude => links[k] \in due

IInv == TypeOK /\ PlacesInv /\ LinksInv /\ BroadcastInv

\* What Append changes, it changes visibly.
LEMMA AppendDiffers ==
    ASSUME NEW S, NEW s \in Seq(S), NEW a \in S, NEW b \in S
    PROVE  /\ Append(s, a) # s
           /\ Append(s, a) # <<>>
           /\ s # <<>> => Append(s, a) # Tail(s)
           /\ Append(s, a) = Append(s, b) => a = b
<1>1. /\ Len(s) \in Nat /\ Len(Append(s, a)) = Len(s) + 1
      /\ Append(s, a)[Len(s) + 1] = a /\ Append(s, b)[Len(s) + 1] = b
  OBVIOUS
<1>2. s # <<>> => Len(Tail(s)) = Len(s) - 1
  OBVIOUS
<1> QED
  BY <1>1, <1>2

\* What Write does to the window of a client.
LEMMA WriteTyped ==
    ASSUME WireOK, NEW c \in Client, NEW m \in {"data", "news", "close"},
           Write(c, m)
    PROVE  toClient' \in [Client -> Seq({"data", "news", "close"})]
<1>1. CASE UNCHANGED toClient
  BY <1>1 DEF WireOK
<1>2. CASE toClient' = [toClient EXCEPT ![c] = Append(@, m)]
  <2>1. Append(toClient[c], m) \in Seq({"data", "news", "close"})
    BY DEF WireOK
  <2> QED
    BY <1>2, <2>1 DEF WireOK
<1> QED
  BY <1>1, <1>2 DEF Write

LEMMA CloseTyped ==
    ASSUME WireOK, NEW c \in Client, CloseSocket(c)
    PROVE  toHub' \in [Client -> Seq({"data", "close", "part"})]
BY DEF CloseSocket, WireOK

LEMMA HubTyped ==
    ASSUME StateOK, NEW c \in Client, CloseSocket(c)
    PROVE  hub' \in [Client -> {"none", "open", "closed"}]
BY DEF CloseSocket, StateOK

LEMMA ClientTyped ==
    ASSUME StateOK, NEW c \in Client,
           NEW state \in {"silent", "waiting", "open", "sending", "parting",
                          "halfway", "closing", "gone"},
           Become(c, state)
    PROVE  client' \in [Client ->
                {"off", "silent", "waiting", "open", "sending", "parting",
                 "halfway", "closing", "gone"}]
BY DEF Become, StateOK

LEMMA ConnectQueues ==
    ASSUME IInv, NEW c \in Client, Connect(c)
    PROVE  backlog' \in Seq(Client) /\ backlog' # <<>>
<1>1. backlog \in Seq(Client) /\ backlog' = Append(backlog, c)
  BY DEF Connect, IInv, TypeOK
<1> QED
  BY <1>1, AppendProperties

\* Each of the four parts of IInv is kept by every step.
LEMMA WireStep ==
    ASSUME IInv, [Next]_vars
    PROVE  WireOK'
<1>1. CASE \/ HandleEvents \/ ApplicationBroadcasts \/ Destroy \/ Accept
          \/ HandshakeDone \/ HandshakeFails \/ EndOfRound \/ SkipClosed
          \/ ListenerIgnores \/ ListenerReplies \/ ListenerRelays
          \/ ListenerThrows \/ BroadcastReturns \/ RemoveClosedLinks
          \/ DestroyLink
  BY <1>1 DEF HandleEvents, ApplicationBroadcasts, Destroy, Accept,
     HandshakeDone, HandshakeFails, EndOfRound, SkipClosed, ListenerIgnores,
     ListenerReplies, ListenerRelays, ListenerThrows, BroadcastReturns,
     RemoveClosedLinks, DestroyLink, wireVars, WireOK, IInv, TypeOK
<1>2. ASSUME NEW c \in Client,
               \/ RecvTimeout(c) \/ RecvFault(c) \/ Connect(c) \/ SendCall(c)
      PROVE  WireOK'
  BY <1>2 DEF RecvTimeout, RecvFault, Connect, SendCall, wireVars, WireOK, IInv,
     TypeOK
<1>3. ASSUME NEW c \in Client, RecvFrame(c)
      PROVE  WireOK'
  BY <1>3 DEF RecvFrame, Whole, wireVars, WireOK, IInv, TypeOK
<1>4. ASSUME NEW c \in Client, RecvEnd(c)
      PROVE  WireOK'
  BY CloseTyped, <1>4 DEF RecvEnd, wireVars, WireOK, IInv, TypeOK
<1>5. ASSUME NEW c \in Client, Answer(c)
      PROVE  WireOK'
  BY WriteTyped, CloseTyped, <1>5 DEF Answer, wireVars, WireOK, IInv, TypeOK
<1>6. ASSUME NEW c \in Client, SayClose(c)
      PROVE  WireOK'
  BY WriteTyped, CloseTyped, <1>6 DEF SayClose, wireVars, WireOK, IInv, TypeOK
<1>7. ASSUME NEW c \in Client, WaitReply(c)
      PROVE  WireOK'
  BY <1>7 DEF WaitReply, Whole, wireVars, WireOK, IInv, TypeOK
<1>8. ASSUME NEW c \in Client, WaitReplyEnds(c)
      PROVE  WireOK'
  BY CloseTyped, <1>8 DEF WaitReplyEnds, wireVars, WireOK, IInv, TypeOK
<1>9. ASSUME NEW c \in Client, Reply(c)
      PROVE  WireOK'
  BY WriteTyped, CloseTyped, <1>9 DEF Reply, wireVars, WireOK, IInv, TypeOK
<1>10. ASSUME NEW c \in Client, BroadcastTo(c)
      PROVE  WireOK'
  BY WriteTyped, CloseTyped, <1>10 DEF BroadcastTo, BroadcastSkips,
     BroadcastSends, BroadcastFails, wireVars, WireOK, IInv, TypeOK
<1>11. ASSUME NEW c \in Client, Leave(c)
      PROVE  WireOK'
  <2>1. toClient' \in [Client -> Seq({"data", "news", "close"})]
    BY <1>11 DEF Leave, IInv, TypeOK
  <2>2. toHub' \in [Client -> Seq({"data", "close", "part"})]
    <3>1. CASE UNCHANGED toHub
      BY <3>1 DEF IInv, TypeOK
    <3>2. CASE toHub' = [toHub EXCEPT ![c] = <<>>]
      BY <3>2 DEF IInv, TypeOK
    <3> QED
      BY <1>11, <3>1, <3>2 DEF Leave
  <2> QED
    BY <2>1, <2>2 DEF WireOK
<1>12. ASSUME NEW c \in Client, SendReturns(c)
      PROVE  WireOK'
  BY <1>12 DEF SendReturns, wireVars, WireOK, IInv, TypeOK
<1>13. ASSUME NEW c \in Client, Read(c)
      PROVE  WireOK'
  BY <1>13 DEF Read, wireVars, WireOK, IInv, TypeOK
<1>14. ASSUME NEW c \in Client, ReadClose(c)
      PROVE  WireOK'
  <2>1. toClient' \in [Client -> Seq({"data", "news", "close"})]
    BY <1>14 DEF ReadClose, IInv, TypeOK
  <2>2. Append(toHub[c], "close") \in Seq({"data", "close", "part"})
    BY DEF IInv, TypeOK
  <2>3. toHub' \in [Client -> Seq({"data", "close", "part"})]
    BY <1>14, <2>2 DEF ReadClose, IInv, TypeOK
  <2> QED
    BY <2>1, <2>3 DEF WireOK
<1>15. ASSUME NEW c \in Client, FindClosed(c)
      PROVE  WireOK'
  BY <1>15 DEF FindClosed, wireVars, WireOK, IInv, TypeOK
<1>16. ASSUME NEW c \in Client, SendBegins(c)
      PROVE  WireOK'
  BY <1>16 DEF SendBegins, WireOK, IInv, TypeOK
<1>17. ASSUME NEW c \in Client, SendRest(c)
      PROVE  WireOK'
  <2>1. toHub[c] \in Seq({"data", "close", "part"})
    BY DEF IInv, TypeOK
  <2>2. Front(toHub[c]) \in Seq({"data", "close", "part"})
    BY <2>1 DEF Front
  <2>3. \A m \in {"data", "close"} :
           Append(Front(toHub[c]), m) \in Seq({"data", "close", "part"})
    BY <2>2
  <2>4. toHub' \in [Client -> Seq({"data", "close", "part"})]
    BY <1>17, <2>3 DEF SendRest, IInv, TypeOK
  <2> QED
    BY <1>17, <2>4 DEF SendRest, WireOK, IInv, TypeOK
<1>18. CASE UNCHANGED vars
  BY <1>18 DEF vars, callVars, wireVars, bounds, wireVars, WireOK, IInv, TypeOK
<1> QED
  BY <1>1, <1>2, <1>3, <1>4, <1>5, <1>6, <1>7, <1>8, <1>9, <1>10, <1>11, <1>12,
     <1>13, <1>14, <1>15, <1>16, <1>17, <1>18
     DEF Next, HubStep, ClientStep

LEMMA StateStep ==
    ASSUME IInv, [Next]_vars
    PROVE  StateOK' /\ PlacesInv'
<1> USE DEF StateOK, IInv, TypeOK, PlacesInv, AtLink, Places, Goto, NextLink,
            Return, callVars, bounds
<1>1. CASE HandleEvents
  BY <1>1 DEF HandleEvents
<1>2. CASE ApplicationBroadcasts
  BY <1>2 DEF ApplicationBroadcasts, Broadcast, OpenLinks
<1>3. CASE Destroy
  BY <1>3 DEF Destroy
<1>4. CASE Accept
  BY <1>4 DEF Accept
<1>5. CASE HandshakeDone
  BY <1>5 DEF HandshakeDone
<1>6. CASE HandshakeFails
  BY <1>6 DEF HandshakeFails
<1>7. CASE EndOfRound
  BY <1>7 DEF EndOfRound
<1>8. CASE SkipClosed
  BY <1>8 DEF SkipClosed
<1>9. CASE ListenerIgnores
  BY <1>9 DEF ListenerIgnores
<1>10. CASE ListenerReplies
  BY <1>10 DEF ListenerReplies
<1>11. CASE ListenerRelays
  BY <1>11 DEF ListenerRelays, Broadcast, OpenLinks, Current
<1>12. CASE ListenerThrows
  BY HubBoundsAssumption, <1>12 DEF ListenerThrows
<1>13. CASE BroadcastReturns
  BY <1>13 DEF BroadcastReturns
<1>14. CASE RemoveClosedLinks
  <2>1. CASE \E k \in 1 .. Len(links) : hub[links[k]] # "open"
    <3>1. PICK k \in 1 .. Len(links) : links' = RemoveAt(links, k)
      BY <1>14, <2>1 DEF RemoveClosedLinks
    <3>2. links' \in Seq(Client)
      BY <3>1, RemoveAtElements DEF IInv
    <3> QED
      BY <1>14, <2>1, <3>2 DEF RemoveClosedLinks,
         PlacesInv, AtLink, callVars, bounds
  <2>2. CASE ~ \E k \in 1 .. Len(links) : hub[links[k]] # "open"
    BY <1>14, <2>2 DEF RemoveClosedLinks,
       Places, PlacesInv, AtLink, bounds
  <2> QED
    BY <2>1, <2>2
<1>15. CASE DestroyLink
  <2>1. at \in Nat /\ at >= 1 /\ Len(links) \in Nat
    BY <1>15 DEF DestroyLink
  <2>2. /\ UNCHANGED <<next, exclude, due, links, hub, backlog, client>>
        /\ UNCHANGED <<throws, faults>>
    BY <1>15 DEF DestroyLink
  <2>3. CASE at > Len(links)
    <3>1. pc' = "stopped" /\ at' = at
      BY <1>15, <2>3 DEF DestroyLink
    <3>2. PlacesInv'
      BY <3>1
    <3>3. StateOK'
      BY <2>1, <2>2, <3>1
    <3> QED
      BY <3>2, <3>3
  <2>4. CASE at <= Len(links) /\ pc' = "stop_close" /\ at' = at
    <3>1. PlacesInv'
      BY <2>1, <2>2, <2>4
    <3>2. StateOK'
      BY <2>1, <2>2, <2>4
    <3> QED
      BY <3>1, <3>2
  <2>5. CASE pc' = "stop" /\ at' = at + 1
    BY <2>1, <2>2, <2>5
  <2>6. \/ at > Len(links)
        \/ at <= Len(links) /\ pc' = "stop_close" /\ at' = at
        \/ pc' = "stop" /\ at' = at + 1
    BY <1>15, <2>1 DEF DestroyLink
  <2> QED
    BY <2>3, <2>4, <2>5, <2>6
<1>16. ASSUME NEW c \in Client, RecvFrame(c)
      PROVE  StateOK' /\ PlacesInv'
  BY <1>16 DEF RecvFrame, Recv
<1>17. ASSUME NEW c \in Client, RecvTimeout(c)
      PROVE  StateOK' /\ PlacesInv'
  BY <1>17 DEF RecvTimeout, Recv
<1>18. ASSUME NEW c \in Client, RecvEnd(c)
      PROVE  StateOK' /\ PlacesInv'
  BY <1>18 DEF RecvEnd, Recv, CloseSocket
<1>19. ASSUME NEW c \in Client, RecvFault(c)
      PROVE  StateOK' /\ PlacesInv'
  BY HubBoundsAssumption, <1>19 DEF RecvFault, Recv
<1>20. ASSUME NEW c \in Client, Answer(c)
      PROVE  StateOK' /\ PlacesInv'
  BY <1>20 DEF Answer, CloseSocket
<1>21. ASSUME NEW c \in Client, SayClose(c)
      PROVE  StateOK' /\ PlacesInv'
  <2>1. hub' \in [Client -> {"none", "open", "closed"}]
    BY <1>21, HubTyped DEF SayClose
  <2>2. \/ pc' \in {"wait_reply", "stop_wait"} /\ at' = at
        \/ pc' \in {"messages", "stop"} /\ at' = at + 1
    BY <1>21 DEF SayClose, Loop
  <2>3. UNCHANGED <<next, exclude, due, links, backlog, client, throws, faults>>
    BY <1>21 DEF SayClose
  <2>4. pc \in AtLink
    BY <1>21 DEF SayClose
  <2> QED
    <3>1. CASE pc' \in {"wait_reply", "stop_wait"} /\ at' = at
      BY <2>1, <2>3, <2>4, <3>1 DEF IInv
    <3>2. CASE pc' \in {"messages", "stop"} /\ at' = at + 1
      <4>1. at' \in Nat /\ at' >= 1
        BY <3>2, <2>4 DEF IInv
      <4>2. PlacesInv'
        BY <3>2, <4>1 DEF PlacesInv
      <4>3. StateOK'
        BY <2>1, <2>3, <3>2, <4>1 DEF IInv
      <4> QED
        BY <4>2, <4>3
    <3> QED
      BY <2>2, <3>1, <3>2
<1>22. ASSUME NEW c \in Client, WaitReply(c)
      PROVE  StateOK' /\ PlacesInv'
  BY <1>22 DEF WaitReply
<1>23. ASSUME NEW c \in Client, WaitReplyEnds(c)
      PROVE  StateOK' /\ PlacesInv'
  <2>1. hub' \in [Client -> {"none", "open", "closed"}]
    BY <1>23, HubTyped DEF WaitReplyEnds
  <2>2. pc' \in {"messages", "stop"} /\ at' = at + 1
    BY <1>23 DEF WaitReplyEnds, Loop
  <2>3. UNCHANGED <<next, exclude, due, links, backlog, client, throws, faults>>
    BY <1>23 DEF WaitReplyEnds
  <2> QED
    BY <2>1, <2>2, <2>3 DEF IInv
<1>24. ASSUME NEW c \in Client, Reply(c)
      PROVE  StateOK' /\ PlacesInv'
  BY HubTyped, <1>24 DEF Reply
<1>25. ASSUME NEW c \in Client, BroadcastTo(c)
      PROVE  StateOK' /\ PlacesInv'
  BY HubTyped, <1>25 DEF BroadcastTo, NextReceiver, BroadcastSkips,
     BroadcastSends, BroadcastFails
<1>26. ASSUME NEW c \in Client, Connect(c)
      PROVE  StateOK' /\ PlacesInv'
  <2>1. client' \in [Client -> {"off", "silent", "waiting", "open", "sending",
                                  "parting", "halfway", "closing", "gone"}]
    BY <1>26, ClientTyped DEF Connect
  <2>2. backlog' \in Seq(Client) /\ backlog' # <<>>
    BY <1>26, ConnectQueues
  <2>3. UNCHANGED <<pc, at, next, exclude, due, links, hub, throws, faults>>
    BY <1>26 DEF Connect
  <2> QED
    BY <2>1, <2>2, <2>3 DEF IInv
<1>27. ASSUME NEW c \in Client, Leave(c)
      PROVE  StateOK' /\ PlacesInv'
  BY <1>27 DEF Leave, Become
<1>28. ASSUME NEW c \in Client, SendCall(c)
      PROVE  StateOK' /\ PlacesInv'
  BY <1>28 DEF SendCall, Become
<1>29. ASSUME NEW c \in Client, SendReturns(c)
      PROVE  StateOK' /\ PlacesInv'
  BY <1>29 DEF SendReturns, Become
<1>30. ASSUME NEW c \in Client, Read(c)
      PROVE  StateOK' /\ PlacesInv'
  BY <1>30 DEF Read
<1>31. ASSUME NEW c \in Client, ReadClose(c)
      PROVE  StateOK' /\ PlacesInv'
  BY <1>31 DEF ReadClose, Become
<1>32. ASSUME NEW c \in Client, FindClosed(c)
      PROVE  StateOK' /\ PlacesInv'
  BY <1>32 DEF FindClosed, Become
<1>33. ASSUME NEW c \in Client, SendBegins(c)
      PROVE  StateOK' /\ PlacesInv'
  BY <1>33 DEF SendBegins, Become
<1>34. ASSUME NEW c \in Client, SendRest(c)
      PROVE  StateOK' /\ PlacesInv'
  BY <1>34 DEF SendRest, Become
<1>35. CASE UNCHANGED vars
  BY <1>35 DEF vars, wireVars
<1> QED
  BY <1>1, <1>2, <1>3, <1>4, <1>5, <1>6, <1>7, <1>8, <1>9, <1>10, <1>11, <1>12,
     <1>13, <1>14, <1>15, <1>16, <1>17, <1>18, <1>19, <1>20, <1>21, <1>22,
     <1>23, <1>24, <1>25, <1>26, <1>27, <1>28, <1>29, <1>30, <1>31, <1>32, <1>33,
     <1>34, <1>35
     DEF Next, HubStep, ClientStep

\* What most steps leave of LinksInv.
LEMMA LinksKept ==
    ASSUME IInv, UNCHANGED <<links, backlog>>,
           \A c \in Client :
              /\ hub[c] = "none" => hub'[c] = "none"
              /\ hub[c] # "none" => hub'[c] # "none"
              /\ client[c] # "off" => client'[c] # "off"
    PROVE  LinksInv'
<1>1. /\ \A k \in 1 .. Len(links) : links[k] \in Client
      /\ \A k \in 1 .. Len(backlog) : backlog[k] \in Client
  BY DEF IInv, TypeOK
<1>2. NoTwice(links') /\ NoTwice(backlog')
  BY DEF IInv, LinksInv, NoTwice
<1>3. \A k \in 1 .. Len(links') : hub'[links'[k]] # "none"
  BY <1>1 DEF IInv, LinksInv
<1>4. \A k \in 1 .. Len(backlog') :
         hub'[backlog'[k]] = "none" /\ client'[backlog'[k]] # "off"
  BY <1>1 DEF IInv, LinksInv
<1>5. \A c \in Client : client'[c] = "off" => hub'[c] = "none"
  BY DEF IInv, LinksInv
<1> QED
  BY <1>2, <1>3, <1>4, <1>5 DEF LinksInv

\* The backlog without its first connection.
LEMMA TailFresh ==
    ASSUME IInv, backlog # <<>>, backlog' = Tail(backlog)
    PROVE  /\ NoTwice(backlog')
           /\ \A k \in 1 .. Len(backlog') :
                 /\ backlog'[k] \in Client /\ backlog'[k] # backlog[1]
                 /\ hub[backlog'[k]] = "none" /\ client[backlog'[k]] # "off"
<1>1. /\ Len(backlog) \in Nat \ {0} /\ Len(backlog') = Len(backlog) - 1
      /\ \A k \in 1 .. Len(backlog') :
            k + 1 \in 1 .. Len(backlog) /\ backlog'[k] = backlog[k + 1]
  BY DEF IInv, TypeOK
<1>2. NoTwice(backlog')
  BY <1>1 DEF IInv, LinksInv, NoTwice
<1>3. ASSUME NEW k \in 1 .. Len(backlog')
      PROVE  /\ backlog'[k] \in Client /\ backlog'[k] # backlog[1]
             /\ hub[backlog'[k]] = "none" /\ client[backlog'[k]] # "off"
  BY <1>1, <1>3 DEF IInv, TypeOK, LinksInv, NoTwice
<1> QED
  BY <1>2, <1>3

LEMMA LinksStep ==
    ASSUME IInv, [Next]_vars
    PROVE  LinksInv'
<1>1. CASE \/ HandleEvents \/ ApplicationBroadcasts \/ Accept \/ EndOfRound
          \/ SkipClosed \/ ListenerIgnores \/ ListenerReplies \/ ListenerRelays
          \/ ListenerThrows \/ BroadcastReturns \/ DestroyLink
  BY <1>1, LinksKept DEF HandleEvents, ApplicationBroadcasts, Accept,
     EndOfRound, SkipClosed, ListenerIgnores, ListenerReplies, ListenerRelays,
     ListenerThrows, BroadcastReturns, DestroyLink, wireVars, bounds
<1>2. ASSUME NEW c \in Client,
               \/ RecvFrame(c) \/ RecvTimeout(c) \/ RecvFault(c) \/ WaitReply(c)
               \/ Read(c)
      PROVE  LinksInv'
  BY <1>2, LinksKept DEF RecvFrame, RecvTimeout, RecvFault, WaitReply, Read,
     wireVars, bounds
<1>3. CASE Destroy
  <2>1. backlog' = <<>> /\ UNCHANGED <<links, client>>
    BY <1>3 DEF Destroy
  <2>2. \A k \in 1 .. Len(links) : links[k] \in Client
    BY DEF IInv, TypeOK
  <2>3. \A c \in Client : hub[c] # "none" => hub'[c] # "none"
    BY <1>3 DEF Destroy, IInv, TypeOK
  <2>4. \A c \in Client : client[c] = "off" => hub'[c] = "none"
    BY <1>3 DEF Destroy, IInv, TypeOK, LinksInv
  <2>5. NoTwice(backlog')
    BY <2>1 DEF NoTwice
  <2> QED
    BY <2>1, <2>2, <2>3, <2>4, <2>5 DEF IInv, LinksInv
<1>4. CASE HandshakeDone
  <2> DEFINE d == backlog[1]
  <2>1. /\ pc = "handshake" /\ backlog # <<>>
        /\ backlog' = Tail(backlog) /\ hub' = [hub EXCEPT ![d] = "open"]
        /\ links' = Append(links, d) /\ client[d] \in {"waiting", "gone"}
        /\ client' = [client EXCEPT ![d] = IF Gone(d) THEN "gone" ELSE "open"]
    BY <1>4 DEF HandshakeDone, IInv, PlacesInv
  <2>2. Len(backlog) \in Nat \ {0} /\ d \in Client /\ hub[d] = "none"
    BY <2>1 DEF IInv, TypeOK, LinksInv
  <2>3. \A k \in 1 .. Len(links) : links[k] \in Client /\ links[k] # d
    BY <2>2 DEF IInv, TypeOK, LinksInv
  <2>4. /\ Len(links') = Len(links) + 1 /\ Len(links) \in Nat
        /\ \A k \in 1 .. Len(links) : links'[k] = links[k]
        /\ links'[Len(links) + 1] = d
    BY <2>1 DEF IInv, TypeOK
  <2>5. NoTwice(links')
    BY <2>3, <2>4 DEF NoTwice, IInv, LinksInv
  <2>6. \A k \in 1 .. Len(links') : hub'[links'[k]] # "none"
    <3>1. \A e \in Client : hub[e] # "none" \/ e = d => hub'[e] # "none"
      BY <2>1, <2>2 DEF IInv, TypeOK
    <3>2. ASSUME NEW k \in 1 .. Len(links')
          PROVE  hub'[links'[k]] # "none"
      <4>1. CASE k = Len(links) + 1
        BY <2>2, <2>4, <3>1, <4>1
      <4>2. CASE k \in 1 .. Len(links)
        <5>1. /\ links'[k] = links[k] /\ links[k] \in Client
              /\ hub[links[k]] # "none"
          BY <2>3, <2>4, <4>2 DEF IInv, LinksInv
        <5> QED
          BY <3>1, <5>1
      <4> QED
        BY <2>4, <4>1, <4>2
    <3> QED
      BY <3>2
  <2>7. /\ NoTwice(backlog')
        /\ \A k \in 1 .. Len(backlog') :
              /\ backlog'[k] \in Client /\ backlog'[k] # d
              /\ hub[backlog'[k]] = "none" /\ client[backlog'[k]] # "off"
    BY <2>1, TailFresh
  <2>8. \A k \in 1 .. Len(backlog') :
           hub'[backlog'[k]] = "none" /\ client'[backlog'[k]] # "off"
    BY <2>1, <2>2, <2>7 DEF IInv, TypeOK
  <2>9. \A e \in Client : client'[e] = "off" => hub'[e] = "none"
    BY <2>1, <2>2 DEF IInv, TypeOK, LinksInv
  <2> QED
    BY <2>5, <2>6, <2>7, <2>8, <2>9 DEF LinksInv
<1>5. CASE HandshakeFails
  <2> DEFINE d == backlog[1]
  <2>1. /\ pc = "handshake" /\ backlog # <<>>
        /\ backlog' = Tail(backlog) /\ hub' = [hub EXCEPT ![d] = "closed"]
        /\ client[d] # "off" /\ UNCHANGED <<links, client>>
    BY <1>5 DEF HandshakeFails, IInv, PlacesInv
  <2>2. \A k \in 1 .. Len(links) : links[k] \in Client
    BY DEF IInv, TypeOK
  <2>3. \A e \in Client :
           /\ hub'[e] = "none" => hub[e] = "none"
           /\ e # d => hub'[e] = hub[e]
    BY <2>1 DEF IInv, TypeOK
  <2>4. /\ NoTwice(backlog')
        /\ \A k \in 1 .. Len(backlog') :
              /\ backlog'[k] \in Client /\ backlog'[k] # d
              /\ hub[backlog'[k]] = "none" /\ client[backlog'[k]] # "off"
    BY <2>1, TailFresh
  <2>5. \A k \in 1 .. Len(links) : hub'[links[k]] # "none"
    BY <2>2, <2>3 DEF IInv, LinksInv
  <2>6. \A k \in 1 .. Len(backlog') :
           hub'[backlog'[k]] = "none" /\ client'[backlog'[k]] # "off"
    BY <2>1, <2>3, <2>4
  <2>7. \A e \in Client : client'[e] = "off" => hub'[e] = "none"
    BY <2>1, <2>3 DEF IInv, LinksInv
  <2> QED
    BY <2>1, <2>4, <2>5, <2>6, <2>7 DEF IInv, LinksInv
<1>6. CASE RemoveClosedLinks
  <2>1. UNCHANGED <<hub, backlog, client>>
    BY <1>6 DEF RemoveClosedLinks
  <2>2. CASE UNCHANGED links
    BY <2>1, <2>2, LinksKept
  <2>3. CASE \E k \in 1 .. Len(links) : links' = RemoveAt(links, k)
    <3>1. PICK k \in 1 .. Len(links) : links' = RemoveAt(links, k)
      BY <2>3
    <3>2. links \in Seq(Client) /\ Len(links) \in Nat
      BY DEF IInv, TypeOK
    <3>3. /\ Len(links') = Len(links) - 1
          /\ \A i \in 1 .. Len(links) - 1 :
                links'[i] = IF i < k THEN links[i] ELSE links[i + 1]
      BY <3>1, <3>2, RemoveAtElements
    <3> DEFINE old(i) == IF i < k THEN i ELSE i + 1
    <3>4. \A i \in 1 .. Len(links') :
             old(i) \in 1 .. Len(links) /\ links'[i] = links[old(i)]
      BY <3>1, <3>2, <3>3
    <3>5. \A i, j \in 1 .. Len(links') : old(i) = old(j) => i = j
      BY <3>1, <3>2, <3>3
    <3>6. \A a, b \in 1 .. Len(links) : links[a] = links[b] => a = b
      BY DEF IInv, LinksInv, NoTwice
    <3>7. \A a \in 1 .. Len(links) : hub[links[a]] # "none"
      BY DEF IInv, LinksInv
    <3> HIDE DEF old
    <3>8. NoTwice(links')
      BY <3>4, <3>5, <3>6 DEF NoTwice
    <3>9. \A i \in 1 .. Len(links') : hub'[links'[i]] # "none"
      BY <2>1, <3>4, <3>7
    <3> QED
      BY <2>1, <3>8, <3>9 DEF IInv, LinksInv
  <2> QED
    BY <1>6, <2>2, <2>3 DEF RemoveClosedLinks
<1>7. ASSUME NEW c \in Client, RecvEnd(c)
      PROVE  LinksInv'
  <2>1. UNCHANGED <<links, backlog>>
    BY <1>7 DEF RecvEnd, Recv, CloseSocket
  <2>2. ASSUME NEW d \in Client
        PROVE  /\ hub[d] = "none" => hub'[d] = "none"
               /\ hub[d] # "none" => hub'[d] # "none"
               /\ client[d] # "off" => client'[d] # "off"
    BY <1>7 DEF RecvEnd, IInv, TypeOK, Recv, CloseSocket
  <2> QED
    BY <2>1, <2>2, LinksKept
<1>8. ASSUME NEW c \in Client, Answer(c)
      PROVE  LinksInv'
  <2>1. UNCHANGED <<links, backlog>>
    BY <1>8 DEF Answer, Write, WriteFails, CloseSocket
  <2>2. ASSUME NEW d \in Client
        PROVE  /\ hub[d] = "none" => hub'[d] = "none"
               /\ hub[d] # "none" => hub'[d] # "none"
               /\ client[d] # "off" => client'[d] # "off"
    BY <1>8 DEF Answer, IInv, TypeOK, Write, WriteFails, CloseSocket
  <2> QED
    BY <2>1, <2>2, LinksKept
<1>9. ASSUME NEW c \in Client, SayClose(c)
      PROVE  LinksInv'
  <2>1. UNCHANGED <<links, backlog>>
    BY <1>9 DEF SayClose, Write, WriteFails, CloseSocket
  <2>2. ASSUME NEW d \in Client
        PROVE  /\ hub[d] = "none" => hub'[d] = "none"
               /\ hub[d] # "none" => hub'[d] # "none"
               /\ client[d] # "off" => client'[d] # "off"
    BY <1>9 DEF SayClose, IInv, TypeOK, Write, WriteFails, CloseSocket
  <2> QED
    BY <2>1, <2>2, LinksKept
<1>10. ASSUME NEW c \in Client, WaitReplyEnds(c)
      PROVE  LinksInv'
  <2>1. hub[c] # "none"
    <3>1. at \in 1 .. Len(links) /\ c = links[at]
      BY <1>10 DEF WaitReplyEnds, Current, IInv, PlacesInv, AtLink
    <3> QED
      BY <3>1 DEF IInv, LinksInv
  <2>2. UNCHANGED <<links, backlog>>
    BY <1>10 DEF WaitReplyEnds
  <2>3. ASSUME NEW d \in Client
        PROVE  /\ hub[d] = "none" => hub'[d] = "none"
               /\ hub[d] # "none" => hub'[d] # "none"
               /\ client[d] # "off" => client'[d] # "off"
    BY <1>10, <2>1 DEF WaitReplyEnds, CloseSocket, IInv, TypeOK
  <2> QED
    BY <2>2, <2>3, LinksKept
<1>11. ASSUME NEW c \in Client, Reply(c)
      PROVE  LinksInv'
  <2>1. UNCHANGED <<links, backlog>>
    BY <1>11 DEF Reply, Write, WriteFails, CloseSocket
  <2>2. ASSUME NEW d \in Client
        PROVE  /\ hub[d] = "none" => hub'[d] = "none"
               /\ hub[d] # "none" => hub'[d] # "none"
               /\ client[d] # "off" => client'[d] # "off"
    BY <1>11 DEF Reply, IInv, TypeOK, Write, WriteFails, CloseSocket
  <2> QED
    BY <2>1, <2>2, LinksKept
<1>12. ASSUME NEW c \in Client, BroadcastTo(c)
      PROVE  LinksInv'
  <2>1. UNCHANGED <<links, backlog>>
    BY <1>12 DEF BroadcastTo, BroadcastSkips, BroadcastSends, BroadcastFails,
       Write, WriteFails, CloseSocket
  <2>2. ASSUME NEW d \in Client
        PROVE  /\ hub[d] = "none" => hub'[d] = "none"
               /\ hub[d] # "none" => hub'[d] # "none"
               /\ client[d] # "off" => client'[d] # "off"
    BY <1>12 DEF BroadcastTo, IInv, TypeOK, BroadcastSkips, BroadcastSends,
       BroadcastFails, Write, WriteFails, CloseSocket
  <2> QED
    BY <2>1, <2>2, LinksKept
<1>13. ASSUME NEW c \in Client, Connect(c)
      PROVE  LinksInv'
  <2>1. /\ client[c] = "off" /\ client'[c] # "off" /\ UNCHANGED <<links, hub>>
        /\ \A d \in Client : d # c => client'[d] = client[d]
    BY <1>13 DEF Connect, Become, IInv, TypeOK
  <2>2. /\ Len(backlog) \in Nat /\ Len(backlog') = Len(backlog) + 1
        /\ \A k \in 1 .. Len(backlog) : backlog'[k] = backlog[k]
        /\ backlog'[Len(backlog) + 1] = c
    BY <1>13 DEF Connect, IInv, TypeOK
  <2>3. \A k \in 1 .. Len(backlog) : backlog[k] \in Client /\ backlog[k] # c
    BY <2>1 DEF IInv, TypeOK, LinksInv
  <2>4. NoTwice(backlog')
    BY <2>2, <2>3 DEF IInv, LinksInv, NoTwice
  <2>5. \A k \in 1 .. Len(backlog') :
           hub'[backlog'[k]] = "none" /\ client'[backlog'[k]] # "off"
    BY <2>1, <2>2, <2>3 DEF IInv, LinksInv
  <2>6. \A d \in Client : client'[d] = "off" => hub'[d] = "none"
    BY <2>1 DEF IInv, LinksInv
  <2> QED
    BY <2>1, <2>4, <2>5, <2>6 DEF IInv, LinksInv
<1>14. ASSUME NEW c \in Client, Leave(c)
      PROVE  LinksInv'
  <2>1. UNCHANGED <<links, backlog>>
    BY <1>14 DEF Leave, Become
  <2>2. ASSUME NEW d \in Client
        PROVE  /\ hub[d] = "none" => hub'[d] = "none"
               /\ hub[d] # "none" => hub'[d] # "none"
               /\ client[d] # "off" => client'[d] # "off"
    BY <1>14 DEF Leave, IInv, TypeOK, Become
  <2> QED
    BY <2>1, <2>2, LinksKept
<1>15. ASSUME NEW c \in Client, SendCall(c)
      PROVE  LinksInv'
  <2>1. UNCHANGED <<links, backlog>>
    BY <1>15 DEF SendCall, Become
  <2>2. ASSUME NEW d \in Client
        PROVE  /\ hub[d] = "none" => hub'[d] = "none"
               /\ hub[d] # "none" => hub'[d] # "none"
               /\ client[d] # "off" => client'[d] # "off"
    BY <1>15 DEF SendCall, IInv, TypeOK, Become
  <2> QED
    BY <2>1, <2>2, LinksKept
<1>16. ASSUME NEW c \in Client, SendReturns(c)
      PROVE  LinksInv'
  <2>1. UNCHANGED <<links, backlog>>
    BY <1>16 DEF SendReturns, Become
  <2>2. ASSUME NEW d \in Client
        PROVE  /\ hub[d] = "none" => hub'[d] = "none"
               /\ hub[d] # "none" => hub'[d] # "none"
               /\ client[d] # "off" => client'[d] # "off"
    BY <1>16 DEF SendReturns, IInv, TypeOK, Become
  <2> QED
    BY <2>1, <2>2, LinksKept
<1>17. ASSUME NEW c \in Client, ReadClose(c)
      PROVE  LinksInv'
  <2>1. UNCHANGED <<links, backlog>>
    BY <1>17 DEF ReadClose, Become
  <2>2. ASSUME NEW d \in Client
        PROVE  /\ hub[d] = "none" => hub'[d] = "none"
               /\ hub[d] # "none" => hub'[d] # "none"
               /\ client[d] # "off" => client'[d] # "off"
    BY <1>17 DEF ReadClose, IInv, TypeOK, Become
  <2> QED
    BY <2>1, <2>2, LinksKept
<1>18. ASSUME NEW c \in Client, FindClosed(c)
      PROVE  LinksInv'
  <2>1. UNCHANGED <<links, backlog>>
    BY <1>18 DEF FindClosed, Become
  <2>2. ASSUME NEW d \in Client
        PROVE  /\ hub[d] = "none" => hub'[d] = "none"
               /\ hub[d] # "none" => hub'[d] # "none"
               /\ client[d] # "off" => client'[d] # "off"
    BY <1>18 DEF FindClosed, IInv, TypeOK, Become
  <2> QED
    BY <2>1, <2>2, LinksKept
<1>19. ASSUME NEW c \in Client, SendBegins(c)
      PROVE  LinksInv'
  <2>1. UNCHANGED <<links, backlog>>
    BY <1>19 DEF SendBegins, Become
  <2>2. ASSUME NEW d \in Client
        PROVE  /\ hub[d] = "none" => hub'[d] = "none"
               /\ hub[d] # "none" => hub'[d] # "none"
               /\ client[d] # "off" => client'[d] # "off"
    BY <1>19 DEF SendBegins, IInv, TypeOK, Become
  <2> QED
    BY <2>1, <2>2, LinksKept
<1>20. ASSUME NEW c \in Client, SendRest(c)
      PROVE  LinksInv'
  <2>1. UNCHANGED <<links, backlog>>
    BY <1>20 DEF SendRest, Become
  <2>2. ASSUME NEW d \in Client
        PROVE  /\ hub[d] = "none" => hub'[d] = "none"
               /\ hub[d] # "none" => hub'[d] # "none"
               /\ client[d] # "off" => client'[d] # "off"
    BY <1>20 DEF SendRest, IInv, TypeOK, Become
  <2> QED
    BY <2>1, <2>2, LinksKept
<1>21. CASE UNCHANGED vars
  BY <1>21, LinksKept DEF vars
<1> QED
  BY <1>1, <1>2, <1>3, <1>4, <1>5, <1>6, <1>7, <1>8, <1>9, <1>10, <1>11, <1>12,
     <1>13, <1>14, <1>15, <1>16, <1>17, <1>18, <1>19, <1>20, <1>21
     DEF Next, HubStep, ClientStep

\* A broadcast that begins has every open link ahead.
LEMMA BroadcastBegins ==
    ASSUME IInv, NEW but, Broadcast(but), UNCHANGED <<links, hub>>
    PROVE  BroadcastInv'
<1>1. /\ next' = 1 /\ exclude' = but /\ due' = OpenLinks \ {but}
      /\ Len(links) \in Nat /\ \A k \in 1 .. Len(links) : links[k] \in Client
  BY DEF Broadcast, IInv, TypeOK
<1>2. next' \in 1 .. Len(links') + 1 /\ exclude' \notin due'
  BY <1>1
<1>3. ASSUME NEW c \in due'
      PROVE  \E k \in next' .. Len(links') : links'[k] = c
  BY <1>1, <1>3 DEF OpenLinks, Linked
<1>4. ASSUME NEW k \in next' .. Len(links'),
             hub'[links'[k]] = "open", links'[k] # exclude'
      PROVE  links'[k] \in due'
  BY <1>1, <1>4 DEF OpenLinks, Linked
<1> QED
  BY <1>2, <1>3, <1>4 DEF BroadcastInv

\* What the clients do meanwhile.
LEMMA BroadcastKept ==
    ASSUME IInv, UNCHANGED <<callVars, links, hub>>
    PROVE  BroadcastInv'
BY DEF IInv, BroadcastInv, callVars

\* One turn of the loop; a link that fails is closed and thereby not due.
LEMMA BroadcastAdvances ==
    ASSUME IInv, NEW c \in Client, BroadcastTo(c)
    PROVE  BroadcastInv'
<1>1. /\ pc = "broadcast" /\ next \in 1 .. Len(links) /\ links[next] = c
      /\ next' = next + 1 /\ exclude' = exclude /\ UNCHANGED links
      /\ Len(links) \in Nat /\ exclude \notin due
      /\ \A k \in 1 .. Len(links) : links[k] \in Client
  BY DEF BroadcastTo, NextReceiver, BroadcastSkips, BroadcastSends,
     BroadcastFails, 
         IInv, TypeOK, BroadcastInv
<1>2. /\ due' \subseteq due /\ due \ {c} \subseteq due'
      /\ c \in due' /\ hub'[c] = "open" => c = exclude
  BY DEF BroadcastTo, BroadcastSkips, BroadcastSends, BroadcastFails, Write,
         WriteFails, CloseSocket, IInv, TypeOK
<1>3. \A d \in Client : hub'[d] = "open" => hub[d] = "open"
  BY DEF BroadcastTo, BroadcastSkips, BroadcastSends, BroadcastFails,
     CloseSocket, 
         IInv, TypeOK
<1>4. ASSUME NEW d \in due', hub'[d] = "open"
      PROVE  \E k \in next' .. Len(links') : links'[k] = d
  <2>1. d \in due /\ d \in Client /\ d # c
    BY <1>1, <1>2, <1>4 DEF IInv, TypeOK
  <2>2. PICK k \in next .. Len(links) : links[k] = d
    BY <1>1, <1>3, <1>4, <2>1 DEF IInv, BroadcastInv
  <2>3. k \in next' .. Len(links')
    BY <1>1, <2>1, <2>2
  <2> QED
    BY <1>1, <2>2, <2>3
<1>5. ASSUME NEW k \in next' .. Len(links'),
             hub'[links'[k]] = "open", links'[k] # exclude'
      PROVE  links'[k] \in due'
  <2>1. k \in next .. Len(links) /\ k \in 1 .. Len(links) /\ k # next
    BY <1>1, <1>5
  <2>2. links[k] \in due
    BY <1>1, <1>3, <1>5, <2>1 DEF IInv, BroadcastInv
  <2>3. links[k] # c
    BY <1>1, <2>1 DEF IInv, LinksInv, NoTwice
  <2> QED
    BY <1>1, <1>2, <2>2, <2>3
<1> QED
  BY <1>1, <1>2, <1>4, <1>5 DEF BroadcastInv

LEMMA BroadcastStep ==
    ASSUME IInv, [Next]_vars
    PROVE  BroadcastInv'
<1>1. CASE \/ HandleEvents \/ Destroy \/ Accept \/ HandshakeDone
          \/ HandshakeFails \/ EndOfRound \/ SkipClosed \/ ListenerIgnores
          \/ ListenerReplies \/ ListenerThrows \/ BroadcastReturns
          \/ RemoveClosedLinks \/ DestroyLink
  BY <1>1 DEF HandleEvents, Destroy, Accept, HandshakeDone, HandshakeFails,
     EndOfRound, SkipClosed, ListenerIgnores, ListenerReplies, ListenerThrows,
     BroadcastReturns, RemoveClosedLinks, DestroyLink, Goto, NextLink, Return,
     Loop, callVars, BroadcastInv
<1>2. ASSUME NEW c \in Client,
               \/ RecvFrame(c) \/ RecvTimeout(c) \/ RecvEnd(c) \/ RecvFault(c)
               \/ Answer(c) \/ SayClose(c) \/ WaitReplyEnds(c) \/ Reply(c)
      PROVE  BroadcastInv'
  BY <1>2 DEF RecvFrame, RecvTimeout, RecvEnd, RecvFault, Answer, SayClose,
     WaitReplyEnds, Reply, Goto, NextLink, Return, Loop, callVars, BroadcastInv
<1>3. ASSUME NEW c \in Client,
               \/ WaitReply(c) \/ Connect(c) \/ Leave(c) \/ SendCall(c)
               \/ SendReturns(c) \/ SendBegins(c) \/ SendRest(c)
               \/ Read(c) \/ ReadClose(c) \/ FindClosed(c)
      PROVE  BroadcastInv'
  BY <1>3, BroadcastKept DEF WaitReply, Connect, Leave, SendCall, SendReturns,
     SendBegins, SendRest, Read, ReadClose, FindClosed, callVars
<1>4. CASE ApplicationBroadcasts
  BY <1>4, BroadcastBegins DEF ApplicationBroadcasts
<1>5. CASE ListenerRelays
  BY <1>5, BroadcastBegins DEF ListenerRelays
<1>6. ASSUME NEW c \in Client, BroadcastTo(c)
      PROVE  BroadcastInv'
  BY <1>6, BroadcastAdvances
<1>7. CASE UNCHANGED vars
  BY <1>7, BroadcastKept DEF vars, callVars
<1> QED
  BY <1>1, <1>2, <1>3, <1>4, <1>5, <1>6, <1>7
     DEF Next, HubStep, ClientStep

\* The inductive invariant holds of every reachable state.
THEOREM Invariant == Spec => []IInv
<1>1. Init => IInv
  BY HubBoundsAssumption DEF Init, IInv, TypeOK, Places, PlacesInv, AtLink,
     LinksInv, 
     NoTwice, BroadcastInv
<1>2. IInv /\ [Next]_vars => IInv'
  <2> SUFFICES ASSUME IInv, [Next]_vars
               PROVE  IInv'
    OBVIOUS
  <2>1. TypeOK'
    BY WireStep, StateStep DEF WireOK, StateOK, TypeOK
  <2> QED
    BY <2>1, StateStep, LinksStep, BroadcastStep DEF IInv
<1> QED
  BY <1>1, <1>2, PTL DEF Spec

(***************************************************************************)
(* The variables keep their types, for every number of clients: the hub's  *)
(* thread never uses an index that has left links_.                        *)
(***************************************************************************)
THEOREM TypeCorrect == Spec => []TypeOK
<1>1. IInv => TypeOK
  BY DEF IInv
<1> QED
  BY <1>1, Invariant, PTL

(***************************************************************************)
(* broadcast misses no link that was open when it began and still is,      *)
(* although links that fail are closed under its loop.                     *)
(***************************************************************************)
THEOREM BroadcastReachesAllLinks == Spec => []BroadcastReachesAll
<1>1. IInv => BroadcastReachesAll
  BY DEF IInv, BroadcastInv, BroadcastReachesAll
<1> QED
  BY <1>1, Invariant, PTL

LEMMA WriteOfNews ==
    ASSUME TypeOK, NEW c \in Client, NEW d \in Client,
           NEW m \in {"data", "news", "close"},
           Write(d, m), toClient'[c] = Append(toClient[c], "news")
    PROVE  c = d /\ m = "news"
<1>1. toClient[c] \in Seq({"data", "news", "close"})
  BY DEF TypeOK
<1>2. toClient'[c] # toClient[c]
  BY <1>1, AppendDiffers
<1>3. c = d /\ toClient'[c] = Append(toClient[c], m)
  BY <1>2 DEF Write, TypeOK
<1> QED
  BY <1>1, <1>3, AppendDiffers

(***************************************************************************)
(* broadcast writes to a link at most once, to none that came later and    *)
(* never to the sender of a relayed message.                               *)
(***************************************************************************)
THEOREM BroadcastReachesOnce == Spec => BroadcastOnce
<1>1. IInv /\ [Next]_vars =>
         [\A c \in Client :
             toClient'[c] = Append(toClient[c], "news") => c \in due]_vars
  <2> SUFFICES ASSUME IInv, Next, NEW c \in Client,
                      toClient'[c] = Append(toClient[c], "news")
               PROVE  c \in due
    OBVIOUS
  <2>1. toClient[c] \in Seq({"data", "news", "close"}) /\ TypeOK
    BY DEF IInv, TypeOK
  <2>2. ~ UNCHANGED toClient /\ toClient'[c] # toClient[c]
    BY <2>1, AppendDiffers
  <2>3. ASSUME NEW d \in Client, BroadcastTo(d)
        PROVE  c \in due
    <3>1. BroadcastSends(d)
      BY <2>2, <2>3 DEF BroadcastTo, BroadcastSkips, BroadcastFails, wireVars
    <3>2. c = d /\ c # exclude /\ hub[c] = "open"
      BY <2>1, <3>1, WriteOfNews DEF BroadcastSends, Write
    <3>3. pc = "broadcast" /\ next \in next .. Len(links) /\ links[next] = c
      BY <2>1, <2>3, <3>2 DEF BroadcastTo, TypeOK
    <3> QED
      BY <3>2, <3>3 DEF IInv, BroadcastInv
  <2>4. ASSUME NEW d \in Client, Answer(d) \/ SayClose(d) \/ Reply(d)
        PROVE  FALSE
    <3>1. Write(d, "close") \/ Write(d, "data")
      BY <2>2, <2>4 DEF Answer, SayClose, Reply
    <3> QED
      BY <2>1, <3>1, WriteOfNews
  <2>5. ASSUME NEW d \in Client,
               Leave(d) \/ Read(d) \/ ReadClose(d) \/ FindClosed(d)
        PROVE  FALSE
    <3>1. \/ toClient'[c] = toClient[c] \/ toClient'[c] = <<>>
          \/ toClient[c] # <<>> /\ toClient'[c] = Tail(toClient[c])
      BY <2>1, <2>5 DEF Leave, Read, ReadClose, FindClosed, TypeOK
    <3> QED
      BY <2>1, <3>1, AppendDiffers
  <2>6. ASSUME NEW d \in Client,
               \/ RecvFrame(d) \/ RecvTimeout(d) \/ RecvEnd(d) \/ RecvFault(d)
               \/ WaitReply(d) \/ WaitReplyEnds(d)
               \/ Connect(d) \/ SendCall(d) \/ SendReturns(d)
               \/ SendBegins(d) \/ SendRest(d)
        PROVE  FALSE
    BY <2>2, <2>6 DEF RecvFrame, RecvTimeout, RecvEnd, RecvFault, WaitReply,
       WaitReplyEnds, Connect, SendCall, SendReturns, SendBegins, SendRest,
       wireVars
  <2>7. CASE HandleEvents \/ ApplicationBroadcasts \/ Destroy
    BY <2>2, <2>7 DEF HandleEvents, ApplicationBroadcasts, Destroy, wireVars
  <2>8. CASE \/ Accept \/ HandshakeDone \/ HandshakeFails
             \/ EndOfRound \/ SkipClosed
             \/ ListenerIgnores \/ ListenerReplies
             \/ ListenerRelays \/ ListenerThrows
             \/ BroadcastReturns \/ RemoveClosedLinks \/ DestroyLink
    BY <2>2, <2>8 DEF Accept, HandshakeDone, HandshakeFails, EndOfRound,
       SkipClosed, 
       ListenerIgnores, ListenerReplies, ListenerRelays, ListenerThrows,
       BroadcastReturns, RemoveClosedLinks, DestroyLink, wireVars
  <2> QED
    BY <2>3, <2>4, <2>5, <2>6, <2>7, <2>8 DEF Next, HubStep, ClientStep
<1> QED
  BY <1>1, Invariant, PTL DEF Spec, BroadcastOnce
==============================================================================
