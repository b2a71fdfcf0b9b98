--------------------------- MODULE MessageChannel ---------------------------
(***************************************************************************)
(* What IWebSocket promises its users (rcom/IWebSocket.h): two endpoints   *)
(* exchange messages over one channel each way.  Messages arrive in order, *)
(* once, and none is skipped; an endpoint that is down neither sends nor   *)
(* receives and never comes up again; it may go down at any time, and what *)
(* was not delivered by then is lost.  An endpoint that an exception has   *)
(* thrown out of a call may have lost messages, and uses the channel on.   *)
(***************************************************************************)
EXTENDS Integers, Sequences

Endpoint == {"client", "server"}

Peer(e) == IF e = "client" THEN "server" ELSE "client"

VARIABLES
    sent,           \* sent[e]: number of messages e has sent
    delivered,      \* delivered[e]: the numbers of the messages e received
    up,             \* up[e]: e can use the channel
    thrown          \* thrown[e]: an exception has left a call of e

vars == <<sent, delivered, up, thrown>>

Init ==
    /\ sent = [e \in Endpoint |-> 0]
    /\ delivered = [e \in Endpoint |-> <<>>]
    /\ up = [e \in Endpoint |-> TRUE]
    /\ thrown = [e \in Endpoint |-> FALSE]

Send(e) ==
    /\ up[e]
    /\ sent' = [sent EXCEPT ![e] = @ + 1]
    /\ UNCHANGED <<delivered, up, thrown>>

\* The number of the last message e received.
LastOf(e) == IF delivered[e] = <<>> THEN 0 ELSE delivered[e][Len(delivered[e])]

\* e receives the next message of its peer, or a later one if it was thrown.
Deliver(e) ==
    /\ up[e]
    /\ \E n \in LastOf(e) + 1 .. sent[Peer(e)] :
          /\ n = LastOf(e) + 1 \/ thrown[e]
          /\ delivered' = [delivered EXCEPT ![e] = Append(@, n)]
    /\ UNCHANGED <<sent, up, thrown>>

Throw(e) ==
    /\ up[e]
    /\ thrown' = [thrown EXCEPT ![e] = TRUE]
    /\ UNCHANGED <<sent, delivered, up>>

GoDown(e) ==
    /\ up' = [up EXCEPT ![e] = FALSE]
    /\ UNCHANGED <<sent, delivered, thrown>>

Next == \E e \in Endpoint : Send(e) \/ Deliver(e) \/ Throw(e) \/ GoDown(e)

Spec == Init /\ [][Next]_vars
=============================================================================
