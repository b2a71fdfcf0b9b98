----------------------------- MODULE Discovery -----------------------------
(***************************************************************************)
(* How processes find each other by topic.  A process may create a         *)
(* MessageHub, which listens at an address and registers it, and a         *)
(* MessageLink to a topic, which asks the registry for the topic's address *)
(* and connects to it: either or both, in any order, at any time.  The     *)
(* registry process is RegistryServer (librcom/src/RegistryServer.cpp)     *)
(* over the entries of module Registry; RegistryProxy talks to it, over a  *)
(* websocket that is used for one request and closed.                      *)
(*                                                                         *)
(* One thread per process: a hub answers websocket handshakes when its     *)
(* process calls handle_events, and so not inside a create.  A process     *)
(* that is started again is another process here.                          *)
(***************************************************************************)
EXTENDS Registry

CONSTANTS
    Process,
    NoTopic, NoProcess,
    Roles,          \* what processes create: subset of {"hub", "link", "both"}
    MaxRestarts,    \* bound: times the registry is restarted
    MaxRemovals     \* bound: unregister requests

ASSUME DiscoveryAssumption ==
    /\ NoTopic \notin Topics /\ NoProcess \notin Process
    /\ Roles \subseteq {"hub", "link", "both"}
    /\ MaxRestarts \in Nat /\ MaxRemovals \in Nat

VARIABLES
    hubTopic,       \* the topic of p's MessageHub, or NoTopic
    linkTopic,      \* the topic p's MessageLink looks for, or NoTopic
    pc,             \* where p stands
    task,           \* "hub" or "link": which of the two p creates, or did last
    address,        \* where p's hub listens, or NoAddress
    used,           \* the addresses that were ever listened at
    reused,         \* those that the kernel gave out again, to another process
    request,        \* p's request at the registry: <<>> or <<r>>
    reply,          \* the registry's answer on its way to p: <<>> or <<a>>, a
                    \* being NoAddress when it has no "address" field
    connected,      \* p's websocket to the registry is up
    found,          \* the address p was told
    peer,           \* the process at the other end of p's link
    expired,        \* p has waited as long as its timeout
    restarts,       \* times the registry was restarted
    removals,       \* times a topic was unregistered
    superseded      \* p's registration was followed by another for its topic,
                    \* removed or forgotten

roleVars == <<hubTopic, linkTopic>>
hubVars == <<address, used, reused>>
registryVars == <<request, reply, connected>>
linkVars == <<found, peer>>
bounds == <<restarts, removals>>
vars == <<entries, roleVars, pc, task, hubVars, registryVars, linkVars, expired,
          bounds, superseded>>

\* What RegistryProxy asks for: make_register_request, make_get_request.
Register(t, a) == [op |-> "register", topic |-> t, address |-> a]

Get(t) == [op |-> "get", topic |-> t, address |-> NoAddress]

Request ==
    {Register(t, a) : t \in Topics, a \in Addresses} \cup {Get(t) : t \in Topics}

Location == Addresses \cup {NoAddress}

TypeOK ==
    /\ RegistryInv
    /\ hubTopic \in [Process -> Topics \cup {NoTopic}]
    /\ linkTopic \in [Process -> Topics \cup {NoTopic}]
    /\ pc \in [Process -> {"running", "lookup", "connected", "waiting", "found",
                           "handshake", "gone"}]
    /\ task \in [Process -> {"hub", "link"}]
    /\ address \in [Process -> Location] /\ used \subseteq Addresses
    /\ reused \subseteq used
    /\ connected \in [Process -> BOOLEAN]
    /\ request \in [Process -> {<<>>} \cup {<<r>> : r \in Request}]
    /\ reply \in [Process -> {<<>>} \cup {<<a>> : a \in Location}]
    /\ found \in [Process -> Location]
    /\ peer \in [Process -> Process \cup {NoProcess}]
    /\ expired \in [Process -> BOOLEAN]
    /\ restarts \in 0 .. MaxRestarts /\ removals \in 0 .. MaxRemovals
    /\ superseded \in [Process -> BOOLEAN]

RoleOf(p) ==
    IF hubTopic[p] = NoTopic THEN "link"
    ELSE IF linkTopic[p] = NoTopic THEN "hub" ELSE "both"

Init ==
    /\ hubTopic \in [Process -> Topics \cup {NoTopic}]
    /\ linkTopic \in [Process -> Topics \cup {NoTopic}]
    /\ \A p \in Process : RoleOf(p) \in Roles
                          /\ (hubTopic[p] # NoTopic \/ linkTopic[p] # NoTopic)
    /\ NoEntries
    /\ pc = [p \in Process |-> "running"]
    /\ task = [p \in Process |-> "hub"]
    /\ address = [p \in Process |-> NoAddress] /\ used = {} /\ reused = {}
    /\ request = [p \in Process |-> <<>>]
    /\ reply = [p \in Process |-> <<>>]
    /\ connected = [p \in Process |-> FALSE]
    /\ found = [p \in Process |-> NoAddress]
    /\ peer = [p \in Process |-> NoProcess]
    /\ expired = [p \in Process |-> FALSE]
    /\ restarts = 0 /\ removals = 0
    /\ superseded = [p \in Process |-> FALSE]

-----------------------------------------------------------------------------
(* Steps of a process *)

Goto(p, label) == pc' = [pc EXCEPT ![p] = label]

\* An exception leaves create: p is destroyed, with its hub and its sockets.
Gone(p) ==
    /\ Goto(p, "gone")
    /\ address' = [address EXCEPT ![p] = NoAddress]
    /\ connected' = [connected EXCEPT ![p] = FALSE]
    /\ reply' = [reply EXCEPT ![p] = <<>>]
    /\ UNCHANGED <<entries, roleVars, task, used, reused, request, linkVars, expired,
                   bounds, superseded>>

\* The call of the registry is over and the proxy's websocket is closed.
HangUp(p) ==
    /\ connected' = [connected EXCEPT ![p] = FALSE]
    /\ reply' = [reply EXCEPT ![p] = <<>>]
    /\ UNCHANGED request

\* The server socket listens at a port that the kernel chooses.
Listen(p) ==
    /\ pc[p] = "running"
    /\ hubTopic[p] # NoTopic /\ address[p] = NoAddress
    /\ \E a \in Addresses :
          /\ \A q \in Process : address[q] # a
          /\ address' = [address EXCEPT ![p] = a]
          /\ used' = used \cup {a}
          /\ reused' = reused \cup (used \cap {a})
    /\ Goto(p, "lookup")
    /\ task' = [task EXCEPT ![p] = "hub"]
    /\ UNCHANGED <<entries, roleVars, registryVars, linkVars, expired,
                   bounds, superseded>>

\* MessageLink's constructor begins.
StartLink(p) ==
    /\ pc[p] = "running"
    /\ linkTopic[p] # NoTopic /\ peer[p] = NoProcess
    /\ Goto(p, "lookup")
    /\ task' = [task EXCEPT ![p] = "link"]
    /\ UNCHANGED <<entries, roleVars, hubVars, registryVars, linkVars, expired,
                   bounds, superseded>>

\* RegistryServer::get_address finds the registry and a websocket to it opens.
ConnectRegistry(p) ==
    /\ pc[p] = "lookup"
    /\ connected' = [connected EXCEPT ![p] = TRUE]
    /\ Goto(p, "connected")
    /\ UNCHANGED <<entries, roleVars, task, hubVars, request, reply, linkVars, expired,
                   bounds, superseded>>

\* The lookup's datagrams are lost, nothing listens at the address it gave, or
\* the registry does not answer the websocket's handshake.
NoRegistry(p) == pc[p] = "lookup" /\ Gone(p)

SendRequest(p) ==
    /\ pc[p] = "connected"
    /\ connected[p]
    /\ request' = [request EXCEPT ![p] =
                      << IF task[p] = "hub" THEN Register(hubTopic[p], address[p])
                         ELSE Get(linkTopic[p]) >>]
    /\ Goto(p, "waiting")
    /\ UNCHANGED <<entries, roleVars, task, hubVars, reply, connected, linkVars, expired,
                   bounds, superseded>>

\* send or recv fails: the registry has gone away.
RequestFails(p) ==
    /\ pc[p] \in {"connected", "waiting"}
    /\ ~ connected[p]
    /\ Gone(p)

TimeoutPasses(p) ==
    /\ pc[p] = "waiting" /\ ~ expired[p]
    /\ expired' = [expired EXCEPT ![p] = TRUE]
    /\ UNCHANGED <<entries, roleVars, pc, task, hubVars, registryVars, linkVars,
                   bounds, superseded>>

\* kRecvTimeOut: read_response throws.  The request may still be served.
RequestTimesOut(p) == pc[p] = "waiting" /\ expired[p] /\ Gone(p)

\* response_assert_success: the hub is created; its process runs on.
Registered(p) ==
    /\ pc[p] = "waiting" /\ task[p] = "hub"
    /\ reply[p] # <<>>
    /\ HangUp(p)
    /\ Goto(p, "running")
    /\ expired' = [expired EXCEPT ![p] = FALSE]
    /\ UNCHANGED <<entries, roleVars, task, hubVars, linkVars, bounds, superseded>>

\* read_address finds the address in the response.
AddressFound(p) ==
    /\ pc[p] = "waiting" /\ task[p] = "link"
    /\ reply[p] # <<>>
    /\ reply[p][1] # NoAddress
    /\ found' = [found EXCEPT ![p] = reply[p][1]]
    /\ HangUp(p)
    /\ Goto(p, "found")
    /\ expired' = [expired EXCEPT ![p] = FALSE]
    /\ UNCHANGED <<entries, roleVars, task, hubVars, peer, bounds, superseded>>

(***************************************************************************)
(* The response says success but has no address: get_address throws, so    *)
(* that get does not come to ask again.  Its loop would do that after a    *)
(* response that says success = false, which a get never receives.         *)
(***************************************************************************)
AddressMissing(p) ==
    /\ pc[p] = "waiting" /\ task[p] = "link"
    /\ reply[p] = <<NoAddress>>
    /\ Gone(p)

\* connect: the kernel accepts for a hub that listens, whatever it is doing.
ConnectHub(p) ==
    /\ pc[p] = "found"
    /\ \E q \in Process :
          /\ address[q] = found[p]
          /\ peer' = [peer EXCEPT ![p] = q]
    /\ Goto(p, "handshake")
    /\ UNCHANGED <<entries, roleVars, task, hubVars, registryVars, found, expired,
                   bounds, superseded>>

\* Nothing listens at the address any more.
NoHub(p) ==
    /\ pc[p] = "found"
    /\ \A q \in Process : address[q] # found[p]
    /\ Gone(p)

\* The hub's process, which is not inside a create of its own, calls
\* handle_events: the connection is accepted and the HTTP request answered.
Handshake(p) ==
    /\ pc[p] = "handshake"
    /\ pc[peer[p]] = "running"
    /\ Goto(p, "running")
    /\ UNCHANGED <<entries, roleVars, task, hubVars, registryVars, linkVars, expired,
                   bounds, superseded>>

\* Mutant of HandshakeFails: the answer is waited for without a timeout.
HandshakeWaits(p) ==
    /\ pc[p] = "handshake"
    /\ pc[peer[p]] = "gone"
    /\ Gone(p)

\* The hub has gone, or has been silent for the five seconds that
\* HttpParser::parse waits, whatever the timeout of the link.
HandshakeFails(p) == pc[p] = "handshake" /\ Gone(p)

\* The process ends or crashes.  Nothing unregisters its topic.
Die(p) ==
    /\ pc[p] # "gone"
    /\ Gone(p)

-----------------------------------------------------------------------------
(* Steps of the registry *)

\* An answer reaches p if p has not hung up.
Answer(p, a) ==
    reply' = IF connected[p] THEN [reply EXCEPT ![p] = <<a>>] ELSE reply

\* Mutant of ServeRegister: the success is sent, the entry is not set.
AcknowledgeRegister(p) ==
    /\ request[p] # <<>>
    /\ request[p][1].op = "register"
    /\ Answer(p, NoAddress)
    /\ request' = [request EXCEPT ![p] = <<>>]
    /\ UNCHANGED <<entries, roleVars, pc, task, hubVars, connected, linkVars, expired,
                   bounds, superseded>>

\* handle_register: the topic moves to the address, then the success is sent.
ServeRegister(p) ==
    /\ request[p] # <<>>
    /\ request[p][1].op = "register"
    /\ SetEntry(request[p][1].topic, request[p][1].address)
    /\ Answer(p, NoAddress)
    /\ request' = [request EXCEPT ![p] = <<>>]
    /\ superseded' = [q \in Process |->
                         IF q = p THEN FALSE
                         ELSE superseded[q] \/ hubTopic[q] = request[p][1].topic]
    /\ UNCHANGED <<roleVars, pc, task, hubVars, connected, linkVars, expired,
                   bounds>>

\* Mutant of ServeGet: the address of the newest entry, whatever its topic.
ServeNewest(p) ==
    /\ request[p] # <<>>
    /\ request[p][1].op = "get"
    /\ Answer(p, IF entries = <<>> THEN NoAddress ELSE entries[Len(entries)].address)
    /\ request' = [request EXCEPT ![p] = <<>>]
    /\ UNCHANGED <<entries, roleVars, pc, task, hubVars, connected, linkVars, expired,
                   bounds, superseded>>

\* handle_get: send_address, or send_empty_address.
ServeGet(p) ==
    /\ request[p] # <<>>
    /\ request[p][1].op = "get"
    /\ Answer(p, AddressOf(entries, request[p][1].topic))
    /\ request' = [request EXCEPT ![p] = <<>>]
    /\ UNCHANGED <<entries, roleVars, pc, task, hubVars, connected, linkVars, expired,
                   bounds, superseded>>

\* handle_unregister, whoever sends it: no process here does.
ServeUnregister(t) ==
    /\ removals < MaxRemovals
    /\ removals' = removals + 1
    /\ RemoveEntry(t)
    /\ superseded' = [q \in Process |-> superseded[q] \/ hubTopic[q] = t]
    /\ UNCHANGED <<roleVars, pc, task, hubVars, registryVars, linkVars, expired,
                   restarts>>

\* The registry process ends and is started again: its entries, the requests
\* it had not served and the connections to it are gone.
RegistryRestarts ==
    /\ restarts < MaxRestarts
    /\ restarts' = restarts + 1
    /\ Forget
    /\ request' = [p \in Process |-> <<>>]
    /\ connected' = [p \in Process |-> FALSE]
    /\ superseded' = [p \in Process |-> TRUE]
    /\ UNCHANGED <<roleVars, pc, task, hubVars, reply, linkVars, expired, removals>>

-----------------------------------------------------------------------------
\* The steps that a create, or the time it waits, takes by itself.
Step(p) ==
    \/ ConnectRegistry(p) \/ NoRegistry(p) \/ SendRequest(p)
    \/ RequestFails(p) \/ TimeoutPasses(p) \/ RequestTimesOut(p)
    \/ Registered(p) \/ AddressFound(p) \/ AddressMissing(p)
    \/ ConnectHub(p) \/ NoHub(p) \/ Handshake(p) \/ HandshakeFails(p)

Next ==
    \/ \E p \in Process :
          \/ Listen(p) \/ StartLink(p) \/ Step(p) \/ Die(p)
          \/ ServeRegister(p) \/ ServeGet(p)
    \/ \E t \in Topics : ServeUnregister(t)
    \/ RegistryRestarts

Spec == Init /\ [][Next]_vars

\* A create that has begun runs, timeouts pass.  That the registry serves is not
\* needed, nor that any process begins a create, or serves another.
FairSpec == Spec /\ \A p \in Process : WF_vars(Step(p))

-----------------------------------------------------------------------------
\* p's hub exists and create has returned.
HubCreated(p) ==
    /\ address[p] # NoAddress
    /\ task[p] = "hub" => pc[p] = "running"

(***************************************************************************)
(* A hub whose create has returned is the one the registry gives out for   *)
(* its topic, until a later registration of the topic is served (that of a *)
(* process that has already given up may be), the topic is unregistered or *)
(* the registry restarts.                                                  *)
(***************************************************************************)
CreatedHubIsListed ==
    \A p \in Process :
        HubCreated(p) /\ ~ superseded[p] =>
            AddressOf(entries, hubTopic[p]) = address[p]

(***************************************************************************)
(* The process at the other end of a link has a hub with the link's topic. *)
(* docs/README.md says of create("elmo", 10.0) that it "establishes the    *)
(* connection to a remote object [...] identified by "elmo"".  It may fail *)
(* only where a port is given out again: registrations outlive their hubs, *)
(* and nothing in the handshake names the topic.                           *)
(***************************************************************************)
LinkedToTopic ==
    \A p \in Process :
        peer[p] # NoProcess /\ found[p] \notin reused =>
            hubTopic[peer[p]] = linkTopic[p]

Settled(p) == pc[p] \in {"running", "gone"}

(***************************************************************************)
(* Creating a hub or a link comes to an end, with the object or with an    *)
(* exception, whatever the registry and the other processes do: also when  *)
(* processes wait for each other's handshakes in a circle, or one for that *)
(* of its own hub.                                                         *)
(***************************************************************************)
CreateReturns == \A p \in Process : ~ Settled(p) ~> Settled(p)
=============================================================================
