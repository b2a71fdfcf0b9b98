-------------------------- MODULE DiscoveryProofs --------------------------
(***************************************************************************)
(* The registry implements TopicMap, on its own and as the process that    *)
(* module Discovery puts between hubs and links; a hub that was created is *)
(* the one the registry gives out; and a link leads to a hub of its topic: *)
(* all this for every set of processes, topics and addresses and for any   *)
(* number of restarts and removals.                                        *)
(*                                                                         *)
(* The first part is about the entries.  It needs that no topic has two of *)
(* them: then the first entry of a topic, which find looks for, is its     *)
(* only one.  The second part is about the processes around them.          *)
(***************************************************************************)
EXTENDS Discovery, SequenceTheorems, TLAPS

\* The elements of a sequence without its k-th.
LEMMA RemoveAtElements ==
    ASSUME NEW S, NEW es \in Seq(S), NEW k \in 1 .. Len(es)
    PROVE  /\ RemoveAt(es, k) \in Seq(S)
           /\ Len(RemoveAt(es, k)) = Len(es) - 1
           /\ \A i \in 1 .. Len(es) - 1 :
                RemoveAt(es, k)[i] = IF i < k THEN es[i] ELSE es[i + 1]
<1> DEFINE front == SubSeq(es, 1, k - 1)
           back == SubSeq(es, k + 1, Len(es))
<1>1. front \in Seq(S) /\ Len(front) = k - 1
      /\ \A i \in 1 .. k - 1 : front[i] = es[i]
  OBVIOUS
<1>2. back \in Seq(S) /\ Len(back) = Len(es) - k
      /\ \A i \in 1 .. Len(es) - k : back[i] = es[i + k]
  OBVIOUS
<1>3. RemoveAt(es, k) = front \o back
  BY DEF RemoveAt
<1> HIDE DEF front, back
<1>4. front \o back \in Seq(S) /\ Len(front \o back) = Len(es) - 1
  <2>1. /\ front \o back \in Seq(S)
        /\ Len(front \o back) = Len(front) + Len(back)
    BY <1>1, <1>2, ConcatProperties
  <2> QED
    BY <1>1, <1>2, <2>1
<1>5. ASSUME NEW i \in 1 .. Len(es) - 1
      PROVE  (front \o back)[i] = IF i < k THEN es[i] ELSE es[i + 1]
  BY <1>1, <1>2
<1> QED
  BY <1>3, <1>4, <1>5

\* What RegistryInv says, of any sequence.
Unique(es) ==
    \A i, j \in 1 .. Len(es) : es[i].topic = es[j].topic => i = j

Good(es) == es \in Seq(Entry) /\ Unique(es)

LEMMA FindOfEntry ==
    ASSUME NEW es, Good(es), NEW i \in 1 .. Len(es)
    PROVE  /\ Find(es, es[i].topic) = i
           /\ AddressOf(es, es[i].topic) = es[i].address
<1>1. At(es, es[i].topic) = {i}
  BY DEF At, Good, Unique
<1>2. Find(es, es[i].topic) = i
  BY <1>1 DEF Find
<1> QED
  BY <1>2 DEF AddressOf

LEMMA FindOfNothing ==
    ASSUME NEW es, NEW t, \A i \in 1 .. Len(es) : es[i].topic # t
    PROVE  Find(es, t) = 0 /\ AddressOf(es, t) = NoAddress
BY DEF Find, At, AddressOf

\* An entry that is found is one of the vector.
LEMMA FindCases ==
    ASSUME NEW es, Good(es), NEW t
    PROVE  \/ /\ Find(es, t) = 0
              /\ \A i \in 1 .. Len(es) : es[i].topic # t
           \/ /\ Find(es, t) \in 1 .. Len(es)
              /\ es[Find(es, t)].topic = t
<1>1. CASE \A i \in 1 .. Len(es) : es[i].topic # t
  BY <1>1, FindOfNothing
<1>2. CASE \E i \in 1 .. Len(es) : es[i].topic = t
  <2>1. PICK i \in 1 .. Len(es) : es[i].topic = t
    BY <1>2
  <2> QED
    BY <2>1, FindOfEntry
<1> QED
  BY <1>1, <1>2

LEMMA ErasedGood ==
    ASSUME NEW es, Good(es), NEW t
    PROVE  /\ Good(Erased(es, t))
           /\ \A i \in 1 .. Len(Erased(es, t)) : Erased(es, t)[i].topic # t
           /\ \A u : u # t => AddressOf(Erased(es, t), u) = AddressOf(es, u)
<1>1. CASE Find(es, t) = 0
  BY <1>1, FindCases DEF Erased
<1>2. CASE Find(es, t) # 0
  <2> DEFINE k == Find(es, t)
             fs == Erased(es, t)
  <2>1. k \in 1 .. Len(es) /\ es[k].topic = t
    BY <1>2, FindCases
  <2>2. fs = RemoveAt(es, k)
    BY <1>2 DEF Erased
  <2>3. es \in Seq(Entry) /\ Unique(es) /\ Len(es) \in Nat
    BY DEF Good
  <2> HIDE DEF k, fs
  <2>4. /\ fs \in Seq(Entry) /\ Len(fs) = Len(es) - 1
        /\ \A i \in 1 .. Len(es) - 1 :
              fs[i] = IF i < k THEN es[i] ELSE es[i + 1]
    BY <2>1, <2>2, <2>3, RemoveAtElements
  <2>5. \A i \in 1 .. Len(fs) : fs[i].topic # t
    BY <2>1, <2>3, <2>4 DEF Unique
  <2>6. Unique(fs)
    BY <2>1, <2>3, <2>4 DEF Unique
  <2>7. Good(fs)
    BY <2>4, <2>6 DEF Good
  <2>8. ASSUME NEW u, u # t
        PROVE  AddressOf(fs, u) = AddressOf(es, u)
    <3>1. CASE \E j \in 1 .. Len(es) : es[j].topic = u
      <4>1. PICK j \in 1 .. Len(es) : es[j].topic = u
        BY <3>1
      <4>2. j # k
        BY <2>1, <2>8, <4>1
      <4>3. PICK i \in 1 .. Len(fs) : fs[i] = es[j]
        <5>1. CASE j < k
          BY <2>1, <2>3, <2>4, <5>1
        <5>2. CASE j > k
          <6>1. j - 1 \in 1 .. Len(fs) /\ fs[j - 1] = es[j]
            BY <2>1, <2>3, <2>4, <5>2
          <6> QED
            BY <6>1
        <5> QED
          BY <2>1, <4>2, <5>1, <5>2
      <4> QED
        BY <2>7, <4>1, <4>3, FindOfEntry
    <3>2. CASE \A j \in 1 .. Len(es) : es[j].topic # u
      <4>1. \A i \in 1 .. Len(fs) : fs[i].topic # u
        BY <2>1, <2>3, <2>4, <3>2
      <4> QED
        BY <3>2, <4>1, FindOfNothing
    <3> QED
      BY <3>1, <3>2
  <2> QED
    BY <2>5, <2>7, <2>8 DEF fs
<1> QED
  BY <1>1, <1>2

\* What set does to the address of every topic.
LEMMA AfterSet ==
    ASSUME NEW es, Good(es), NEW t \in Topics, NEW a \in Addresses
    PROVE  LET fs == Append(Erased(es, t), [topic |-> t, address |-> a]) IN
           /\ Good(fs)
           /\ AddressOf(fs, t) = a
           /\ \A u : u # t => AddressOf(fs, u) = AddressOf(es, u)
<1> DEFINE gs == Erased(es, t)
           e == [topic |-> t, address |-> a]
           fs == Append(gs, e)
<1>1. /\ Good(gs)
      /\ \A i \in 1 .. Len(gs) : gs[i].topic # t
      /\ \A u : u # t => AddressOf(gs, u) = AddressOf(es, u)
  BY ErasedGood
<1>2. gs \in Seq(Entry) /\ Unique(gs) /\ Len(gs) \in Nat
  BY <1>1 DEF Good
<1>3. e \in Entry /\ e.topic = t /\ e.address = a
  BY DEF Entry
<1> HIDE DEF gs, e
<1>4. /\ fs \in Seq(Entry) /\ Len(fs) = Len(gs) + 1
      /\ fs[Len(gs) + 1] = e
      /\ \A i \in 1 .. Len(gs) : fs[i] = gs[i]
  BY <1>2, <1>3
<1> HIDE DEF fs
<1>5. Unique(fs)
  BY <1>1, <1>2, <1>3, <1>4 DEF Unique
<1>6. Good(fs)
  BY <1>4, <1>5 DEF Good
<1>7. AddressOf(fs, t) = a
  <2>1. Len(gs) + 1 \in 1 .. Len(fs) /\ fs[Len(gs) + 1].topic = t
        /\ fs[Len(gs) + 1].address = a
    BY <1>2, <1>3, <1>4
  <2> QED
    BY <1>6, <2>1, FindOfEntry
<1>8. ASSUME NEW u, u # t
      PROVE  AddressOf(fs, u) = AddressOf(gs, u)
  <2>1. CASE \E j \in 1 .. Len(gs) : gs[j].topic = u
    <3>1. PICK j \in 1 .. Len(gs) : gs[j].topic = u
      BY <2>1
    <3>2. j \in 1 .. Len(fs) /\ fs[j] = gs[j]
      BY <1>2, <1>4
    <3> QED
      BY <1>1, <1>6, <3>1, <3>2, FindOfEntry
  <2>2. CASE \A j \in 1 .. Len(gs) : gs[j].topic # u
    <3>1. \A i \in 1 .. Len(fs) : fs[i].topic # u
      BY <1>2, <1>3, <1>4, <1>8, <2>2
    <3> QED
      BY <2>2, <3>1, FindOfNothing
  <2> QED
    BY <2>1, <2>2
<1> QED
  BY <1>1, <1>6, <1>7, <1>8 DEF fs, gs, e

-----------------------------------------------------------------------------
\* The empty vector has no address for any topic.
LEMMA NothingRegistered ==
    Good(<<>>) /\ \A t : AddressOf(<<>>, t) = NoAddress
<1>1. Good(<<>>)
  BY DEF Good, Unique
<1> QED
  BY <1>1, FindOfNothing

LEMMA InvIsGood == RegistryInv <=> Good(entries)
BY DEF RegistryInv, OneEntryPerTopic, Good, Unique

LEMMA RegistryStep ==
    ASSUME RegistryInv, [NextRegistry]_entries
    PROVE  RegistryInv'
<1>1. Good(entries)
  BY InvIsGood
<1>2. Good(entries')
  <2>1. ASSUME NEW t \in Topics, NEW a \in Addresses, SetEntry(t, a)
        PROVE  Good(entries')
    BY <1>1, <2>1, AfterSet DEF SetEntry
  <2>2. ASSUME NEW t \in Topics, RemoveEntry(t)
        PROVE  Good(entries')
    BY <1>1, <2>2, ErasedGood DEF RemoveEntry
  <2>3. CASE Forget
    BY <2>3, NothingRegistered DEF Forget
  <2>4. CASE UNCHANGED entries
    BY <1>1, <2>4
  <2> QED
    BY <2>1, <2>2, <2>3, <2>4 DEF NextRegistry
<1> QED
  BY <1>2 DEF RegistryInv, OneEntryPerTopic, Good, Unique

(***************************************************************************)
(* Every call of the registry keeps one entry per topic, so that erase     *)
(* before insert removes all of the topic that is registered again.        *)
(***************************************************************************)
THEOREM RegistryInvHolds == RegistrySpec => []RegistryInv
<1>1. NoEntries => RegistryInv
  BY NothingRegistered, InvIsGood DEF NoEntries
<1>2. RegistryInv /\ [NextRegistry]_entries => RegistryInv'
  BY RegistryStep
<1> QED
  BY <1>1, <1>2, PTL DEF RegistrySpec

\* A call of the registry is a step of the map that it implements.
LEMMA RegistryStepMaps ==
    ASSUME RegistryInv, [NextRegistry]_entries
    PROVE  [Map!Next]_[t \in Topics |-> AddressOf(entries, t)]
<1> DEFINE map(es) == [t \in Topics |-> AddressOf(es, t)]
<1> SUFFICES Map!Next \/ map(entries') = map(entries)
  BY DEF map
<1>1. Good(entries)
  BY InvIsGood
<1>2. ASSUME NEW t \in Topics, NEW a \in Addresses, SetEntry(t, a)
      PROVE  Map!Set(t, a)
  <2>1. /\ AddressOf(entries', t) = a
        /\ \A u : u # t => AddressOf(entries', u) = AddressOf(entries, u)
    BY <1>1, <1>2, AfterSet DEF SetEntry
  <2> QED
    BY <2>1 DEF Map!Set
<1>3. ASSUME NEW t \in Topics, RemoveEntry(t)
      PROVE  Map!Remove(t)
  <2>1. /\ \A i \in 1 .. Len(entries') : entries'[i].topic # t
        /\ \A u : u # t => AddressOf(entries', u) = AddressOf(entries, u)
    BY <1>1, <1>3, ErasedGood DEF RemoveEntry
  <2>2. AddressOf(entries', t) = NoAddress
    BY <2>1, FindOfNothing
  <2> QED
    BY <2>1, <2>2 DEF Map!Remove
<1>4. CASE Forget
  BY <1>4, NothingRegistered DEF Forget, Map!Forget, Map!Next
<1>5. CASE UNCHANGED entries
  BY <1>5
<1> QED
  BY <1>2, <1>3, <1>4, <1>5 DEF NextRegistry, Map!Next

(***************************************************************************)
(* The registry implements TopicMap: initially every topic is without an   *)
(* address, and set, erase and a restart change the address of the topics  *)
(* they should change and of no other.                                     *)
(***************************************************************************)
THEOREM RegistryImplementsMap == RegistrySpec => ImplementsTopicMap
<1>1. NoEntries => Map!Init
  BY NothingRegistered DEF NoEntries, Map!Init
<1>2. RegistryInv /\ [NextRegistry]_entries
        => [Map!Next]_[t \in Topics |-> AddressOf(entries, t)]
  BY RegistryStepMaps
<1> QED
  BY <1>1, <1>2, RegistryInvHolds, PTL DEF RegistrySpec, ImplementsTopicMap, Map!Spec

-----------------------------------------------------------------------------
(* The processes around the registry.  The invariant has one part for each *)
(* thing that a step can disturb; every part is used by one that follows.  *)

\* What p is creating, and what it must have for that.
ControlInv ==
    \A p \in Process :
        /\ pc[p] \in {"found", "handshake"} => task[p] = "link"
        /\ task[p] = "hub" /\ pc[p] \in {"lookup", "connected", "waiting"} =>
              hubTopic[p] # NoTopic /\ address[p] \in Addresses
        /\ task[p] = "link" => linkTopic[p] # NoTopic
        /\ pc[p] = "gone" => address[p] = NoAddress

\* What p asks of the registry when it stands where it does.
Asks(p) ==
    IF task[p] = "hub" THEN Register(hubTopic[p], address[p]) ELSE Get(linkTopic[p])

(***************************************************************************)
(* The registry holds a request or p an answer, not both, and only while p *)
(* waits; only the request of a process that has gone may remain, so that  *)
(* an answer never is the answer to an earlier request.                    *)
(***************************************************************************)
RequestInv ==
    \A p \in Process :
        /\ request[p] # <<>> =>
              \/ pc[p] = "gone"
              \/ pc[p] = "waiting" /\ reply[p] = <<>> /\ request[p] = <<Asks(p)>>
        /\ reply[p] # <<>> => pc[p] = "waiting"
        /\ connected[p] => pc[p] \in {"connected", "waiting"}

\* The registry has answered p's registration, whether p has seen it or not.
Acknowledged(p) ==
    \/ HubCreated(p)
    \/ pc[p] = "waiting" /\ task[p] = "hub" /\ reply[p] # <<>>

ListedInv ==
    \A p \in Process :
        Acknowledged(p) /\ ~ superseded[p] =>
            AddressOf(entries, hubTopic[p]) = address[p]

\* Unless a was given out twice, only a hub with topic t listens or will ever
\* listen there.
Names(t, a) ==
    /\ a \in used
    /\ a \notin reused => \A q \in Process : address[q] = a => hubTopic[q] = t

\* Hubs that listen do so at different addresses.
HubsNamed ==
    /\ \A p \in Process : address[p] # NoAddress => address[p] \in used
    /\ \A p, q \in Process : address[p] # NoAddress /\ address[p] = address[q] => p = q

EntriesNamed ==
    \A i \in 1 .. Len(entries) : Names(entries[i].topic, entries[i].address)

RequestNamed(p) ==
    request[p] # <<>> /\ request[p][1].op = "register" =>
        Names(request[p][1].topic, request[p][1].address)

ReplyNamed(p) ==
    reply[p] # <<>> /\ reply[p][1] # NoAddress =>
        task[p] = "link" /\ Names(linkTopic[p], reply[p][1])

FoundNamed(p) == found[p] # NoAddress => Names(linkTopic[p], found[p])

\* An address names its topic all the way from a hub to a link.
NamesInv ==
    /\ HubsNamed /\ EntriesNamed
    /\ \A p \in Process : RequestNamed(p) /\ ReplyNamed(p) /\ FoundNamed(p)

\* A link has no other end before it has found the address.
PeerInv ==
    \A p \in Process :
        /\ pc[p] = "found" => found[p] # NoAddress
        /\ task[p] = "link" /\ pc[p] \in {"lookup", "connected", "waiting", "found"} =>
              peer[p] = NoProcess

LinkInv == PeerInv /\ LinkedToTopic

DiscoveryInv ==
    TypeOK /\ ControlInv /\ RequestInv /\ ListedInv /\ NamesInv /\ LinkInv

\* What leaves create by an exception, or dies, loses its hub and its sockets.
Leaves(p) == pc[p] # "gone" /\ Gone(p)

\* The next-state relation with the ways in which a process goes put together.
LEMMA NextCases ==
    ASSUME [Next]_vars
    PROVE  \/ \E p \in Process :
                 \/ Leaves(p) \/ Listen(p) \/ StartLink(p) \/ ConnectRegistry(p)
                 \/ SendRequest(p) \/ TimeoutPasses(p) \/ Registered(p)
                 \/ AddressFound(p) \/ ConnectHub(p) \/ Handshake(p)
                 \/ ServeRegister(p) \/ ServeGet(p)
           \/ \E t \in Topics : ServeUnregister(t)
           \/ RegistryRestarts
           \/ UNCHANGED vars
<1>1. ASSUME NEW p \in Process,
             \/ NoRegistry(p) \/ RequestFails(p) \/ RequestTimesOut(p)
             \/ AddressMissing(p) \/ NoHub(p) \/ HandshakeFails(p) \/ Die(p)
      PROVE  Leaves(p)
  BY <1>1 DEF NoRegistry, RequestFails, RequestTimesOut, AddressMissing, NoHub,
              HandshakeFails, Die, Leaves
<1> QED
  BY <1>1 DEF Next, Step

\* What is known of a request by its type.
LEMMA RequestFields ==
    ASSUME TypeOK, NEW p \in Process, request[p] # <<>>
    PROVE  /\ request[p] = <<request[p][1]>>
           /\ \/ /\ request[p][1].op = "register"
                 /\ request[p][1].topic \in Topics
                 /\ request[p][1].address \in Addresses
              \/ /\ request[p][1].op = "get"
                 /\ request[p][1].topic \in Topics
<1>1. PICK r \in Request : request[p] = <<r>>
  BY DEF TypeOK
<1>2. \/ r.op = "register" /\ r.topic \in Topics /\ r.address \in Addresses
      \/ r.op = "get" /\ r.topic \in Topics
  BY DEF Request, Register, Get
<1>3. request[p][1] = r
  BY <1>1
<1> QED
  BY <1>1, <1>2, <1>3

LEMMA AddressOfType ==
    ASSUME RegistryInv, NEW t
    PROVE  AddressOf(entries, t) \in Location
<1>1. Good(entries)
  BY InvIsGood
<1>2. CASE Find(entries, t) = 0
  BY <1>2 DEF AddressOf, Location
<1>3. CASE Find(entries, t) # 0
  <2>1. Find(entries, t) \in 1 .. Len(entries)
    BY <1>1, <1>3, FindCases
  <2>2. entries[Find(entries, t)] \in Entry
    BY <1>1, <2>1 DEF Good
  <2> QED
    BY <1>3, <2>2 DEF AddressOf, Entry, Location
<1> QED
  BY <1>2, <1>3

\* A step of the processes and the registry is at most one call of Registry.
LEMMA NextIsRegistryStep ==
    ASSUME TypeOK, [Next]_vars
    PROVE  [NextRegistry]_entries
<1>1. ASSUME NEW p \in Process, ServeRegister(p)
      PROVE  NextRegistry
  BY <1>1, RequestFields DEF ServeRegister, NextRegistry
<1>2. ASSUME NEW t \in Topics, ServeUnregister(t)
      PROVE  NextRegistry
  BY <1>2 DEF ServeUnregister, NextRegistry
<1>3. CASE RegistryRestarts
  BY <1>3 DEF RegistryRestarts, NextRegistry
<1> QED
  BY <1>1, <1>2, <1>3, NextCases
     DEF Leaves, Gone, Listen, StartLink, ConnectRegistry, SendRequest,
         TimeoutPasses, Registered, AddressFound, ConnectHub, Handshake,
         ServeGet, vars

-----------------------------------------------------------------------------
LEMMA TypeStep ==
    ASSUME TypeOK, ControlInv, [Next]_vars
    PROVE  TypeOK'
<1> DEFINE Labels == {"running", "lookup", "connected", "waiting", "found",
                      "handshake", "gone"}
<1>1. RegistryInv'
  BY NextIsRegistryStep, RegistryStep DEF TypeOK
<1>2. hubTopic' = hubTopic /\ linkTopic' = linkTopic
  BY NextCases
     DEF Leaves, Gone, Listen, StartLink, ConnectRegistry, SendRequest,
         TimeoutPasses, Registered, AddressFound, ConnectHub, Handshake,
         ServeRegister, ServeGet, ServeUnregister, RegistryRestarts, vars, roleVars
<1>3. pc' \in [Process -> Labels] /\ task' \in [Process -> {"hub", "link"}]
  BY NextCases
     DEF Leaves, Gone, Listen, StartLink, ConnectRegistry, SendRequest,
         TimeoutPasses, Registered, AddressFound, ConnectHub, Handshake,
         ServeRegister, ServeGet, ServeUnregister, RegistryRestarts, vars,
         Goto, TypeOK
<1>4. /\ address' \in [Process -> Location] /\ used' \subseteq Addresses
      /\ reused' \subseteq used'
  <2>1. ASSUME NEW p \in Process, Leaves(p)
        PROVE  /\ address' \in [Process -> Location]
               /\ used' = used /\ reused' = reused
    BY <2>1 DEF Leaves, Gone, TypeOK, Location
  <2>2. ASSUME NEW p \in Process, Listen(p)
        PROVE  /\ address' \in [Process -> Location] /\ used' \subseteq Addresses
               /\ reused' \subseteq used'
    BY <2>2 DEF Listen, TypeOK, Location
  <2>3. CASE UNCHANGED hubVars
    BY <2>3 DEF hubVars, TypeOK
  <2>4. \/ UNCHANGED hubVars
        \/ \E p \in Process : Leaves(p) \/ Listen(p)
    BY NextCases
       DEF StartLink, ConnectRegistry, SendRequest,
           TimeoutPasses, Registered, AddressFound, ConnectHub, Handshake,
           ServeRegister, ServeGet, ServeUnregister, RegistryRestarts, vars
  <2> QED
    BY <2>1, <2>2, <2>3, <2>4 DEF TypeOK
<1>5. /\ connected' \in [Process -> BOOLEAN]
      /\ expired' \in [Process -> BOOLEAN]
      /\ superseded' \in [Process -> BOOLEAN]
  BY NextCases, Zenon
     DEF Leaves, Gone, Listen, StartLink, ConnectRegistry, SendRequest,
         TimeoutPasses, Registered, AddressFound, ConnectHub, Handshake,
         ServeRegister, ServeGet, ServeUnregister, RegistryRestarts, vars,
         registryVars, HangUp, TypeOK
<1>6. request' \in [Process -> {<<>>} \cup {<<r>> : r \in Request}]
  <2>1. ASSUME NEW p \in Process, SendRequest(p)
        PROVE  request' \in [Process -> {<<>>} \cup {<<r>> : r \in Request}]
    <3>1. Asks(p) \in Request
      BY <2>1 DEF SendRequest, ControlInv, TypeOK, Asks, Request, Register, Get
    <3> QED
      BY <2>1, <3>1 DEF SendRequest, TypeOK, Asks
  <2> QED
    BY <2>1, NextCases
       DEF Leaves, Gone, Listen, StartLink, ConnectRegistry,
           TimeoutPasses, Registered, AddressFound, ConnectHub, Handshake,
           ServeRegister, ServeGet, ServeUnregister, RegistryRestarts, vars,
           registryVars, HangUp, TypeOK
<1>7. reply' \in [Process -> {<<>>} \cup {<<a>> : a \in Location}]
  <2>1. ASSUME NEW p \in Process, NEW a \in Location, Answer(p, a)
        PROVE  reply' \in [Process -> {<<>>} \cup {<<b>> : b \in Location}]
    BY <2>1 DEF Answer, TypeOK
  <2>2. ASSUME NEW p \in Process, ServeRegister(p)
        PROVE  reply' \in [Process -> {<<>>} \cup {<<a>> : a \in Location}]
    BY <2>1, <2>2 DEF ServeRegister, Location
  <2>3. ASSUME NEW p \in Process, ServeGet(p)
        PROVE  reply' \in [Process -> {<<>>} \cup {<<a>> : a \in Location}]
    BY <2>1, <2>3, AddressOfType DEF ServeGet, TypeOK
  <2> QED
    BY <2>2, <2>3, NextCases
       DEF Leaves, Gone, Listen, StartLink, ConnectRegistry, SendRequest,
           TimeoutPasses, Registered, AddressFound, ConnectHub, Handshake,
           ServeUnregister, RegistryRestarts, vars, registryVars, HangUp, TypeOK
<1>8. found' \in [Process -> Location] /\ peer' \in [Process -> Process \cup {NoProcess}]
  <2>1. ASSUME NEW p \in Process, AddressFound(p)
        PROVE  found' \in [Process -> Location] /\ peer' = peer
    <3>1. PICK a \in Location : reply[p] = <<a>>
      BY <2>1 DEF AddressFound, TypeOK
    <3> QED
      BY <2>1, <3>1 DEF AddressFound, TypeOK
  <2>2. ASSUME NEW p \in Process, ConnectHub(p)
        PROVE  found' = found /\ peer' \in [Process -> Process \cup {NoProcess}]
    BY <2>2 DEF ConnectHub, TypeOK
  <2>3. \/ UNCHANGED linkVars
        \/ \E p \in Process : AddressFound(p) \/ ConnectHub(p)
    BY NextCases
       DEF Leaves, Gone, Listen, StartLink, ConnectRegistry, SendRequest,
           TimeoutPasses, Registered, Handshake,
           ServeRegister, ServeGet, ServeUnregister, RegistryRestarts, vars
  <2> QED
    BY <2>1, <2>2, <2>3 DEF TypeOK, linkVars
<1>9. restarts' \in 0 .. MaxRestarts /\ removals' \in 0 .. MaxRemovals
  <2>1. \/ UNCHANGED bounds
        \/ /\ restarts < MaxRestarts /\ restarts' = restarts + 1
           /\ removals' = removals
        \/ /\ removals < MaxRemovals /\ removals' = removals + 1
           /\ restarts' = restarts
    BY NextCases
       DEF Leaves, Gone, Listen, StartLink, ConnectRegistry, SendRequest,
           TimeoutPasses, Registered, AddressFound, ConnectHub, Handshake,
           ServeRegister, ServeGet, ServeUnregister, RegistryRestarts, vars
  <2> QED
    BY <2>1, DiscoveryAssumption DEF TypeOK, bounds
<1> QED
  BY <1>1, <1>2, <1>3, <1>4, <1>5, <1>6, <1>7, <1>8, <1>9 DEF TypeOK

LEMMA RolesKept ==
    ASSUME [Next]_vars
    PROVE  hubTopic' = hubTopic /\ linkTopic' = linkTopic
BY NextCases
   DEF Leaves, Gone, Listen, StartLink, ConnectRegistry, SendRequest,
       TimeoutPasses, Registered, AddressFound, ConnectHub, Handshake,
       ServeRegister, ServeGet, ServeUnregister, RegistryRestarts, vars, roleVars

\* An answer reaches the process whose request is served, if it waits.
LEMMA AnswerReaches ==
    ASSUME TypeOK, RequestInv, NEW p \in Process, NEW a, request[p] # <<>>, Answer(p, a)
    PROVE  \/ /\ pc[p] = "waiting" /\ request[p] = <<Asks(p)>>
              /\ reply' = [reply EXCEPT ![p] = <<a>>]
           \/ reply' = reply /\ (pc[p] = "waiting" => request[p] = <<Asks(p)>>)
BY DEF RequestInv, Answer

LEMMA ControlStep ==
    ASSUME TypeOK, ControlInv, RequestInv, [Next]_vars
    PROVE  ControlInv'
<1>1. ASSUME NEW p \in Process, Leaves(p)
      PROVE  ControlInv'
  BY <1>1 DEF Leaves, Gone, Goto, roleVars, ControlInv, TypeOK
<1>2. ASSUME NEW p \in Process, Listen(p)
      PROVE  ControlInv'
  BY <1>2 DEF Listen, Goto, roleVars, ControlInv, TypeOK
<1>3. ASSUME NEW p \in Process, StartLink(p)
      PROVE  ControlInv'
  BY <1>3 DEF StartLink, Goto, roleVars, hubVars, ControlInv, TypeOK
<1>4. ASSUME NEW p \in Process, Registered(p)
      PROVE  ControlInv'
  BY <1>4 DEF Registered, Goto, roleVars, hubVars, ControlInv, TypeOK
<1>5. ASSUME NEW p \in Process,
             \/ ConnectRegistry(p) \/ SendRequest(p) \/ AddressFound(p)
             \/ ConnectHub(p) \/ Handshake(p)
      PROVE  ControlInv'
  BY <1>5 DEF ConnectRegistry, SendRequest, AddressFound, ConnectHub, Handshake,
              Goto, roleVars, hubVars, ControlInv, TypeOK
<1>6. CASE UNCHANGED <<roleVars, pc, task, hubVars>>
  BY <1>6 DEF roleVars, hubVars, ControlInv
<1> QED
  BY <1>1, <1>2, <1>3, <1>4, <1>5, <1>6, NextCases
     DEF TimeoutPasses, ServeRegister, ServeGet, ServeUnregister,
         RegistryRestarts, vars

LEMMA RequestStep ==
    ASSUME TypeOK, ControlInv, RequestInv, [Next]_vars
    PROVE  RequestInv'
<1>1. ASSUME NEW p \in Process, Leaves(p)
      PROVE  RequestInv'
  BY <1>1 DEF Leaves, Gone, Goto, roleVars, RequestInv, Asks, TypeOK
<1>2. ASSUME NEW p \in Process, Listen(p)
      PROVE  RequestInv'
  BY <1>2 DEF Listen, Goto, roleVars, registryVars, RequestInv, Asks, TypeOK
<1>3. ASSUME NEW p \in Process, StartLink(p)
      PROVE  RequestInv'
  BY <1>3 DEF StartLink, Goto, roleVars, hubVars, registryVars, RequestInv, Asks,
              TypeOK
<1>4. ASSUME NEW p \in Process, ConnectRegistry(p)
      PROVE  RequestInv'
  BY <1>4 DEF ConnectRegistry, Goto, roleVars, hubVars, RequestInv, Asks, TypeOK
<1>5. ASSUME NEW p \in Process, SendRequest(p)
      PROVE  RequestInv'
  BY <1>5 DEF SendRequest, Goto, roleVars, hubVars, RequestInv, Asks, TypeOK
<1>6. ASSUME NEW p \in Process, Registered(p) \/ AddressFound(p)
      PROVE  RequestInv'
  <2>1. request[p] = <<>> /\ pc[p] = "waiting"
    BY <1>6 DEF Registered, AddressFound, RequestInv
  <2>2. /\ request' = request /\ address' = address
        /\ reply' = [reply EXCEPT ![p] = <<>>]
        /\ connected' = [connected EXCEPT ![p] = FALSE]
        /\ pc'[p] \in {"running", "lookup", "found"}
        /\ \A q \in Process \ {p} : pc'[q] = pc[q] /\ task'[q] = task[q]
    BY <1>6 DEF Registered, AddressFound, HangUp, Goto, hubVars, TypeOK
  <2> QED
    BY <2>1, <2>2, RolesKept DEF RequestInv, Asks, TypeOK
<1>7. ASSUME NEW p \in Process, ConnectHub(p) \/ Handshake(p)
      PROVE  RequestInv'
  BY <1>7 DEF ConnectHub, Handshake, Goto, roleVars, hubVars, registryVars,
              RequestInv, Asks, TypeOK
<1>8. ASSUME NEW p \in Process, ServeRegister(p) \/ ServeGet(p)
      PROVE  RequestInv'
  <2>1. /\ request[p] # <<>>
        /\ request' = [request EXCEPT ![p] = <<>>]
        /\ \E a : Answer(p, a)
        /\ UNCHANGED <<pc, task, address, connected>>
    BY <1>8 DEF ServeRegister, ServeGet, hubVars
  <2> QED
    BY <2>1, AnswerReaches, RolesKept DEF RequestInv, Asks, TypeOK
<1>9. CASE RegistryRestarts
  BY <1>9 DEF RegistryRestarts, roleVars, hubVars, RequestInv, TypeOK
<1>10. CASE UNCHANGED <<roleVars, pc, task, hubVars, registryVars>>
  BY <1>10 DEF roleVars, hubVars, registryVars, RequestInv, Asks
<1> QED
  BY <1>1, <1>2, <1>3, <1>4, <1>5, <1>6, <1>7, <1>8, <1>9, <1>10, NextCases
     DEF TimeoutPasses, ServeUnregister, vars

-----------------------------------------------------------------------------
\* What a served registration, a removal and a step of a process do to the
\* address of a topic.
LEMMA AfterRegister ==
    ASSUME TypeOK, NEW p \in Process, ServeRegister(p)
    PROVE  LET r == request[p][1] IN
           /\ AddressOf(entries', r.topic) = r.address
           /\ \A u : u # r.topic => AddressOf(entries', u) = AddressOf(entries, u)
<1>1. Good(entries)
  BY InvIsGood DEF TypeOK
<1>2. request[p][1].topic \in Topics /\ request[p][1].address \in Addresses
  BY RequestFields DEF ServeRegister
<1>3. SetEntry(request[p][1].topic, request[p][1].address)
  BY DEF ServeRegister
<1> QED
  BY <1>1, <1>2, <1>3, AfterSet DEF SetEntry

LEMMA ListedStep ==
    ASSUME TypeOK, ControlInv, RequestInv, ListedInv, [Next]_vars
    PROVE  ListedInv'
<1>1. ASSUME NEW p \in Process, Leaves(p)
      PROVE  ListedInv'
  BY <1>1 DEF Leaves, Gone, Goto, roleVars, ListedInv, Acknowledged, HubCreated, TypeOK
<1>2. ASSUME NEW p \in Process, Listen(p)
      PROVE  ListedInv'
  BY <1>2 DEF Listen, Goto, roleVars, registryVars, ListedInv, Acknowledged,
              HubCreated, ControlInv, TypeOK
<1>3. ASSUME NEW p \in Process, StartLink(p)
      PROVE  ListedInv'
  BY <1>3 DEF StartLink, Goto, roleVars, hubVars, registryVars, ListedInv,
              Acknowledged, HubCreated, TypeOK
<1>4. ASSUME NEW p \in Process,
             ConnectRegistry(p) \/ SendRequest(p) \/ ConnectHub(p) \/ Handshake(p)
      PROVE  ListedInv'
  <2>1. /\ UNCHANGED <<entries, roleVars, task, hubVars, reply, superseded>>
        /\ pc[p] \in {"lookup", "connected", "found", "handshake"}
        /\ pc' = [pc EXCEPT ![p] = pc'[p]]
        /\ \/ task[p] = "link"
           \/ pc'[p] = "connected"
           \/ pc'[p] = "waiting" /\ reply[p] = <<>>
    BY <1>4 DEF ConnectRegistry, SendRequest, ConnectHub, Handshake, Goto,
                registryVars, ControlInv, RequestInv, TypeOK
  <2> QED
    BY <2>1 DEF roleVars, hubVars, ListedInv, Acknowledged, HubCreated, TypeOK
<1>5. ASSUME NEW p \in Process, Registered(p) \/ AddressFound(p)
      PROVE  ListedInv'
  BY <1>5 DEF Registered, AddressFound, HangUp, Goto, roleVars, hubVars, ListedInv,
              Acknowledged, HubCreated, TypeOK
<1>6. ASSUME NEW p \in Process, ServeRegister(p)
      PROVE  ListedInv'
  <2> DEFINE r == request[p][1]
  <2>1. /\ AddressOf(entries', r.topic) = r.address
        /\ \A u : u # r.topic => AddressOf(entries', u) = AddressOf(entries, u)
    BY <1>6, AfterRegister
  <2>2. r.op = "register" /\ request[p] # <<>> /\ request[p] = <<r>>
    BY <1>6, RequestFields DEF ServeRegister
  <2>3. /\ UNCHANGED <<hubTopic, pc, task, address>>
        /\ \A q \in Process \ {p} : reply'[q] = reply[q]
        /\ \A q \in Process \ {p} : superseded'[q] = (superseded[q] \/ hubTopic[q] = r.topic)
    BY <1>6 DEF ServeRegister, Answer, roleVars, hubVars, TypeOK
  <2>4. pc[p] = "gone" \/ (pc[p] = "waiting" /\ r = Asks(p))
    BY <2>2 DEF RequestInv
  <2>5. pc[p] = "waiting" =>
          task[p] = "hub" /\ r.topic = hubTopic[p] /\ r.address = address[p]
    BY <2>2, <2>4 DEF Asks, Register, Get
  <2> HIDE DEF r
  <2>6. ASSUME NEW q \in Process, q # p, Acknowledged(q)', ~ superseded'[q]
        PROVE  AddressOf(entries', hubTopic[q]) = address[q]
    BY <2>1, <2>3, <2>6 DEF ListedInv, Acknowledged, HubCreated
  <2>7. ASSUME Acknowledged(p)'
        PROVE  AddressOf(entries', hubTopic[p]) = address[p]
    BY <2>1, <2>3, <2>4, <2>5, <2>7 DEF ControlInv, Acknowledged, HubCreated
  <2> QED
    BY <2>3, <2>6, <2>7 DEF ListedInv
<1>7. ASSUME NEW p \in Process, ServeGet(p)
      PROVE  ListedInv'
  <2>1. /\ request[p] # <<>> /\ request[p][1].op = "get"
        /\ \E a : Answer(p, a)
        /\ UNCHANGED <<entries, hubTopic, pc, task, address, superseded>>
    BY <1>7 DEF ServeGet, roleVars, hubVars
  <2>2. reply'[p] = reply[p] \/ (pc[p] = "waiting" /\ request[p] = <<Asks(p)>>)
    BY <2>1, AnswerReaches
  <2>3. pc[p] = "waiting" /\ request[p] = <<Asks(p)>> => task[p] = "link"
    BY <2>1 DEF Asks, Register, TypeOK
  <2>4. \A q \in Process \ {p} : reply'[q] = reply[q]
    BY <2>1 DEF Answer, TypeOK
  <2> QED
    BY <2>1, <2>2, <2>3, <2>4 DEF ListedInv, Acknowledged, HubCreated
<1>8. ASSUME NEW t \in Topics, ServeUnregister(t)
      PROVE  ListedInv'
  <2>1. \A u : u # t => AddressOf(entries', u) = AddressOf(entries, u)
    BY <1>8, ErasedGood, InvIsGood DEF ServeUnregister, RemoveEntry, TypeOK
  <2> QED
    BY <1>8, <2>1 DEF ServeUnregister, roleVars, hubVars, registryVars, ListedInv,
                      Acknowledged, HubCreated, TypeOK
<1>9. CASE RegistryRestarts
  BY <1>9 DEF RegistryRestarts, ListedInv
<1>10. CASE UNCHANGED <<entries, roleVars, pc, task, hubVars, registryVars, superseded>>
  BY <1>10 DEF roleVars, hubVars, registryVars, ListedInv, Acknowledged, HubCreated
<1> QED
  BY <1>1, <1>2, <1>3, <1>4, <1>5, <1>6, <1>7, <1>8, <1>9, <1>10, NextCases
     DEF TimeoutPasses, vars

-----------------------------------------------------------------------------
\* What names a topic goes on naming it while hubs only go.
LEMMA NamesKept ==
    ASSUME TypeOK, NEW t, NEW a, Names(t, a), a \in Addresses,
           hubTopic' = hubTopic, UNCHANGED <<used, reused>>,
           \A q \in Process : address'[q] \in {address[q], NoAddress}
    PROVE  Names(t, a)'
BY NoAddressAssumption DEF Names

\* A hub that begins to listen takes a new address, or one that it marks.
LEMMA NamesAfterListen ==
    ASSUME TypeOK, NEW p \in Process, Listen(p), NEW t, NEW a, Names(t, a)
    PROVE  Names(t, a)'
<1>1. PICK b \in Addresses :
        /\ address' = [address EXCEPT ![p] = b]
        /\ used' = used \cup {b}
        /\ reused' = reused \cup (used \cap {b})
  BY DEF Listen
<1>2. hubTopic' = hubTopic
  BY DEF Listen, roleVars
<1>3. CASE a = b
  BY <1>1, <1>3 DEF Names
<1>4. CASE a # b
  BY <1>1, <1>2, <1>4 DEF Names, TypeOK
<1> QED
  BY <1>3, <1>4

\* What the registry finds for a topic names the topic.
LEMMA FoundNames ==
    ASSUME RegistryInv, NamesInv, NEW t, AddressOf(entries, t) # NoAddress
    PROVE  Names(t, AddressOf(entries, t))
<1>1. Find(entries, t) # 0
  BY DEF AddressOf
<1>2. /\ Find(entries, t) \in 1 .. Len(entries)
      /\ entries[Find(entries, t)].topic = t
  BY <1>1, FindCases, InvIsGood
<1> QED
  BY <1>1, <1>2 DEF AddressOf, NamesInv, EntriesNamed

\* What erase leaves was there before.
LEMMA ErasedEntries ==
    ASSUME NEW es, Good(es), NEW t, NEW i \in 1 .. Len(Erased(es, t))
    PROVE  \E j \in 1 .. Len(es) : Erased(es, t)[i] = es[j]
<1>1. CASE Find(es, t) = 0
  BY <1>1 DEF Erased
<1>2. CASE Find(es, t) # 0
  <2>1. Find(es, t) \in 1 .. Len(es) /\ es \in Seq(Entry) /\ Len(es) \in Nat
    BY <1>2, FindCases DEF Good
  <2>2. Erased(es, t) = RemoveAt(es, Find(es, t))
    BY <1>2 DEF Erased
  <2>3. /\ Len(Erased(es, t)) = Len(es) - 1
        /\ Erased(es, t)[i] = IF i < Find(es, t) THEN es[i] ELSE es[i + 1]
    BY <2>1, <2>2, RemoveAtElements
  <2>4. i \in 1 .. Len(es) /\ i + 1 \in 1 .. Len(es)
    BY <2>1, <2>3
  <2> QED
    BY <2>3, <2>4
<1> QED
  BY <1>1, <1>2

LEMMA NamesStay ==
    ASSUME TypeOK, [Next]_vars, NEW t, NEW a \in Addresses, Names(t, a)
    PROVE  Names(t, a)'
<1>1. ASSUME NEW p \in Process, Listen(p)
      PROVE  Names(t, a)'
  BY <1>1, NamesAfterListen
<1>2. CASE ~ \E p \in Process : Listen(p)
  <2>1. /\ UNCHANGED <<used, reused>>
        /\ \A q \in Process : address'[q] \in {address[q], NoAddress}
    BY <1>2, NextCases
       DEF Leaves, Gone, StartLink, ConnectRegistry, SendRequest,
           TimeoutPasses, Registered, AddressFound, ConnectHub, Handshake,
           ServeRegister, ServeGet, ServeUnregister, RegistryRestarts, vars,
           hubVars, TypeOK
  <2> QED
    BY <2>1, RolesKept, NamesKept
<1> QED
  BY <1>1, <1>2

LEMMA ReplyFields ==
    ASSUME TypeOK, NEW p \in Process, reply[p] # <<>>
    PROVE  reply[p] = <<reply[p][1]>> /\ reply[p][1] \in Location
BY DEF TypeOK

LEMMA NamesStep ==
    ASSUME TypeOK, ControlInv, RequestInv, NamesInv, [Next]_vars
    PROVE  NamesInv'
<1>1. HubsNamed'
  <2>1. ASSUME NEW p \in Process, Listen(p)
        PROVE  HubsNamed'
    BY <2>1 DEF Listen, NamesInv, HubsNamed, TypeOK
  <2>2. ASSUME NEW p \in Process, Leaves(p)
        PROVE  HubsNamed'
    BY <2>2 DEF Leaves, Gone, NamesInv, HubsNamed, TypeOK
  <2>3. CASE UNCHANGED hubVars
    BY <2>3 DEF hubVars, NamesInv, HubsNamed
  <2> QED
    BY <2>1, <2>2, <2>3, NextCases
       DEF StartLink, ConnectRegistry, SendRequest, TimeoutPasses, Registered,
           AddressFound, ConnectHub, Handshake, ServeRegister, ServeGet,
           ServeUnregister, RegistryRestarts, vars
<1> DEFINE NamesNext(t, a) ==
             /\ a \in used'
             /\ a \notin reused' => \A q \in Process : address'[q] = a => hubTopic'[q] = t
<1>2. \A t : \A a \in Addresses : Names(t, a) => NamesNext(t, a)
  BY NamesStay DEF Names
<1>3. /\ EntriesNamed' <=>
            \A i \in 1 .. Len(entries') : NamesNext(entries'[i].topic, entries'[i].address)
      /\ \A p \in Process :
            /\ RequestNamed(p)' <=>
                  (request'[p] # <<>> /\ request'[p][1].op = "register" =>
                     NamesNext(request'[p][1].topic, request'[p][1].address))
            /\ ReplyNamed(p)' <=>
                  (reply'[p] # <<>> /\ reply'[p][1] # NoAddress =>
                     task'[p] = "link" /\ NamesNext(linkTopic'[p], reply'[p][1]))
            /\ FoundNamed(p)' <=>
                  (found'[p] # NoAddress => NamesNext(linkTopic'[p], found'[p]))
  BY DEF EntriesNamed, RequestNamed, ReplyNamed, FoundNamed, Names
<1> HIDE DEF NamesNext
<1>4. EntriesNamed'
  <2>1. Good(entries)
    BY InvIsGood DEF TypeOK
  <2>2. \A i \in 1 .. Len(entries) :
           /\ Names(entries[i].topic, entries[i].address)
           /\ entries[i].address \in Addresses
    <3>1. \A i \in 1 .. Len(entries) : entries[i] \in Entry
      BY <2>1 DEF Good
    <3> QED
      BY <3>1 DEF Entry, NamesInv, EntriesNamed
  <2>3. ASSUME NEW i \in 1 .. Len(entries')
        PROVE  \E t : \E a \in Addresses :
                  /\ Names(t, a)
                  /\ entries'[i].topic = t /\ entries'[i].address = a
    <3>1. ASSUME NEW p \in Process, ServeRegister(p)
          PROVE  \E t : \E a \in Addresses :
                    /\ Names(t, a)
                    /\ entries'[i].topic = t /\ entries'[i].address = a
      <4> DEFINE r == request[p][1]
                 es == Erased(entries, r.topic)
      <4>1. r.op = "register" /\ r.address \in Addresses /\ request[p] # <<>>
        BY <3>1, RequestFields DEF ServeRegister
      <4>2. Names(r.topic, r.address)
        BY <4>1 DEF NamesInv, RequestNamed
      <4>3. entries' = Append(es, [topic |-> r.topic, address |-> r.address])
        BY <3>1 DEF ServeRegister, SetEntry
      <4>4. es \in Seq(Entry)
        BY <2>1, ErasedGood DEF Good
      <4>5. \A j \in 1 .. Len(es) : \E k \in 1 .. Len(entries) : es[j] = entries[k]
        BY <2>1, ErasedEntries
      <4> HIDE DEF r, es
      <4>6. \/ i \in 1 .. Len(es) /\ entries'[i] = es[i]
            \/ entries'[i] = [topic |-> r.topic, address |-> r.address]
        BY <4>3, <4>4
      <4> QED
        BY <2>2, <4>1, <4>2, <4>5, <4>6
    <3>2. ASSUME NEW t \in Topics, ServeUnregister(t)
          PROVE  \E k \in 1 .. Len(entries) : entries'[i] = entries[k]
      BY <2>1, <3>2, ErasedEntries DEF ServeUnregister, RemoveEntry
    <3>3. ~ RegistryRestarts
      BY DEF RegistryRestarts, Forget
    <3>4. \/ UNCHANGED entries
          \/ \E p \in Process : ServeRegister(p)
          \/ \E t \in Topics : ServeUnregister(t)
      BY <3>3, NextCases
         DEF Leaves, Gone, Listen, StartLink, ConnectRegistry, SendRequest,
             TimeoutPasses, Registered, AddressFound, ConnectHub, Handshake,
             ServeGet, vars
    <3> QED
      BY <2>2, <3>1, <3>2, <3>4
  <2> QED
    BY <1>2, <1>3, <2>3
<1>5. ASSUME NEW p \in Process
      PROVE  RequestNamed(p)'
  <2>1. CASE request'[p] = request[p]
    <3>1. ASSUME request[p] # <<>>, request[p][1].op = "register"
          PROVE  NamesNext(request[p][1].topic, request[p][1].address)
      <4>1. request[p][1].address \in Addresses
        BY <3>1, RequestFields
      <4>2. Names(request[p][1].topic, request[p][1].address)
        BY <3>1 DEF NamesInv, RequestNamed
      <4> QED
        BY <1>2, <4>1, <4>2
    <3> QED
      BY <1>3, <2>1, <3>1
  <2>2. CASE request'[p] = <<>>
    BY <2>2 DEF RequestNamed
  <2>3. CASE SendRequest(p)
    <3>1. CASE task[p] = "hub"
      <4>1. /\ hubTopic[p] # NoTopic /\ address[p] \in Addresses
            /\ address[p] # NoAddress
        BY <2>3, <3>1, NoAddressAssumption DEF SendRequest, ControlInv
      <4>2. Names(hubTopic[p], address[p])
        BY <4>1 DEF NamesInv, HubsNamed, Names
      <4>3. /\ request'[p][1].topic = hubTopic[p]
            /\ request'[p][1].address = address[p]
        BY <2>3, <3>1 DEF SendRequest, Register, TypeOK
      <4> QED
        BY <1>2, <1>3, <4>1, <4>2, <4>3
    <3>2. CASE task[p] = "link"
      BY <2>3, <3>2 DEF SendRequest, Get, RequestNamed, TypeOK
    <3> QED
      BY <3>1, <3>2 DEF TypeOK
  <2>4. request'[p] = request[p] \/ request'[p] = <<>> \/ SendRequest(p)
    <3>1. ASSUME NEW q \in Process, q # p, SendRequest(q)
          PROVE  request'[p] = request[p]
      BY <3>1 DEF SendRequest
    <3>2. ASSUME NEW q \in Process, ServeRegister(q) \/ ServeGet(q)
          PROVE  request'[p] \in {request[p], <<>>}
      BY <3>2 DEF ServeRegister, ServeGet, TypeOK
    <3>3. CASE RegistryRestarts
      BY <3>3 DEF RegistryRestarts
    <3>4. \/ UNCHANGED request \/ RegistryRestarts
          \/ \E q \in Process : SendRequest(q) \/ ServeRegister(q) \/ ServeGet(q)
      BY NextCases
         DEF Leaves, Gone, Listen, StartLink, ConnectRegistry, TimeoutPasses,
             Registered, AddressFound, HangUp, ConnectHub, Handshake,
             ServeUnregister, vars, registryVars
    <3> QED
      BY <3>1, <3>2, <3>3, <3>4
  <2> QED
    BY <2>1, <2>2, <2>3, <2>4
<1>6. ASSUME NEW p \in Process
      PROVE  ReplyNamed(p)'
  <2>1. CASE reply'[p] = <<>>
    BY <2>1 DEF ReplyNamed
  <2>2. CASE reply'[p] = reply[p] /\ task'[p] = task[p]
    <3>1. ASSUME reply[p] # <<>>, reply[p][1] # NoAddress
          PROVE  NamesNext(linkTopic[p], reply[p][1]) /\ task[p] = "link"
      <4>1. reply[p][1] \in Addresses
        BY <3>1, ReplyFields DEF Location
      <4>2. task[p] = "link" /\ Names(linkTopic[p], reply[p][1])
        BY <3>1 DEF NamesInv, ReplyNamed
      <4> QED
        BY <1>2, <4>1, <4>2
    <3> QED
      BY <1>3, <2>2, <3>1, RolesKept
  <2>3. CASE ServeRegister(p)
    BY <2>2, <2>3 DEF ServeRegister, Answer, ReplyNamed, TypeOK
  <2>4. CASE ServeGet(p)
    <3> DEFINE a == AddressOf(entries, request[p][1].topic)
    <3>1. /\ request[p] # <<>> /\ request[p][1].op = "get" /\ Answer(p, a)
          /\ task' = task
      BY <2>4 DEF ServeGet
    <3>2. CASE reply' = reply
      BY <2>2, <3>1, <3>2
    <3>3. CASE /\ pc[p] = "waiting" /\ request[p] = <<Asks(p)>>
               /\ reply' = [reply EXCEPT ![p] = <<a>>]
      <4>1. task[p] = "link" /\ request[p][1].topic = linkTopic[p]
        BY <3>1, <3>3 DEF Asks, Register, Get, TypeOK
      <4>2. a # NoAddress => a \in Addresses /\ Names(linkTopic[p], a)
        BY <4>1, FoundNames, AddressOfType DEF TypeOK, Location
      <4>3. reply'[p] = <<a>>
        BY <3>3 DEF TypeOK
      <4> HIDE DEF a
      <4> QED
        BY <1>2, <1>3, <3>1, <4>1, <4>2, <4>3, RolesKept
    <3> QED
      BY <3>1, <3>2, <3>3, AnswerReaches
  <2>5. \/ reply'[p] = <<>> \/ ServeRegister(p) \/ ServeGet(p)
        \/ reply'[p] = reply[p] /\ task'[p] = task[p]
    <3>1. ASSUME NEW q \in Process, q # p, ServeRegister(q) \/ ServeGet(q)
          PROVE  reply'[p] = reply[p] /\ task'[p] = task[p]
      BY <3>1 DEF ServeRegister, ServeGet, Answer, TypeOK
    <3>2. ASSUME NEW q \in Process, Leaves(q) \/ AddressFound(q)
          PROVE  \/ reply'[p] = <<>>
                 \/ reply'[p] = reply[p] /\ task'[p] = task[p]
      BY <3>2 DEF Leaves, Gone, AddressFound, HangUp, TypeOK
    <3>3. ASSUME NEW q \in Process, Registered(q)
          PROVE  \/ reply'[p] = <<>>
                 \/ reply'[p] = reply[p] /\ task'[p] = task[p]
      BY <3>3 DEF Registered, HangUp, TypeOK
    <3>4. ASSUME NEW q \in Process, Listen(q) \/ StartLink(q)
          PROVE  \/ reply'[p] = <<>>
                 \/ reply'[p] = reply[p] /\ task'[p] = task[p]
      BY <3>4 DEF Listen, StartLink, registryVars, RequestInv, TypeOK
    <3>5. \/ UNCHANGED <<reply, task>>
          \/ \E q \in Process :
                \/ Leaves(q) \/ Listen(q) \/ StartLink(q) \/ Registered(q)
                \/ AddressFound(q) \/ ServeRegister(q) \/ ServeGet(q)
      BY NextCases
         DEF ConnectRegistry, SendRequest, TimeoutPasses, ConnectHub,
             Handshake, ServeUnregister, RegistryRestarts, vars, registryVars
    <3> QED
      BY <3>1, <3>2, <3>3, <3>4, <3>5
  <2> QED
    BY <2>1, <2>2, <2>3, <2>4, <2>5
<1>7. ASSUME NEW p \in Process
      PROVE  FoundNamed(p)'
  <2>1. CASE found'[p] = found[p]
    <3>1. ASSUME found[p] # NoAddress
          PROVE  NamesNext(linkTopic[p], found[p])
      <4>1. found[p] \in Addresses /\ Names(linkTopic[p], found[p])
        BY <3>1 DEF NamesInv, FoundNamed, TypeOK, Location
      <4> QED
        BY <1>2, <4>1
    <3> QED
      BY <1>3, <2>1, <3>1, RolesKept
  <2>2. CASE AddressFound(p)
    <3>1. /\ reply[p] # <<>> /\ reply[p][1] # NoAddress
          /\ found'[p] = reply[p][1]
      BY <2>2 DEF AddressFound, TypeOK
    <3>2. reply[p][1] \in Addresses
      BY <3>1, ReplyFields DEF Location
    <3>3. Names(linkTopic[p], reply[p][1])
      BY <3>1 DEF NamesInv, ReplyNamed
    <3> QED
      BY <1>2, <1>3, <3>1, <3>2, <3>3, RolesKept
  <2>3. found'[p] = found[p] \/ AddressFound(p)
    <3>1. ASSUME NEW q \in Process, q # p, AddressFound(q)
          PROVE  found'[p] = found[p]
      BY <3>1 DEF AddressFound
    <3>2. UNCHANGED found \/ \E q \in Process : AddressFound(q)
      BY NextCases
         DEF Leaves, Gone, Listen, StartLink, ConnectRegistry, SendRequest,
             TimeoutPasses, Registered, ConnectHub, Handshake, ServeRegister,
             ServeGet, ServeUnregister, RegistryRestarts, vars, linkVars
    <3> QED
      BY <3>1, <3>2
  <2> QED
    BY <2>1, <2>2, <2>3
<1> QED
  BY <1>1, <1>4, <1>5, <1>6, <1>7 DEF NamesInv

-----------------------------------------------------------------------------
LEMMA LinkStep ==
    ASSUME TypeOK, ControlInv, NamesInv, LinkInv, [Next]_vars
    PROVE  LinkInv'
<1>1. PeerInv /\ LinkedToTopic
  BY DEF LinkInv
<1> USE DiscoveryAssumption
<1>2. ASSUME NEW p \in Process, AddressFound(p)
      PROVE  LinkInv'
  <2>1. /\ pc[p] = "waiting" /\ pc' = [pc EXCEPT ![p] = "found"] /\ peer' = peer
        /\ found' = [found EXCEPT ![p] = found'[p]] /\ found'[p] # NoAddress
        /\ reused' = reused /\ task' = task /\ task[p] = "link"
    BY <1>2 DEF AddressFound, Goto, hubVars, TypeOK
  <2>2. PeerInv'
    BY <1>1, <2>1 DEF PeerInv, TypeOK
  <2>3. LinkedToTopic'
    BY <1>1, <2>1, RolesKept DEF PeerInv, LinkedToTopic, TypeOK
  <2> QED
    BY <2>2, <2>3 DEF LinkInv
<1>3. ASSUME NEW p \in Process, ConnectHub(p)
      PROVE  LinkInv'
  <2>1. PICK q \in Process : address[q] = found[p] /\ peer' = [peer EXCEPT ![p] = q]
    BY <1>3 DEF ConnectHub
  <2>2. /\ pc[p] = "found" /\ pc' = [pc EXCEPT ![p] = "handshake"]
        /\ found' = found /\ reused' = reused /\ task' = task
    BY <1>3 DEF ConnectHub, Goto, hubVars
  <2>3. PeerInv'
    BY <1>1, <2>1, <2>2 DEF PeerInv, TypeOK
  <2>4. found[p] \notin reused => hubTopic[q] = linkTopic[p]
    BY <1>1, <2>1, <2>2 DEF PeerInv, NamesInv, FoundNamed, Names
  <2>5. LinkedToTopic'
    BY <1>1, <2>1, <2>2, <2>4, RolesKept DEF LinkedToTopic, TypeOK
  <2> QED
    BY <2>3, <2>5 DEF LinkInv
<1>4. ASSUME UNCHANGED linkVars, reused \subseteq reused',
             \A q \in Process :
                \/ pc'[q] \in {"running", "gone"}
                \/ pc'[q] = "lookup" /\ (task'[q] = "link" => peer[q] = NoProcess)
                \/ /\ task'[q] = task[q] /\ pc'[q] \in {"connected", "waiting"}
                   /\ pc[q] \in {"lookup", "connected"}
                \/ pc'[q] = pc[q] /\ task'[q] = task[q]
      PROVE  LinkInv'
  <2>1. PeerInv'
    BY <1>1, <1>4 DEF PeerInv, linkVars, TypeOK
  <2>2. LinkedToTopic'
    BY <1>1, <1>4, RolesKept DEF LinkedToTopic, linkVars
  <2> QED
    BY <2>1, <2>2 DEF LinkInv
<1>5. ASSUME NEW p \in Process,
             \/ Leaves(p) \/ Listen(p) \/ StartLink(p) \/ ConnectRegistry(p)
             \/ SendRequest(p) \/ Registered(p) \/ Handshake(p)
      PROVE  LinkInv'
  <2>1. UNCHANGED linkVars /\ reused \subseteq reused'
    BY <1>5 DEF Leaves, Gone, Listen, StartLink, ConnectRegistry, SendRequest,
                Registered, Handshake, linkVars, hubVars
  <2>2. ASSUME NEW q \in Process, q # p
        PROVE  pc'[q] = pc[q] /\ task'[q] = task[q]
    BY <1>5, <2>2 DEF Leaves, Gone, Listen, StartLink, ConnectRegistry,
       SendRequest, Registered, Handshake, Goto, TypeOK
  <2>3. \/ pc'[p] \in {"running", "gone"}
        \/ pc'[p] = "lookup" /\ (task'[p] = "link" => peer[p] = NoProcess)
        \/ /\ task'[p] = task[p] /\ pc'[p] \in {"connected", "waiting"}
           /\ pc[p] \in {"lookup", "connected"}
    BY <1>5 DEF Leaves, Gone, Listen, StartLink, ConnectRegistry, SendRequest,
                Registered, Handshake, Goto, TypeOK
  <2> QED
    BY <1>4, <2>1, <2>2, <2>3
<1>6. CASE UNCHANGED <<linkVars, reused, pc, task>>
  BY <1>4, <1>6
<1> QED
  BY <1>2, <1>3, <1>5, <1>6, NextCases
     DEF TimeoutPasses, ServeRegister, ServeGet, ServeUnregister,
         RegistryRestarts, hubVars, vars

-----------------------------------------------------------------------------
LEMMA DiscoveryInit == Init => DiscoveryInv
<1> SUFFICES ASSUME Init
             PROVE  DiscoveryInv
  OBVIOUS
<1> USE DiscoveryAssumption, NoAddressAssumption
<1>1. RegistryInv
  BY NothingRegistered, InvIsGood DEF Init, NoEntries
<1>2. TypeOK
  <2>1. request \in [Process -> {<<>>} \cup {<<r>> : r \in Request}]
    BY DEF Init
  <2>2. reply \in [Process -> {<<>>} \cup {<<a>> : a \in Location}]
    BY DEF Init
  <2> QED
    BY <1>1, <2>1, <2>2 DEF Init, TypeOK, Location
<1>3. ControlInv
  BY DEF Init, ControlInv
<1>4. RequestInv
  BY DEF Init, RequestInv
<1>5. ListedInv
  BY DEF Init, ListedInv, Acknowledged, HubCreated
<1>6. NamesInv
  BY DEF Init, NoEntries, NamesInv, HubsNamed, EntriesNamed, RequestNamed, ReplyNamed,
         FoundNamed
<1>7. LinkInv
  BY DEF Init, LinkInv, PeerInv, LinkedToTopic
<1> QED
  BY <1>2, <1>3, <1>4, <1>5, <1>6, <1>7 DEF DiscoveryInv

LEMMA DiscoveryStep == DiscoveryInv /\ [Next]_vars => DiscoveryInv'
BY TypeStep, ControlStep, RequestStep, ListedStep, NamesStep, LinkStep
   DEF DiscoveryInv

(***************************************************************************)
(* The invariant of hubs, links and the registry between them.             *)
(***************************************************************************)
THEOREM DiscoveryInvHolds == Spec => []DiscoveryInv
BY DiscoveryInit, DiscoveryStep, PTL DEF Spec

(***************************************************************************)
(* Every variable has its type, and no topic has two entries, whatever the *)
(* processes and the registry do.                                          *)
(***************************************************************************)
THEOREM DiscoveryTypes == Spec => []TypeOK
<1>1. DiscoveryInv => TypeOK
  BY DEF DiscoveryInv
<1> QED
  BY <1>1, DiscoveryInvHolds, PTL

(***************************************************************************)
(* A hub whose create has returned is the one the registry gives out for   *)
(* its topic, unless its registration was superseded.  An answer is always *)
(* that to p's own request (RequestInv), so that a success means that p's  *)
(* address was set.                                                        *)
(***************************************************************************)
THEOREM CreatedHubsListed == Spec => []CreatedHubIsListed
<1>1. DiscoveryInv => CreatedHubIsListed
  BY DEF DiscoveryInv, ListedInv, Acknowledged, CreatedHubIsListed
<1> QED
  BY <1>1, DiscoveryInvHolds, PTL

(***************************************************************************)
(* A link leads to a hub of its topic, unless its port was given out to    *)
(* two hubs: requests, entries, answers and the address a link was told    *)
(* all name the topic (NamesInv), also after the hub has gone.             *)
(***************************************************************************)
THEOREM LinksLeadToTopics == Spec => []LinkedToTopic
<1>1. DiscoveryInv => LinkedToTopic
  BY DEF DiscoveryInv, LinkInv
<1> QED
  BY <1>1, DiscoveryInvHolds, PTL

(***************************************************************************)
(* The registry implements TopicMap also as it is used: handle_register,   *)
(* handle_get and handle_unregister for processes that crash and come too  *)
(* late, and restarts of its own.                                          *)
(***************************************************************************)
THEOREM DiscoveryImplementsMap == Spec => ImplementsTopicMap
<1>1. Init => Map!Init
  BY NothingRegistered DEF Init, NoEntries, Map!Init
<1>2. TypeOK /\ [Next]_vars => [Map!Next]_[t \in Topics |-> AddressOf(entries, t)]
  BY NextIsRegistryStep, RegistryStepMaps DEF TypeOK
<1> QED
  BY <1>1, <1>2, DiscoveryTypes, PTL DEF Spec, ImplementsTopicMap, Map!Spec
=============================================================================
