---------------------------- MODULE LookupProofs ----------------------------
(***************************************************************************)
(* What a lookup finds and when a registry is silent, for every number of  *)
(* lookers, registries, ports and tries.                                   *)
(***************************************************************************)
EXTENDS Lookup, TLAPS

\* An answer to the lookup in progress comes from a registry that ran since
\* it began: a registry in hand of a datagram runs, and what runs is in ran.
RanInv ==
    /\ \A r \in Registry :
          /\ thread[r] \in {"check", "recvfrom", "answer"} => r \in Running
          /\ \A l \in Looker : r \in Running => r \in ran[l]
    /\ \A l \in Looker : \A r \in Registry :
          looker[l] \in {"asking", "waiting"} /\ fresh[l] =>
              /\ <<port[l], r>> \in answers => r \in ran[l]
              /\ thread[r] = "answer" /\ asker[r] = port[l] => r \in ran[l]

\* An answer after quit_ is the thread's last one.
LateInv ==
    \A r \in Registry :
        /\ late[r] <= 1
        /\ ~ quit[r] => late[r] = 0
        /\ thread[r] \in {"recvfrom", "answer"} => late[r] = 0

\* What is in progress has a port.
BusyInv ==
    /\ \A l \in Looker :
          looker[l] \in {"asking", "waiting"} =>
              port[l] \in Port /\ tries[l] < MaxTries
    /\ \A r \in Registry : thread[r] = "answer" => asker[r] \in Port

IInv == TypeOK /\ BusyInv /\ RanInv /\ FoundWasRunning /\ LateInv

LEMMA TypeStep ==
    ASSUME IInv, [Next]_vars
    PROVE  TypeOK'
<1> USE DEF IInv, TypeOK, BusyInv, lookerVars, serverVars, network, history
<1>1. ASSUME NEW l \in Looker, Lookup(l)
      PROVE  TypeOK'
  BY TriesAssumption, <1>1 DEF Lookup, Running
<1>2. ASSUME NEW l \in Looker, SendMessage(l)
      PROVE  TypeOK'
  <2>1. /\ looker' \in [Looker ->
              {"idle", "asking", "waiting", "found", "failed"}]
        /\ port' \in [Looker -> Port \cup {None}]
    BY <1>2 DEF SendMessage, End
  <2>2. questions' \subseteq Port \X Registry
    <3>1. CASE UNCHANGED questions
      BY <3>1
    <3>2. CASE \E reached \in SUBSET Registry :
                  questions' = questions \cup ({port[l]} \X reached)
      <4>1. port[l] \in Port
        BY <1>2 DEF SendMessage, BusyInv
      <4> QED
        BY <3>2, <4>1
    <3> QED
      BY <1>2, <3>1, <3>2 DEF SendMessage
  <2> QED
    BY <1>2, <2>1, <2>2 DEF SendMessage
<1>3. ASSUME NEW l \in Looker, GetResponse(l)
      PROVE  TypeOK'
  BY <1>3 DEF GetResponse, End
<1>4. ASSUME NEW l \in Looker, Timeout(l)
      PROVE  TypeOK'
  BY TriesAssumption, <1>4 DEF Timeout, End
<1>5. ASSUME NEW r \in Registry, Start(r)
      PROVE  TypeOK'
  BY <1>5 DEF Start
<1>6. ASSUME NEW r \in Registry, CheckQuit(r)
      PROVE  TypeOK'
  BY <1>6 DEF CheckQuit
<1>7. ASSUME NEW r \in Registry, Receive(r)
      PROVE  TypeOK'
  BY <1>7 DEF Receive
<1>8. ASSUME NEW r \in Registry, Answer(r)
      PROVE  TypeOK'
  BY <1>8 DEF Answer
<1>9. ASSUME NEW r \in Registry, Stop(r)
      PROVE  TypeOK'
  BY <1>9 DEF Stop
<1>10. ASSUME NEW r \in Registry, Joined(r)
      PROVE  TypeOK'
  BY <1>10 DEF Joined
<1>11. ASSUME NEW r \in Registry, Die(r)
      PROVE  TypeOK'
  BY <1>11 DEF Die
<1>12. CASE UNCHANGED vars
  BY <1>12 DEF vars
<1> QED
  BY <1>1, <1>2, <1>3, <1>4, <1>5, <1>6, <1>7, <1>8, <1>9,
     <1>10, <1>11, <1>12 DEF Next, LookerStep, ThreadStep

LEMMA BusyStep ==
    ASSUME IInv, [Next]_vars
    PROVE  BusyInv'
<1> USE DEF IInv, TypeOK, lookerVars, serverVars, network, history, BusyInv
<1>1. ASSUME NEW l \in Looker, Lookup(l)
      PROVE  BusyInv'
  BY TriesAssumption, <1>1 DEF Lookup
<1>2. ASSUME NEW l \in Looker, SendMessage(l)
      PROVE  BusyInv'
  BY <1>2 DEF SendMessage, End
<1>3. ASSUME NEW l \in Looker, GetResponse(l)
      PROVE  BusyInv'
  BY <1>3 DEF GetResponse, End
<1>4. ASSUME NEW l \in Looker, Timeout(l)
      PROVE  BusyInv'
  BY TriesAssumption, <1>4 DEF Timeout, End
<1>5. ASSUME NEW r \in Registry, Start(r)
      PROVE  BusyInv'
  BY <1>5 DEF Start
<1>6. ASSUME NEW r \in Registry, CheckQuit(r)
      PROVE  BusyInv'
  BY <1>6 DEF CheckQuit
<1>7. ASSUME NEW r \in Registry, Receive(r)
      PROVE  BusyInv'
  BY <1>7 DEF Receive
<1>8. ASSUME NEW r \in Registry, Answer(r)
      PROVE  BusyInv'
  BY <1>8 DEF Answer
<1>9. ASSUME NEW r \in Registry, Stop(r)
      PROVE  BusyInv'
  BY <1>9 DEF Stop
<1>10. ASSUME NEW r \in Registry, Joined(r)
      PROVE  BusyInv'
  BY <1>10 DEF Joined
<1>11. ASSUME NEW r \in Registry, Die(r)
      PROVE  BusyInv'
  BY <1>11 DEF Die
<1>12. CASE UNCHANGED vars
  BY <1>12 DEF vars
<1> QED
  BY <1>1, <1>2, <1>3, <1>4, <1>5, <1>6, <1>7, <1>8, <1>9,
     <1>10, <1>11, <1>12 DEF Next, LookerStep, ThreadStep

LEMMA RanStep ==
    ASSUME IInv, [Next]_vars
    PROVE  RanInv'
<1> USE DEF IInv, TypeOK, lookerVars, serverVars, network, history,
            RanInv, Running
<1>1. ASSUME NEW l \in Looker, Lookup(l)
      PROVE  RanInv'
  BY <1>1 DEF Lookup, Traffic
<1>2. ASSUME NEW l \in Looker, SendMessage(l)
      PROVE  RanInv'
  BY <1>2 DEF SendMessage, End
<1>3. ASSUME NEW l \in Looker, GetResponse(l)
      PROVE  RanInv'
  BY <1>3 DEF GetResponse, End
<1>4. ASSUME NEW l \in Looker, Timeout(l)
      PROVE  RanInv'
  BY <1>4 DEF Timeout, End
<1>5. ASSUME NEW r \in Registry, Start(r)
      PROVE  RanInv'
  BY <1>5 DEF Start
<1>6. ASSUME NEW r \in Registry, CheckQuit(r)
      PROVE  RanInv'
  BY <1>6 DEF CheckQuit
<1>7. ASSUME NEW r \in Registry, Receive(r)
      PROVE  RanInv'
  BY <1>7 DEF Receive
<1>8. ASSUME NEW r \in Registry, Answer(r)
      PROVE  RanInv'
  BY <1>8 DEF Answer
<1>9. ASSUME NEW r \in Registry, Stop(r)
      PROVE  RanInv'
  BY <1>9 DEF Stop
<1>10. ASSUME NEW r \in Registry, Joined(r)
      PROVE  RanInv'
  BY <1>10 DEF Joined
<1>11. ASSUME NEW r \in Registry, Die(r)
      PROVE  RanInv'
  BY <1>11 DEF Die
<1>12. CASE UNCHANGED vars
  BY <1>12 DEF vars
<1> QED
  BY <1>1, <1>2, <1>3, <1>4, <1>5, <1>6, <1>7, <1>8, <1>9,
     <1>10, <1>11, <1>12 DEF Next, LookerStep, ThreadStep

LEMMA FoundStep ==
    ASSUME IInv, [Next]_vars
    PROVE  FoundWasRunning'
<1> USE DEF IInv, TypeOK, lookerVars, serverVars, network, history,
            RanInv, FoundWasRunning
<1>1. ASSUME NEW l \in Looker, Lookup(l)
      PROVE  FoundWasRunning'
  BY <1>1 DEF Lookup
<1>2. ASSUME NEW l \in Looker, SendMessage(l)
      PROVE  FoundWasRunning'
  BY <1>2 DEF SendMessage, End
<1>3. ASSUME NEW l \in Looker, GetResponse(l)
      PROVE  FoundWasRunning'
  BY <1>3 DEF GetResponse, End
<1>4. ASSUME NEW l \in Looker, Timeout(l)
      PROVE  FoundWasRunning'
  BY <1>4 DEF Timeout, End
<1>5. ASSUME NEW r \in Registry, Start(r)
      PROVE  FoundWasRunning'
  BY <1>5 DEF Start
<1>6. ASSUME NEW r \in Registry, CheckQuit(r)
      PROVE  FoundWasRunning'
  BY <1>6 DEF CheckQuit
<1>7. ASSUME NEW r \in Registry, Receive(r)
      PROVE  FoundWasRunning'
  BY <1>7 DEF Receive
<1>8. ASSUME NEW r \in Registry, Answer(r)
      PROVE  FoundWasRunning'
  BY <1>8 DEF Answer
<1>9. ASSUME NEW r \in Registry, Stop(r)
      PROVE  FoundWasRunning'
  BY <1>9 DEF Stop
<1>10. ASSUME NEW r \in Registry, Joined(r)
      PROVE  FoundWasRunning'
  BY <1>10 DEF Joined
<1>11. ASSUME NEW r \in Registry, Die(r)
      PROVE  FoundWasRunning'
  BY <1>11 DEF Die
<1>12. CASE UNCHANGED vars
  BY <1>12 DEF vars
<1> QED
  BY <1>1, <1>2, <1>3, <1>4, <1>5, <1>6, <1>7, <1>8, <1>9,
     <1>10, <1>11, <1>12 DEF Next, LookerStep, ThreadStep

LEMMA LateStep ==
    ASSUME IInv, [Next]_vars
    PROVE  LateInv'
<1> USE DEF IInv, TypeOK, lookerVars, serverVars, network, history, LateInv
<1>1. ASSUME NEW l \in Looker, Lookup(l)
      PROVE  LateInv'
  BY <1>1 DEF Lookup
<1>2. ASSUME NEW l \in Looker, SendMessage(l)
      PROVE  LateInv'
  BY <1>2 DEF SendMessage
<1>3. ASSUME NEW l \in Looker, GetResponse(l)
      PROVE  LateInv'
  BY <1>3 DEF GetResponse
<1>4. ASSUME NEW l \in Looker, Timeout(l)
      PROVE  LateInv'
  BY <1>4 DEF Timeout
<1>5. ASSUME NEW r \in Registry, Start(r)
      PROVE  LateInv'
  BY <1>5 DEF Start
<1>6. ASSUME NEW r \in Registry, CheckQuit(r)
      PROVE  LateInv'
  BY <1>6 DEF CheckQuit
<1>7. ASSUME NEW r \in Registry, Receive(r)
      PROVE  LateInv'
  BY <1>7 DEF Receive
<1>8. ASSUME NEW r \in Registry, Answer(r)
      PROVE  LateInv'
  BY <1>8 DEF Answer
<1>9. ASSUME NEW r \in Registry, Stop(r)
      PROVE  LateInv'
  BY <1>9 DEF Stop
<1>10. ASSUME NEW r \in Registry, Joined(r)
      PROVE  LateInv'
  BY <1>10 DEF Joined
<1>11. ASSUME NEW r \in Registry, Die(r)
      PROVE  LateInv'
  BY <1>11 DEF Die
<1>12. CASE UNCHANGED vars
  BY <1>12 DEF vars
<1> QED
  BY <1>1, <1>2, <1>3, <1>4, <1>5, <1>6, <1>7, <1>8, <1>9,
     <1>10, <1>11, <1>12 DEF Next, LookerStep, ThreadStep

THEOREM Invariant == Spec => []IInv
<1>1. Init => IInv
  BY TriesAssumption DEF Init, IInv, TypeOK, BusyInv, RanInv, Running,
     FoundWasRunning, LateInv
<1>2. IInv /\ [Next]_vars => IInv'
  BY TypeStep, BusyStep, RanStep, FoundStep, LateStep DEF IInv
<1> QED
  BY <1>1, <1>2, PTL DEF Spec

(***************************************************************************)
(* The address that a lookup finds is that of a registry which ran since   *)
(* the lookup began, unless it was given the port of an earlier lookup to  *)
(* which an answer was under way.                                          *)
(***************************************************************************)
THEOREM LookupFindsRunning == Spec => []FoundWasRunning
<1>1. IInv => FoundWasRunning
  BY DEF IInv
<1> QED
  BY <1>1, Invariant, PTL

\* A registry that stops answers at most one more lookup.
THEOREM LastAnswer == Spec => []OneLateAnswer
<1>1. IInv => OneLateAnswer
  BY DEF IInv, LateInv, OneLateAnswer
<1> QED
  BY <1>1, Invariant, PTL

\* The variables keep their types: no lookup asks more often than MaxTries.
THEOREM TypeCorrect == Spec => []TypeOK
<1>1. IInv => TypeOK
  BY DEF IInv
<1> QED
  BY <1>1, Invariant, PTL
=============================================================================
