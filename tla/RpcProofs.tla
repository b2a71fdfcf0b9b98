----------------------------- MODULE RpcProofs -----------------------------
(***************************************************************************)
(* Which response a call gets, how often a call is executed and what a     *)
(* success means, for every number of calls and of broadcasts.             *)
(***************************************************************************)
EXTENDS Rpc, FiniteSetTheorems, TLAPS

Asking == [call : Nat, ask : Question]
Execution == [call : Nat, code : {"ok", "handler"}]

PlaceInv == pc = "waiting" => calls > 0 /\ calls \in sent

\* Every message but a broadcast belongs to a call whose request was sent, and
\* a call that is reported as kSendError was not.
CallsInv ==
    /\ \A i \in 1 .. Len(requests) :
          requests[i].call \in sent /\ requests[i].ask = asked[requests[i].call]
    /\ \A i \in 1 .. Len(responses) : responses[i].call \in sent \cup {0}
    /\ \A i \in 1 .. Len(executed) : executed[i].call \in sent
    /\ \A n \in 1 .. Len(outcomes) :
          /\ outcomes[n].answers \in sent \cup {0}
          /\ n \in sent => outcomes[n].code # "send"

\* The calls that may still be answered, and those that have no answer yet.
Pending == {i \in sent : \A n \in 1 .. Len(outcomes) : outcomes[n].answers < i}
Open == {i \in sent : i <= Len(outcomes) => outcomes[i].answers = 0}

\* Messages in the order of the calls, the broadcasts left aside, and messages
\* that all belong to earlier calls than others.
Ordered(s) ==
    \A i, j \in 1 .. Len(s) : i < j /\ s[j].call # 0 => s[i].call < s[j].call

Before(s, t) ==
    \A i \in 1 .. Len(s), j \in 1 .. Len(t) : s[i].call < t[j].call

\* What is under way is in the order of the calls and behind what was answered.
UnderWayInv ==
    /\ Ordered(requests) /\ Ordered(responses) /\ Before(responses, requests)
    /\ \A i \in 1 .. Len(requests) : requests[i].call \in Pending
    /\ \A i \in 1 .. Len(responses) : responses[i].call \in Pending \cup {0}

\* Every call that may still be answered makes up for one without an answer.
CountInv == Cardinality(Pending) <= Cardinality(Open)

OnceInv == Before(executed, requests)

\* The calls whose success is the object's, and the others of which none is claimed.
Done == {a \in 1 .. calls :
            asked[a].kind = "text" /\ asked[a].target # "nameless" =>
                \E i \in 1 .. Len(executed) : executed[i] = [call |-> a, code |-> "ok"]}

Claims(r) == r.call # 0 /\ r.body \in {"result", "neither"}

DoneInv ==
    \A i \in 1 .. Len(responses) : Claims(responses[i]) => responses[i].call \in Done

IInv ==
    /\ TypeOK /\ PlaceInv /\ CallsInv
    /\ UnderWayInv /\ CountInv /\ AnswersInOrder
    /\ OnceInv /\ AtMostOnce
    /\ DoneInv /\ SuccessMeansDone

-----------------------------------------------------------------------------
(* Sequences *)

\* t is s with x at its end.
Grown(t, s, x) ==
    /\ Len(t) = Len(s) + 1
    /\ \A i \in 1 .. Len(s) : t[i] = s[i]
    /\ t[Len(s) + 1] = x

\* t is a part of s.
Part(t, s) ==
    \E k \in Nat : \A i \in 1 .. Len(t) : i + k \in 1 .. Len(s) /\ t[i] = s[i + k]

LEMMA Appended ==
    ASSUME NEW S, NEW s \in Seq(S), NEW x \in S
    PROVE  /\ Append(s, x) \in Seq(S)
           /\ Grown(Append(s, x), s, x)
BY DEF Grown

LEMMA Shortened ==
    ASSUME NEW S, NEW s \in Seq(S), s # <<>>
    PROVE  /\ Tail(s) \in Seq(S)
           /\ Len(s) \in Nat /\ Len(s) > 0
           /\ Len(Tail(s)) = Len(s) - 1
           /\ \A i \in 1 .. Len(s) - 1 : Tail(s)[i] = s[i + 1]
           /\ Head(s) = s[1] /\ s[1] \in S
OBVIOUS

LEMMA IsPart ==
    ASSUME NEW S, NEW s \in Seq(S), NEW m \in 1 .. Len(s) + 1, NEW n \in 0 .. Len(s)
    PROVE  /\ SubSeq(s, m, n) \in Seq(S)
           /\ Part(SubSeq(s, m, n), s)
<1>1. Len(s) \in Nat
  OBVIOUS
<1>2. /\ SubSeq(s, m, n) \in Seq(S)
      /\ Len(SubSeq(s, m, n)) = IF m <= n THEN n - m + 1 ELSE 0
      /\ \A i \in 1 .. n - m + 1 : SubSeq(s, m, n)[i] = s[m + i - 1]
  BY <1>1
<1>3. \A i \in 1 .. Len(SubSeq(s, m, n)) :
         i + (m - 1) \in 1 .. Len(s) /\ SubSeq(s, m, n)[i] = s[i + (m - 1)]
  BY <1>1, <1>2
<1>4. m - 1 \in Nat
  BY <1>1
<1> QED
  BY <1>2, <1>3, <1>4 DEF Part

LEMMA WholePart ==
    ASSUME NEW S, NEW s \in Seq(S)
    PROVE  Part(s, s)
<1>1. \A i \in 1 .. Len(s) : i + 0 \in 1 .. Len(s) /\ s[i] = s[i + 0]
  OBVIOUS
<1> QED
  BY <1>1 DEF Part

LEMMA EmptyPart ==
    ASSUME NEW S, NEW s \in Seq(S)
    PROVE  Part(<<>>, s)
BY DEF Part

LEMMA TailPart ==
    ASSUME NEW S, NEW s \in Seq(S), s # <<>>
    PROVE  Part(Tail(s), s)
<1>1. \A i \in 1 .. Len(Tail(s)) : i + 1 \in 1 .. Len(s) /\ Tail(s)[i] = s[i + 1]
  BY Shortened
<1> QED
  BY <1>1 DEF Part

-----------------------------------------------------------------------------
(* What the steps do *)

\* Execute.
Sends(q) ==
    /\ pc = "idle" /\ pc' = "waiting"
    /\ Grown(asked', asked, q)
    /\ sent' = sent \cup {calls + 1}
    /\ \/ requests' = requests
       \/ Grown(requests', requests, [call |-> calls + 1, ask |-> q])
    /\ UNCHANGED <<responses, executed, outcomes>>

\* ExecuteFails and ExecuteThrows.
Refuses(q, code) ==
    /\ pc = "idle" /\ pc' = "idle"
    /\ Grown(asked', asked, q)
    /\ Grown(outcomes', outcomes, [kind |-> q.kind, code |-> code, answers |-> 0])
    /\ UNCHANGED <<sent, requests, responses, executed>>

\* A call comes back from receive_response.
Ends(code, a) ==
    /\ pc = "waiting" /\ pc' = "idle"
    /\ Grown(outcomes', outcomes, [kind |-> kind, code |-> code, answers |-> a])
    /\ Part(responses', responses)
    /\ UNCHANGED <<asked, sent, requests, executed>>

\* Receive.
Takes(code) ==
    /\ Ends(code, responses[1].call)
    /\ Len(responses) > 0
    /\ \A i \in 1 .. Len(responses') :
          i + 1 \in 1 .. Len(responses) /\ responses'[i] = responses[i + 1]
    /\ kind = "text" /\ code = "ok" => responses[1].body \in {"result", "neither"}

\* Serve and ServeNameless.
Serves(body) ==
    /\ Len(requests) > 0
    /\ \A i \in 1 .. Len(requests') :
          i + 1 \in 1 .. Len(requests) /\ requests'[i] = requests[i + 1]
    /\ \/ responses' = responses
       \/ Grown(responses', responses, [call |-> requests[1].call, body |-> body])
    /\ \/ executed' = executed
       \/ \E code \in {"ok", "handler"} :
             Grown(executed', executed, [call |-> requests[1].call, code |-> code])
    /\ LET q == requests[1].ask IN
       body \in {"result", "neither"} /\ q.kind = "text" /\ q.target # "nameless"
       => Grown(executed', executed, [call |-> requests[1].call, code |-> "ok"])
    /\ UNCHANGED <<pc, asked, sent, outcomes>>

\* Broadcast and HubGoes, and a step of something else.
Passes ==
    /\ Part(requests', requests)
    /\ \/ Part(responses', responses)
       \/ \E body \in Body : Grown(responses', responses, [call |-> 0, body |-> body])
    /\ UNCHANGED <<pc, asked, sent, executed, outcomes>>

LEMMA Types ==
    ASSUME TypeOK
    PROVE  /\ asked \in Seq(Question) /\ calls \in Nat /\ Len(asked) = calls
           /\ requests \in Seq(Asking) /\ Len(requests) \in Nat
           /\ \A i \in 1 .. Len(requests) :
                 /\ requests[i] \in Asking /\ requests[i].call \in Nat
                 /\ requests[i].ask \in Question
           /\ responses \in Seq(Response) /\ Len(responses) \in Nat
           /\ \A i \in 1 .. Len(responses) :
                 responses[i] \in Response /\ responses[i].call \in Nat
           /\ executed \in Seq(Execution) /\ Len(executed) \in Nat
           /\ \A i \in 1 .. Len(executed) : executed[i].call \in Nat
           /\ outcomes \in Seq(Outcome) /\ Len(outcomes) \in Nat
           /\ \A n \in 1 .. Len(outcomes) :
                 outcomes[n] \in Outcome /\ outcomes[n].answers \in Nat
           /\ sent \subseteq 1 .. calls
           /\ pc = "idle" => Len(outcomes) = calls
           /\ pc = "waiting" => Len(outcomes) + 1 = calls
<1>1. /\ asked \in Seq(Question) /\ calls \in Nat /\ Len(asked) = calls
      /\ requests \in Seq(Asking) /\ Len(requests) \in Nat
      /\ responses \in Seq(Response) /\ Len(responses) \in Nat
      /\ executed \in Seq(Execution) /\ Len(executed) \in Nat
      /\ outcomes \in Seq(Outcome) /\ Len(outcomes) \in Nat
      /\ sent \subseteq 1 .. calls
      /\ pc = "idle" => Len(outcomes) = calls
      /\ pc = "waiting" => Len(outcomes) + 1 = calls
  BY DEF TypeOK, calls, Asking, Execution
<1>2. \A i \in 1 .. Len(requests) : requests[i] \in Asking
  BY <1>1
<1>3. \A r \in Asking : r.call \in Nat /\ r.ask \in Question
  BY DEF Asking
<1>4. \A i \in 1 .. Len(responses) : responses[i] \in Response
  BY <1>1
<1>5. \A r \in Response : r.call \in Nat
  BY DEF Response
<1>6. \A i \in 1 .. Len(executed) : executed[i] \in Execution
  BY <1>1
<1>7. \A r \in Execution : r.call \in Nat
  BY DEF Execution
<1>8. \A n \in 1 .. Len(outcomes) : outcomes[n] \in Outcome
  BY <1>1
<1>9. \A o \in Outcome : o.answers \in Nat
  BY DEF Outcome
<1> QED
  BY <1>1, <1>2, <1>3, <1>4, <1>5, <1>6, <1>7, <1>8, <1>9

\* execute returns: an outcome is added.
LEMMA Returned ==
    ASSUME TypeOK, NEW k \in Kind, NEW code \in Code, NEW a \in Nat,
           Return(k, code, a)
    PROVE  /\ outcomes' \in Seq(Outcome)
           /\ Grown(outcomes', outcomes, [kind |-> k, code |-> code, answers |-> a])
           /\ pc' = "idle"
<1> DEFINE o == [kind |-> k, code |-> code, answers |-> a]
<1>1. o \in Outcome /\ outcomes \in Seq(Outcome)
  BY DEF TypeOK, Outcome
<1>2. outcomes' = Append(outcomes, o) /\ pc' = "idle"
  BY DEF Return
<1> HIDE DEF o
<1>3. outcomes' \in Seq(Outcome) /\ Grown(outcomes', outcomes, o)
  BY <1>1, <1>2, Appended
<1> QED
  BY <1>2, <1>3 DEF o

\* A call is added to what was asked.
LEMMA Asked ==
    ASSUME TypeOK, NEW q \in Question, Calls(q)
    PROVE  /\ asked' \in Seq(Question) /\ Grown(asked', asked, q)
           /\ pc = "idle" /\ calls < MaxCalls /\ calls' = calls + 1
           /\ q.kind \in Kind
<1>1. asked \in Seq(Question) /\ asked' = Append(asked, q)
      /\ pc = "idle" /\ calls < MaxCalls
  BY DEF TypeOK, Calls
<1>2. asked' \in Seq(Question) /\ Grown(asked', asked, q)
  BY <1>1, Appended
<1> QED
  BY <1>1, <1>2 DEF Grown, calls, Question

\* While the client waits, it has asked.
LEMMA WaitingKind ==
    ASSUME TypeOK, PlaceInv, pc = "waiting"
    PROVE  kind \in Kind
<1>1. asked \in Seq(Question) /\ calls \in 1 .. Len(asked)
  BY Types DEF PlaceInv
<1>2. asked[calls] \in Question
  BY <1>1
<1> QED
  BY <1>2 DEF kind, Question

LEMMA ExecuteEffect ==
    ASSUME TypeOK, NEW q \in Question, Execute(q)
    PROVE  Sends(q) /\ requests' \in Seq(Asking)
<1> DEFINE r == [call |-> calls + 1, ask |-> q]
<1>1. r \in Asking /\ requests \in Seq(Asking)
  BY Types DEF Asking
<1>2. requests' = requests \/ requests' = Append(requests, r)
  BY DEF Execute, Request
<1> HIDE DEF r
<1>3. /\ requests' \in Seq(Asking)
      /\ requests' = requests \/ Grown(requests', requests, r)
  BY <1>1, <1>2, Appended
<1>4. Grown(asked', asked, q) /\ pc = "idle"
  BY Asked DEF Execute
<1>5. /\ pc' = "waiting" /\ sent' = sent \cup {calls + 1}
      /\ UNCHANGED <<responses, executed, outcomes>>
  BY DEF Execute
<1> QED
  BY <1>3, <1>4, <1>5 DEF Sends, r

LEMMA RefuseEffect ==
    ASSUME TypeOK, NEW q \in Question, ExecuteFails(q) \/ ExecuteThrows(q)
    PROVE  /\ \E code \in {"send", "internal"} : Refuses(q, code)
           /\ outcomes' \in Seq(Outcome)
<1>1. /\ Grown(asked', asked, q) /\ pc = "idle" /\ q.kind \in Kind
  BY Asked DEF ExecuteFails, ExecuteThrows
<1>2. UNCHANGED <<sent, requests, responses, executed>>
  BY DEF ExecuteFails, ExecuteThrows, hubVars
<1>3. PICK code \in {"send", "internal"} : Return(q.kind, code, 0)
  BY DEF ExecuteFails, ExecuteThrows
<1>4. code \in Code /\ 0 \in Nat
  BY <1>3 DEF Code
<1>5. /\ outcomes' \in Seq(Outcome) /\ pc' = "idle"
      /\ Grown(outcomes', outcomes, [kind |-> q.kind, code |-> code, answers |-> 0])
  BY <1>1, <1>3, <1>4, Returned
<1> QED
  BY <1>1, <1>2, <1>3, <1>5 DEF Refuses

LEMMA ReceiveEffect ==
    ASSUME TypeOK, PlaceInv, Receive
    PROVE  /\ \E code \in {"ok", "handler", "parse"} : Takes(code)
           /\ outcomes' \in Seq(Outcome) /\ responses' \in Seq(Response)
<1> DEFINE r == responses[1]
           code == IF kind = "text" THEN ParseCode(r) ELSE "ok"
<1>1. /\ responses # <<>> /\ responses' = Tail(responses) /\ pc = "waiting"
      /\ UNCHANGED <<asked, sent, requests, executed>>
      /\ responses \in Seq(Response)
  BY Types DEF Receive, hubVars
<1>2. /\ responses' \in Seq(Response) /\ Part(responses', responses)
      /\ Len(responses) \in Nat /\ Len(responses) > 0
      /\ Len(responses') = Len(responses) - 1
      /\ \A i \in 1 .. Len(responses) - 1 : responses'[i] = responses[i + 1]
      /\ Head(responses) = r /\ r \in Response
  BY <1>1, Shortened, TailPart
<1>3. \A i \in 1 .. Len(responses') :
         i + 1 \in 1 .. Len(responses) /\ responses'[i] = responses[i + 1]
  BY <1>2
<1>4. kind \in Kind
  BY <1>1, WaitingKind
<1>5. Return(kind, code, r.call)
  BY <1>2 DEF Receive
<1>6. /\ code \in {"ok", "handler", "parse"} /\ r.call \in Nat
      /\ kind = "text" /\ code = "ok" => r.body \in {"result", "neither"}
  BY <1>2 DEF ParseCode, Response, Body
<1> HIDE DEF code
<1>7. code \in Code
  BY <1>6 DEF Code
<1>8. /\ outcomes' \in Seq(Outcome) /\ pc' = "idle"
      /\ Grown(outcomes', outcomes, [kind |-> kind, code |-> code, answers |-> r.call])
  BY <1>4, <1>5, <1>6, <1>7, Returned
<1>9. Ends(code, r.call)
  BY <1>1, <1>2, <1>8 DEF Ends
<1>10. Takes(code)
  BY <1>2, <1>3, <1>6, <1>9 DEF Takes
<1> QED
  BY <1>2, <1>6, <1>8, <1>10

NoAnswer == {"timeout", "closed", "receive", "internal"}

LEMMA FailEffect ==
    ASSUME TypeOK, PlaceInv, ReceiveTimesOut \/ ReceiveFails \/ ReceiveThrows
    PROVE  /\ \E code \in NoAnswer : Ends(code, 0)
           /\ outcomes' \in Seq(Outcome) /\ responses' \in Seq(Response)
<1>1. /\ pc = "waiting" /\ UNCHANGED <<asked, sent, requests, executed>>
      /\ responses \in Seq(Response) /\ Len(responses) \in Nat
  BY Types DEF ReceiveTimesOut, ReceiveFails, ReceiveThrows, hubVars
<1>2. kind \in Kind
  BY <1>1, WaitingKind
<1>3. PICK code \in NoAnswer : Return(kind, code, 0)
  BY DEF ReceiveTimesOut, ReceiveFails, ReceiveThrows, NoAnswer
<1>4. code \in Code /\ 0 \in Nat
  BY <1>3 DEF Code, NoAnswer
<1>5. /\ outcomes' \in Seq(Outcome) /\ pc' = "idle"
      /\ Grown(outcomes', outcomes, [kind |-> kind, code |-> code, answers |-> 0])
  BY <1>2, <1>3, <1>4, Returned
<1>6. responses' \in Seq(Response) /\ Part(responses', responses)
  <2>1. CASE ReceiveTimesOut
    BY <1>1, <2>1, WholePart DEF ReceiveTimesOut
  <2>2. CASE ReceiveFails
    BY <1>1, <2>2, EmptyPart DEF ReceiveFails
  <2>3. CASE ReceiveThrows
    <3>1. PICK n \in 1 .. Len(responses) + 1 :
             responses' = SubSeq(responses, n, Len(responses))
      BY <2>3 DEF ReceiveThrows
    <3> QED
      BY <1>1, <3>1, IsPart
  <2> QED
    BY <2>1, <2>2, <2>3
<1> QED
  BY <1>1, <1>3, <1>5, <1>6 DEF Ends

\* A message is sent to the client, or is not.
LEMMA RespondEffect ==
    ASSUME TypeOK, NEW c \in Nat, NEW body \in Body, Respond(c, body)
    PROVE  /\ responses' \in Seq(Response)
           /\ \/ responses' = responses
              \/ Grown(responses', responses, [call |-> c, body |-> body])
<1> DEFINE r == [call |-> c, body |-> body]
<1>1. r \in Response /\ responses \in Seq(Response)
  BY Types DEF Response
<1>2. responses' = responses \/ responses' = Append(responses, r)
  BY DEF Respond
<1> HIDE DEF r
<1>3. /\ responses' \in Seq(Response)
      /\ responses' = responses \/ Grown(responses', responses, r)
  BY <1>1, <1>2, Appended
<1> QED
  BY <1>3 DEF r

LEMMA ServeEffect ==
    ASSUME TypeOK, Serve \/ ServeNameless
    PROVE  /\ \E body \in Body : Serves(body)
           /\ requests' \in Seq(Asking) /\ responses' \in Seq(Response)
           /\ executed' \in Seq(Execution)
<1> DEFINE q == requests[1]
<1>1. /\ requests # <<>> /\ requests' = Tail(requests) /\ requests \in Seq(Asking)
      /\ UNCHANGED <<pc, asked, sent, outcomes>>
  BY Types DEF Serve, ServeNameless, clientVars
<1>2. /\ requests' \in Seq(Asking) /\ Len(requests) \in Nat /\ Len(requests) > 0
      /\ Len(requests') = Len(requests) - 1
      /\ \A i \in 1 .. Len(requests) - 1 : requests'[i] = requests[i + 1]
      /\ Head(requests) = q /\ q \in Asking
  BY <1>1, Shortened
<1>3. \A i \in 1 .. Len(requests') :
         i + 1 \in 1 .. Len(requests) /\ requests'[i] = requests[i + 1]
  BY <1>2
<1>4. /\ q.call \in Nat /\ q.ask \in Question
      /\ q.ask.kind \in Kind /\ q.ask.target \in Target
      /\ executed \in Seq(Execution)
  BY <1>2, Types DEF Asking, Question
<1>5. CASE Serve
  <2>1. PICK code \in Codes(q.ask.target) :
           /\ executed' = IF q.ask.target = "known"
                          THEN Append(executed, [call |-> q.call, code |-> code])
                          ELSE executed
           /\ \E body \in IF q.ask.kind = "text" THEN TextResponse(code)
                          ELSE BinaryResponse(code) :
                 Respond(q.call, body)
    BY <1>2, <1>5 DEF Serve
  <2>2. PICK body \in IF q.ask.kind = "text" THEN TextResponse(code)
                      ELSE BinaryResponse(code) :
           Respond(q.call, body)
    BY <2>1
  <2>3. code \in {"ok", "handler"}
    BY <2>1 DEF Codes
  <2>4. body \in Body
    BY <2>2, <2>3 DEF TextResponse, BinaryResponse, Body
  <2> DEFINE x == [call |-> q.call, code |-> code]
  <2>5. x \in Execution
    BY <1>4, <2>3 DEF Execution
  <2>6. executed' = IF q.ask.target = "known" THEN Append(executed, x) ELSE executed
    BY <2>1
  <2> HIDE DEF x
  <2>7. /\ executed' \in Seq(Execution)
        /\ q.ask.target = "known" => Grown(executed', executed, x)
        /\ q.ask.target # "known" => executed' = executed
    BY <1>4, <2>5, <2>6, Appended
  <2>8. body \in {"result", "neither"} /\ q.ask.kind = "text" /\ q.ask.target # "nameless"
        => q.ask.target = "known" /\ code = "ok"
    BY <1>4, <2>1, <2>2, <2>3 DEF TextResponse, Codes, Target
  <2>9. /\ responses' \in Seq(Response)
        /\ \/ responses' = responses
           \/ Grown(responses', responses, [call |-> q.call, body |-> body])
    BY <1>4, <2>2, <2>4, RespondEffect
  <2>10. Serves(body)
    BY <1>1, <1>2, <1>3, <2>3, <2>7, <2>8, <2>9 DEF Serves, x
  <2> QED
    BY <1>2, <2>4, <2>7, <2>9, <2>10
<1>6. CASE ServeNameless
  <2>1. PICK body \in {"neither", "bytes"} : Respond(q.call, body)
    BY <1>2, <1>6 DEF ServeNameless
  <2>2. executed' = executed /\ q.ask.target = "nameless" /\ body \in Body
    BY <1>2, <1>6, <2>1 DEF ServeNameless, Body
  <2>3. /\ responses' \in Seq(Response)
        /\ \/ responses' = responses
           \/ Grown(responses', responses, [call |-> q.call, body |-> body])
    BY <1>4, <2>1, <2>2, RespondEffect
  <2>4. Serves(body)
    BY <1>1, <1>2, <1>3, <2>2, <2>3 DEF Serves
  <2> QED
    BY <1>2, <1>4, <2>2, <2>3, <2>4
<1> QED
  BY <1>5, <1>6

LEMMA PassEffect ==
    ASSUME TypeOK, Broadcast \/ HubGoes \/ UNCHANGED vars
    PROVE  Passes /\ requests' \in Seq(Asking) /\ responses' \in Seq(Response)
<1>1. /\ requests \in Seq(Asking) /\ responses \in Seq(Response)
      /\ Len(responses) \in Nat
      /\ Part(requests, requests) /\ Part(responses, responses)
      /\ Part(<<>>, requests)
  BY Types, WholePart, EmptyPart
<1>2. UNCHANGED <<pc, asked, sent, executed, outcomes>>
  BY DEF Broadcast, HubGoes, vars, clientVars, hubVars
<1>3. CASE Broadcast
  <2>1. PICK body \in Body : Respond(0, body)
    BY <1>3 DEF Broadcast
  <2>2. /\ responses' \in Seq(Response)
        /\ \/ responses' = responses
           \/ Grown(responses', responses, [call |-> 0, body |-> body])
    BY <2>1, RespondEffect
  <2>3. requests' = requests
    BY <1>3 DEF Broadcast
  <2> QED
    BY <1>1, <1>2, <2>1, <2>2, <2>3 DEF Passes
<1>4. CASE HubGoes
  <2>1. PICK n \in 0 .. Len(responses) : responses' = SubSeq(responses, 1, n)
    BY <1>4 DEF HubGoes
  <2>2. requests' = <<>> /\ 1 \in 1 .. Len(responses) + 1
    BY <1>1, <1>4 DEF HubGoes
  <2>3. responses' \in Seq(Response) /\ Part(responses', responses)
    BY <1>1, <2>1, <2>2, IsPart
  <2> QED
    BY <1>1, <1>2, <2>2, <2>3 DEF Passes
<1>5. CASE UNCHANGED vars
  BY <1>1, <1>2, <1>5 DEF Passes, vars, hubVars
<1> QED
  BY <1>3, <1>4, <1>5

\* Every step has one of these forms.
LEMMA StepForm ==
    ASSUME TypeOK, PlaceInv, [Next]_vars
    PROVE  \/ \E q \in Question : Sends(q)
           \/ \E q \in Question, code \in {"send", "internal"} : Refuses(q, code)
           \/ \E code \in {"ok", "handler", "parse"} : Takes(code)
           \/ \E code \in NoAnswer : Ends(code, 0)
           \/ \E body \in Body : Serves(body)
           \/ Passes
BY ExecuteEffect, RefuseEffect, ReceiveEffect, FailEffect, ServeEffect, PassEffect
   DEF Next

\* The type invariant is preserved.
LEMMA TypeStep ==
    ASSUME TypeOK, PlaceInv, [Next]_vars
    PROVE  TypeOK'
<1>0. /\ MaxCalls \in Nat /\ MaxBroadcasts \in Nat /\ calls <= MaxCalls
      /\ clientUp \in BOOLEAN /\ parted \in BOOLEAN /\ hubUp \in BOOLEAN
      /\ broadcasts \in 0 .. MaxBroadcasts
  BY RpcAssumption DEF TypeOK
<1>1. clientUp' \in BOOLEAN /\ parted' \in BOOLEAN
  BY <1>0 DEF Next, Execute, ExecuteFails, ExecuteThrows, Receive, ReceiveTimesOut,
     ReceiveFails, ReceiveThrows, Serve, ServeNameless, Broadcast, HubGoes, vars, clientVars
<1>2. hubUp' \in BOOLEAN /\ broadcasts' \in 0 .. MaxBroadcasts
  <2>1. CASE Broadcast
    BY <1>0, <2>1 DEF Broadcast
  <2>2. hubUp' = hubUp \/ hubUp' = FALSE
    BY DEF Next, Execute, ExecuteFails, ExecuteThrows, Receive, ReceiveTimesOut,
       ReceiveFails, ReceiveThrows, Serve, ServeNameless, Broadcast, HubGoes, vars, hubVars
  <2>3. Broadcast \/ broadcasts' = broadcasts
    BY DEF Next, Execute, ExecuteFails, ExecuteThrows, Receive, ReceiveTimesOut,
       ReceiveFails, ReceiveThrows, Serve, ServeNameless, HubGoes, vars, hubVars
  <2> QED
    BY <1>0, <2>1, <2>2, <2>3
<1>3. /\ requests' \in Seq(Asking) /\ responses' \in Seq(Response)
      /\ executed' \in Seq(Execution) /\ outcomes' \in Seq(Outcome)
  <2>1. /\ requests \in Seq(Asking) /\ responses \in Seq(Response)
        /\ executed \in Seq(Execution) /\ outcomes \in Seq(Outcome)
    BY Types
  <2>2. ASSUME NEW q \in Question, Execute(q)
        PROVE  <1>3!:
    BY <2>1, <2>2, ExecuteEffect DEF Sends
  <2>3. ASSUME NEW q \in Question, ExecuteFails(q) \/ ExecuteThrows(q)
        PROVE  <1>3!:
    BY <2>1, <2>3, RefuseEffect DEF Refuses
  <2>4. CASE Receive
    BY <2>1, <2>4, ReceiveEffect DEF Takes, Ends
  <2>5. CASE ReceiveTimesOut \/ ReceiveFails \/ ReceiveThrows
    BY <2>1, <2>5, FailEffect DEF Ends
  <2>6. CASE Serve \/ ServeNameless
    BY <2>1, <2>6, ServeEffect DEF Serves
  <2>7. CASE Broadcast \/ HubGoes \/ UNCHANGED vars
    BY <2>1, <2>7, PassEffect DEF Passes
  <2> QED
    BY <2>2, <2>3, <2>4, <2>5, <2>6, <2>7 DEF Next
<1>4. \/ asked' = asked /\ calls' = calls
      \/ /\ pc = "idle" /\ asked' \in Seq(Question)
         /\ calls < MaxCalls /\ calls' = calls + 1
  <2>1. ASSUME NEW q \in Question, Calls(q)
        PROVE  <1>4!:
    BY <2>1, Asked
  <2>2. CASE asked' = asked
    BY <2>2 DEF calls
  <2> QED
    BY <2>1, <2>2 DEF Next, Execute, ExecuteFails, ExecuteThrows, Receive,
       ReceiveTimesOut, ReceiveFails, ReceiveThrows, Serve, ServeNameless,
       Broadcast, HubGoes, vars, clientVars
<1>5. /\ asked' \in Seq(Question) /\ calls' \in Nat /\ calls' <= MaxCalls
  BY <1>0, <1>4, Types
<1>6. /\ pc' \in {"idle", "waiting"} /\ sent' \subseteq 1 .. calls'
      /\ Len(outcomes') = IF pc' = "idle" THEN calls' ELSE calls' - 1
  <2>0. /\ calls \in Nat /\ Len(outcomes) \in Nat /\ sent \subseteq 1 .. calls
        /\ pc \in {"idle", "waiting"}
        /\ pc = "idle" => Len(outcomes) = calls
        /\ pc = "waiting" => Len(outcomes) + 1 = calls
    BY Types DEF TypeOK
  <2>1. ASSUME NEW q \in Question, Sends(q)
        PROVE  <1>6!:
    <3>1. calls' = calls + 1
      BY <2>1 DEF Sends, Grown, calls
    <3> QED
      BY <2>0, <2>1, <3>1 DEF Sends
  <2>2. ASSUME NEW q \in Question, NEW code, Refuses(q, code)
        PROVE  <1>6!:
    <3>1. calls' = calls + 1
      BY <2>2 DEF Refuses, Grown, calls
    <3>2. Len(outcomes') = Len(outcomes) + 1
      BY <2>2 DEF Refuses, Grown
    <3> QED
      BY <2>0, <2>2, <3>1, <3>2 DEF Refuses
  <2>3. ASSUME NEW code, NEW a, Ends(code, a)
        PROVE  <1>6!:
    <3>1. calls' = calls
      BY <2>3 DEF Ends, calls
    <3>2. Len(outcomes') = Len(outcomes) + 1
      BY <2>3 DEF Ends, Grown
    <3> QED
      BY <2>0, <2>3, <3>1, <3>2 DEF Ends
  <2>4. CASE UNCHANGED <<pc, asked, sent, outcomes>>
    BY <2>0, <2>4 DEF calls
  <2> QED
    BY <2>1, <2>2, <2>3, <2>4, StepForm DEF Takes, Serves, Passes
<1> QED
  BY <1>1, <1>2, <1>3, <1>5, <1>6 DEF TypeOK, Asking, Execution

\* A call that waits was sent.
LEMMA PlaceStep ==
    ASSUME TypeOK, PlaceInv, [Next]_vars
    PROVE  PlaceInv'
<1>1. ASSUME NEW q \in Question, Sends(q)
      PROVE  PlaceInv'
  <2>1. calls' = calls + 1 /\ calls \in Nat
    BY <1>1, Types DEF Sends, Grown, calls
  <2> QED
    BY <1>1, <2>1 DEF Sends, PlaceInv
<1>2. CASE UNCHANGED <<pc, asked, sent>>
  BY <1>2 DEF PlaceInv, calls
<1>3. CASE pc' = "idle"
  BY <1>3 DEF PlaceInv
<1> QED
  BY <1>1, <1>2, <1>3, StepForm DEF Refuses, Takes, Ends, Serves, Passes

-----------------------------------------------------------------------------
(* What was asked, sent, done and reported stays *)

\* Calls, executions and outcomes are only added to.
LEMMA Kept ==
    ASSUME TypeOK, PlaceInv, [Next]_vars
    PROVE  /\ calls <= calls' /\ \A n \in 1 .. calls : asked'[n] = asked[n]
           /\ sent \subseteq sent'
           /\ \A i \in sent' : i \in sent \/ i = calls + 1
           /\ Len(executed) <= Len(executed')
           /\ \A i \in 1 .. Len(executed) : executed'[i] = executed[i]
           /\ Len(outcomes) <= Len(outcomes')
           /\ \A n \in 1 .. Len(outcomes) : outcomes'[n] = outcomes[n]
<1> DEFINE Goal ==
    /\ calls <= calls' /\ \A n \in 1 .. calls : asked'[n] = asked[n]
    /\ sent \subseteq sent'
    /\ \A i \in sent' : i \in sent \/ i = calls + 1
    /\ Len(executed) <= Len(executed')
    /\ \A i \in 1 .. Len(executed) : executed'[i] = executed[i]
    /\ Len(outcomes) <= Len(outcomes')
    /\ \A n \in 1 .. Len(outcomes) : outcomes'[n] = outcomes[n]
<1>0. calls \in Nat /\ Len(executed) \in Nat /\ Len(outcomes) \in Nat
      /\ calls = Len(asked) /\ calls' = Len(asked')
  BY Types DEF calls
<1>1. ASSUME NEW q \in Question, Sends(q)
      PROVE  Goal
  BY <1>0, <1>1 DEF Sends, Grown
<1>2. ASSUME NEW q \in Question, NEW code, Refuses(q, code)
      PROVE  Goal
  BY <1>0, <1>2 DEF Refuses, Grown
<1>3. ASSUME NEW code, NEW a, Ends(code, a)
      PROVE  Goal
  BY <1>0, <1>3 DEF Ends, Grown
<1>4. ASSUME NEW body, Serves(body)
      PROVE  Goal
  BY <1>0, <1>4 DEF Serves, Grown
<1>5. ASSUME Passes
      PROVE  Goal
  BY <1>0, <1>5 DEF Passes
<1> HIDE DEF Goal
<1>6. ASSUME NEW code, Takes(code)
      PROVE  Goal
  BY <1>3, <1>6 DEF Takes
<1>7. Goal
  BY <1>1, <1>2, <1>3, <1>4, <1>5, <1>6, StepForm
<1> QED
  BY <1>7 DEF Goal

\* Where a request under way comes from.
LEMMA RequestsFrom ==
    ASSUME TypeOK, PlaceInv, [Next]_vars, NEW i \in 1 .. Len(requests')
    PROVE  \/ \E j \in 1 .. Len(requests) : requests'[i] = requests[j]
           \/ \E q \in Question :
                 Sends(q) /\ requests'[i] = [call |-> calls + 1, ask |-> q]
<1> DEFINE Old == \E j \in 1 .. Len(requests) : requests'[i] = requests[j]
<1>0. Len(requests) \in Nat
  BY Types
<1>1. requests' = requests => Old
  OBVIOUS
<1>2. ASSUME NEW q \in Question, Sends(q)
      PROVE  Old \/ requests'[i] = [call |-> calls + 1, ask |-> q]
  BY <1>0, <1>1, <1>2 DEF Sends, Grown
<1>3. ASSUME NEW body, Serves(body)
      PROVE  Old
  BY <1>3 DEF Serves
<1>4. Part(requests', requests) => Old
  BY DEF Part
<1> HIDE DEF Old
<1>5. (\E q \in Question, code \in {"send", "internal"} : Refuses(q, code)) => Old
  BY <1>1 DEF Refuses
<1>6. (\E code \in {"ok", "handler", "parse"} : Takes(code)) => Old
  BY <1>1 DEF Takes, Ends
<1>7. (\E code \in NoAnswer : Ends(code, 0)) => Old
  BY <1>1 DEF Ends
<1>8. Passes => Old
  BY <1>4 DEF Passes
<1>9. Old \/ \E q \in Question :
                Sends(q) /\ requests'[i] = [call |-> calls + 1, ask |-> q]
  BY <1>2, <1>3, <1>5, <1>6, <1>7, <1>8, StepForm
<1> QED
  BY <1>9 DEF Old

\* Where a message under way to the client comes from.
LEMMA ResponsesFrom ==
    ASSUME TypeOK, PlaceInv, [Next]_vars, NEW i \in 1 .. Len(responses')
    PROVE  \/ \E j \in 1 .. Len(responses) : responses'[i] = responses[j]
           \/ \E body \in Body :
                 Serves(body) /\ responses'[i] = [call |-> requests[1].call, body |-> body]
           \/ \E body \in Body : responses'[i] = [call |-> 0, body |-> body]
<1> DEFINE Old == \E j \in 1 .. Len(responses) : responses'[i] = responses[j]
           New == \E body \in Body :
                     /\ Serves(body)
                     /\ responses'[i] = [call |-> requests[1].call, body |-> body]
           Cast == \E body \in Body : responses'[i] = [call |-> 0, body |-> body]
<1>0. Len(responses) \in Nat
  BY Types
<1>1. responses' = responses => Old
  OBVIOUS
<1>2. Part(responses', responses) => Old
  BY DEF Part
<1>3. ASSUME NEW body \in Body, Serves(body)
      PROVE  Old \/ New
  <2>1. CASE responses' = responses
    BY <1>1, <2>1
  <2>2. CASE Grown(responses', responses, [call |-> requests[1].call, body |-> body])
    BY <1>0, <1>3, <2>2 DEF Grown
  <2> QED
    BY <1>3, <2>1, <2>2 DEF Serves
<1>4. ASSUME Passes
      PROVE  Old \/ Cast
  <2>1. ASSUME NEW body \in Body, Grown(responses', responses, [call |-> 0, body |-> body])
        PROVE  Old \/ Cast
    BY <1>0, <2>1 DEF Grown
  <2> QED
    BY <1>2, <1>4, <2>1 DEF Passes
<1> HIDE DEF Old, New, Cast
<1>5. (\E q \in Question : Sends(q)) => Old
  BY <1>1 DEF Sends
<1>6. (\E q \in Question, code \in {"send", "internal"} : Refuses(q, code)) => Old
  BY <1>1 DEF Refuses
<1>7. (\E code \in {"ok", "handler", "parse"} : Takes(code)) => Old
  BY <1>2 DEF Takes, Ends
<1>8. (\E code \in NoAnswer : Ends(code, 0)) => Old
  BY <1>2 DEF Ends
<1>9. Old \/ New \/ Cast
  BY <1>3, <1>4, <1>5, <1>6, <1>7, <1>8, StepForm
<1> QED
  BY <1>9 DEF Old, New, Cast

\* Where an execution comes from.
LEMMA ExecutedFrom ==
    ASSUME TypeOK, PlaceInv, [Next]_vars, NEW i \in 1 .. Len(executed')
    PROVE  \/ i \in 1 .. Len(executed) /\ executed'[i] = executed[i]
           \/ \E body \in Body :
                 /\ Serves(body) /\ i = Len(executed) + 1
                 /\ executed'[i].call = requests[1].call
<1> DEFINE Old == i \in 1 .. Len(executed) /\ executed'[i] = executed[i]
           New == \E body \in Body :
                     /\ Serves(body) /\ i = Len(executed) + 1
                     /\ executed'[i].call = requests[1].call
<1>0. Len(executed) \in Nat
  BY Types
<1>1. executed' = executed => Old
  OBVIOUS
<1>2. ASSUME NEW body \in Body, Serves(body)
      PROVE  Old \/ New
  <2>1. CASE executed' = executed
    BY <1>1, <2>1
  <2>2. ASSUME NEW code, Grown(executed', executed, [call |-> requests[1].call, code |-> code])
        PROVE  Old \/ New
    <3>1. i \in 1 .. Len(executed) \/ i = Len(executed) + 1
      BY <1>0, <2>2 DEF Grown
    <3>2. i \in 1 .. Len(executed) => Old
      BY <2>2 DEF Grown
    <3>3. i = Len(executed) + 1 => executed'[i].call = requests[1].call
      BY <2>2 DEF Grown
    <3> QED
      BY <1>2, <3>1, <3>2, <3>3
  <2> HIDE DEF Old, New
  <2> QED
    BY <1>2, <2>1, <2>2 DEF Serves
<1> HIDE DEF Old, New
<1>3. (\E q \in Question : Sends(q)) => Old
  BY <1>1 DEF Sends
<1>4. (\E q \in Question, code \in {"send", "internal"} : Refuses(q, code)) => Old
  BY <1>1 DEF Refuses
<1>5. (\E code \in {"ok", "handler", "parse"} : Takes(code)) => Old
  BY <1>1 DEF Takes, Ends
<1>6. (\E code \in NoAnswer : Ends(code, 0)) => Old
  BY <1>1 DEF Ends
<1>7. Passes => Old
  BY <1>1 DEF Passes
<1>8. Old \/ New
  BY <1>2, <1>3, <1>4, <1>5, <1>6, <1>7, StepForm
<1> QED
  BY <1>8 DEF Old, New

\* Where an outcome comes from.
LEMMA OutcomesFrom ==
    ASSUME TypeOK, PlaceInv, [Next]_vars, NEW n \in 1 .. Len(outcomes')
    PROVE  \/ n \in 1 .. Len(outcomes) /\ outcomes'[n] = outcomes[n]
           \/ /\ n = Len(outcomes) + 1
              /\ \/ \E q \in Question, code \in {"send", "internal"} :
                       /\ Refuses(q, code)
                       /\ outcomes'[n] = [kind |-> q.kind, code |-> code, answers |-> 0]
                 \/ \E code \in {"ok", "handler", "parse"} :
                       /\ Takes(code)
                       /\ outcomes'[n] = [kind |-> kind, code |-> code,
                                          answers |-> responses[1].call]
                 \/ \E code \in NoAnswer :
                       /\ Ends(code, 0)
                       /\ outcomes'[n] = [kind |-> kind, code |-> code, answers |-> 0]
<1>0. Len(outcomes) \in Nat
  BY Types
<1>1. outcomes' = outcomes => n \in 1 .. Len(outcomes) /\ outcomes'[n] = outcomes[n]
  OBVIOUS
<1>2. ASSUME NEW o, Grown(outcomes', outcomes, o)
      PROVE  \/ n \in 1 .. Len(outcomes) /\ outcomes'[n] = outcomes[n]
             \/ n = Len(outcomes) + 1 /\ outcomes'[n] = o
  BY <1>0, <1>2 DEF Grown
<1>3. outcomes' = outcomes \/ \E o : Grown(outcomes', outcomes, o)
  BY StepForm DEF Sends, Refuses, Takes, Ends, Serves, Passes
<1>4. CASE n \in 1 .. Len(outcomes) /\ outcomes'[n] = outcomes[n]
  BY <1>4
<1>5. CASE n = Len(outcomes) + 1 /\ outcomes' # outcomes
  <2>1. n \notin 1 .. Len(outcomes)
    BY <1>0, <1>5
  <2>2. ASSUME NEW q, NEW code, Refuses(q, code)
        PROVE  outcomes'[n] = [kind |-> q.kind, code |-> code, answers |-> 0]
    BY <1>2, <2>1, <2>2 DEF Refuses
  <2>3. ASSUME NEW code, NEW a, Ends(code, a)
        PROVE  outcomes'[n] = [kind |-> kind, code |-> code, answers |-> a]
    BY <1>2, <2>1, <2>3 DEF Ends
  <2>4. ASSUME NEW code, Takes(code)
        PROVE  outcomes'[n] = [kind |-> kind, code |-> code, answers |-> responses[1].call]
    BY <2>3, <2>4 DEF Takes
  <2>5. ~ (\E q \in Question : Sends(q)) /\ ~ (\E body \in Body : Serves(body)) /\ ~ Passes
    BY <1>5 DEF Sends, Serves, Passes
  <2> QED
    BY <1>5, <2>2, <2>3, <2>4, <2>5, StepForm
<1> QED
  BY <1>1, <1>2, <1>3, <1>4, <1>5

-----------------------------------------------------------------------------
(* The invariant is preserved *)

\* Every message still belongs to a call.
LEMMA CallsStep ==
    ASSUME TypeOK, PlaceInv, CallsInv, [Next]_vars
    PROVE  CallsInv'
<1>0. /\ calls \in Nat /\ sent \subseteq 1 .. calls /\ Len(outcomes) \in Nat
      /\ pc = "idle" => Len(outcomes) = calls
      /\ Len(requests) \in Nat /\ Len(responses) \in Nat
  BY Types
<1>1. /\ sent \subseteq sent' /\ \A i \in sent' : i \in sent \/ i = calls + 1
      /\ \A n \in 1 .. calls : asked'[n] = asked[n]
  BY Kept
<1> DEFINE Mine(r) == r.call \in sent' /\ r.ask = asked'[r.call]
           Fine(n, o) == o.answers \in sent' \cup {0} /\ (n \in sent' => o.code # "send")
<1>2. ASSUME NEW i \in 1 .. Len(requests')
      PROVE  Mine(requests'[i])
  <2>1. CASE \E j \in 1 .. Len(requests) : requests'[i] = requests[j]
    BY <1>0, <1>1, <2>1 DEF CallsInv
  <2>2. ASSUME NEW q \in Question, Sends(q), requests'[i] = [call |-> calls + 1, ask |-> q]
        PROVE  Mine(requests'[i])
    <3>1. asked'[calls + 1] = q /\ calls + 1 \in sent'
      BY <2>2 DEF Sends, Grown, calls
    <3> QED
      BY <2>2, <3>1
  <2> QED
    BY <2>1, <2>2, RequestsFrom
<1>3. ASSUME NEW body, Serves(body)
      PROVE  requests[1].call \in sent
  BY <1>0, <1>3 DEF Serves, CallsInv
<1>4. ASSUME NEW i \in 1 .. Len(responses')
      PROVE  responses'[i].call \in sent' \cup {0}
  <2>1. ASSUME NEW j \in 1 .. Len(responses), responses'[i] = responses[j]
        PROVE  responses'[i].call \in sent' \cup {0}
    BY <1>1, <2>1 DEF CallsInv
  <2>2. ASSUME NEW body, Serves(body),
               responses'[i] = [call |-> requests[1].call, body |-> body]
        PROVE  responses'[i].call \in sent' \cup {0}
    BY <1>1, <1>3, <2>2
  <2>3. ASSUME NEW body, responses'[i] = [call |-> 0, body |-> body]
        PROVE  responses'[i].call \in sent' \cup {0}
    BY <2>3
  <2> QED
    BY <2>1, <2>2, <2>3, ResponsesFrom
<1>5. ASSUME NEW i \in 1 .. Len(executed')
      PROVE  executed'[i].call \in sent'
  BY <1>1, <1>3, ExecutedFrom DEF CallsInv
<1>6. ASSUME NEW n \in 1 .. Len(outcomes')
      PROVE  Fine(n, outcomes'[n])
  <2>1. CASE n \in 1 .. Len(outcomes) /\ outcomes'[n] = outcomes[n]
    <3>1. n \in sent' => n \in sent
      <4>1. Len(outcomes) <= calls
        BY <1>0, Types DEF TypeOK
      <4> QED
        BY <1>0, <1>1, <2>1, <4>1
    <3> QED
      BY <1>1, <2>1, <3>1 DEF CallsInv
  <2>2. ASSUME NEW q \in Question, NEW code \in {"send", "internal"}, Refuses(q, code),
               outcomes'[n] = [kind |-> q.kind, code |-> code, answers |-> 0],
               n = Len(outcomes) + 1
        PROVE  Fine(n, outcomes'[n])
    <3>1. n \notin sent'
      BY <1>0, <2>2 DEF Refuses
    <3> QED
      BY <2>2, <3>1
  <2>3. ASSUME NEW code \in {"ok", "handler", "parse"}, Takes(code),
               outcomes'[n] = [kind |-> kind, code |-> code, answers |-> responses[1].call]
        PROVE  Fine(n, outcomes'[n])
    <3>1. responses[1].call \in sent \cup {0}
      BY <1>0, <2>3 DEF Takes, CallsInv
    <3> QED
      BY <1>1, <2>3, <3>1
  <2>4. ASSUME NEW code \in NoAnswer,
               outcomes'[n] = [kind |-> kind, code |-> code, answers |-> 0]
        PROVE  Fine(n, outcomes'[n])
    BY <2>4 DEF NoAnswer
  <2> QED
    BY <2>1, <2>2, <2>3, <2>4, OutcomesFrom
<1> QED
  BY <1>2, <1>4, <1>5, <1>6 DEF CallsInv

-----------------------------------------------------------------------------
(* Which calls may still be answered, and which have no answer *)

LEMMA SentFinite ==
    ASSUME TypeOK, NEW S \in SUBSET sent
    PROVE  IsFiniteSet(S) /\ Cardinality(S) \in Nat
<1>1. calls \in Nat /\ S \in SUBSET (1 .. calls)
  BY Types
<1>2. IsFiniteSet(1 .. calls)
  BY <1>1, FS_Interval
<1> QED
  BY <1>1, <1>2, FS_Subset, FS_CardinalityType

LEMMA OneLess ==
    ASSUME NEW S, IsFiniteSet(S), NEW x \in S, NEW T \in SUBSET (S \ {x})
    PROVE  /\ Cardinality(S) \in Nat /\ Cardinality(T) \in Nat
           /\ Cardinality(T) <= Cardinality(S) - 1
           /\ Cardinality(S \ {x}) = Cardinality(S) - 1
<1>1. IsFiniteSet(S \ {x}) /\ Cardinality(S \ {x}) = Cardinality(S) - 1
  BY FS_RemoveElement
<1>2. IsFiniteSet(T) /\ Cardinality(T) <= Cardinality(S \ {x})
  BY <1>1, FS_Subset
<1> QED
  BY <1>1, <1>2, FS_CardinalityType

\* A request that goes out is one more of both.
LEMMA SendsPending ==
    ASSUME TypeOK, CallsInv, NEW q, Sends(q)
    PROVE  /\ Pending' = Pending \cup {calls + 1} /\ calls + 1 \notin Pending
           /\ Open' = Open \cup {calls + 1} /\ calls + 1 \notin Open
<1>1. /\ calls \in Nat /\ sent \subseteq 1 .. calls /\ Len(outcomes) = calls
      /\ sent' = sent \cup {calls + 1} /\ outcomes' = outcomes
  BY Types DEF Sends
<1>2. \A n \in 1 .. Len(outcomes) : outcomes[n].answers < calls + 1
  <2>1. \A n \in 1 .. Len(outcomes) : outcomes[n].answers \in sent \cup {0}
    BY DEF CallsInv
  <2>2. \A i \in sent \cup {0} : i < calls + 1
    BY <1>1
  <2> QED
    BY <2>1, <2>2
<1> QED
  BY <1>1, <1>2 DEF Pending, Open

\* A call that ends without an answer, or was never sent, changes neither.
LEMMA EmptyPending ==
    ASSUME TypeOK, NEW k, NEW code, sent' = sent,
           Grown(outcomes', outcomes, [kind |-> k, code |-> code, answers |-> 0])
    PROVE  Pending' = Pending /\ Open' = Open
<1>1. /\ calls \in Nat /\ sent \subseteq 1 .. calls /\ Len(outcomes) \in Nat
      /\ Len(outcomes') = Len(outcomes) + 1
      /\ \A n \in 1 .. Len(outcomes) : outcomes'[n] = outcomes[n]
      /\ outcomes'[Len(outcomes) + 1].answers = 0
  BY Types DEF Grown
<1>2. ASSUME NEW i \in sent
      PROVE  i \in Pending' <=> i \in Pending
  <2>1. 0 < i
    BY <1>1
  <2>2. (\A n \in 1 .. Len(outcomes') : outcomes'[n].answers < i)
        <=> \A n \in 1 .. Len(outcomes) : outcomes[n].answers < i
    BY <1>1, <2>1
  <2> QED
    BY <1>2, <2>2 DEF Pending
<1>3. ASSUME NEW i \in sent
      PROVE  i \in Open' <=> i \in Open
  <2>1. i \in Nat /\ i > 0
    BY <1>1
  <2>2. (i <= Len(outcomes') => outcomes'[i].answers = 0)
        <=> (i <= Len(outcomes) => outcomes[i].answers = 0)
    BY <1>1, <2>1
  <2> QED
    BY <1>3, <2>2 DEF Open
<1> QED
  BY <1>2, <1>3 DEF Pending, Open

\* An answer ends the waiting for it and for all before it.
LEMMA TakesPending ==
    ASSUME TypeOK, PlaceInv, NEW code, Takes(code), responses[1].call # 0
    PROVE  /\ Pending' = {i \in Pending : responses[1].call < i}
           /\ Open' = Open \ {calls} /\ calls \in Open
<1> DEFINE a == responses[1].call
<1>1. /\ calls \in Nat /\ sent \subseteq 1 .. calls /\ Len(outcomes) \in Nat
      /\ Len(outcomes) + 1 = calls /\ sent' = sent
      /\ Len(outcomes') = Len(outcomes) + 1
      /\ \A n \in 1 .. Len(outcomes) : outcomes'[n] = outcomes[n]
      /\ outcomes'[Len(outcomes) + 1].answers = a
      /\ calls \in sent /\ a # 0
  BY Types DEF Grown, Takes, Ends, PlaceInv
<1> HIDE DEF a
<1>2. ASSUME NEW i \in sent
      PROVE  i \in Pending' <=> i \in Pending /\ a < i
  <2>1. (\A n \in 1 .. Len(outcomes') : outcomes'[n].answers < i)
        <=> (\A n \in 1 .. Len(outcomes) : outcomes[n].answers < i) /\ a < i
    <3>1. \A n \in 1 .. Len(outcomes') : n \in 1 .. Len(outcomes) \/ n = Len(outcomes) + 1
      BY <1>1
    <3>2. /\ Len(outcomes) + 1 \in 1 .. Len(outcomes')
          /\ \A n \in 1 .. Len(outcomes) : n \in 1 .. Len(outcomes')
      BY <1>1
    <3> QED
      BY <1>1, <3>1, <3>2
  <2> QED
    BY <1>1, <1>2, <2>1 DEF Pending
<1>3. ASSUME NEW i \in sent
      PROVE  i \in Open' <=> i \in Open /\ i # calls
  <2>1. i \in Nat /\ i > 0 /\ i <= calls
    BY <1>1
  <2>2. (i <= Len(outcomes') => outcomes'[i].answers = 0)
        <=> (i <= Len(outcomes) => outcomes[i].answers = 0) /\ i # calls
    BY <1>1, <2>1
  <2> QED
    BY <1>1, <1>3, <2>2 DEF Open
<1>4. calls \in Open
  BY <1>1 DEF Open
<1> QED
  BY <1>1, <1>2, <1>3, <1>4 DEF Pending, Open, a

\* As many answers are taken as calls have one.
LEMMA CountStep ==
    ASSUME TypeOK, PlaceInv, CallsInv, UnderWayInv, CountInv, [Next]_vars
    PROVE  CountInv'
<1>1. /\ IsFiniteSet(Pending) /\ Cardinality(Pending) \in Nat
      /\ IsFiniteSet(Open) /\ Cardinality(Open) \in Nat
      /\ Cardinality(Pending) <= Cardinality(Open)
  <2>1. Pending \in SUBSET sent /\ Open \in SUBSET sent
    BY DEF Pending, Open
  <2> QED
    BY <2>1, SentFinite DEF CountInv
<1>2. CASE Pending' = Pending /\ Open' = Open
  BY <1>1, <1>2 DEF CountInv
<1>3. ASSUME NEW q \in Question, Sends(q)
      PROVE  CountInv'
  <2>1. /\ Pending' = Pending \cup {calls + 1} /\ calls + 1 \notin Pending
        /\ Open' = Open \cup {calls + 1} /\ calls + 1 \notin Open
    BY <1>3, SendsPending
  <2>2. /\ Cardinality(Pending \cup {calls + 1}) = Cardinality(Pending) + 1
        /\ Cardinality(Open \cup {calls + 1}) = Cardinality(Open) + 1
    BY <1>1, <2>1, FS_AddElement
  <2> QED
    BY <1>1, <2>1, <2>2 DEF CountInv
<1>4. ASSUME NEW code, Takes(code)
      PROVE  CountInv'
  <2>1. CASE responses[1].call = 0
    BY <1>2, <1>4, <2>1, EmptyPending DEF Takes, Ends
  <2>2. CASE responses[1].call # 0
    <3> DEFINE a == responses[1].call
    <3>1. /\ Pending' = {i \in Pending : a < i}
          /\ Open' = Open \ {calls} /\ calls \in Open
      BY <1>4, <2>2, TakesPending
    <3>2. a \in Pending /\ a \in Nat
      BY <1>4, <2>2, Types DEF Takes, UnderWayInv
    <3>3. Pending' \in SUBSET (Pending \ {a})
      BY <3>1, <3>2
    <3> HIDE DEF a
    <3>4. Cardinality(Pending') \in Nat /\ Cardinality(Pending') <= Cardinality(Pending) - 1
      BY <1>1, <3>2, <3>3, OneLess
    <3>5. Open \ {calls} \in SUBSET (Open \ {calls})
      OBVIOUS
    <3>6. Cardinality(Open \ {calls}) = Cardinality(Open) - 1
      BY <1>1, <3>1, <3>5, OneLess
    <3> QED
      BY <1>1, <3>1, <3>4, <3>6 DEF CountInv
  <2> QED
    BY <2>1, <2>2
<1>5. ASSUME NEW q, NEW code, Refuses(q, code)
      PROVE  CountInv'
  BY <1>2, <1>5, EmptyPending DEF Refuses
<1>6. ASSUME NEW code, Ends(code, 0)
      PROVE  CountInv'
  BY <1>2, <1>6, EmptyPending DEF Ends
<1>7. CASE UNCHANGED <<sent, outcomes>>
  BY <1>2, <1>7 DEF Pending, Open
<1> QED
  BY <1>3, <1>4, <1>5, <1>6, <1>7, StepForm DEF Serves, Passes

\* A call gets the response of one that was sent, has none, and is as many calls
\* behind it as calls before it were left without.
LEMMA AnswersStep ==
    ASSUME TypeOK, PlaceInv, CallsInv, UnderWayInv, CountInv, AnswersInOrder, [Next]_vars
    PROVE  AnswersInOrder'
<1> DEFINE Behind(a, n) == {i \in sent' : a < i /\ i <= n}
           Lacking(n) == {i \in sent' : i < n /\ outcomes'[i].answers = 0}
           Right(n, a) ==
              /\ a <= n
              /\ \A m \in 1 .. n - 1 : outcomes'[m].answers < a
              /\ Cardinality(Behind(a, n)) <= Cardinality(Lacking(n))
<1>0. /\ calls \in Nat /\ sent \subseteq 1 .. calls /\ Len(outcomes) \in Nat
      /\ Len(outcomes) <= calls
      /\ sent \subseteq sent' /\ \A i \in sent' : i \in sent \/ i = calls + 1
      /\ \A n \in 1 .. Len(outcomes) : outcomes'[n] = outcomes[n]
  BY Types, Kept DEF TypeOK
<1>1. ASSUME NEW n \in 1 .. Len(outcomes), NEW a
      PROVE  Behind(a, n) = SentBehind(a, n) /\ Lacking(n) = Unanswered(n)
  <2>1. n \in Nat /\ n <= calls
    BY <1>0
  <2>2. \A i \in sent' : i <= n => i \in sent
    BY <1>0, <2>1
  <2>3. \A i \in sent' : i < n => i <= n /\ outcomes'[i] = outcomes[i]
    BY <1>0, <2>1
  <2>4. Behind(a, n) = SentBehind(a, n)
    BY <1>0, <2>2 DEF SentBehind
  <2> QED
    BY <1>0, <2>2, <2>3, <2>4 DEF Unanswered
<1>2. SUFFICES ASSUME NEW n \in 1 .. Len(outcomes'), outcomes'[n].answers # 0
               PROVE  Right(n, outcomes'[n].answers)
  BY DEF AnswersInOrder, SentBehind, Unanswered
<1>3. CASE n \in 1 .. Len(outcomes) /\ outcomes'[n] = outcomes[n]
  <2> DEFINE a == outcomes[n].answers
  <2>1. /\ a <= n
        /\ \A m \in 1 .. n - 1 : outcomes[m].answers < a
        /\ Cardinality(SentBehind(a, n)) <= Cardinality(Unanswered(n))
    BY <1>2, <1>3 DEF AnswersInOrder
  <2>2. \A m \in 1 .. n - 1 : outcomes'[m] = outcomes[m]
    BY <1>0, <1>3
  <2>3. Behind(a, n) = SentBehind(a, n) /\ Lacking(n) = Unanswered(n)
    BY <1>1, <1>3
  <2> QED
    BY <1>3, <2>1, <2>2, <2>3
<1>4. ASSUME NEW code, Takes(code), n = Len(outcomes) + 1,
             outcomes'[n].answers = responses[1].call
      PROVE  Right(n, outcomes'[n].answers)
  <2> DEFINE a == responses[1].call
  <2>1. /\ a \in Pending /\ a \in Nat /\ a \in sent
        /\ n = calls /\ sent' = sent /\ calls \in sent
    BY <1>2, <1>4, Types DEF Takes, Ends, UnderWayInv, Pending, PlaceInv
  <2>2. a <= n /\ \A m \in 1 .. n - 1 : outcomes'[m].answers < a
    BY <1>0, <1>4, <2>1 DEF Pending
  <2>3. /\ IsFiniteSet(Pending) /\ Cardinality(Pending) \in Nat
        /\ IsFiniteSet(Open) /\ Cardinality(Open) \in Nat
        /\ Cardinality(Pending) <= Cardinality(Open)
    <3>1. Pending \in SUBSET sent /\ Open \in SUBSET sent
      BY DEF Pending, Open
    <3> QED
      BY <3>1, SentFinite DEF CountInv
  <2>4. Behind(a, n) \in SUBSET (Pending \ {a})
    <3>1. SUFFICES ASSUME NEW i \in sent, a < i
                   PROVE  i \in Pending \ {a}
      BY <2>1
    <3>2. \A m \in 1 .. Len(outcomes) : outcomes[m].answers < a /\ outcomes[m].answers \in Nat
      BY <2>1, Types DEF Pending
    <3>3. i \in Nat
      BY <1>0
    <3> QED
      BY <2>1, <3>1, <3>2, <3>3 DEF Pending
  <2>5. Lacking(n) = Open \ {calls} /\ calls \in Open
    <3>1. \A i \in sent : i < n <=> i # calls
      BY <1>0, <2>1
    <3>2. \A i \in sent : i < n => i \in 1 .. Len(outcomes) /\ outcomes'[i] = outcomes[i]
      BY <1>0, <1>4, <2>1
    <3>3. \A i \in sent : i \in 1 .. Len(outcomes) => i <= Len(outcomes)
      OBVIOUS
    <3>4. Lacking(n) = {i \in sent : i < n /\ outcomes'[i].answers = 0}
      BY <2>1
    <3>5. calls \in Open
      BY <1>0, <1>4, <2>1 DEF Open
    <3> QED
      BY <3>1, <3>2, <3>3, <3>4, <3>5 DEF Open
  <2> HIDE DEF a, Behind, Lacking
  <2>6. /\ Cardinality(Behind(a, n)) \in Nat
        /\ Cardinality(Behind(a, n)) <= Cardinality(Pending) - 1
    BY <2>1, <2>3, <2>4, OneLess
  <2>7. Open \ {calls} \in SUBSET (Open \ {calls})
    OBVIOUS
  <2>8. Cardinality(Lacking(n)) = Cardinality(Open) - 1
    BY <2>3, <2>5, <2>7, OneLess
  <2>9. Cardinality(Behind(a, n)) <= Cardinality(Lacking(n))
    BY <2>3, <2>6, <2>8
  <2> QED
    BY <1>4, <2>2, <2>9 DEF a
<1>5. \/ n \in 1 .. Len(outcomes) /\ outcomes'[n] = outcomes[n]
      \/ /\ n = Len(outcomes) + 1
         /\ \E code : Takes(code) /\ outcomes'[n].answers = responses[1].call
  <2>1. ASSUME NEW k, NEW code, outcomes'[n] = [kind |-> k, code |-> code, answers |-> 0]
        PROVE  FALSE
    BY <1>2, <2>1
  <2>2. ASSUME NEW code, outcomes'[n] = [kind |-> kind, code |-> code,
                                         answers |-> responses[1].call]
        PROVE  outcomes'[n].answers = responses[1].call
    BY <2>2
  <2> QED
    BY <2>1, <2>2, OutcomesFrom
<1> QED
  BY <1>3, <1>4, <1>5

-----------------------------------------------------------------------------
(* The order of what is under way *)

LEMMA PartOrdered ==
    ASSUME NEW s, NEW t, Part(t, s)
    PROVE  /\ Ordered(s) => Ordered(t)
           /\ \A u : Before(s, u) => Before(t, u)
           /\ \A u : Before(u, s) => Before(u, t)
<1>1. PICK k \in Nat : \A i \in 1 .. Len(t) : i + k \in 1 .. Len(s) /\ t[i] = s[i + k]
  BY DEF Part
<1>2. \A i, j \in 1 .. Len(t) : i < j => i + k < j + k
  BY <1>1
<1>3. Ordered(s) => Ordered(t)
  BY <1>1, <1>2 DEF Ordered
<1>4. ASSUME NEW u
      PROVE  (Before(s, u) => Before(t, u)) /\ (Before(u, s) => Before(u, t))
  BY <1>1 DEF Before
<1> QED
  BY <1>3, <1>4

LEMMA GrownOrdered ==
    ASSUME NEW s, NEW t, NEW x, Len(s) \in Nat, Grown(t, s, x)
    PROVE  /\ Ordered(s) /\ (x.call # 0 => \A i \in 1 .. Len(s) : s[i].call < x.call)
              => Ordered(t)
           /\ \A u : Before(s, u) /\ (\A j \in 1 .. Len(u) : x.call < u[j].call)
                     => Before(t, u)
           /\ \A u : Before(u, s) /\ (\A j \in 1 .. Len(u) : u[j].call < x.call)
                     => Before(u, t)
<1>1. /\ \A i \in 1 .. Len(s) : t[i] = s[i]
      /\ t[Len(s) + 1] = x
      /\ \A i \in 1 .. Len(t) : i \in 1 .. Len(s) \/ i = Len(s) + 1
      /\ \A i, j \in 1 .. Len(t) : i < j => i \in 1 .. Len(s)
  BY DEF Grown
<1>2. Ordered(s) /\ (x.call # 0 => \A i \in 1 .. Len(s) : s[i].call < x.call)
      => Ordered(t)
  BY <1>1 DEF Ordered
<1>3. ASSUME NEW u
      PROVE  /\ Before(s, u) /\ (\A j \in 1 .. Len(u) : x.call < u[j].call)
                => Before(t, u)
             /\ Before(u, s) /\ (\A j \in 1 .. Len(u) : u[j].call < x.call)
                => Before(u, t)
  BY <1>1 DEF Before
<1> QED
  BY <1>2, <1>3

\* How a step changes the requests, as a sequence: the last call is the latest.
LEMMA RequestsOrder ==
    ASSUME TypeOK, PlaceInv, [Next]_vars
    PROVE  \/ Part(requests', requests)
           \/ \E q \in Question :
                 Sends(q) /\ Grown(requests', requests, [call |-> calls + 1, ask |-> q])
<1>1. requests' = requests => Part(requests', requests)
  BY Types, WholePart
<1>2. ASSUME NEW q \in Question, Sends(q)
      PROVE  \/ Part(requests', requests)
             \/ Grown(requests', requests, [call |-> calls + 1, ask |-> q])
  BY <1>1, <1>2 DEF Sends
<1>3. ASSUME NEW body, Serves(body)
      PROVE  Part(requests', requests)
  BY <1>3 DEF Serves, Part
<1>4. ASSUME NEW q, NEW code, Refuses(q, code)
      PROVE  Part(requests', requests)
  BY <1>1, <1>4 DEF Refuses
<1>5. ASSUME NEW code, NEW a, Ends(code, a)
      PROVE  Part(requests', requests)
  BY <1>1, <1>5 DEF Ends
<1>6. ASSUME NEW code, Takes(code)
      PROVE  Part(requests', requests)
  BY <1>5, <1>6 DEF Takes
<1>7. Passes => Part(requests', requests)
  BY DEF Passes
<1> QED
  BY <1>2, <1>3, <1>4, <1>5, <1>6, <1>7, StepForm

\* How a step changes the messages to the client.
LEMMA ResponsesOrder ==
    ASSUME TypeOK, PlaceInv, [Next]_vars
    PROVE  \/ Part(responses', responses)
           \/ \E body \in Body : /\ Serves(body)
                                 /\ Grown(responses', responses,
                                          [call |-> requests[1].call, body |-> body])
           \/ \E body \in Body : Grown(responses', responses, [call |-> 0, body |-> body])
<1>1. responses' = responses => Part(responses', responses)
  BY Types, WholePart
<1>2. ASSUME NEW body, Serves(body)
      PROVE  \/ Part(responses', responses)
             \/ Grown(responses', responses, [call |-> requests[1].call, body |-> body])
  BY <1>1, <1>2 DEF Serves
<1>3. ASSUME NEW q, Sends(q)
      PROVE  Part(responses', responses)
  BY <1>1, <1>3 DEF Sends
<1>4. ASSUME NEW q, NEW code, Refuses(q, code)
      PROVE  Part(responses', responses)
  BY <1>1, <1>4 DEF Refuses
<1>5. ASSUME NEW code, NEW a, Ends(code, a)
      PROVE  Part(responses', responses)
  BY <1>5 DEF Ends
<1>6. ASSUME NEW code, Takes(code)
      PROVE  Part(responses', responses)
  BY <1>5, <1>6 DEF Takes
<1>7. ASSUME Passes
      PROVE  \/ Part(responses', responses)
             \/ \E body \in Body : Grown(responses', responses, [call |-> 0, body |-> body])
  BY <1>7 DEF Passes
<1> QED
  BY <1>2, <1>3, <1>4, <1>5, <1>6, <1>7, StepForm

\* What is under way stays in the order of the calls.
LEMMA OrderStep ==
    ASSUME TypeOK, PlaceInv, CallsInv, UnderWayInv, [Next]_vars
    PROVE  Ordered(requests)' /\ Ordered(responses)' /\ Before(responses, requests)'
<1>0. /\ calls \in Nat /\ sent \subseteq 1 .. calls
      /\ Len(requests) \in Nat /\ Len(responses) \in Nat
      /\ \A i \in 1 .. Len(requests) : requests[i].call \in 1 .. calls
      /\ \A i \in 1 .. Len(responses) : responses[i].call \in 0 .. calls
  <2>1. \A i \in 1 .. Len(requests) : requests[i].call \in sent
    BY DEF CallsInv
  <2>2. \A i \in 1 .. Len(responses) : responses[i].call \in sent \cup {0}
    BY DEF CallsInv
  <2>3. calls \in Nat /\ sent \subseteq 1 .. calls
    BY Types
  <2>4. sent \cup {0} \subseteq 0 .. calls
    BY <2>3
  <2> QED
    BY <2>1, <2>2, <2>3, <2>4, Types
<1>1. Ordered(requests) /\ Ordered(responses) /\ Before(responses, requests)
  BY DEF UnderWayInv
<1>2. Ordered(requests') /\ Before(responses, requests')
  <2>1. CASE Part(requests', requests)
    BY <1>1, <2>1, PartOrdered
  <2>2. ASSUME NEW q, Grown(requests', requests, [call |-> calls + 1, ask |-> q])
        PROVE  Ordered(requests') /\ Before(responses, requests')
    <3> DEFINE x == [call |-> calls + 1, ask |-> q]
    <3>1. /\ \A i \in 1 .. Len(requests) : requests[i].call < x.call
          /\ \A i \in 1 .. Len(responses) : responses[i].call < x.call
      BY <1>0
    <3>2. Grown(requests', requests, x)
      BY <2>2
    <3> HIDE DEF x
    <3> QED
      BY <1>0, <1>1, <3>1, <3>2, GrownOrdered
  <2> QED
    BY <2>1, <2>2, RequestsOrder
<1>3. Ordered(responses') /\ Before(responses', requests')
  <2>1. CASE Part(responses', responses)
    BY <1>1, <1>2, <2>1, PartOrdered
  <2>2. ASSUME NEW body, Serves(body),
               Grown(responses', responses, [call |-> requests[1].call, body |-> body])
        PROVE  Ordered(responses') /\ Before(responses', requests')
    <3> DEFINE x == [call |-> requests[1].call, body |-> body]
    <3>1. /\ Len(requests) > 0
          /\ \A i \in 1 .. Len(requests') :
                i + 1 \in 1 .. Len(requests) /\ requests'[i] = requests[i + 1]
      BY <2>2 DEF Serves
    <3>2. 1 \in 1 .. Len(requests) /\ x.call = requests[1].call
      BY <1>0, <3>1
    <3>3. \A i \in 1 .. Len(responses) : responses[i].call < x.call
      BY <1>1, <3>2 DEF Before
    <3>4. \A i \in 1 .. Len(requests') : x.call < requests'[i].call
      <4>1. \A i \in 1 .. Len(requests') : 1 < i + 1 /\ requests[i + 1].call # 0
        BY <1>0, <3>1
      <4> QED
        BY <1>1, <3>1, <3>2, <4>1 DEF Ordered
    <3>5. Grown(responses', responses, x)
      BY <2>2
    <3> HIDE DEF x
    <3> QED
      BY <1>0, <1>1, <1>2, <3>3, <3>4, <3>5, GrownOrdered
  <2>3. ASSUME NEW body, Grown(responses', responses, [call |-> 0, body |-> body])
        PROVE  Ordered(responses') /\ Before(responses', requests')
    <3> DEFINE x == [call |-> 0, body |-> body]
    <3>1. Grown(responses', responses, x) /\ x.call = 0
      BY <2>3
    <3>2. \A i \in 1 .. Len(requests') : 0 < requests'[i].call
      <4>1. \A i \in sent' : 0 < i
        BY TypeStep, Types DEF TypeOK
      <4>2. CallsInv'
        BY CallsStep
      <4> QED
        BY <4>1, <4>2 DEF CallsInv
    <3> HIDE DEF x
    <3> QED
      BY <1>0, <1>1, <1>2, <3>1, <3>2, GrownOrdered
  <2> QED
    BY <2>1, <2>2, <2>3, ResponsesOrder
<1> QED
  BY <1>2, <1>3 DEF Ordered, Before

\* And behind what was answered.
LEMMA UnderWayStep ==
    ASSUME TypeOK, PlaceInv, CallsInv, UnderWayInv, [Next]_vars
    PROVE  UnderWayInv'
<1>0. /\ Len(requests) \in Nat /\ Len(responses) \in Nat
      /\ \A i \in 1 .. Len(requests) : requests[i].call \in Pending
      /\ \A i \in 1 .. Len(responses) : responses[i].call \in Pending \cup {0}
  BY Types DEF UnderWayInv
<1>1. ASSUME Pending \subseteq Pending'
      PROVE  UnderWayInv'
  <2>1. ASSUME NEW i \in 1 .. Len(requests')
        PROVE  requests'[i].call \in Pending'
    <3>1. ASSUME NEW q \in Question, Sends(q), requests'[i] = [call |-> calls + 1, ask |-> q]
          PROVE  requests'[i].call \in Pending'
      BY <3>1, SendsPending
    <3> QED
      BY <1>0, <1>1, <3>1, RequestsFrom
  <2>2. ASSUME NEW i \in 1 .. Len(responses')
        PROVE  responses'[i].call \in Pending' \cup {0}
    <3>1. ASSUME NEW body, Serves(body),
                 responses'[i] = [call |-> requests[1].call, body |-> body]
          PROVE  responses'[i].call \in Pending'
      BY <1>0, <1>1, <3>1 DEF Serves
    <3>2. ASSUME NEW body, responses'[i] = [call |-> 0, body |-> body]
          PROVE  responses'[i].call = 0
      BY <3>2
    <3>3. ASSUME NEW j \in 1 .. Len(responses), responses'[i] = responses[j]
          PROVE  responses'[i].call \in Pending' \cup {0}
      BY <1>0, <1>1, <3>3
    <3> QED
      BY <3>1, <3>2, <3>3, ResponsesFrom
  <2> QED
    BY <2>1, <2>2, OrderStep DEF UnderWayInv
<1>2. ASSUME NEW code, Takes(code)
      PROVE  UnderWayInv'
  <2>1. CASE responses[1].call = 0
    BY <1>1, <1>2, <2>1, EmptyPending DEF Takes, Ends
  <2>2. CASE responses[1].call # 0
    <3>1. Pending' = {i \in Pending : responses[1].call < i}
      BY <1>2, <2>2, TakesPending
    <3>2. /\ requests' = requests /\ 1 \in 1 .. Len(responses)
          /\ \A i \in 1 .. Len(responses') :
                i + 1 \in 1 .. Len(responses) /\ responses'[i] = responses[i + 1]
      BY <1>0, <1>2 DEF Takes, Ends
    <3>3. \A i \in 1 .. Len(requests') : requests'[i].call \in Pending'
      BY <1>0, <3>1, <3>2 DEF UnderWayInv, Before
    <3>4. ASSUME NEW i \in 1 .. Len(responses')
          PROVE  responses'[i].call \in Pending' \cup {0}
      <4>1. 1 < i + 1 /\ i + 1 \in 1 .. Len(responses)
        BY <3>2
      <4>2. responses[i + 1].call # 0 => responses[1].call < responses[i + 1].call
        BY <3>2, <4>1 DEF UnderWayInv, Ordered
      <4> QED
        BY <1>0, <3>1, <3>2, <4>1, <4>2
    <3> QED
      BY <3>3, <3>4, OrderStep DEF UnderWayInv
  <2> QED
    BY <2>1, <2>2
<1>3. ASSUME NEW q, Sends(q)
      PROVE  Pending \subseteq Pending'
  BY <1>3, SendsPending
<1>4. ASSUME NEW q, NEW code, Refuses(q, code)
      PROVE  Pending \subseteq Pending'
  BY <1>4, EmptyPending DEF Refuses
<1>5. ASSUME NEW code, Ends(code, 0)
      PROVE  Pending \subseteq Pending'
  BY <1>5, EmptyPending DEF Ends
<1>6. UNCHANGED <<sent, outcomes>> => Pending \subseteq Pending'
  BY DEF Pending
<1>7. (\E body \in Body : Serves(body)) \/ Passes => UNCHANGED <<sent, outcomes>>
  BY DEF Serves, Passes
<1> QED
  BY <1>1, <1>2, <1>3, <1>4, <1>5, <1>6, <1>7, StepForm

-----------------------------------------------------------------------------
(* What was executed *)

\* A call is executed when its request, the first one, is served.
LEMMA OnceStep ==
    ASSUME TypeOK, PlaceInv, CallsInv, UnderWayInv, OnceInv, AtMostOnce, [Next]_vars
    PROVE  OnceInv' /\ AtMostOnce'
<1>0. /\ Len(requests) \in Nat /\ Len(executed) \in Nat
      /\ \A i \in 1 .. Len(executed) : executed[i].call \in 1 .. calls
      /\ calls \in Nat
      /\ \A i \in 1 .. Len(executed) : executed'[i] = executed[i]
  <2>1. \A i \in 1 .. Len(executed) : executed[i].call \in sent
    BY DEF CallsInv
  <2> QED
    BY <2>1, Types, Kept
<1>1. /\ Before(executed, requests) /\ Ordered(requests)
      /\ \A i, j \in 1 .. Len(executed) : i < j => executed[i].call < executed[j].call
  BY DEF OnceInv, UnderWayInv, AtMostOnce
<1>2. Before(executed, requests')
  <2>1. CASE Part(requests', requests)
    BY <1>1, <2>1, PartOrdered
  <2>2. ASSUME NEW q, Grown(requests', requests, [call |-> calls + 1, ask |-> q])
        PROVE  Before(executed, requests')
    <3> DEFINE x == [call |-> calls + 1, ask |-> q]
    <3>1. \A i \in 1 .. Len(executed) : executed[i].call < x.call
      BY <1>0
    <3>2. Grown(requests', requests, x)
      BY <2>2
    <3> HIDE DEF x
    <3> QED
      BY <1>0, <1>1, <3>1, <3>2, GrownOrdered
  <2> QED
    BY <2>1, <2>2, RequestsOrder
<1>3. ASSUME NEW body, Serves(body)
      PROVE  /\ \A i \in 1 .. Len(executed) : executed[i].call < requests[1].call
             /\ \A j \in 1 .. Len(requests') : requests[1].call < requests'[j].call
  <2>1. /\ 1 \in 1 .. Len(requests)
        /\ \A i \in 1 .. Len(requests') :
              i + 1 \in 1 .. Len(requests) /\ requests'[i] = requests[i + 1] /\ 1 < i + 1
    BY <1>0, <1>3 DEF Serves
  <2>2. \A i \in 1 .. Len(requests) : requests[i].call # 0
    <3>1. \A i \in 1 .. Len(requests) : requests[i].call \in sent
      BY DEF CallsInv
    <3>2. 0 \notin sent
      BY Types
    <3> QED
      BY <3>1, <3>2
  <2>3. \A i \in 1 .. Len(executed) : executed[i].call < requests[1].call
    BY <1>1, <2>1 DEF Before
  <2> QED
    BY <1>1, <2>1, <2>2, <2>3 DEF Ordered
<1>4. ASSUME NEW i \in 1 .. Len(executed'), NEW j \in 1 .. Len(requests')
      PROVE  executed'[i].call < requests'[j].call
  <2>1. CASE i \in 1 .. Len(executed) /\ executed'[i] = executed[i]
    BY <1>2, <2>1 DEF Before
  <2> QED
    BY <1>3, <2>1, ExecutedFrom
<1>5. ASSUME NEW i \in 1 .. Len(executed'), NEW j \in 1 .. Len(executed'), i < j
      PROVE  executed'[i].call < executed'[j].call
  <2>1. CASE j \in 1 .. Len(executed) /\ executed'[j] = executed[j]
    <3>1. i \in 1 .. Len(executed) /\ executed'[i] = executed[i]
      BY <1>0, <1>5, <2>1
    <3> QED
      BY <1>1, <1>5, <2>1, <3>1
  <2>2. ASSUME NEW body, Serves(body), j = Len(executed) + 1,
               executed'[j].call = requests[1].call
        PROVE  executed'[i].call < executed'[j].call
    <3>1. i \in 1 .. Len(executed) /\ executed'[i] = executed[i]
      BY <1>0, <1>5, <2>2
    <3> QED
      BY <1>3, <2>2, <3>1
  <2> QED
    BY <2>1, <2>2, ExecutedFrom
<1>6. ASSUME NEW i \in 1 .. Len(executed'), executed'[i].call <= Len(outcomes')
      PROVE  outcomes'[executed'[i].call].code # "send"
  <2>1. TypeOK' /\ CallsInv'
    BY TypeStep, CallsStep
  <2>2. executed'[i].call \in sent' /\ sent' \subseteq Nat \ {0} /\ Len(outcomes') \in Nat
    BY <2>1 DEF CallsInv, TypeOK, calls
  <2>3. executed'[i].call \in 1 .. Len(outcomes')
    <3>1. executed'[i].call \in Nat /\ executed'[i].call # 0
      BY <2>2
    <3> QED
      BY <1>6, <2>2, <3>1
  <2> QED
    BY <2>1, <2>2, <2>3 DEF CallsInv
<1> QED
  BY <1>4, <1>5, <1>6 DEF OnceInv, AtMostOnce, Before

\* A call that was done stays done.
LEMMA DoneKept ==
    ASSUME TypeOK, PlaceInv, [Next]_vars
    PROVE  Done \subseteq Done'
<1> SUFFICES ASSUME NEW a \in Done
             PROVE  a \in Done'
  OBVIOUS
<1>1. /\ calls \in Nat /\ calls' \in Nat /\ calls <= calls'
      /\ \A n \in 1 .. calls : asked'[n] = asked[n]
      /\ Len(executed) \in Nat /\ Len(executed') \in Nat
      /\ Len(executed) <= Len(executed')
      /\ \A i \in 1 .. Len(executed) : executed'[i] = executed[i]
  <2>1. TypeOK'
    BY TypeStep
  <2>2. calls' \in Nat /\ Len(executed') \in Nat
    BY <2>1 DEF TypeOK, calls
  <2> QED
    BY <2>2, Types, Kept
<1>2. a \in 1 .. calls /\ a \in 1 .. calls' /\ asked'[a] = asked[a]
  BY <1>1 DEF Done
<1>3. CASE ~ (asked[a].kind = "text" /\ asked[a].target # "nameless")
  BY <1>2, <1>3 DEF Done
<1>4. CASE asked[a].kind = "text" /\ asked[a].target # "nameless"
  <2>1. PICK i \in 1 .. Len(executed) : executed[i] = [call |-> a, code |-> "ok"]
    BY <1>4 DEF Done
  <2>2. i \in 1 .. Len(executed') /\ executed'[i] = [call |-> a, code |-> "ok"]
    BY <1>1, <2>1
  <2> QED
    BY <1>2, <2>2 DEF Done
<1> QED
  BY <1>3, <1>4

\* What is served and reports success is done.
LEMMA ServedDone ==
    ASSUME TypeOK, PlaceInv, CallsInv,
           NEW body \in {"result", "neither"}, Serves(body)
    PROVE  requests[1].call \in Done'
<1> DEFINE a == requests[1].call
<1>1. /\ Len(requests) > 0 /\ asked' = asked /\ calls' = calls
      /\ requests[1].ask.kind = "text" /\ requests[1].ask.target # "nameless"
         => Grown(executed', executed, [call |-> a, code |-> "ok"])
  BY DEF Serves, calls
<1>2. a \in 1 .. calls /\ requests[1].ask = asked[a]
  <2>1. 1 \in 1 .. Len(requests)
    BY <1>1, Types
  <2> QED
    BY <2>1, Types DEF CallsInv
<1>3. CASE asked[a].kind = "text" /\ asked[a].target # "nameless"
  <2>1. Grown(executed', executed, [call |-> a, code |-> "ok"])
    BY <1>1, <1>2, <1>3
  <2>2. Len(executed) + 1 \in 1 .. Len(executed')
    BY <2>1, Types DEF Grown
  <2>3. executed'[Len(executed) + 1] = [call |-> a, code |-> "ok"]
    BY <2>1 DEF Grown
  <2>4. \E i \in 1 .. Len(executed') : executed'[i] = [call |-> a, code |-> "ok"]
    BY <2>2, <2>3
  <2> QED
    BY <1>1, <1>2, <2>4 DEF Done
<1>4. CASE ~ (asked[a].kind = "text" /\ asked[a].target # "nameless")
  BY <1>1, <1>2, <1>4 DEF Done
<1> QED
  BY <1>3, <1>4

\* A response reports success only for a call that was done.
LEMMA DoneStep ==
    ASSUME TypeOK, PlaceInv, CallsInv, DoneInv, SuccessMeansDone, [Next]_vars
    PROVE  DoneInv' /\ SuccessMeansDone'
<1>0. Len(responses) \in Nat /\ calls \in Nat /\ sent \subseteq 1 .. calls
  BY Types
<1>1. Done \subseteq Done'
  BY DoneKept
<1>2. ASSUME NEW i \in 1 .. Len(responses'), Claims(responses'[i])
      PROVE  responses'[i].call \in Done'
  <2>1. ASSUME NEW j \in 1 .. Len(responses), responses'[i] = responses[j]
        PROVE  responses'[i].call \in Done'
    BY <1>1, <1>2, <2>1 DEF DoneInv
  <2>2. ASSUME NEW body \in Body, Serves(body),
               responses'[i] = [call |-> requests[1].call, body |-> body]
        PROVE  responses'[i].call \in Done'
    <3>1. body \in {"result", "neither"}
      BY <1>2, <2>2 DEF Claims
    <3> QED
      BY <2>2, <3>1, ServedDone
  <2>3. ASSUME NEW body, responses'[i] = [call |-> 0, body |-> body]
        PROVE  FALSE
    BY <1>2, <2>3 DEF Claims
  <2> QED
    BY <2>1, <2>2, <2>3, ResponsesFrom
<1> DEFINE Right(o, D) ==
        o.kind = "text" /\ o.code = "ok" /\ o.answers # 0 => o.answers \in D
<1>3. ASSUME NEW n \in 1 .. Len(outcomes)
      PROVE  Right(outcomes[n], Done)
  <2>1. SUFFICES ASSUME StubSucceeds(n), outcomes[n].answers # 0
                 PROVE  outcomes[n].answers \in Done
    BY DEF StubSucceeds
  <2>2. outcomes[n].answers \in sent \cup {0}
    BY DEF CallsInv
  <2>3. outcomes[n].answers \in 1 .. calls
    BY <1>0, <2>1, <2>2
  <2> QED
    BY <2>1, <2>3 DEF Done, SuccessMeansDone
<1>4. ASSUME NEW n \in 1 .. Len(outcomes')
      PROVE  Right(outcomes'[n], Done')
  <2>1. CASE n \in 1 .. Len(outcomes) /\ outcomes'[n] = outcomes[n]
    BY <1>1, <1>3, <2>1
  <2>2. ASSUME NEW k, NEW code, outcomes'[n] = [kind |-> k, code |-> code, answers |-> 0]
        PROVE  Right(outcomes'[n], Done')
    BY <2>2
  <2>3. ASSUME NEW code, Takes(code),
               outcomes'[n] = [kind |-> kind, code |-> code, answers |-> responses[1].call]
        PROVE  Right(outcomes'[n], Done')
    <3>1. SUFFICES ASSUME kind = "text", code = "ok", responses[1].call # 0
                   PROVE  responses[1].call \in Done'
      BY <2>3
    <3>2. Claims(responses[1]) /\ 1 \in 1 .. Len(responses)
      BY <1>0, <2>3, <3>1 DEF Takes, Claims
    <3> QED
      BY <1>1, <3>2 DEF DoneInv
  <2> HIDE DEF Right
  <2> QED
    BY <2>1, <2>2, <2>3, OutcomesFrom
<1>5. SuccessMeansDone'
  BY <1>4 DEF SuccessMeansDone, StubSucceeds, Done
<1> QED
  BY <1>2, <1>5 DEF DoneInv, Claims

-----------------------------------------------------------------------------
(* The theorems *)

\* What holds of the calls and of the messages under way at every step, with
\* RcomClient, RcomMessageHandler and broadcast on one link.
THEOREM Invariant == Spec => []IInv
<1>1. Init => IInv
  <2> SUFFICES ASSUME Init
               PROVE  IInv
    OBVIOUS
  <2>1. /\ pc = "idle" /\ asked = <<>> /\ sent = {}
        /\ clientUp = TRUE /\ parted = FALSE /\ hubUp = TRUE /\ broadcasts = 0
        /\ requests = <<>> /\ responses = <<>> /\ executed = <<>> /\ outcomes = <<>>
    BY DEF Init
  <2>2. calls = 0 /\ Len(outcomes) = 0
    BY <2>1 DEF calls
  <2>3. TypeOK
    <3>1. calls <= MaxCalls /\ broadcasts \in 0 .. MaxBroadcasts
      BY <2>1, <2>2, RpcAssumption
    <3>2. /\ asked \in Seq(Question) /\ requests \in Seq([call : Nat, ask : Question])
          /\ responses \in Seq(Response) /\ outcomes \in Seq(Outcome)
          /\ executed \in Seq([call : Nat, code : {"ok", "handler"}])
      BY <2>1
    <3>3. clientUp \in BOOLEAN /\ parted \in BOOLEAN /\ hubUp \in BOOLEAN
      BY <2>1
    <3>4. /\ pc \in {"idle", "waiting"} /\ sent \subseteq 1 .. calls
          /\ Len(outcomes) = IF pc = "idle" THEN calls ELSE calls - 1
      BY <2>1, <2>2
    <3> QED
      BY <3>1, <3>2, <3>3, <3>4 DEF TypeOK
  <2>4. PlaceInv /\ CallsInv /\ OnceInv /\ AtMostOnce /\ DoneInv
    BY <2>1 DEF PlaceInv, CallsInv, OnceInv, AtMostOnce, DoneInv, Before
  <2>5. AnswersInOrder /\ SuccessMeansDone
    BY <2>1 DEF AnswersInOrder, SuccessMeansDone
  <2>6. UnderWayInv
    BY <2>1 DEF UnderWayInv, Ordered, Before
  <2>7. CountInv
    <3>1. Pending = {} /\ Open = {}
      BY <2>1 DEF Pending, Open
    <3> QED
      BY <3>1, FS_EmptySet DEF CountInv
  <2> QED
    BY <2>3, <2>4, <2>5, <2>6, <2>7 DEF IInv
<1>2. IInv /\ [Next]_vars => IInv'
  BY TypeStep, PlaceStep, CallsStep, UnderWayStep, CountStep, AnswersStep, OnceStep,
     DoneStep DEF IInv
<1> QED
  BY <1>1, <1>2, PTL DEF Spec

\* RcomClient::execute returns once for each call, with one of its codes.
THEOREM TypeCorrect == Spec => []TypeOK
<1>1. IInv => TypeOK
  BY DEF IInv
<1> QED
  BY <1>1, Invariant, PTL

\* receive_response takes the next message: answers come once, in order, and only
\* as late as calls were left without one, whatever is lost or refused.
THEOREM CallsGetTheirAnswers == Spec => []AnswersInOrder
<1>1. IInv => AnswersInOrder
  BY DEF IInv
<1> QED
  BY <1>1, Invariant, PTL

\* No call is executed twice, none that was reported as kSendError at all.
THEOREM ExecutedOnce == Spec => []AtMostOnce
<1>1. IInv => AtMostOnce
  BY DEF IInv
<1> QED
  BY <1>1, Invariant, PTL

\* A text call that RemoteStub reports as done was done by an object.
THEOREM SuccessIsDone == Spec => []SuccessMeansDone
<1>1. IInv => SuccessMeansDone
  BY DEF IInv
<1> QED
  BY <1>1, Invariant, PTL
=============================================================================
