-------------------------------- MODULE Rpc --------------------------------
(***************************************************************************)
(* Remote calls over one link: RcomClient::execute at one end              *)
(* (librcom/src/RcomClient.cpp), RcomMessageHandler::onmessage in the      *)
(* event loop of a hub at the other (librcom/src/RcomMessageHandler.cpp).  *)
(* A call is text or binary, after the response it asks for: RemoteStub    *)
(* makes text calls, binary ones are made with RcomClient itself.  The     *)
(* handler is a RemoteObjectsAdaptor, which passes a call on to the object *)
(* of its id.  Requests and responses carry nothing by which a response    *)
(* could be told from another, or from a message that the server           *)
(* broadcasts; the number of the call stands for their contents.           *)
(*                                                                         *)
(* The link is the channel of module MessageChannel: messages arrive in    *)
(* order, what is under way when the hub goes down is lost, and a client   *)
(* that was thrown out of a call may have lost some and goes on.           *)
(***************************************************************************)
EXTENDS Integers, Sequences, FiniteSets

CONSTANTS
    MaxCalls,       \* bound: calls of execute
    MaxBroadcasts   \* bound: calls of broadcast

ASSUME RpcAssumption == MaxCalls \in Nat /\ MaxBroadcasts \in Nat

VARIABLES
    pc,             \* "idle" or "waiting" in receive_response
    asked,          \* the calls of execute so far: what each asks for
    sent,           \* the calls whose request link_->send has taken
    clientUp,       \* the client's websocket is open
    parted,         \* a signal threw the client out of closing the link: it is
                    \* open, and nothing that is sent over it arrives any more
    hubUp,          \* the hub's websocket is open
    requests,       \* requests on their way to the hub
    responses,      \* responses and broadcasts on their way to the client
    executed,       \* what objects did: the calls and their error codes
    outcomes,       \* what the calls of execute came to, in order
    broadcasts      \* number of broadcasts

clientVars == <<pc, asked, sent, clientUp, parted, outcomes>>
hubVars == <<hubUp, requests, executed, broadcasts>>
vars == <<clientVars, hubVars, responses>>

Kind == {"text", "binary"}

\* The id of an object that the adaptor knows, an id that it does not know, or
\* an empty method.
Target == {"known", "unknown", "nameless"}

Question == [kind : Kind, target : Target]

calls == Len(asked)
kind == asked[calls].kind

\* "ok" stands for error code 0, "handler" for any code a handler sets.
Code == {"ok", "handler", "parse", "send", "receive", "timeout", "closed", "internal"}

(***************************************************************************)
(* The body of a response: JSON with a result or with an error, JSON with  *)
(* neither of them, or the bytes that a binary call asks for.  A broadcast *)
(* answers no call: 0.                                                     *)
(***************************************************************************)
Body == {"result", "error", "neither", "bytes"}

Response == [body : Body, call : Nat]

\* answers: the call to which the response belongs that made the outcome, 0 if
\* there was none or it was a broadcast.
Outcome == [kind : Kind, code : Code, answers : Nat]

TypeOK ==
    /\ pc \in {"idle", "waiting"}
    /\ asked \in Seq(Question) /\ calls <= MaxCalls
    /\ sent \subseteq 1 .. calls
    /\ clientUp \in BOOLEAN /\ parted \in BOOLEAN /\ hubUp \in BOOLEAN
    /\ requests \in Seq([call : Nat, ask : Question])
    /\ responses \in Seq(Response)
    /\ executed \in Seq([call : Nat, code : {"ok", "handler"}])
    /\ outcomes \in Seq(Outcome)
    /\ broadcasts \in 0 .. MaxBroadcasts
    /\ Len(outcomes) = IF pc = "idle" THEN calls ELSE calls - 1

Init ==
    /\ pc = "idle" /\ asked = <<>> /\ sent = {}
    /\ clientUp = TRUE /\ parted = FALSE /\ hubUp = TRUE
    /\ requests = <<>> /\ responses = <<>>
    /\ executed = <<>> /\ outcomes = <<>> /\ broadcasts = 0

-----------------------------------------------------------------------------
(* RcomClient *)

\* execute returns with the given error code.
Return(k, code, answers) ==
    /\ pc' = "idle"
    /\ outcomes' = Append(outcomes, [kind |-> k, code |-> code, answers |-> answers])

\* make_request; what is sent to a hub that has gone is lost, and so is what is
\* sent behind a Close.
Request(q) ==
    requests' = IF hubUp /\ ~ parted
                THEN Append(requests, [call |-> calls + 1, ask |-> q])
                ELSE requests

\* A call of execute begins.
Calls(q) ==
    /\ pc = "idle" /\ calls < MaxCalls
    /\ asked' = Append(asked, q)

\* send_request succeeds.
Execute(q) ==
    /\ Calls(q)
    /\ clientUp
    /\ sent' = sent \cup {calls + 1}
    /\ Request(q)
    /\ pc' = "waiting"
    /\ UNCHANGED <<clientUp, parted, outcomes, hubUp, executed, broadcasts, responses>>

\* Mutant of ExecuteFails: the send is given up after the request was written.
ExecuteFailsLate(q) ==
    /\ Calls(q)
    /\ Request(q)
    /\ clientUp' = FALSE
    /\ Return(q.kind, "send", 0)
    /\ UNCHANGED <<sent, parted, hubUp, executed, broadcasts, responses>>

\* link_->send returns false: kSendError.  The request is too long and the link
\* stays as it is, or it cannot be written and the websocket is closed.
ExecuteFails(q) ==
    /\ Calls(q)
    /\ clientUp' \in {clientUp, FALSE}
    /\ Return(q.kind, "send", 0)
    /\ UNCHANGED <<sent, parted, hubVars, responses>>

\* kInternalError before anything is sent: request.dump throws, or a signal
\* interrupts the closing after a write that failed.
ExecuteThrows(q) ==
    /\ Calls(q)
    /\ UNCHANGED parted \/ (clientUp /\ parted' = TRUE)
    /\ Return(q.kind, "internal", 0)
    /\ UNCHANGED <<sent, clientUp, hubVars, responses>>

\* parse_response: the code that a text call makes of r.  Bytes are not JSON.
ParseCode(r) ==
    IF r.body = "bytes" THEN "parse"
    ELSE IF r.body = "error" THEN "handler" ELSE "ok"

\* Mutant of Receive: a response is left in the queue for the next call.
ReceiveAgain ==
    /\ pc = "waiting"
    /\ responses # <<>>
    /\ LET r == Head(responses) IN
       Return(kind, IF kind = "text" THEN ParseCode(r) ELSE "ok", r.call)
    /\ UNCHANGED <<asked, sent, clientUp, parted, hubVars, responses>>

\* receive_response returns the next message; a binary call's result is the
\* message, whatever it is.
Receive ==
    /\ pc = "waiting"
    /\ responses # <<>>
    /\ responses' = Tail(responses)
    /\ LET r == Head(responses) IN
       Return(kind, IF kind = "text" THEN ParseCode(r) ELSE "ok", r.call)
    /\ UNCHANGED <<asked, sent, clientUp, parted, hubVars>>

\* Mutant of ReceiveTimesOut: the error is set, but execute goes on waiting.
ReceiveTimesOutAgain ==
    /\ pc = "waiting"
    /\ outcomes' = Append(outcomes, [kind |-> kind, code |-> "timeout", answers |-> 0])
    /\ UNCHANGED <<pc, asked, sent, clientUp, parted, hubVars, responses>>

\* kReceiveTimeout.  The link stays as it is: the response may still come.
ReceiveTimesOut ==
    /\ pc = "waiting"
    /\ Return(kind, "timeout", 0)
    /\ UNCHANGED <<asked, sent, clientUp, parted, hubVars, responses>>

\* set_error for kRecvClosed (the hub said goodbye) and for kRecvError (it did
\* not, or a signal or an invalid frame ended the recv).
ReceiveFails ==
    /\ pc = "waiting"
    /\ \/ Return(kind, "closed", 0) /\ responses = <<>> /\ ~ hubUp
       \/ Return(kind, "receive", 0)
    /\ clientUp' = FALSE
    /\ responses' = <<>>
    /\ UNCHANGED <<asked, sent, parted, hubVars>>

\* kInternalError: a signal interrupts the closing of the link after such an
\* error; closing_wait_reply has dropped some of what was under way.
ReceiveThrows ==
    /\ pc = "waiting"
    /\ Return(kind, "internal", 0)
    /\ parted' = TRUE
    /\ \E n \in 1 .. Len(responses) + 1 :
          responses' = SubSeq(responses, n, Len(responses))
    /\ UNCHANGED <<asked, sent, clientUp, hubVars>>

-----------------------------------------------------------------------------
(* RcomMessageHandler and RemoteObjectsAdaptor *)

\* RemoteObjectsAdaptor::execute: the error codes that a call may come back with;
\* get_adaptor throws for an id that is not in map_.
Codes(target) == IF target = "known" THEN {"ok", "handler"} ELSE {"handler"}

\* Mutant of TextResponse: construct_response forgets the error.
TextResponseNoError(code) == {"result", "neither"}

\* handle_json_request: construct_response puts the error in the envelope, and
\* the result unless it is null.
TextResponse(code) == IF code = "ok" THEN {"result", "neither"} ELSE {"error"}

\* handle_binary_request: after an error of the handler the envelope is
\* not constructed, and an empty JSON value is sent.
BinaryResponse(code) == IF code = "ok" THEN {"bytes"} ELSE {"neither"}

\* websocket.send: the response is lost when the client has gone, or when it is
\* too long, which nobody looks at.
Respond(call, body) ==
    \/ clientUp /\ responses' = Append(responses, [call |-> call, body |-> body])
    \/ UNCHANGED responses

\* onmessage: the handler runs, the response is sent, unless an exception of the
\* handler or of response.dump leaves onmessage.
Serve ==
    /\ requests # <<>>
    /\ LET q == Head(requests) IN
       /\ q.ask.target # "nameless"
       /\ \E code \in Codes(q.ask.target) :
          /\ executed' = IF q.ask.target = "known"
                         THEN Append(executed, [call |-> q.call, code |-> code])
                         ELSE executed
          /\ \E body \in IF q.ask.kind = "text" THEN TextResponse(code)
                         ELSE BinaryResponse(code) :
                Respond(q.call, body)
    /\ requests' = Tail(requests)
    /\ UNCHANGED <<clientVars, hubUp, broadcasts>>

\* A request with an empty method: the handler is not called, and as error.code
\* stays 0 the response has no error; to a binary request it has no bytes.
ServeNameless ==
    /\ requests # <<>>
    /\ LET q == Head(requests) IN
       /\ q.ask.target = "nameless"
       /\ Respond(q.call, IF q.ask.kind = "text" THEN "neither" ELSE "bytes")
    /\ requests' = Tail(requests)
    /\ UNCHANGED <<clientVars, hubUp, executed, broadcasts>>

\* RcomServer::broadcast: any message, to all links.
Broadcast ==
    /\ hubUp /\ broadcasts < MaxBroadcasts
    /\ broadcasts' = broadcasts + 1
    /\ \E body \in Body : Respond(0, body)
    /\ UNCHANGED <<clientVars, hubUp, requests, executed>>

\* The hub closes the link or dies: requests are lost, responses under way may be.
HubGoes ==
    /\ hubUp
    /\ hubUp' = FALSE
    /\ requests' = <<>>
    /\ \E n \in 0 .. Len(responses) : responses' = SubSeq(responses, 1, n)
    /\ UNCHANGED <<clientVars, executed, broadcasts>>

Next ==
    \/ \E q \in Question : Execute(q) \/ ExecuteFails(q) \/ ExecuteThrows(q)
    \/ Receive \/ ReceiveTimesOut \/ ReceiveFails \/ ReceiveThrows
    \/ Serve \/ ServeNameless \/ Broadcast \/ HubGoes

Spec == Init /\ [][Next]_vars

-----------------------------------------------------------------------------
\* The requests sent by the n-th call and before, but behind that of call a.
SentBehind(a, n) == {i \in sent : a < i /\ i <= n}

\* The calls before the n-th that were sent and came back without an answer.
Unanswered(n) == {i \in sent : i < n /\ outcomes[i].answers = 0}

(***************************************************************************)
(* Responses are not numbered: receive_response takes the next message.    *)
(* Each response is taken once, in the order of the calls.  A call that    *)
(* went out and came back without an answer (a timeout, a signal, or a     *)
(* broadcast that it took for one) may leave all answers behind it one     *)
(* call late, for good, and nothing else does: as long as there is no such *)
(* call a call gets its own response, whatever requests were refused and   *)
(* responses lost.                                                         *)
(***************************************************************************)
AnswersInOrder ==
    \A n \in 1 .. Len(outcomes) :
        LET a == outcomes[n].answers IN
        a # 0 =>
            /\ a <= n
            /\ \A m \in 1 .. n - 1 : outcomes[m].answers < a
            /\ Cardinality(SentBehind(a, n)) <= Cardinality(Unanswered(n))

(***************************************************************************)
(* A call is executed at most once, in the order of the calls, and not at  *)
(* all, now or later, when execute has reported kSendError.                *)
(***************************************************************************)
AtMostOnce ==
    /\ \A i, j \in 1 .. Len(executed) :
          i < j => executed[i].call < executed[j].call
    /\ \A i \in 1 .. Len(executed) :
          executed[i].call <= Len(outcomes) =>
              outcomes[executed[i].call].code # "send"

\* RemoteStub::execute returns true.
StubSucceeds(n) == outcomes[n].kind = "text" /\ outcomes[n].code = "ok"

(***************************************************************************)
(* When RemoteStub reports success after the response to a text call, then *)
(* an object has executed that call, without an error: errors of the       *)
(* object and unknown ids make it through the adaptor, the envelope and    *)
(* the stub.  A call with an empty method, or one that takes a broadcast   *)
(* for its response, succeeds without doing anything, and a binary call    *)
(* loses the object's error.                                               *)
(***************************************************************************)
SuccessMeansDone ==
    \A n \in 1 .. Len(outcomes) :
        LET a == outcomes[n].answers IN
        /\ StubSucceeds(n) /\ a # 0
        /\ asked[a].kind = "text" /\ asked[a].target # "nameless"
        => \E i \in 1 .. Len(executed) : executed[i] = [call |-> a, code |-> "ok"]
=============================================================================
