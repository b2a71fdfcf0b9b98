------------------------------- MODULE Lookup -------------------------------
(***************************************************************************)
(* How processes find the registry: RegistryLookup::lookup broadcasts a    *)
(* question over UDP, up to eight times, and takes the first datagram that *)
(* reaches its socket for the address; RegistryLookupServer answers every  *)
(* datagram from a thread of the rcom-registry process, which also serves  *)
(* websockets (Hub) and stops on SIGINT (applications/rcom_registry).      *)
(*                                                                         *)
(* The network (external) loses, delays, duplicates and reorders; the      *)
(* system gives a socket any port that is not in use.                      *)
(***************************************************************************)
EXTENDS Integers, FiniteSets

CONSTANTS
    Looker,         \* processes that look the registry up
    Registry,       \* registry processes, each on a host of its own
    Port,           \* UDP ports of the lookers' sockets
    None,           \* no address, no port
    MaxTries,       \* eight in the code
    MaxLookups      \* bound: lookups that begin

ASSUME TriesAssumption == MaxTries \in Nat \ {0} /\ MaxLookups \in Nat
ASSUME NoneAssumption == None \notin Registry \cup Port

VARIABLES
    looker,         \* looker[l]: where l's lookup stands
    port,           \* port[l]: its socket_
    tries,          \* tries[l]: questions that timed out
    address,        \* address[l]: its address_
    main,           \* main[r]: where r's main() stands
    thread,         \* thread[r]: where receiveLookupRequests stands
    asker,          \* asker[r]: clientAddr, the sender of the datagram in hand
    quit,           \* quit[r]: quit_
    questions,      \* <<port, registry>>: datagrams that will reach a registry
    answers,        \* <<port, registry>>: datagrams that may reach a port
    lookups,        \* number of lookups so far
    ran,            \* ran[l]: registries that ran at some time since l's lookup began
    fresh,          \* fresh[l]: when the lookup began no answer was under way to
                    \* its port
    late            \* late[r]: answers that r sent after quit_ was set

lookerVars == <<looker, port, tries, address>>
serverVars == <<main, thread, asker, quit>>
network == <<questions, answers>>
history == <<lookups, ran, fresh, late>>
vars == <<lookerVars, serverVars, network, history>>

TypeOK ==
    /\ looker \in [Looker -> {"idle", "asking", "waiting", "found", "failed"}]
    /\ port \in [Looker -> Port \cup {None}]
    /\ tries \in [Looker -> 0 .. MaxTries]
    /\ address \in [Looker -> Registry \cup {None}]
    /\ main \in [Registry -> {"off", "serving", "joining", "ended", "dead"}]
    /\ thread \in [Registry -> {"none", "check", "recvfrom", "answer", "done"}]
    /\ asker \in [Registry -> Port \cup {None}]
    /\ quit \in [Registry -> BOOLEAN]
    /\ questions \subseteq Port \X Registry
    /\ answers \subseteq Port \X Registry
    /\ lookups \in 0 .. MaxLookups
    /\ ran \in [Looker -> SUBSET Registry]
    /\ fresh \in [Looker -> BOOLEAN]
    /\ late \in [Registry -> Nat]

Init ==
    /\ looker = [l \in Looker |-> "idle"]
    /\ port = [l \in Looker |-> None]
    /\ tries = [l \in Looker |-> 0]
    /\ address = [l \in Looker |-> None]
    /\ main = [r \in Registry |-> "off"]
    /\ thread = [r \in Registry |-> "none"]
    /\ asker = [r \in Registry |-> None]
    /\ quit = [r \in Registry |-> FALSE]
    /\ questions = {} /\ answers = {}
    /\ lookups = 0
    /\ ran = [l \in Looker |-> {}]
    /\ fresh = [l \in Looker |-> FALSE]
    /\ late = [r \in Registry |-> 0]

Running == {r \in Registry : main[r] \in {"serving", "joining"}}

InUse(p) == \E l \in Looker : port[l] = p

\* An answer is under way to port p, or about to be sent.
Traffic(p) ==
    \E r \in Registry :
        \/ <<p, r>> \in answers
        \/ thread[r] = "answer" /\ asker[r] = p

-----------------------------------------------------------------------------
(* RegistryLookup::lookup *)

\* Mutant of Lookup: the address_ of an earlier lookup is kept.
LookupAgain(l) ==
    /\ looker[l] \in {"idle", "found", "failed"}
    /\ lookups < MaxLookups
    /\ lookups' = lookups + 1
    /\ \E p \in Port :
          /\ ~ InUse(p)
          /\ port' = [port EXCEPT ![l] = p]
          /\ fresh' = [fresh EXCEPT ![l] = ~ Traffic(p)]
    /\ looker' = [looker EXCEPT ![l] = IF address[l] = None THEN "asking" ELSE "found"]
    /\ tries' = [tries EXCEPT ![l] = 0]
    /\ ran' = [ran EXCEPT ![l] = Running]
    /\ UNCHANGED <<address, serverVars, network, late>>

\* RegistryServer::get_address makes a RegistryLookup and calls its lookup:
\* create_socket, and the first turn of the loop begins.
Lookup(l) ==
    /\ looker[l] \in {"idle", "found", "failed"}
    /\ lookups < MaxLookups
    /\ lookups' = lookups + 1
    /\ \E p \in Port :
          /\ ~ InUse(p)
          /\ port' = [port EXCEPT ![l] = p]
          /\ fresh' = [fresh EXCEPT ![l] = ~ Traffic(p)]
    /\ looker' = [looker EXCEPT ![l] = "asking"]
    /\ tries' = [tries EXCEPT ![l] = 0]
    /\ address' = [address EXCEPT ![l] = None]
    /\ ran' = [ran EXCEPT ![l] = Running]
    /\ UNCHANGED <<serverVars, network, late>>

\* The lookup is over and its socket closed.
End(l, result) ==
    /\ looker' = [looker EXCEPT ![l] = result]
    /\ port' = [port EXCEPT ![l] = None]

\* send_message: the broadcast reaches some hosts, or sendto fails and throws.
SendMessage(l) ==
    /\ looker[l] = "asking"
    /\ \/ /\ \E reached \in SUBSET Registry :
                questions' = questions \cup ({port[l]} \X reached)
          /\ looker' = [looker EXCEPT ![l] = "waiting"]
          /\ UNCHANGED port
       \/ End(l, "failed") /\ UNCHANGED questions
    /\ UNCHANGED <<tries, address, serverVars, answers, history>>

\* get_response: whatever datagram comes first is the address.
GetResponse(l) ==
    /\ looker[l] = "waiting"
    /\ \E r \in Registry :
          /\ <<port[l], r>> \in answers
          /\ address' = [address EXCEPT ![l] = r]
          /\ answers' \in {answers, answers \ {<<port[l], r>>}}
    /\ End(l, "found")
    /\ UNCHANGED <<tries, serverVars, questions, history>>

\* Mutant of Timeout: recvfrom has no SO_RCVTIMEO, and waits while nothing comes.
TimeoutNever(l) ==
    /\ looker[l] = "waiting"
    /\ \E r \in Registry : <<port[l], r>> \in answers
    /\ tries' = [tries EXCEPT ![l] = @ + 1]
    /\ looker' = [looker EXCEPT ![l] = "asking"]
    /\ UNCHANGED <<port, address, serverVars, network, history>>

\* Fifteen seconds, or a signal; after the last try lookup throws.
Timeout(l) ==
    /\ looker[l] = "waiting"
    /\ tries' = [tries EXCEPT ![l] = @ + 1]
    /\ IF tries[l] + 1 = MaxTries THEN End(l, "failed")
       ELSE looker' = [looker EXCEPT ![l] = "asking"] /\ UNCHANGED port
    /\ UNCHANGED <<address, serverVars, network, history>>

-----------------------------------------------------------------------------
(* rcom-registry: main() and the thread of RegistryLookupServer *)

\* main() has made the WebSocketServer and the RegistryLookupServer: init, start.
Start(r) ==
    /\ main[r] = "off"
    /\ main' = [main EXCEPT ![r] = "serving"]
    /\ thread' = [thread EXCEPT ![r] = "check"]
    /\ ran' = [l \in Looker |-> ran[l] \cup {r}]
    /\ UNCHANGED <<lookerVars, asker, quit, network, lookups, fresh, late>>

\* while (!quit_)
CheckQuit(r) ==
    /\ thread[r] = "check"
    /\ thread' = [thread EXCEPT ![r] = IF quit[r] THEN "done" ELSE "recvfrom"]
    /\ UNCHANGED <<lookerVars, main, asker, quit, network, history>>

\* recvfrom has no timeout; a datagram may come once more.
Receive(r) ==
    /\ thread[r] = "recvfrom"
    /\ \E p \in Port :
          /\ <<p, r>> \in questions
          /\ asker' = [asker EXCEPT ![r] = p]
          /\ questions' \in {questions, questions \ {<<p, r>>}}
    /\ thread' = [thread EXCEPT ![r] = "answer"]
    /\ UNCHANGED <<lookerVars, main, quit, answers, history>>

\* Mutant of Answer: the next datagram is received before quit_ is looked at.
AnswerAndReceive(r) ==
    /\ thread[r] = "answer"
    /\ answers' \in {answers, answers \cup {<<asker[r], r>>}}
    /\ thread' = [thread EXCEPT ![r] = "recvfrom"]
    /\ asker' = [asker EXCEPT ![r] = None]
    /\ late' = [late EXCEPT ![r] = IF quit[r] THEN @ + 1 ELSE @]
    /\ UNCHANGED <<lookerVars, main, quit, questions, lookups, ran, fresh>>

\* sendto: the answer may be lost.
Answer(r) ==
    /\ thread[r] = "answer"
    /\ answers' \in {answers, answers \cup {<<asker[r], r>>}}
    /\ thread' = [thread EXCEPT ![r] = "check"]
    /\ asker' = [asker EXCEPT ![r] = None]
    /\ late' = [late EXCEPT ![r] = IF quit[r] THEN @ + 1 ELSE @]
    /\ UNCHANGED <<lookerVars, main, quit, questions, lookups, ran, fresh>>

\* Mutant of Stop: join comes before the assignment.
StopJoinsFirst(r) ==
    /\ main[r] = "serving"
    /\ main' = [main EXCEPT ![r] = "joining"]
    /\ UNCHANGED <<lookerVars, thread, asker, quit, network, history>>

\* SIGINT has ended the loop of main(); lookup_server is destroyed first, and
\* its stop sets quit_ and waits for the thread.
Stop(r) ==
    /\ main[r] = "serving"
    /\ main' = [main EXCEPT ![r] = "joining"]
    /\ quit' = [quit EXCEPT ![r] = TRUE]
    /\ UNCHANGED <<lookerVars, thread, asker, network, history>>

\* The thread is joined, the process goes on to destroy the WebSocketServer.
Joined(r) ==
    /\ main[r] = "joining"
    /\ thread[r] = "done"
    /\ main' = [main EXCEPT ![r] = "ended"]
    /\ UNCHANGED <<lookerVars, thread, asker, quit, network, history>>

\* The process dies.
Die(r) ==
    /\ r \in Running
    /\ main' = [main EXCEPT ![r] = "dead"]
    /\ thread' = [thread EXCEPT ![r] = "done"]
    /\ asker' = [asker EXCEPT ![r] = None]
    /\ UNCHANGED <<lookerVars, quit, network, history>>

-----------------------------------------------------------------------------
LookerStep(l) == SendMessage(l) \/ GetResponse(l) \/ Timeout(l)

ThreadStep(r) == CheckQuit(r) \/ Receive(r) \/ Answer(r) \/ Joined(r)

Next ==
    \/ \E l \in Looker : Lookup(l) \/ LookerStep(l)
    \/ \E r \in Registry : Start(r) \/ ThreadStep(r) \/ Stop(r) \/ Die(r)

Spec == Init /\ [][Next]_vars

\* A lookup goes on, since its socket has a timeout; the registry's thread does
\* too, as long as there is a datagram for it.  The network promises nothing.
Fairness ==
    /\ \A l \in Looker : WF_vars(LookerStep(l))
    /\ \A r \in Registry : WF_vars(ThreadStep(r))

FairSpec == Spec /\ Fairness

-----------------------------------------------------------------------------
(***************************************************************************)
(* The address that a lookup finds is that of a registry which ran at some *)
(* time since the lookup began, though registries die and others start,    *)
(* and answers are late or come twice.  It may fail only when the lookup   *)
(* got the port of an earlier one to which an answer is still under way.   *)
(***************************************************************************)
FoundWasRunning ==
    \A l \in Looker :
        looker[l] = "found" /\ fresh[l] => address[l] \in ran[l]

(***************************************************************************)
(* The thread reads quit_ before each datagram and main() writes it while  *)
(* the thread is in recvfrom: a registry that stops answers at most one    *)
(* more lookup.                                                            *)
(***************************************************************************)
OneLateAnswer == \A r \in Registry : late[r] <= 1

(***************************************************************************)
(* A lookup ends, whatever is lost and whoever is dead: with an address or *)
(* an exception.                                                           *)
(***************************************************************************)
LookupEnds ==
    \A l \in Looker :
        looker[l] \in {"asking", "waiting"} ~> looker[l] \in {"found", "failed"}

(***************************************************************************)
(* stop returns once a datagram comes for the thread that it waits for.    *)
(* Without one it waits for ever: recvfrom has no timeout and nothing      *)
(* wakes it.                                                               *)
(***************************************************************************)
DatagramFor(r) == \E p \in Port : <<p, r>> \in questions

StopReturns ==
    \A r \in Registry :
        main[r] = "joining" /\ DatagramFor(r) ~> main[r] \in {"ended", "dead"}
=============================================================================
