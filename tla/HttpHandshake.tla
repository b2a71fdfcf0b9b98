--------------------------- MODULE HttpHandshake ---------------------------
(***************************************************************************)
(* The opening handshake of a websocket: the constructors of               *)
(* ClientSideWebSocket and ServerSideWebSocket, HttpParser with its        *)
(* subclasses RequestParser and ResponseParser, Request and Response.      *)
(*                                                                         *)
(* Either a librcom client meets a librcom server: the server parses the   *)
(* request, then the client the response.  Or one of them meets a foreign  *)
(* peer that sends anything.  One parser is at work at a time, and reads   *)
(* one character at a time.  A character of the model is a separator or a  *)
(* whole word; the limits of the code count words.                         *)
(***************************************************************************)
EXTENDS Base64, Sequences, SequencesExt

CONSTANTS
    Nonces,         \* the 16 random bytes of make_key
    Foreign,        \* what a foreign peer sends
    MaxChars,       \* bound: characters that it sends
    MaxWord,        \* 8: method and version, scaled
    MaxCode,        \* 3
    MaxReason,      \* 128
    MaxUri,         \* kMaxUriLength, 2048
    MaxName,        \* kMaxHeaderNameLength, 128
    MaxValue        \* kMaxHeaderValueLength, 1024

ASSUME NoncesAssumption == Nonces # {} /\ Nonces \subseteq Bytes(16)
ASSUME LimitsAssumption ==
    /\ MaxWord \in Nat /\ MaxCode \in Nat /\ MaxReason \in Nat /\ MaxUri \in Nat
    /\ MaxName \in Nat \ {0} /\ MaxValue \in Nat \ {0} /\ MaxChars \in Nat

\* The limits let the messages of librcom pass, as those of the code do.
ASSUME OwnMessagesAssumption ==
    MaxWord >= 1 /\ MaxCode >= 1 /\ MaxReason >= 3 /\ MaxUri >= 1 /\ MaxValue >= 3

VARIABLES
    peer,           \* who sends: librcom or a foreign program
    parsing,        \* what is parsed: the request or the response
    pending,        \* what a librcom peer has sent and is not read yet
    state,          \* state_
    buffer,         \* buffer_
    name,           \* name_
    words,          \* the words of the first line
    headers,        \* headers_
    read,           \* the characters that were read, in order
    nonce,          \* the client's random bytes
    outcome         \* how the handshake of the end that parses stands

parserVars == <<state, buffer, name, words, headers>>
vars == <<peer, parsing, pending, parserVars, read, nonce, outcome>>

Separators == {"sp", "cr", "lf", "colon"}
Upper == {"GET"}
Digits == {"101", "404"}
Others == {"HTTP/1.1", "/", "ip", "port", "Host", "Connection", "Upgrade", "websocket",
           "Sec-WebSocket-Version", "13", "Sec-WebSocket-Key", "key",
           "Sec-WebSocket-Accept", "accept", "Switching", "Protocols", "frame"}

Tokens == Upper \cup Digits \cup Others
NameTokens == Tokens \ {"HTTP/1.1", "/"}        \* '/' is a separator
Anything == Separators \cup Tokens

ASSUME ForeignAssumption == Foreign \subseteq Anything

-----------------------------------------------------------------------------
(* The states of the parser.                                               *)

(***************************************************************************)
(* A state that collects a word in buffer_: the character that ends it,    *)
(* the state that follows, the characters it takes, and its limit.  The    *)
(* limit is tested before the end of the word when it is strict; a word    *)
(* may then have limit characters, otherwise one more.                     *)
(***************************************************************************)
WordState(ends, next, takes, limit, strict) ==
    [ends |-> ends, next |-> next, takes |-> takes, limit |-> limit,
     strict |-> strict]

Word ==
    [kRequestMethod   |-> WordState("sp", "kRequestMethodSpaces", Upper, MaxWord, TRUE),
     kRequestUri      |-> WordState("sp", "kRequestUriSpaces", Anything, MaxUri, TRUE),
     kRequestVersion  |-> WordState("cr", "kRequestLineLF",
                                    {"HTTP/1.1"} \cup Digits, MaxWord, FALSE),
     kResponseVersion |-> WordState("sp", "kResponseVersionSpaces", Anything, MaxWord, TRUE),
     kResponseCode    |-> WordState("sp", "kResponseCodeSpaces", Digits, MaxCode, TRUE),
     kResponseReason  |-> WordState("cr", "kResponseReasonLF", Anything, MaxReason, TRUE),
     kHeaderName      |-> WordState("colon", "kHeaderSpaces", NameTokens, MaxName - 1, FALSE),
     kHeaderValue     |-> WordState("cr", "kHeaderLF", Anything, MaxValue - 1, FALSE)]

\* A state that skips spaces; the next character begins a word, whatever it is.
AfterSpaces ==
    [kRequestMethodSpaces   |-> "kRequestUri",
     kRequestUriSpaces      |-> "kRequestVersion",
     kResponseVersionSpaces |-> "kResponseCode",
     kResponseCodeSpaces    |-> "kResponseReason",
     kHeaderSpaces          |-> "kHeaderValue"]

\* A state that expects the LF of a CRLF.
AfterLF ==
    [kRequestLineLF    |-> "kHeaderStart",
     kResponseReasonLF |-> "kHeaderStart",
     kHeaderLF         |-> "kHeaderStart",
     kHeadersEndLF     |-> "kBody"]

States ==
    DOMAIN Word \cup DOMAIN AfterSpaces \cup DOMAIN AfterLF
        \cup {"kHeaderStart", "kBody", "kErrorState"}

FirstState(what) ==
    IF what = "request" THEN "kRequestMethod" ELSE "kResponseVersion"

TypeOK ==
    /\ peer \in {"librcom", "foreign"}
    /\ parsing \in {"request", "response"}
    /\ pending \in Seq(Anything)
    /\ state \in States
    /\ buffer \in Seq(Anything)
    /\ state \in DOMAIN Word => Len(buffer) <= Word[state].limit + 1
    /\ name \in Seq(NameTokens)
    /\ words \in Seq(Seq(Anything)) /\ Len(words) <= 3
    /\ headers \in Seq([name : Seq(NameTokens), value : Seq(Anything)])
    /\ read \in Seq(Anything)
    /\ nonce \in Nonces
    /\ outcome \in {"parsing", "open", "rejected", "timeout"}

-----------------------------------------------------------------------------
(* The messages of librcom.                                                *)

CRLF == <<"cr", "lf">>

Line(n, value) == <<n, "colon", "sp">> \o value \o CRLF

\* make_http_request; key stands for the text of EncodeBase64(nonce, 16).
OwnRequest ==
    <<"GET", "sp", "/", "sp", "HTTP/1.1">> \o CRLF
        \o Line("Host", <<"ip", "colon", "port">>)
        \o Line("Connection", <<"Upgrade">>)
        \o Line("Upgrade", <<"websocket">>)
        \o Line("Sec-WebSocket-Version", <<"13">>)
        \o Line("Sec-WebSocket-Key", <<"key">>)
        \o CRLF

\* make_http_response; accept stands for the text that belongs to the key.
OwnResponse ==
    <<"HTTP/1.1", "sp", "101", "sp", "Switching", "sp", "Protocols">> \o CRLF
        \o Line("Upgrade", <<"websocket">>)
        \o Line("Connection", <<"Upgrade">>)
        \o Line("Sec-WebSocket-Accept", <<"accept">>)
        \o CRLF

\* A hub may broadcast as soon as it has answered.
Frames == <<"frame", "frame">>

-----------------------------------------------------------------------------
(* handle_char                                                             *)

WithinLimit == Len(buffer) <= Word[state].limit

\* Mutant of Takes: the limit is one too small.
TakesLess(c) ==
    /\ state \in DOMAIN Word
    /\ c # Word[state].ends
    /\ c \in Word[state].takes
    /\ Len(buffer) < Word[state].limit

\* Mutant of Takes: the limit is not looked at.
TakesWithoutLimit(c) ==
    /\ state \in DOMAIN Word
    /\ c # Word[state].ends
    /\ c \in Word[state].takes

Takes(c) ==
    /\ state \in DOMAIN Word
    /\ c # Word[state].ends
    /\ c \in Word[state].takes
    /\ WithinLimit

\* set_method, set_version and set_code accept one thing, the others anything.
WordOK ==
    CASE state = "kRequestMethod" -> buffer = <<"GET">>
      [] state \in {"kRequestVersion", "kResponseVersion"} -> buffer = <<"HTTP/1.1">>
      [] state = "kResponseCode" -> buffer \in {<<d>> : d \in Digits}
      [] OTHER -> TRUE

Ends(c) ==
    /\ state \in DOMAIN Word
    /\ c = Word[state].ends
    /\ Word[state].strict => WithinLimit
    /\ WordOK

\* Mutant of Begins: an empty header value is not refused.
BeginsAnyway(c) ==
    \/ state \in DOMAIN AfterSpaces /\ c # "sp"
    \/ state = "kHeaderStart" /\ c \in NameTokens

Begins(c) ==
    \/ /\ state \in DOMAIN AfterSpaces
       /\ c # "sp"
       /\ ~ (state = "kHeaderSpaces" /\ c = "cr")
    \/ state = "kHeaderStart" /\ c \in NameTokens

Skips(c) == state \in DOMAIN AfterSpaces /\ c = "sp"

EndsLine(c) == state \in DOMAIN AfterLF /\ c = "lf"

EndsHeaders(c) == state = "kHeaderStart" /\ c = "cr"

TakeChar(c) ==
    /\ Takes(c)
    /\ buffer' = Append(buffer, c)
    /\ UNCHANGED <<state, name, words, headers, outcome>>

\* Mutant of EndWord: every header gets the name of the first.
EndWordKeepsName(c) ==
    /\ Ends(c)
    /\ state' = Word[state].next
    /\ name' = IF state = "kHeaderName" /\ headers = <<>> THEN buffer ELSE name
    /\ headers' = IF state = "kHeaderValue"
                  THEN Append(headers, [name |-> name, value |-> buffer])
                  ELSE headers
    /\ words' = IF state \in {"kHeaderName", "kHeaderValue"} THEN words
                ELSE Append(words, buffer)
    /\ UNCHANGED <<buffer, outcome>>

\* store_header_name, add_header, or one of set_method ... set_reason.
EndWord(c) ==
    /\ Ends(c)
    /\ state' = Word[state].next
    /\ name' = IF state = "kHeaderName" THEN buffer ELSE name
    /\ headers' = IF state = "kHeaderValue"
                  THEN Append(headers, [name |-> name, value |-> buffer])
                  ELSE headers
    /\ words' = IF state \in {"kHeaderName", "kHeaderValue"} THEN words
                ELSE Append(words, buffer)
    /\ UNCHANGED <<buffer, outcome>>

BeginWord(c) ==
    /\ Begins(c)
    /\ state' = IF state = "kHeaderStart" THEN "kHeaderName" ELSE AfterSpaces[state]
    /\ buffer' = <<c>>
    /\ UNCHANGED <<name, words, headers, outcome>>

SkipSpace(c) == Skips(c) /\ UNCHANGED <<parserVars, outcome>>

Advance(c) ==
    /\ EndsLine(c) \/ EndsHeaders(c)
    /\ state' = IF EndsHeaders(c) THEN "kHeadersEndLF" ELSE AfterLF[state]
    /\ UNCHANGED <<buffer, name, words, headers, outcome>>

\* error() throws, and the constructor with it.
Reject(c) ==
    /\ ~ (Takes(c) \/ Ends(c) \/ Begins(c) \/ Skips(c) \/ EndsLine(c) \/ EndsHeaders(c))
    /\ state' = "kErrorState"
    /\ outcome' = "rejected"
    /\ UNCHANGED <<buffer, name, words, headers>>

HandleChar(c) ==
    \/ TakeChar(c) \/ EndWord(c) \/ BeginWord(c) \/ SkipSpace(c) \/ Advance(c)
    \/ Reject(c)

-----------------------------------------------------------------------------
(* The handshake                                                           *)

NewParser(what) ==
    /\ state' = FirstState(what)
    /\ buffer' = <<>> /\ name' = <<>> /\ words' = <<>> /\ headers' = <<>>

Init ==
    /\ \/ /\ peer = "librcom" /\ parsing = "request" /\ pending = OwnRequest
          /\ nonce \in Nonces
       \/ /\ peer = "foreign" /\ parsing \in {"request", "response"} /\ pending = <<>>
          /\ nonce = CHOOSE n \in Nonces : TRUE     \* it sends no key
    /\ state = FirstState(parsing)
    /\ buffer = <<>> /\ name = <<>> /\ words = <<>> /\ headers = <<>>
    /\ read = <<>>
    /\ outcome = "parsing"

\* read_char, which parse() calls until the headers are over.
ReadChar ==
    /\ outcome = "parsing"
    /\ state # "kBody"
    /\ \E c \in Anything :
          /\ IF peer = "librcom"
             THEN pending # <<>> /\ c = Head(pending) /\ pending' = Tail(pending)
             ELSE c \in Foreign /\ Len(read) < MaxChars /\ UNCHANGED pending
          /\ HandleChar(c)
          /\ read' = Append(read, c)
    /\ UNCHANGED <<peer, parsing, nonce>>

\* Nothing comes for five seconds, or the connection breaks.
Timeout ==
    /\ outcome = "parsing"
    /\ state # "kBody"
    /\ outcome' = "timeout"
    /\ UNCHANGED <<peer, parsing, pending, parserVars, read, nonce>>

\* get_header_value: the first header of that name, compared with case.
HeaderValue(n) ==
    LET i == SelectInSeq(headers, LAMBDA h : h.name = <<n>>)
    IN  IF i = 0 THEN <<>> ELSE headers[i].value

KeyOK(value) == value = <<"key">> /\ ValidKey(EncodeBase64(nonce, 16), 24)

\* Request::assert_websocket
RequestOK ==
    /\ words[1] = <<"GET">>
    /\ KeyOK(HeaderValue("Sec-WebSocket-Key"))
    /\ HeaderValue("Sec-WebSocket-Version") = <<"13">>
    /\ "Upgrade" \in ToSet(HeaderValue("Connection"))
    /\ HeaderValue("Upgrade") = <<"websocket">>

\* Response::assert_websocket
ResponseOK ==
    /\ words[2] = <<"101">>
    /\ HeaderValue("Connection") = <<"Upgrade">>
    /\ HeaderValue("Upgrade") = <<"websocket">>
    /\ HeaderValue("Sec-WebSocket-Accept") = <<"accept">>

\* assert_websocket throws.
Refuse ==
    /\ outcome = "parsing"
    /\ state = "kBody"
    /\ ~ (IF parsing = "request" THEN RequestOK ELSE ResponseOK)
    /\ outcome' = "rejected"
    /\ UNCHANGED <<peer, parsing, pending, parserVars, read, nonce>>

\* upgrade_connection sends the response; a librcom client parses it.
Upgrade ==
    /\ outcome = "parsing"
    /\ state = "kBody" /\ parsing = "request" /\ RequestOK
    /\ IF peer = "foreign"
       THEN /\ outcome' = "open"
            /\ UNCHANGED <<parsing, pending, parserVars, read>>
       ELSE /\ parsing' = "response"
            /\ pending' = OwnResponse \o Frames
            /\ NewParser("response")
            /\ read' = <<>>
            /\ UNCHANGED outcome
    /\ UNCHANGED <<peer, nonce>>

Open ==
    /\ outcome = "parsing"
    /\ state = "kBody" /\ parsing = "response" /\ ResponseOK
    /\ outcome' = "open"
    /\ UNCHANGED <<peer, parsing, pending, parserVars, read, nonce>>

Next == ReadChar \/ Timeout \/ Refuse \/ Upgrade \/ Open

Spec == Init /\ [][Next]_vars

-----------------------------------------------------------------------------
\* A text without its spaces.
Printed(c) == IF c = "sp" THEN <<>> ELSE <<c>>

WithoutSpaces(s) == FlattenSeq([i \in 1 .. Len(s) |-> Printed(s[i])])

RenderHeader(h) == h.name \o <<"colon">> \o h.value \o CRLF

HeaderLines(hs) == FlattenSeq([i \in 1 .. Len(hs) |-> RenderHeader(hs[i])])

\* The message that the parser holds, written out.
Rendered == FlattenSeq(words) \o CRLF \o HeaderLines(headers) \o CRLF

(***************************************************************************)
(* What the parser hands over is what was read: written out again, the     *)
(* first line and the headers are the characters that came, but for        *)
(* spaces.  Nothing of one word shows up in the next (buffer_ and name_    *)
(* are used for all), nothing is dropped.                                  *)
(***************************************************************************)
NothingMisread ==
    state = "kBody" => WithoutSpaces(read) = WithoutSpaces(Rendered)

BlankLineIn(s) ==
    \E i \in 1 .. Len(s) - 3 : SubSeq(s, i, i + 3) = CRLF \o CRLF

(***************************************************************************)
(* The parser reads no character behind the blank line, where the first    *)
(* frames may follow at once: a blank line cannot hide inside a header.    *)
(* It can inside the first line, where spaces are followed by any          *)
(* character: "HTTP/1.1 101 " CRLF, an empty reason, takes the next line   *)
(* for the reason.                                                         *)
(***************************************************************************)
FirstLineHasCR ==
    \/ \E i \in 1 .. Len(words) : "cr" \in ToSet(words[i])
    \/ Len(words) < 3 /\ "cr" \in ToSet(buffer)

StopsAtBlankLine ==
    state # "kBody" /\ ~ FirstLineHasCR => ~ BlankLineIn(read)

(***************************************************************************)
(* A librcom client and a librcom server accept each other, for every      *)
(* nonce, unless one gives up; and the frames that follow the response are *)
(* all left for the websocket.                                             *)
(***************************************************************************)
OwnHandshakeSucceeds ==
    peer = "librcom" =>
        /\ outcome # "rejected"
        /\ outcome = "open" => pending = Frames
=============================================================================
