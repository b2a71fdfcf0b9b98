------------------------- MODULE HttpHandshakeProofs -------------------------
(***************************************************************************)
(* The opening handshake.                                                  *)
(*                                                                         *)
(* First what encode_base64 and the check of the key do with any bytes,    *)
(* then the parser, whatever is sent and however long: what is kept of a   *)
(* message (types and limits), that it stops at the blank line, and that   *)
(* the message it hands over is the text that was read.  Last, that two    *)
(* ends of librcom accept each other: the parser is followed through their *)
(* messages.  The limits of the lengths are arbitrary.                     *)
(***************************************************************************)
EXTENDS HttpHandshake, SequenceTheorems, WellFoundedInduction, TLAPS

LEMMA ByteAtIsByte ==
    ASSUME NEW n \in Nat, NEW data \in Bytes(n), NEW i \in Nat
    PROVE  ByteAt(data, n, i) \in Byte
BY DEF ByteAt, Bytes, Byte

\* Quotient and remainder are the only numbers that make up a number.
LEMMA Division4 ==
    ASSUME NEW q \in Int, NEW r \in 0 .. 3
    PROVE  (4 * q + r) \div 4 = q /\ (4 * q + r) % 4 = r
BY SMT

LEMMA Division16 ==
    ASSUME NEW q \in Int, NEW r \in 0 .. 15
    PROVE  (16 * q + r) \div 16 = q /\ (16 * q + r) % 16 = r
BY SMT

LEMMA Division64 ==
    ASSUME NEW q \in Int, NEW r \in 0 .. 63
    PROVE  (64 * q + r) \div 64 = q /\ (64 * q + r) % 64 = r
BY SMT

\* A byte is made of its upper and lower bits, cut at two, four or six.
LEMMA Cut ==
    ASSUME NEW x \in Byte
    PROVE  /\ x \div 4 \in 0 .. 63 /\ x % 4 \in 0 .. 3
           /\ x % 4 = x - 4 * (x \div 4)
           /\ x \div 16 \in 0 .. 15 /\ x % 16 \in 0 .. 15
           /\ x % 16 = x - 16 * (x \div 16)
           /\ x \div 64 \in 0 .. 3 /\ x % 64 \in 0 .. 63
           /\ x % 64 = x - 64 * (x \div 64)
<1>1. x \div 4 \in 0 .. 63 /\ x % 4 \in 0 .. 3
  BY SMT DEF Byte
<1>2. x % 4 = x - 4 * (x \div 4)
  BY SMT DEF Byte
<1>3. x \div 16 \in 0 .. 15 /\ x % 16 \in 0 .. 15
  BY SMT DEF Byte
<1>4. x % 16 = x - 16 * (x \div 16)
  BY SMT DEF Byte
<1>5. x \div 64 \in 0 .. 3 /\ x % 64 \in 0 .. 63
  BY SMT DEF Byte
<1>6. x % 64 = x - 64 * (x \div 64)
  BY SMT DEF Byte
<1> QED
  BY <1>1, <1>2, <1>3, <1>4, <1>5, <1>6, Zenon

\* The sextets of 24 bits are characters of the table and give the bytes back.
LEMMA BytesOfSextets ==
    ASSUME NEW x \in Byte, NEW y \in Byte, NEW z \in Byte
    PROVE  LET p == Joined(x, y, z)
           IN  /\ \A j \in 0 .. 3 : Sextet(p, j) \in 0 .. 63
               /\ 4 * Sextet(p, 0) + Sextet(p, 1) \div 16 = x
               /\ 16 * (Sextet(p, 1) % 16) + Sextet(p, 2) \div 4 = y
               /\ 64 * (Sextet(p, 2) % 4) + Sextet(p, 3) = z
<1> DEFINE p == Joined(x, y, z)
           s0 == x \div 4
           s1 == 16 * (x % 4) + y \div 16
           s2 == 4 * (y % 16) + z \div 64
           s3 == z % 64
<1>1. s0 \in 0 .. 63 /\ s1 \in 0 .. 63 /\ s2 \in 0 .. 63 /\ s3 \in 0 .. 63
  BY Cut, SMT DEF Byte
<1>2. p = 262144 * s0 + 4096 * s1 + 64 * s2 + s3
  BY Cut, SMT DEF Byte, Joined
<1>3. /\ s1 \div 16 = x % 4 /\ s1 % 16 = y \div 16
  <2>1. x % 4 \in Int /\ y \div 16 \in 0 .. 15
    BY Cut, SMT DEF Byte
  <2> QED
    BY <2>1, Division16, SMT
<1>4. s2 \div 4 = y % 16 /\ s2 % 4 = z \div 64
  <2>1. y % 16 \in Int /\ z \div 64 \in 0 .. 3
    BY Cut, SMT DEF Byte
  <2> QED
    BY <2>1, Division4, SMT
<1>5. 4 * s0 + s1 \div 16 = x
  BY <1>3, Cut, SMT DEF Byte
<1>6. 16 * (s1 % 16) + s2 \div 4 = y
  BY <1>3, <1>4, Cut, SMT DEF Byte
<1>7. 64 * (s2 % 4) + s3 = z
  BY <1>4, Cut, SMT DEF Byte
<1> HIDE DEF p, s0, s1, s2, s3
<1>8. \A j \in 0 .. 3 : j = 0 => Sextet(p, j) = s0
  <2>1. p \div 262144 = s0 /\ s0 % 64 = s0
    BY <1>1, <1>2, SMT
  <2> QED
    BY <2>1, SMT DEF Sextet
<1>9. \A j \in 0 .. 3 : j = 1 => Sextet(p, j) = s1
  <2>1. p \div 4096 = 64 * s0 + s1
    BY <1>1, <1>2, SMT
  <2>2. (64 * s0 + s1) % 64 = s1
    BY <1>1, SMT
  <2> QED
    BY <2>1, <2>2, SMT DEF Sextet
<1>10. \A j \in 0 .. 3 : j = 2 => Sextet(p, j) = s2
  <2>1. p \div 64 = 64 * (64 * s0 + s1) + s2
    BY <1>1, <1>2, SMT
  <2>2. (64 * (64 * s0 + s1) + s2) % 64 = s2
    BY <1>1, SMT
  <2> QED
    BY <2>1, <2>2, SMT DEF Sextet
<1>11. \A j \in 0 .. 3 : j = 3 => Sextet(p, j) = s3
  <2>1. p = 64 * (64 * (64 * s0 + s1) + s2) + s3
    BY <1>1, <1>2, SMT
  <2>2. p % 64 = s3
    BY <1>1, <2>1, SMT
  <2> QED
    BY <2>2, SMT DEF Sextet
<1>12. /\ Sextet(p, 0) = s0 /\ Sextet(p, 1) = s1
       /\ Sextet(p, 2) = s2 /\ Sextet(p, 3) = s3
  BY <1>8, <1>9, <1>10, <1>11, SMT
<1>13. \A j \in 0 .. 3 : Sextet(p, j) \in 0 .. 63
  BY <1>1, <1>8, <1>9, <1>10, <1>11, SMT
<1> QED
  BY <1>5, <1>6, <1>7, <1>12, <1>13, SMT DEF p

LEMMA SextetIsCharacter ==
    ASSUME NEW n \in Nat, NEW data \in Bytes(n), NEW b \in Nat, NEW j \in 0 .. 3
    PROVE  Sextet(Block(data, n, b), j) \in 0 .. 63
<1> DEFINE x == ByteAt(data, n, 3 * b)
           y == ByteAt(data, n, 3 * b + 1)
           z == ByteAt(data, n, 3 * b + 2)
           p == Block(data, n, b)
<1>1. x \in Byte /\ y \in Byte /\ z \in Byte
  BY ByteAtIsByte, SMT
<1>2. p = Joined(x, y, z)
  BY SMT DEF Block
<1> HIDE DEF x, y, z, p
<1> QED
  BY <1>1, <1>2, BytesOfSextets, SMT DEF p

(***************************************************************************)
(* The key that make_key sends in the handshake, 16 random bytes, passes   *)
(* is_valid_websocket_key of the server, whatever the bytes are.           *)
(***************************************************************************)
THEOREM KeyIsValid ==
    ASSUME NEW bytes \in Bytes(16)
    PROVE  ValidKey(EncodeBase64(bytes, 16), EncodedLength(16))
<1> DEFINE text == EncodeBase64(bytes, 16)
<1>1. EncodedLength(16) = 24
  BY SMT DEF EncodedLength
<1>2. ASSUME NEW k \in 0 .. 23
      PROVE  text[k] \in Character /\ (text[k] = Pad <=> k >= 22)
  <2> DEFINE b == k \div 4
             j == k % 4
  <2>1. b \in Nat /\ j \in 0 .. 3
    BY SMT
  <2>2. text[k] = EncodedAt(bytes, 16, b, j)
    BY <1>1, SMT DEF EncodeBase64
  <2>3. 3 * b + j > 16 <=> k >= 22
    BY SMT
  <2> HIDE DEF b, j
  <2>4. Sextet(Block(bytes, 16, b), j) \in 0 .. 63
    BY <2>1, SextetIsCharacter, SMT
  <2> QED
    BY <2>2, <2>3, <2>4, SMT DEF EncodedAt, Pad, Character
<1> HIDE DEF text
<1>3. IsBase64(text, 24)
  <2>1. \A k \in 0 .. 24 - 1 :
           text[k] \in Character /\ (text[k] = Pad <=> k >= 24 - 2)
    BY <1>2, SMT
  <2> QED
    BY <2>1, SMT DEF IsBase64
<1>4. text[22] = Pad /\ text[23] = Pad
  <2>1. 22 \in 0 .. 23 /\ 23 \in 0 .. 23
    BY SMT
  <2> QED
    BY <1>2, <2>1, SMT
<1>5. ValidKey(text, 24)
  BY <1>3, <1>4, SMT DEF ValidKey
<1> QED
  BY <1>1, <1>5, SMT DEF text

(***************************************************************************)
(* encode_base64 loses nothing, for data of every length: its three cases, *)
(* a block of three, of two and of one byte, can all be read back.         *)
(***************************************************************************)
THEOREM Base64RoundTrip ==
    ASSUME NEW n \in Nat, NEW data \in Bytes(n), NEW i \in 0 .. n - 1
    PROVE  DecodedByte(EncodeBase64(data, n), i) = data[i]
<1> DEFINE text == EncodeBase64(data, n)
           b == i \div 3
           p == Block(data, n, b)
           x == ByteAt(data, n, 3 * b)
           y == ByteAt(data, n, 3 * b + 1)
           z == ByteAt(data, n, 3 * b + 2)
<1>1. b \in Nat /\ i % 3 \in 0 .. 2 /\ i % 3 = i - 3 * b
  BY SMT
<1> HIDE DEF b
<1>2. ASSUME NEW j \in 0 .. 3, 3 * b + j <= n
      PROVE  text[4 * b + j] = Sextet(p, j)
  <2> DEFINE k == 4 * b + j
  <2>1. k \in 0 .. EncodedLength(n) - 1
    BY <1>1, <1>2, SMT DEF EncodedLength
  <2>2. k \div 4 = b /\ k % 4 = j
    BY <1>1, SMT
  <2> HIDE DEF k
  <2>3. text[k] = EncodedAt(data, n, b, j)
    BY <2>1, <2>2, SMT DEF EncodeBase64
  <2>4. EncodedAt(data, n, b, j) = Sextet(p, j)
    BY <1>1, <1>2, SMT DEF EncodedAt
  <2> QED
    BY <2>3, <2>4, SMT DEF k
<1>3. x \in Byte /\ y \in Byte /\ z \in Byte
  BY <1>1, ByteAtIsByte, SMT
<1>4. p = Joined(x, y, z)
  BY SMT DEF Block
<1>5. /\ 3 * b = i => x = data[i]
      /\ 3 * b + 1 = i => y = data[i]
      /\ 3 * b + 2 = i => z = data[i]
  BY <1>1, SMT DEF ByteAt
<1> HIDE DEF p, x, y, z, text
<1>6. /\ 4 * Sextet(p, 0) + Sextet(p, 1) \div 16 = x
      /\ 16 * (Sextet(p, 1) % 16) + Sextet(p, 2) \div 4 = y
      /\ 64 * (Sextet(p, 2) % 4) + Sextet(p, 3) = z
  BY <1>3, <1>4, BytesOfSextets, SMT
<1>7. CASE i % 3 = 0
  <2>1. text[4 * b] = Sextet(p, 0) /\ text[4 * b + 1] = Sextet(p, 1)
    BY <1>1, <1>2, <1>7, SMT
  <2> QED
    BY <1>1, <1>5, <1>6, <1>7, <2>1, SMT DEF DecodedByte, b, text
<1>8. CASE i % 3 = 1
  <2>1. text[4 * b + 1] = Sextet(p, 1) /\ text[4 * b + 2] = Sextet(p, 2)
    BY <1>1, <1>2, <1>8, SMT
  <2> QED
    BY <1>1, <1>5, <1>6, <1>8, <2>1, SMT DEF DecodedByte, b, text
<1>9. CASE i % 3 = 2
  <2>1. text[4 * b + 2] = Sextet(p, 2) /\ text[4 * b + 3] = Sextet(p, 3)
    BY <1>1, <1>2, <1>9, SMT
  <2> QED
    BY <1>1, <1>5, <1>6, <1>9, <2>1, SMT DEF DecodedByte, b, text
<1>10. i % 3 = 0 \/ i % 3 = 1 \/ i % 3 = 2
  BY <1>1, SMT
<1> QED
  BY <1>7, <1>8, <1>9, <1>10, SMT

-----------------------------------------------------------------------------
(* The parser.                                                             *)

FirstLineSpaces ==
    {"kRequestMethodSpaces", "kRequestUriSpaces", "kResponseVersionSpaces",
     "kResponseCodeSpaces"}

\* The number of words of the first line that are over in state s.
WordsBefore(s) ==
    IF s \in {"kRequestMethod", "kResponseVersion"} THEN 0
    ELSE IF s \in {"kRequestMethodSpaces", "kRequestUri", "kResponseVersionSpaces",
                   "kResponseCode"} THEN 1
    ELSE IF s \in {"kRequestUriSpaces", "kRequestVersion", "kResponseCodeSpaces",
                   "kResponseReason"} THEN 2
    ELSE 3

CRInWords == \E i \in 1 .. Len(words) : "cr" \in ToSet(words[i])

\* What a state says about the words and the buffer.
WordInv ==
    /\ state # "kErrorState" => Len(words) = WordsBefore(state)
    /\ state \in FirstLineSpaces /\ "cr" \in ToSet(buffer) => CRInWords
    /\ state = "kHeaderName" => buffer \in Seq(NameTokens)
    /\ outcome = "parsing" => state # "kErrorState"

BlankLineAt(s, i) ==
    s[i] = "cr" /\ s[i + 1] = "lf" /\ s[i + 2] = "cr" /\ s[i + 3] = "lf"

(***************************************************************************)
(* How the state follows from the last characters, unless a CR is in a     *)
(* word: so the LF that completes a blank line is the one that ends the    *)
(* headers.                                                                *)
(***************************************************************************)
TailInv ==
    ~ FirstLineHasCR =>
        LET n == Len(read) IN
        /\ state # "kBody" => \A i \in 1 .. n - 3 : ~ BlankLineAt(read, i)
        /\ outcome = "parsing" /\ state # "kBody" =>
              /\ n >= 1 /\ read[n] = "cr" => state \in DOMAIN AfterLF
              /\ n >= 2 /\ read[n - 1] = "cr" /\ read[n] = "lf" => state = "kHeaderStart"
              /\ n >= 3 /\ read[n - 2] = "cr" /\ read[n - 1] = "lf" /\ read[n] = "cr"
                   => state = "kHeadersEndLF"

ParserInv == TypeOK /\ WordInv /\ TailInv

-----------------------------------------------------------------------------
(* The tables of the states.                                               *)

WordStates ==
    {"kRequestMethod", "kRequestUri", "kRequestVersion", "kResponseVersion",
     "kResponseCode", "kResponseReason", "kHeaderName", "kHeaderValue"}

LEMMA Tables ==
    /\ DOMAIN Word = WordStates
    /\ DOMAIN AfterSpaces = FirstLineSpaces \cup {"kHeaderSpaces"}
    /\ DOMAIN AfterLF = {"kRequestLineLF", "kResponseReasonLF", "kHeaderLF", "kHeadersEndLF"}
BY DEF Word, AfterSpaces, AfterLF, WordStates, FirstLineSpaces

\* What follows a word.
LEMMA AfterWord ==
    ASSUME NEW s \in WordStates
    PROVE  /\ Word[s].next \in FirstLineSpaces
                \cup {"kHeaderSpaces", "kRequestLineLF", "kResponseReasonLF", "kHeaderLF"}
           /\ Word[s].next \in FirstLineSpaces => Word[s].ends = "sp"
           /\ Word[s].next \notin DOMAIN AfterLF => Word[s].ends # "cr"
           /\ WordsBefore(Word[s].next) =
                 WordsBefore(s) + (IF s \in {"kHeaderName", "kHeaderValue"} THEN 0 ELSE 1)
           /\ Word[s].next = "kHeaderSpaces" <=> s = "kHeaderName"
           /\ Word[s].ends # "lf"
           /\ s \in {"kHeaderName", "kHeaderValue"} => WordsBefore(s) = 3
           /\ s \notin {"kHeaderName", "kHeaderValue"} => WordsBefore(s) \in 0 .. 2
<1> USE DEF Word, WordState, WordsBefore, FirstLineSpaces, AfterLF
<1>1. CASE s = "kRequestMethod"
  BY <1>1
<1>2. CASE s = "kRequestUri"
  BY <1>2
<1>3. CASE s = "kRequestVersion"
  BY <1>3
<1>4. CASE s = "kResponseVersion"
  BY <1>4
<1>5. CASE s = "kResponseCode"
  BY <1>5
<1>6. CASE s = "kResponseReason"
  BY <1>6
<1>7. CASE s = "kHeaderName"
  BY <1>7
<1>8. CASE s = "kHeaderValue"
  BY <1>8
<1> QED
  BY <1>1, <1>2, <1>3, <1>4, <1>5, <1>6, <1>7, <1>8 DEF WordStates

\* What a word takes.
LEMMA WordTakes ==
    ASSUME NEW s \in WordStates
    PROVE  /\ Word[s].limit \in Nat
           /\ Word[s].takes \subseteq Anything
           /\ s = "kHeaderName" => Word[s].takes = NameTokens
           /\ s = "kHeaderValue" => Word[s].ends = "cr"
<1>0. /\ Upper \subseteq Anything /\ Digits \subseteq Anything /\ NameTokens \subseteq Anything
      /\ {"HTTP/1.1"} \subseteq Anything
  BY DEF Anything, Tokens, NameTokens, Others
<1> USE LimitsAssumption DEF Word, WordState
<1>1. CASE s = "kRequestMethod"
  BY <1>0, <1>1
<1>2. CASE s = "kRequestUri"
  BY <1>0, <1>2
<1>3. CASE s = "kRequestVersion"
  BY <1>0, <1>3
<1>4. CASE s = "kResponseVersion"
  BY <1>0, <1>4
<1>5. CASE s = "kResponseCode"
  BY <1>0, <1>5
<1>6. CASE s = "kResponseReason"
  BY <1>0, <1>6
<1>7. CASE s = "kHeaderName"
  BY <1>0, <1>7
<1>8. CASE s = "kHeaderValue"
  BY <1>0, <1>8
<1> QED
  BY <1>1, <1>2, <1>3, <1>4, <1>5, <1>6, <1>7, <1>8 DEF WordStates

LEMMA AfterOthers ==
    /\ \A s \in DOMAIN AfterSpaces :
          /\ AfterSpaces[s] \in WordStates \ {"kHeaderName"}
          /\ WordsBefore(AfterSpaces[s]) = WordsBefore(s)
    /\ \A s \in DOMAIN AfterLF :
          /\ AfterLF[s] \in {"kHeaderStart", "kBody"}
          /\ AfterLF[s] = "kBody" <=> s = "kHeadersEndLF"
          /\ WordsBefore(s) = 3
    /\ WordsBefore("kHeaderStart") = 3 /\ WordsBefore("kHeaderName") = 3
    /\ WordsBefore("kBody") = 3 /\ WordsBefore("kHeadersEndLF") = 3
BY Tables DEF AfterSpaces, AfterLF, WordsBefore, WordStates, FirstLineSpaces

-----------------------------------------------------------------------------
(* What a character makes of the words.                                    *)

LEMMA CharacterKinds ==
    /\ NameTokens \subseteq Anything
    /\ "cr" \notin NameTokens /\ "lf" \notin NameTokens
    /\ States = WordStates \cup DOMAIN AfterSpaces \cup DOMAIN AfterLF
                  \cup {"kHeaderStart", "kBody", "kErrorState"}
<1>1. Tokens \cap Separators = {}
  BY DEF Tokens, Upper, Digits, Others, Separators
<1>2. "cr" \in Separators /\ "lf" \in Separators
  BY DEF Separators
<1> QED
  BY <1>1, <1>2, Tables DEF NameTokens, Anything, States

LEMMA TypeOfChar ==
    ASSUME TypeOK, WordInv, NEW c \in Anything, HandleChar(c), outcome = "parsing"
    PROVE  /\ state' \in States
           /\ buffer' \in Seq(Anything)
           /\ state' \in DOMAIN Word => Len(buffer') <= Word[state'].limit + 1
           /\ name' \in Seq(NameTokens)
           /\ words' \in Seq(Seq(Anything)) /\ Len(words') <= 3
           /\ headers' \in Seq([name : Seq(NameTokens), value : Seq(Anything)])
           /\ outcome' \in {"parsing", "rejected"}
           /\ state' # "kErrorState" => Len(words') = WordsBefore(state')
           /\ state' = "kHeaderName" => buffer' \in Seq(NameTokens)
           /\ outcome' = "parsing" => state' # "kErrorState"
<1> USE Tables DEF TypeOK, WordInv
<1>0. /\ buffer \in Seq(Anything) /\ Len(buffer) \in Nat /\ state \in States
      /\ words \in Seq(Seq(Anything)) /\ Len(words) \in Nat /\ name \in Seq(NameTokens)
      /\ headers \in Seq([name : Seq(NameTokens), value : Seq(Anything)])
      /\ state # "kErrorState" /\ Len(words) = WordsBefore(state)
  OBVIOUS
<1>1. CASE TakeChar(c)
  <2>1. /\ state \in WordStates /\ c \in Word[state].takes
        /\ Len(buffer) <= Word[state].limit
        /\ buffer' = Append(buffer, c)
        /\ UNCHANGED <<state, name, words, headers, outcome>>
    BY <1>1 DEF TakeChar, Takes, WithinLimit
  <2>2. buffer' \in Seq(Anything) /\ Len(buffer') = Len(buffer) + 1
    BY <1>0, <2>1
  <2>3. Word[state].limit \in Nat
    BY <2>1, WordTakes
  <2>4. Len(buffer') <= Word[state'].limit + 1
    BY <1>0, <2>1, <2>2, <2>3
  <2>5. state' = "kHeaderName" => buffer' \in Seq(NameTokens)
    <3>1. ASSUME state' = "kHeaderName"
          PROVE  c \in NameTokens /\ buffer \in Seq(NameTokens)
      BY <2>1, <3>1, WordTakes
    <3> QED
      BY <2>1, <3>1
  <2> QED
    BY <1>0, <2>1, <2>2, <2>4, <2>5
<1>2. CASE EndWord(c)
  <2> DEFINE h == [name |-> name, value |-> buffer]
  <2>1. /\ state \in WordStates /\ state' = Word[state].next
        /\ UNCHANGED <<buffer, outcome>>
        /\ name' = IF state = "kHeaderName" THEN buffer ELSE name
        /\ headers' = IF state = "kHeaderValue" THEN Append(headers, h) ELSE headers
        /\ words' = IF state \in {"kHeaderName", "kHeaderValue"} THEN words
                    ELSE Append(words, buffer)
    BY <1>2 DEF EndWord, Ends
  <2>2. /\ state' \in FirstLineSpaces
              \cup {"kHeaderSpaces", "kRequestLineLF", "kResponseReasonLF", "kHeaderLF"}
        /\ WordsBefore(state') =
              WordsBefore(state) + (IF state \in {"kHeaderName", "kHeaderValue"} THEN 0 ELSE 1)
        /\ state \in {"kHeaderName", "kHeaderValue"} => WordsBefore(state) = 3
        /\ state \notin {"kHeaderName", "kHeaderValue"} => WordsBefore(state) \in 0 .. 2
    BY <2>1, AfterWord
  <2>3. state' \in States /\ state' \notin DOMAIN Word /\ state' # "kErrorState"
    BY <2>2, CharacterKinds DEF FirstLineSpaces, WordStates
  <2>4. words' \in Seq(Seq(Anything)) /\ Len(words') = WordsBefore(state') /\ Len(words') <= 3
    <3>1. CASE state \in {"kHeaderName", "kHeaderValue"}
      BY <1>0, <2>1, <2>2, <3>1
    <3>2. CASE state \notin {"kHeaderName", "kHeaderValue"}
      <4>1. words' = Append(words, buffer)
        BY <2>1, <3>2
      <4>2. words' \in Seq(Seq(Anything)) /\ Len(words') = Len(words) + 1
        BY <1>0, <4>1
      <4> QED
        BY <1>0, <2>2, <3>2, <4>2
    <3> QED
      BY <3>1, <3>2
  <2>5. name' \in Seq(NameTokens)
    BY <1>0, <2>1
  <2>6. headers' \in Seq([name : Seq(NameTokens), value : Seq(Anything)])
    <3>1. h \in [name : Seq(NameTokens), value : Seq(Anything)]
      BY <1>0
    <3> HIDE DEF h
    <3>2. Append(headers, h) \in Seq([name : Seq(NameTokens), value : Seq(Anything)])
      BY <1>0, <3>1
    <3> QED
      BY <1>0, <2>1, <3>2
  <2>7. state' # "kHeaderName"
    BY <2>2 DEF FirstLineSpaces
  <2> QED
    BY <1>0, <2>1, <2>3, <2>4, <2>5, <2>6, <2>7
<1>3. CASE BeginWord(c)
  <2>1. /\ buffer' = <<c>> /\ UNCHANGED <<name, words, headers, outcome>>
        /\ \/ state \in DOMAIN AfterSpaces /\ state' = AfterSpaces[state]
           \/ state = "kHeaderStart" /\ c \in NameTokens /\ state' = "kHeaderName"
    BY <1>3 DEF BeginWord, Begins, FirstLineSpaces
  <2>2. state' \in WordStates /\ WordsBefore(state') = WordsBefore(state)
    BY <2>1, AfterOthers DEF WordStates
  <2>3. buffer' \in Seq(Anything) /\ Len(buffer') = 1
    BY <2>1
  <2>4. Len(buffer') <= Word[state'].limit + 1
    BY <2>2, <2>3, WordTakes
  <2>5. state' = "kHeaderName" => buffer' \in Seq(NameTokens)
    <3>1. state' = "kHeaderName" => c \in NameTokens
      BY <2>1, AfterOthers
    <3> QED
      BY <2>1, <3>1
  <2>6. state' \in States /\ state' # "kErrorState"
    BY <2>2, CharacterKinds DEF WordStates
  <2> QED
    BY <1>0, <2>1, <2>2, <2>3, <2>4, <2>5, <2>6
<1>4. CASE SkipSpace(c)
  BY <1>0, <1>4 DEF SkipSpace, parserVars
<1>5. CASE Advance(c)
  <2>1. /\ UNCHANGED <<buffer, name, words, headers, outcome>>
        /\ \/ state \in DOMAIN AfterLF /\ state' = AfterLF[state]
           \/ state = "kHeaderStart" /\ state' = "kHeadersEndLF"
    BY <1>5 DEF Advance, EndsLine, EndsHeaders
  <2>2. /\ state' \in {"kHeaderStart", "kBody", "kHeadersEndLF"}
        /\ WordsBefore(state') = WordsBefore(state)
    BY <2>1, AfterOthers
  <2>3. state' \in States /\ state' \notin DOMAIN Word
    BY <2>2, CharacterKinds DEF WordStates
  <2> QED
    BY <1>0, <2>1, <2>2, <2>3
<1>6. CASE Reject(c)
  <2>1. state' = "kErrorState" /\ outcome' = "rejected"
        /\ UNCHANGED <<buffer, name, words, headers>>
    BY <1>6 DEF Reject
  <2>2. state' \in States /\ state' \notin DOMAIN Word
    BY <2>1, CharacterKinds DEF WordStates
  <2> QED
    BY <1>0, <2>1, <2>2
<1> QED
  BY <1>1, <1>2, <1>3, <1>4, <1>5, <1>6 DEF HandleChar

\* A CR that is in a word of the first line stays there.
LEMMA CRStays ==
    ASSUME TypeOK, WordInv, NEW c \in Anything, HandleChar(c), outcome = "parsing"
    PROVE  /\ FirstLineHasCR => FirstLineHasCR'
           /\ state' \in FirstLineSpaces /\ "cr" \in ToSet(buffer') => CRInWords'
<1> USE Tables
<1>0. /\ buffer \in Seq(Anything) /\ Len(buffer) \in Nat
      /\ words \in Seq(Seq(Anything)) /\ Len(words) \in Nat
      /\ state # "kErrorState" /\ Len(words) = WordsBefore(state)
      /\ FirstLineHasCR <=> CRInWords \/ (Len(words) < 3 /\ "cr" \in ToSet(buffer))
      /\ FirstLineHasCR' <=> CRInWords' \/ (Len(words') < 3 /\ "cr" \in ToSet(buffer'))
  BY DEF TypeOK, WordInv, FirstLineHasCR, CRInWords
<1>1. \A s \in FirstLineSpaces : WordsBefore(s) < 3
  BY DEF FirstLineSpaces, WordsBefore
<1>2. CASE UNCHANGED <<words, buffer>> /\ (state' \notin FirstLineSpaces \/ state' = state)
  <2>1. CRInWords' = CRInWords /\ ToSet(buffer') = ToSet(buffer)
    BY <1>2 DEF CRInWords
  <2>2. FirstLineHasCR => FirstLineHasCR'
    BY <1>0, <1>2, <2>1
  <2>3. state' \in FirstLineSpaces /\ "cr" \in ToSet(buffer') => CRInWords'
    BY <1>2, <2>1 DEF WordInv
  <2> QED
    BY <2>2, <2>3
<1>3. CASE TakeChar(c)
  <2>1. /\ words' = words /\ buffer' = Append(buffer, c) /\ state' = state
        /\ state \in WordStates
    BY <1>3 DEF TakeChar, Takes
  <2>2. ToSet(buffer) \subseteq ToSet(buffer')
    BY <1>0, <2>1 DEF ToSet
  <2>3. CRInWords' = CRInWords
    BY <2>1 DEF CRInWords
  <2>4. FirstLineHasCR => FirstLineHasCR'
    BY <1>0, <2>1, <2>2, <2>3
  <2>5. state' \notin FirstLineSpaces
    BY <2>1 DEF WordStates, FirstLineSpaces
  <2> QED
    BY <2>4, <2>5
<1>4. CASE EndWord(c)
  <2>1. /\ state \in WordStates /\ state' = Word[state].next /\ buffer' = buffer
        /\ words' = IF state \in {"kHeaderName", "kHeaderValue"} THEN words
                    ELSE Append(words, buffer)
    BY <1>4 DEF EndWord, Ends
  <2>2. CASE state \in {"kHeaderName", "kHeaderValue"}
    <3>1. WordsBefore(state') = 3 + 0
      BY <2>1, <2>2, AfterWord
    <3>2. state' \notin FirstLineSpaces
      BY <1>1, <3>1
    <3> QED
      BY <1>2, <2>1, <2>2, <3>2
  <2>3. CASE state \notin {"kHeaderName", "kHeaderValue"}
    <3>1. words' = Append(words, buffer)
      BY <2>1, <2>3
    <3>2. /\ Len(words') = Len(words) + 1 /\ words'[Len(words) + 1] = buffer
          /\ \A i \in 1 .. Len(words) : words'[i] = words[i]
      BY <1>0, <3>1
    <3>3. CRInWords \/ "cr" \in ToSet(buffer) => CRInWords'
      <4>1. CASE CRInWords
        BY <1>0, <3>2, <4>1 DEF CRInWords
      <4>2. CASE "cr" \in ToSet(buffer)
        <5>1. Len(words) + 1 \in 1 .. Len(words')
          BY <1>0, <3>2
        <5> QED
          BY <3>2, <4>2, <5>1 DEF CRInWords
      <4> QED
        BY <4>1, <4>2
    <3> QED
      BY <1>0, <2>1, <3>3
  <2> QED
    BY <2>2, <2>3
<1>5. CASE BeginWord(c)
  <2>1. /\ words' = words /\ state \in DOMAIN AfterSpaces \cup {"kHeaderStart"}
        /\ \/ state \in DOMAIN AfterSpaces /\ state' = AfterSpaces[state]
           \/ state' = "kHeaderName"
    BY <1>5 DEF BeginWord, Begins, FirstLineSpaces
  <2>2. CRInWords' = CRInWords
    BY <2>1 DEF CRInWords
  <2>3. Len(words) < 3 => state \in FirstLineSpaces
    <3>1. WordsBefore("kHeaderStart") = 3 /\ WordsBefore("kHeaderSpaces") = 3
      BY DEF WordsBefore
    <3> QED
      BY <1>0, <2>1, <3>1
  <2>4. FirstLineHasCR => FirstLineHasCR'
    BY <1>0, <2>2, <2>3 DEF WordInv
  <2>5. state' \notin FirstLineSpaces
    BY <2>1, AfterOthers DEF WordStates, FirstLineSpaces
  <2> QED
    BY <2>4, <2>5
<1>6. CASE SkipSpace(c)
  BY <1>2, <1>6 DEF SkipSpace, parserVars
<1>7. CASE Advance(c)
  <2>1. /\ UNCHANGED <<words, buffer>>
        /\ \/ state \in DOMAIN AfterLF /\ state' = AfterLF[state]
           \/ state' = "kHeadersEndLF"
    BY <1>7 DEF Advance, EndsLine, EndsHeaders
  <2>2. state' \notin FirstLineSpaces
    BY <2>1, AfterOthers DEF FirstLineSpaces
  <2> QED
    BY <1>2, <2>1, <2>2
<1>8. CASE Reject(c)
  <2>1. state' \notin FirstLineSpaces
    BY <1>8 DEF Reject, FirstLineSpaces
  <2> QED
    BY <1>2, <1>8, <2>1 DEF Reject
<1> QED
  BY <1>3, <1>4, <1>5, <1>6, <1>7, <1>8 DEF HandleChar

\* A CR that does not end a word or a line is in a word of the first line.
LEMMA CRInLine ==
    ASSUME TypeOK, WordInv, outcome = "parsing", TakeChar("cr") \/ BeginWord("cr")
    PROVE  FirstLineHasCR'
<1> USE Tables
<1>0. /\ buffer \in Seq(Anything) /\ Len(buffer) \in Nat
      /\ state # "kErrorState" /\ Len(words) = WordsBefore(state)
  BY DEF TypeOK, WordInv
<1>1. CASE TakeChar("cr")
  <2>1. /\ words' = words /\ buffer' = Append(buffer, "cr")
        /\ state \in WordStates /\ "cr" # Word[state].ends /\ "cr" \in Word[state].takes
    BY <1>1 DEF TakeChar, Takes
  <2>2. state \notin {"kHeaderName", "kHeaderValue"}
    BY <2>1, WordTakes, CharacterKinds
  <2>3. Len(words) < 3
    BY <1>0, <2>1, <2>2, AfterWord
  <2>4. "cr" \in ToSet(buffer')
    <3>1. Len(buffer) + 1 \in DOMAIN buffer' /\ buffer'[Len(buffer) + 1] = "cr"
      BY <1>0, <2>1
    <3> QED
      BY <3>1 DEF ToSet
  <2> QED
    BY <2>1, <2>3, <2>4 DEF FirstLineHasCR
<1>2. CASE BeginWord("cr")
  <2>1. words' = words /\ buffer' = <<"cr">> /\ state \in FirstLineSpaces
    BY <1>2, CharacterKinds DEF BeginWord, Begins, FirstLineSpaces
  <2>2. Len(words) < 3
    BY <1>0, <2>1 DEF FirstLineSpaces, WordsBefore
  <2>3. "cr" \in ToSet(buffer')
    BY <2>1 DEF ToSet
  <2> QED
    BY <2>1, <2>2, <2>3 DEF FirstLineHasCR
<1> QED
  BY <1>1, <1>2

-----------------------------------------------------------------------------
(* The last characters.                                                    *)

LEMMA TailOfChar ==
    ASSUME ParserInv, NEW c \in Anything, HandleChar(c), outcome = "parsing",
           state # "kBody", read' = Append(read, c)
    PROVE  TailInv'
<1> USE Tables
<1> SUFFICES ASSUME ~ FirstLineHasCR'
             PROVE  LET n == Len(read') IN
                    /\ state' # "kBody" => \A i \in 1 .. n - 3 : ~ BlankLineAt(read', i)
                    /\ outcome' = "parsing" /\ state' # "kBody" =>
                          /\ n >= 1 /\ read'[n] = "cr" => state' \in DOMAIN AfterLF
                          /\ n >= 2 /\ read'[n - 1] = "cr" /\ read'[n] = "lf"
                               => state' = "kHeaderStart"
                          /\ n >= 3 /\ read'[n - 2] = "cr" /\ read'[n - 1] = "lf"
                               /\ read'[n] = "cr" => state' = "kHeadersEndLF"
  BY DEF TailInv
<1> DEFINE n == Len(read)
<1>0. /\ read \in Seq(Anything) /\ n \in Nat /\ Len(read') = n + 1 /\ read'[n + 1] = c
      /\ \A i \in 1 .. n : read'[i] = read[i]
  BY DEF ParserInv, TypeOK
<1>1. ~ FirstLineHasCR
  BY CRStays DEF ParserInv
<1>2. /\ \A i \in 1 .. n - 3 : ~ BlankLineAt(read, i)
      /\ n >= 1 /\ read[n] = "cr" => state \in DOMAIN AfterLF
      /\ n >= 2 /\ read[n - 1] = "cr" /\ read[n] = "lf" => state = "kHeaderStart"
      /\ n >= 3 /\ read[n - 2] = "cr" /\ read[n - 1] = "lf" /\ read[n] = "cr"
           => state = "kHeadersEndLF"
  BY <1>1 DEF ParserInv, TailInv
<1>3. /\ "kHeaderStart" \notin DOMAIN AfterLF \cup DOMAIN AfterSpaces \cup DOMAIN Word
      /\ DOMAIN AfterLF \cap (DOMAIN AfterSpaces \cup DOMAIN Word) = {}
  BY DEF WordStates, FirstLineSpaces
\* An LF where one is expected.
<1>4. ASSUME state \in DOMAIN AfterLF, c = "lf"
      PROVE  state' = AfterLF[state]
  <2>1. EndsLine(c)
    BY <1>4 DEF EndsLine
  <2>2. ~ (TakeChar(c) \/ EndWord(c) \/ BeginWord(c) \/ SkipSpace(c) \/ Reject(c))
    BY <1>3, <1>4, <2>1 DEF TakeChar, Takes, EndWord, Ends, BeginWord, Begins, SkipSpace,
       Skips, Reject
  <2>3. Advance(c) /\ ~ EndsHeaders(c)
    BY <1>3, <1>4, <2>2 DEF HandleChar, EndsHeaders
  <2> QED
    BY <2>3 DEF Advance
\* A CR ends a word or the headers, or is refused.
<1>5. ASSUME c = "cr", outcome' = "parsing"
      PROVE  state' \in DOMAIN AfterLF /\ (state = "kHeaderStart" => state' = "kHeadersEndLF")
  <2>1. ~ TakeChar(c) /\ ~ BeginWord(c)
    BY <1>5, CRInLine DEF ParserInv
  <2>2. CASE EndWord(c)
    <3>1. state \in WordStates /\ Word[state].ends = "cr" /\ state' = Word[state].next
      BY <1>5, <2>2 DEF EndWord, Ends
    <3>2. state # "kHeaderStart"
      BY <3>1 DEF WordStates
    <3> QED
      BY <3>1, <3>2, AfterWord
  <2>3. CASE Advance(c)
    <3>1. EndsHeaders(c) /\ state' = "kHeadersEndLF"
      BY <1>5, <2>3 DEF Advance, EndsLine
    <3> QED
      BY <3>1
  <2>4. ~ SkipSpace(c) /\ ~ Reject(c)
    BY <1>5 DEF SkipSpace, Skips, Reject
  <2> QED
    BY <2>1, <2>2, <2>3, <2>4 DEF HandleChar
<1>6. ASSUME state' # "kBody", NEW i \in 1 .. n + 1 - 3, BlankLineAt(read', i)
      PROVE  FALSE
  <2>1. CASE i \in 1 .. n - 3
    <3>1. BlankLineAt(read, i)
      BY <1>0, <1>6, <2>1 DEF BlankLineAt
    <3> QED
      BY <1>2, <2>1, <3>1
  <2>2. CASE i = n - 2
    <3>1. n >= 3 /\ read[n - 2] = "cr" /\ read[n - 1] = "lf" /\ read[n] = "cr" /\ c = "lf"
      BY <1>0, <1>6, <2>2 DEF BlankLineAt
    <3>2. state = "kHeadersEndLF"
      BY <1>2, <3>1
    <3>3. state' = "kBody"
      BY <1>4, <3>1, <3>2, AfterOthers
    <3> QED
      BY <1>6, <3>3
  <2> QED
    BY <1>0, <2>1, <2>2
<1>7. ASSUME outcome' = "parsing", state' # "kBody", c = "lf", n >= 1, read[n] = "cr"
      PROVE  state' = "kHeaderStart"
  <2>1. state \in DOMAIN AfterLF
    BY <1>2, <1>7
  <2> QED
    BY <1>4, <1>7, <2>1, AfterOthers
<1>8. ASSUME outcome' = "parsing", c = "cr", n >= 2, read[n - 1] = "cr", read[n] = "lf"
      PROVE  state' = "kHeadersEndLF"
  <2>1. state = "kHeaderStart"
    BY <1>2, <1>8
  <2> QED
    BY <1>5, <1>8, <2>1
<1> HIDE DEF n
<1>9. /\ n + 1 - 1 = n /\ n + 1 - 2 = n - 1
      /\ n >= 1 => read'[n] = read[n]
      /\ n >= 2 => read'[n - 1] = read[n - 1]
  BY <1>0 DEF n
<1> QED
  BY <1>0, <1>5, <1>6, <1>7, <1>8, <1>9

-----------------------------------------------------------------------------
(* The handshake around the parser.                                        *)

LEMMA OwnMessages ==
    /\ OwnRequest \in Seq(Anything)
    /\ OwnResponse \o Frames \in Seq(Anything)
<1> USE DEF Anything, Separators, Tokens, Upper, Digits, Others
<1>1. \A s, t \in Seq(Anything) : s \o t \in Seq(Anything)
  OBVIOUS
<1>2. CRLF \in Seq(Anything)
  BY DEF CRLF
<1>3. ASSUME NEW w \in Anything, NEW value \in Seq(Anything)
      PROVE  Line(w, value) \in Seq(Anything)
  <2>1. <<w, "colon", "sp">> \in Seq(Anything)
    OBVIOUS
  <2> QED
    BY <1>1, <1>2, <2>1 DEF Line
<1>4. /\ <<"GET", "sp", "/", "sp", "HTTP/1.1">> \in Seq(Anything)
      /\ <<"ip", "colon", "port">> \in Seq(Anything) /\ <<"Upgrade">> \in Seq(Anything)
      /\ <<"websocket">> \in Seq(Anything) /\ <<"13">> \in Seq(Anything)
      /\ <<"key">> \in Seq(Anything) /\ <<"accept">> \in Seq(Anything)
      /\ <<"HTTP/1.1", "sp", "101", "sp", "Switching", "sp", "Protocols">> \in Seq(Anything)
      /\ Frames \in Seq(Anything)
  BY DEF Frames
<1>5. {"Host", "Connection", "Upgrade", "Sec-WebSocket-Version", "Sec-WebSocket-Key",
       "Sec-WebSocket-Accept"} \subseteq Anything
  OBVIOUS
<1> HIDE DEF Anything
<1>6. /\ Line("Host", <<"ip", "colon", "port">>) \in Seq(Anything)
      /\ Line("Connection", <<"Upgrade">>) \in Seq(Anything)
      /\ Line("Upgrade", <<"websocket">>) \in Seq(Anything)
      /\ Line("Sec-WebSocket-Version", <<"13">>) \in Seq(Anything)
      /\ Line("Sec-WebSocket-Key", <<"key">>) \in Seq(Anything)
      /\ Line("Sec-WebSocket-Accept", <<"accept">>) \in Seq(Anything)
  BY <1>3, <1>4, <1>5
<1> HIDE DEF Line, CRLF, Frames
<1>7. OwnRequest \in Seq(Anything)
  BY <1>1, <1>2, <1>4, <1>6 DEF OwnRequest
<1>8. OwnResponse \in Seq(Anything)
  BY <1>1, <1>2, <1>4, <1>6 DEF OwnResponse
<1> QED
  BY <1>1, <1>4, <1>7, <1>8

LEMMA NewParserInv ==
    ASSUME NEW what \in {"request", "response"}, NewParser(what), read' = <<>>,
           outcome' \in {"parsing", "open", "rejected", "timeout"}
    PROVE  /\ state' \in WordStates /\ state' # "kHeaderName"
           /\ buffer' = <<>> /\ words' = <<>> /\ headers' = <<>> /\ name' = <<>>
           /\ WordInv' /\ TailInv'
<1>1. /\ state' \in {"kRequestMethod", "kResponseVersion"}
      /\ buffer' = <<>> /\ words' = <<>> /\ headers' = <<>> /\ name' = <<>>
  BY DEF NewParser, FirstState
<1>2. WordInv'
  BY <1>1 DEF WordInv, WordsBefore, FirstLineSpaces
<1>3. TailInv'
  BY <1>1 DEF TailInv
<1> QED
  BY <1>1, <1>2, <1>3 DEF WordStates

\* The parser is in order at every character.
THEOREM ParserInvHolds == Spec => []ParserInv
<1> USE Tables
<1>1. Init => ParserInv
  <2> SUFFICES ASSUME Init
               PROVE  ParserInv
    OBVIOUS
  <2>1. /\ state \in {"kRequestMethod", "kResponseVersion"}
        /\ buffer = <<>> /\ words = <<>> /\ headers = <<>> /\ name = <<>> /\ read = <<>>
        /\ outcome = "parsing" /\ peer \in {"librcom", "foreign"}
        /\ parsing \in {"request", "response"} /\ pending \in {<<>>, OwnRequest}
    BY DEF Init, FirstState
  <2>2. nonce \in Nonces
    <3>1. (CHOOSE n \in Nonces : TRUE) \in Nonces
      BY NoncesAssumption
    <3> QED
      BY <3>1 DEF Init
  <2>3. pending \in Seq(Anything)
    <3>1. <<>> \in Seq(Anything)
      OBVIOUS
    <3> QED
      BY <2>1, <3>1, OwnMessages
  <2>4. state \in WordStates /\ state \in States
    BY <2>1, CharacterKinds DEF WordStates
  <2>5. TypeOK
    BY <2>1, <2>2, <2>3, <2>4, WordTakes DEF TypeOK
  <2>6. WordInv
    BY <2>1 DEF WordInv, WordsBefore, FirstLineSpaces
  <2>7. TailInv
    BY <2>1 DEF TailInv
  <2> QED
    BY <2>5, <2>6, <2>7 DEF ParserInv
<1>2. ParserInv /\ [Next]_vars => ParserInv'
  <2> SUFFICES ASSUME ParserInv, [Next]_vars
               PROVE  ParserInv'
    OBVIOUS
  <2>0. TypeOK /\ WordInv /\ TailInv
    BY DEF ParserInv
  <2>1. CASE ReadChar
    <3>1. PICK c \in Anything :
            /\ \/ pending # <<>> /\ pending' = Tail(pending)
               \/ UNCHANGED pending
            /\ HandleChar(c) /\ read' = Append(read, c)
      BY <2>1 DEF ReadChar
    <3>2. outcome = "parsing" /\ state # "kBody" /\ UNCHANGED <<peer, parsing, nonce>>
      BY <2>1 DEF ReadChar
    <3>3. pending' \in Seq(Anything)
      <4>1. pending \in Seq(Anything)
        BY <2>0 DEF TypeOK
      <4>2. pending # <<>> => Tail(pending) \in Seq(Anything)
        BY <4>1
      <4> QED
        BY <3>1, <4>1, <4>2
    <3>4. read' \in Seq(Anything)
      BY <2>0, <3>1 DEF TypeOK
    <3>5. TypeOK'
      BY <2>0, <3>1, <3>2, <3>3, <3>4, TypeOfChar DEF TypeOK
    <3>6. WordInv'
      BY <2>0, <3>1, <3>2, TypeOfChar, CRStays DEF WordInv
    <3>7. TailInv'
      BY <3>1, <3>2, TailOfChar
    <3> QED
      BY <3>5, <3>6, <3>7 DEF ParserInv
  <2>2. CASE UNCHANGED <<peer, parsing, pending, parserVars, read, nonce>>
             /\ outcome' \in {"open", "rejected", "timeout"}
    <3>1. UNCHANGED <<state, buffer, name, words, headers>>
      BY <2>2 DEF parserVars
    <3>2. TypeOK'
      BY <2>0, <2>2, <3>1 DEF TypeOK
    <3>3. WordInv'
      BY <2>0, <2>2, <3>1 DEF WordInv, CRInWords
    <3>4. TailInv'
      BY <2>0, <2>2, <3>1 DEF TailInv, FirstLineHasCR
    <3> QED
      BY <3>2, <3>3, <3>4 DEF ParserInv
  <2>3. CASE Upgrade /\ peer # "foreign"
    <3>1. /\ parsing' = "response" /\ pending' = OwnResponse \o Frames
          /\ NewParser("response") /\ read' = <<>> /\ UNCHANGED <<outcome, peer, nonce>>
      BY <2>3 DEF Upgrade
    <3>2. /\ state' \in WordStates /\ state' # "kHeaderName"
          /\ buffer' = <<>> /\ words' = <<>> /\ headers' = <<>> /\ name' = <<>>
          /\ WordInv' /\ TailInv'
      BY <2>0, <3>1, NewParserInv DEF TypeOK
    <3>3. Len(buffer') <= Word[state'].limit + 1
      BY <3>2, WordTakes
    <3>4. TypeOK'
      BY <2>0, <3>1, <3>2, <3>3, OwnMessages, CharacterKinds DEF TypeOK
    <3> QED
      BY <3>2, <3>4 DEF ParserInv
  <2>4. CASE UNCHANGED vars
    <3>1. /\ UNCHANGED <<peer, parsing, pending, read, nonce, outcome>>
          /\ UNCHANGED <<state, buffer, name, words, headers>>
      BY <2>4 DEF vars, parserVars
    <3>2. TypeOK'
      BY <2>0, <3>1 DEF TypeOK
    <3>3. WordInv'
      BY <2>0, <3>1 DEF WordInv, CRInWords
    <3>4. TailInv'
      BY <2>0, <3>1 DEF TailInv, FirstLineHasCR
    <3> QED
      BY <3>2, <3>3, <3>4 DEF ParserInv
  <2> QED
    BY <2>1, <2>2, <2>3, <2>4 DEF Next, Timeout, Refuse, Upgrade, Open
<1> QED
  BY <1>1, <1>2, PTL DEF Spec

\* The parser and the handshake keep their types and the limits of the lengths.
THEOREM TypeCorrect == Spec => []TypeOK
<1>1. ParserInv => TypeOK
  BY DEF ParserInv
<1> QED
  BY <1>1, ParserInvHolds, PTL

\* The parser reads no character behind the blank line.
THEOREM StopsAtTheBlankLine == Spec => []StopsAtBlankLine
<1>1. ParserInv => StopsAtBlankLine
  <2> SUFFICES ASSUME ParserInv, state # "kBody", ~ FirstLineHasCR, BlankLineIn(read)
               PROVE  FALSE
    BY DEF StopsAtBlankLine
  <2>1. PICK i \in 1 .. Len(read) - 3 : SubSeq(read, i, i + 3) = CRLF \o CRLF
    BY DEF BlankLineIn
  <2>2. /\ (CRLF \o CRLF)[1] = "cr" /\ (CRLF \o CRLF)[2] = "lf"
        /\ (CRLF \o CRLF)[3] = "cr" /\ (CRLF \o CRLF)[4] = "lf"
    <3>1. CRLF \in Seq(Anything) /\ Len(CRLF) = 2 /\ CRLF[1] = "cr" /\ CRLF[2] = "lf"
      BY DEF CRLF, Anything, Separators
    <3>2. ASSUME NEW s \in Seq(Anything), Len(s) = 2
          PROVE  /\ (s \o s)[1] = s[1] /\ (s \o s)[2] = s[2]
                 /\ (s \o s)[3] = s[1] /\ (s \o s)[4] = s[2]
      <4> DEFINE t == s \o s
      <4>1. \A k \in 1 .. Len(s) + Len(s) :
              t[k] = IF k <= Len(s) THEN s[k] ELSE s[k - Len(s)]
        BY ConcatProperties
      <4> HIDE DEF t
      <4>2. t[1] = s[1] /\ t[2] = s[2] /\ t[3] = s[3 - 2] /\ t[4] = s[4 - 2]
        BY <3>2, <4>1
      <4> QED
        BY <4>2 DEF t
    <3> HIDE DEF CRLF
    <3> QED
      BY <3>1, <3>2
  <2>3. read \in Seq(Anything) /\ Len(read) \in Nat
    BY DEF ParserInv, TypeOK
  <2>4. /\ SubSeq(read, i, i + 3)[1] = read[i] /\ SubSeq(read, i, i + 3)[2] = read[i + 1]
        /\ SubSeq(read, i, i + 3)[3] = read[i + 2] /\ SubSeq(read, i, i + 3)[4] = read[i + 3]
    BY <2>3
  <2>5. BlankLineAt(read, i)
    BY <2>1, <2>2, <2>4 DEF BlankLineAt
  <2> QED
    BY <2>1, <2>5 DEF ParserInv, TailInv
<1> QED
  BY <1>1, ParserInvHolds, PTL

-----------------------------------------------------------------------------
(* Induction, and what it says of FlattenSeq.                              *)

\* Induction, with a set in place of a predicate.
LEMMA SetInduction ==
  ASSUME NEW S, 0 \in S, \A n \in Nat : n \in S => n + 1 \in S
  PROVE  Nat \subseteq S
<1> DEFINE T == {n \in Nat : n \notin S}
           R == {ss \in Nat \X Nat : ss[1] < ss[2]}
<1> SUFFICES ASSUME T # {}
             PROVE  FALSE
  OBVIOUS
<1>1. IsWellFoundedOn(R, Nat)
  BY NatLessThanWellFounded, Zenon DEF OpToRel
<1>2. T \subseteq Nat
  OBVIOUS
<1>3. \E x \in T : \A y \in T : ~ (<<y, x>> \in R)
  <2> HIDE DEF T, R
  <2> QED
    BY <1>1, <1>2, WFMin, Zenon
<1>4. PICK x \in T : \A y \in T : ~ (y < x)
  BY <1>3
<1>5. x # 0 /\ x - 1 \in Nat /\ x - 1 \in T
  OBVIOUS
<1> QED
  BY <1>4, <1>5

\* f is the function that FlattenSeq evaluates, up to n.
Flattens(f, s, n) ==
    f = [i \in 1 .. n |-> IF i = 1 THEN s[i] ELSE f[i - 1] \o s[i]]

\* The same, element by element.
FlattensTo(f, s, n) ==
    \A i \in 1 .. n :
       /\ i = 1 => f[i] = s[i]
       /\ i # 1 => f[i] = f[i - 1] \o s[i]

Agree(s, t, n) == \A i \in 1 .. n : s[i] = t[i]

\* There is such a function, for every length.
LEMMA FlattensExists ==
    ASSUME NEW s, NEW n \in Nat
    PROVE  \E f : Flattens(f, s, n)
<1> DEFINE S == {k \in Nat : \E f : Flattens(f, s, k)}
<1>1. 0 \in S
  <2>1. Flattens([i \in 1 .. 0 |-> 0], s, 0)
    BY DEF Flattens
  <2> QED
    BY <2>1
<1>2. ASSUME NEW k \in Nat, k \in S
      PROVE  k + 1 \in S
  <2>1. PICK f : Flattens(f, s, k)
    BY <1>2
  <2> DEFINE g == [i \in 1 .. k + 1 |->
                     IF i = k + 1 THEN (IF i = 1 THEN s[i] ELSE f[k] \o s[i]) ELSE f[i]]
  <2>2. ASSUME NEW i \in 1 .. k + 1
        PROVE  g[i] = IF i = 1 THEN s[i] ELSE g[i - 1] \o s[i]
    <3>1. CASE i = k + 1
      <4>1. k + 1 # 1 => g[k] = f[k]
        OBVIOUS
      <4> QED
        BY <3>1, <4>1
    <3>2. CASE i # k + 1
      <4>1. i \in 1 .. k /\ g[i] = f[i] /\ (i # 1 => g[i - 1] = f[i - 1])
        BY <3>2
      <4>2. f[i] = IF i = 1 THEN s[i] ELSE f[i - 1] \o s[i]
        BY <2>1, <4>1 DEF Flattens
      <4> HIDE DEF g
      <4> QED
        BY <4>1, <4>2
    <3> QED
      BY <3>1, <3>2
  <2>3. g = [i \in 1 .. k + 1 |-> g[i]]
    OBVIOUS
  <2> HIDE DEF g
  <2>4. Flattens(g, s, k + 1)
    <3>1. [i \in 1 .. k + 1 |-> g[i]] =
             [i \in 1 .. k + 1 |-> IF i = 1 THEN s[i] ELSE g[i - 1] \o s[i]]
      BY <2>2, Zenon
    <3> QED
      BY <2>3, <3>1, Zenon DEF Flattens
  <2> QED
    BY <2>4
<1> HIDE DEF S
<1>3. Nat \subseteq S
  BY <1>1, <1>2, SetInduction
<1> QED
  BY <1>3 DEF S

\* Two such functions agree as far as their sequences do.
LEMMA FlattensSame ==
    ASSUME NEW s, NEW t, NEW m \in Nat, NEW n \in Nat, NEW f, NEW g, n <= m, n # 0,
           FlattensTo(f, s, n), FlattensTo(g, t, m), Agree(s, t, n)
    PROVE  f[n] = g[n]
<1> DEFINE S == {k \in Nat : k \in 1 .. n => f[k] = g[k]}
<1>1. 0 \in S
  OBVIOUS
<1>2. ASSUME NEW k \in Nat, k \in S
      PROVE  k + 1 \in S
  <2> SUFFICES ASSUME k + 1 \in 1 .. n
               PROVE  f[k + 1] = g[k + 1]
    OBVIOUS
  <2>1. k + 1 \in 1 .. m /\ (k + 1) - 1 = k
    OBVIOUS
  <2>2. /\ k + 1 = 1 => f[k + 1] = s[k + 1]
        /\ k + 1 # 1 => f[k + 1] = f[(k + 1) - 1] \o s[k + 1]
    BY Zenon DEF FlattensTo
  <2>3. /\ k + 1 = 1 => g[k + 1] = t[k + 1]
        /\ k + 1 # 1 => g[k + 1] = g[(k + 1) - 1] \o t[k + 1]
    BY <2>1, Zenon DEF FlattensTo
  <2>4. s[k + 1] = t[k + 1]
    BY DEF Agree
  <2>5. k + 1 # 1 => f[k] = g[k]
    BY <1>2
  <2> QED
    BY <2>1, <2>2, <2>3, <2>4, <2>5, Zenon
<1> HIDE DEF S
<1>3. Nat \subseteq S
  BY <1>1, <1>2, SetInduction
<1> QED
  BY <1>3 DEF S

\* FlattenSeq is the last value of such a function.
LEMMA FlattenLast ==
    ASSUME NEW s, NEW n \in Nat, Len(s) = n, n # 0
    PROVE  \E f : FlattensTo(f, s, n) /\ FlattenSeq(s) = f[n]
<1> DEFINE F == CHOOSE f : Flattens(f, s, n)
<1>1. Flattens(F, s, n)
  BY FlattensExists, Zenon
<1>2. FlattenSeq(s) = F[n]
  BY Zenon DEF FlattenSeq, Flattens
<1> HIDE DEF F
<1>3. FlattensTo(F, s, n)
  BY <1>1 DEF Flattens, FlattensTo
<1> QED
  BY <1>2, <1>3

\* What FlattenSeq does with one more element.
LEMMA FlattenEmpty == FlattenSeq(<<>>) = <<>>
BY DEF FlattenSeq

\* One more element is appended.
LEMMA FlattenAppend ==
    ASSUME NEW A, NEW s \in Seq(Seq(A)), NEW x \in Seq(A)
    PROVE  FlattenSeq(Append(s, x)) = FlattenSeq(s) \o x
<1> DEFINE t == Append(s, x)
           n == Len(s)
<1>1. /\ n \in Nat /\ Len(t) = n + 1 /\ t[n + 1] = x
      /\ \A i \in 1 .. n : s[i] = t[i]
  OBVIOUS
<1> HIDE DEF t, n
<1>2. PICK g : FlattensTo(g, t, n + 1) /\ FlattenSeq(t) = g[n + 1]
  <2>1. n + 1 \in Nat /\ n + 1 # 0
    BY <1>1
  <2> QED
    BY <1>1, <2>1, FlattenLast, Zenon
<1>3. /\ n + 1 = 1 => g[n + 1] = t[n + 1]
      /\ n + 1 # 1 => g[n + 1] = g[n] \o t[n + 1]
  <2>1. n + 1 \in Nat /\ n + 1 \in 1 .. n + 1 /\ (n + 1) - 1 = n
    BY <1>1
  <2>2. /\ n + 1 = 1 => g[n + 1] = t[n + 1]
        /\ n + 1 # 1 => g[n + 1] = g[(n + 1) - 1] \o t[n + 1]
    BY <1>2, <2>1, Zenon DEF FlattensTo
  <2> QED
    BY <2>1, <2>2, Zenon
<1>4. CASE n = 0
  <2>1. s = <<>>
    BY <1>4 DEF n
  <2>2. FlattenSeq(t) = x
    BY <1>1, <1>2, <1>3, <1>4
  <2> QED
    BY <2>1, <2>2, FlattenEmpty, ConcatEmptySeq DEF t
<1>5. CASE n # 0
  <2>1. PICK f : FlattensTo(f, s, n) /\ FlattenSeq(s) = f[n]
    BY <1>1, <1>5, FlattenLast DEF n
  <2>2. f[n] = g[n]
    <3>1. n + 1 \in Nat /\ n \in Nat /\ n <= n + 1 /\ n # 0
      BY <1>1, <1>5
    <3>2. Agree(s, t, n)
      BY <1>1 DEF Agree
    <3>3. FlattensTo(f, s, n) /\ FlattensTo(g, t, n + 1)
      BY <1>2, <2>1
    <3> QED
      BY <3>1, <3>2, <3>3, FlattensSame
  <2>3. n + 1 # 1
    BY <1>1, <1>5
  <2> QED
    BY <1>1, <1>2, <1>3, <2>1, <2>2, <2>3, Zenon DEF t
<1> QED
  BY <1>4, <1>5

\* What FlattenSeq makes of sequences is a sequence.
LEMMA FlattenIsSeq ==
    ASSUME NEW A, NEW s \in Seq(Seq(A))
    PROVE  FlattenSeq(s) \in Seq(A)
<1> DEFINE S == {k \in Nat : \A t \in Seq(Seq(A)) : Len(t) = k => FlattenSeq(t) \in Seq(A)}
<1>1. 0 \in S
  <2>1. \A t \in Seq(Seq(A)) : Len(t) = 0 => t = <<>>
    OBVIOUS
  <2>2. <<>> \in Seq(A)
    OBVIOUS
  <2> QED
    BY <2>1, <2>2, FlattenEmpty
<1>2. ASSUME NEW k \in Nat, k \in S
      PROVE  k + 1 \in S
  <2> SUFFICES ASSUME NEW t \in Seq(Seq(A)), Len(t) = k + 1
               PROVE  FlattenSeq(t) \in Seq(A)
    OBVIOUS
  <2>1. t # <<>>
    OBVIOUS
  <2>2. PICK r \in Seq(Seq(A)), x \in Seq(A) : t = Append(r, x)
    BY <2>1, SequenceEmptyOrAppend, Zenon
  <2>3. Len(r) = k
    BY <2>2
  <2>4. FlattenSeq(r) \in Seq(A)
    BY <1>2, <2>3
  <2>5. FlattenSeq(t) = FlattenSeq(r) \o x
    BY <2>2, FlattenAppend, Zenon
  <2> HIDE DEF S
  <2> QED
    BY <2>4, <2>5, ConcatProperties, Zenon
<1> HIDE DEF S
<1>3. Nat \subseteq S
  BY <1>1, <1>2, SetInduction
<1>4. Len(s) \in Nat
  OBVIOUS
<1> QED
  BY <1>3, <1>4 DEF S

-----------------------------------------------------------------------------
(* The texts that are compared.                                            *)

Piece(s) == [i \in 1 .. Len(s) |-> Printed(s[i])]

\* A character is a text of one character or of none.
LEMMA PrintedIsSeq == \A c \in Anything : Printed(c) \in Seq(Anything)
BY DEF Printed

\* The characters of a text, each as a text.
LEMMA PieceIsSeq ==
    ASSUME NEW s \in Seq(Anything)
    PROVE  Piece(s) \in Seq(Seq(Anything)) /\ Len(Piece(s)) = Len(s)
<1>1. \A i \in 1 .. Len(s) : Printed(s[i]) \in Seq(Anything)
  BY PrintedIsSeq
<1>2. Len(s) \in Nat
  OBVIOUS
<1> QED
  BY <1>1, <1>2, IsASeq DEF Piece

\* A sequence that has one element more than another.
LEMMA OneMore ==
    ASSUME NEW A, NEW m \in Seq(A), NEW n \in Seq(A), Len(n) = Len(m) + 1,
           \A i \in 1 .. Len(m) : n[i] = m[i]
    PROVE  n = Append(m, n[Len(n)])
<1> DEFINE b == Append(m, n[Len(n)])
<1>0. Len(m) \in Nat /\ n[Len(n)] \in A
  OBVIOUS
<1>1. /\ b \in Seq(A) /\ Len(b) = Len(m) + 1 /\ b[Len(m) + 1] = n[Len(n)]
      /\ \A i \in 1 .. Len(m) : b[i] = m[i]
  BY <1>0, AppendProperties
<1> HIDE DEF b
<1>2. \A i \in 1 .. Len(n) : n[i] = b[i]
  BY <1>0, <1>1
<1> QED
  BY <1>1, <1>2, SeqEqual DEF b

\* One more character is one more piece.
LEMMA PieceAppend ==
    ASSUME NEW s \in Seq(Anything), NEW c \in Anything
    PROVE  Piece(Append(s, c)) = Append(Piece(s), Printed(c))
<1> DEFINE t == Append(s, c)
<1>1. /\ t \in Seq(Anything) /\ Len(t) = Len(s) + 1 /\ Len(s) \in Nat
      /\ t[Len(s) + 1] = c /\ \A i \in 1 .. Len(s) : t[i] = s[i]
  OBVIOUS
<1> HIDE DEF t
<1>2. /\ Piece(t) \in Seq(Seq(Anything)) /\ Len(Piece(t)) = Len(s) + 1
      /\ Piece(s) \in Seq(Seq(Anything)) /\ Len(Piece(s)) = Len(s)
  BY <1>1, PieceIsSeq
<1>3. \A i \in 1 .. Len(Piece(s)) : Piece(t)[i] = Piece(s)[i]
  BY <1>1, <1>2 DEF Piece
<1>4. Piece(t)[Len(Piece(t))] = Printed(c)
  BY <1>1, <1>2 DEF Piece
<1> QED
  BY <1>2, <1>3, <1>4, OneMore DEF t

Header == [name : Seq(NameTokens), value : Seq(Anything)]

\* A header line is a text.
LEMMA RenderIsSeq == \A h \in Header : RenderHeader(h) \in Seq(Anything)
<1> SUFFICES ASSUME NEW h \in Header
             PROVE  RenderHeader(h) \in Seq(Anything)
  OBVIOUS
<1>1. /\ h.name \in Seq(Anything) /\ h.value \in Seq(Anything)
      /\ <<"colon">> \in Seq(Anything) /\ CRLF \in Seq(Anything)
  <2>1. h.name \in Seq(NameTokens) /\ h.value \in Seq(Anything)
    BY DEF Header
  <2>2. h.name \in Seq(Anything)
    BY <2>1, CharacterKinds, SeqMonotonic
  <2> QED
    BY <2>1, <2>2 DEF CRLF, Anything, Separators
<1>2. \A a, b \in Seq(Anything) : a \o b \in Seq(Anything)
  OBVIOUS
<1> HIDE DEF Anything, CRLF
<1> QED
  BY <1>1, <1>2, Zenon DEF RenderHeader

HeaderPiece(hs) == [i \in 1 .. Len(hs) |-> RenderHeader(hs[i])]

\* The lines of the headers are texts.
LEMMA HeaderPieceIsSeq ==
    ASSUME NEW hs \in Seq(Header)
    PROVE  HeaderPiece(hs) \in Seq(Seq(Anything)) /\ Len(HeaderPiece(hs)) = Len(hs)
<1>1. \A i \in 1 .. Len(hs) : RenderHeader(hs[i]) \in Seq(Anything)
  BY RenderIsSeq
<1>2. Len(hs) \in Nat
  OBVIOUS
<1> QED
  BY <1>1, <1>2, IsASeq DEF HeaderPiece

\* What one more header adds.
LEMMA HeaderLinesAppend ==
    ASSUME NEW hs \in Seq(Header), NEW h \in Header
    PROVE  HeaderLines(Append(hs, h)) = HeaderLines(hs) \o RenderHeader(h)
<1> DEFINE t == Append(hs, h)
<1>1. /\ t \in Seq(Header) /\ Len(t) = Len(hs) + 1 /\ Len(hs) \in Nat
      /\ t[Len(hs) + 1] = h /\ \A i \in 1 .. Len(hs) : t[i] = hs[i]
  OBVIOUS
<1> HIDE DEF t
<1>2. /\ HeaderPiece(t) \in Seq(Seq(Anything)) /\ Len(HeaderPiece(t)) = Len(hs) + 1
      /\ HeaderPiece(hs) \in Seq(Seq(Anything)) /\ Len(HeaderPiece(hs)) = Len(hs)
  BY <1>1, HeaderPieceIsSeq
<1>3. \A i \in 1 .. Len(HeaderPiece(hs)) : HeaderPiece(t)[i] = HeaderPiece(hs)[i]
  BY <1>1, <1>2 DEF HeaderPiece
<1>4. HeaderPiece(t)[Len(HeaderPiece(t))] = RenderHeader(h)
  BY <1>1, <1>2 DEF HeaderPiece
<1>5. HeaderPiece(t) = Append(HeaderPiece(hs), RenderHeader(h))
  BY <1>2, <1>3, <1>4, OneMore
<1>6. FlattenSeq(Append(HeaderPiece(hs), RenderHeader(h)))
        = FlattenSeq(HeaderPiece(hs)) \o RenderHeader(h)
  BY <1>2, RenderIsSeq, FlattenAppend
<1>7. \A x : HeaderLines(x) = FlattenSeq(HeaderPiece(x))
  BY DEF HeaderLines, HeaderPiece
<1> QED
  BY <1>5, <1>6, <1>7, Zenon DEF t

\* The header lines, joined, are a text.
LEMMA HeaderLinesIsSeq ==
    /\ \A hs \in Seq(Header) : HeaderLines(hs) \in Seq(Anything)
    /\ HeaderLines(<<>>) = <<>>
<1>1. \A x : HeaderLines(x) = FlattenSeq(HeaderPiece(x))
  BY DEF HeaderLines, HeaderPiece
<1>2. HeaderPiece(<<>>) = <<>>
  BY DEF HeaderPiece
<1> QED
  BY <1>1, <1>2, HeaderPieceIsSeq, FlattenIsSeq, FlattenEmpty

\* A text without its spaces is a text.
LEMMA WithoutSpacesIsSeq ==
    \A s \in Seq(Anything) : WithoutSpaces(s) \in Seq(Anything)
BY PieceIsSeq, FlattenIsSeq DEF WithoutSpaces, Piece

\* Nothing is left of nothing.
LEMMA WithoutSpacesEmpty == WithoutSpaces(<<>>) = <<>>
<1>1. Piece(<<>>) = <<>>
  BY DEF Piece
<1> QED
  BY <1>1, FlattenEmpty DEF WithoutSpaces, Piece

\* One more character is kept unless it is a space.
LEMMA WithoutSpacesAppend ==
    ASSUME NEW s \in Seq(Anything), NEW c \in Anything
    PROVE  WithoutSpaces(Append(s, c)) = WithoutSpaces(s) \o Printed(c)
<1>1. \A t : WithoutSpaces(t) = FlattenSeq(Piece(t))
  BY DEF WithoutSpaces, Piece
<1>2. FlattenSeq(Append(Piece(s), Printed(c))) = FlattenSeq(Piece(s)) \o Printed(c)
  BY PieceIsSeq, PrintedIsSeq, FlattenAppend
<1> QED
  BY <1>1, <1>2, PieceAppend, Zenon

\* Concatenation of texts.
LEMMA Texts ==
    \A a, b, c \in Seq(Anything) :
       a \o b \in Seq(Anything) /\ (a \o b) \o c = a \o (b \o c)
BY ConcatAssociative, ConcatProperties

\* The order in which texts are joined does not matter.
LEMMA WithoutSpacesAssociative ==
    ASSUME NEW s \in Seq(Anything), NEW q \in Seq(Anything), NEW c \in Anything
    PROVE  (WithoutSpaces(s) \o WithoutSpaces(q)) \o Printed(c)
             = WithoutSpaces(s) \o (WithoutSpaces(q) \o Printed(c))
<1>1. /\ WithoutSpaces(s) \in Seq(Anything) /\ WithoutSpaces(q) \in Seq(Anything)
      /\ Printed(c) \in Seq(Anything)
  BY WithoutSpacesIsSeq, PrintedIsSeq
<1> QED
  BY <1>1, Texts

\* The spaces of two texts that are joined are those of each.
LEMMA WithoutSpacesConcat ==
    ASSUME NEW s \in Seq(Anything), NEW t \in Seq(Anything)
    PROVE  WithoutSpaces(s \o t) = WithoutSpaces(s) \o WithoutSpaces(t)
<1> DEFINE P(r) == WithoutSpaces(s \o r) = WithoutSpaces(s) \o WithoutSpaces(r)
           S == {k \in Nat : \A r \in Seq(Anything) : Len(r) = k => P(r)}
<1>1. 0 \in S
  <2>1. \A r \in Seq(Anything) : Len(r) = 0 => r = <<>>
    OBVIOUS
  <2>2. P(<<>>)
    BY WithoutSpacesEmpty, WithoutSpacesIsSeq, ConcatEmptySeq
  <2> HIDE DEF P
  <2> QED
    BY <2>1, <2>2
<1>2. ASSUME NEW k \in Nat, k \in S
      PROVE  k + 1 \in S
  <2> SUFFICES ASSUME NEW r \in Seq(Anything), Len(r) = k + 1
               PROVE  P(r)
    OBVIOUS
  <2>1. r # <<>>
    OBVIOUS
  <2>2. PICK q \in Seq(Anything), c \in Anything : r = Append(q, c)
    BY <2>1, SequenceEmptyOrAppend, Zenon
  <2>3. P(q)
    <3>1. Len(q) = k
      BY <2>2
    <3> HIDE DEF P
    <3> QED
      BY <1>2, <3>1
  <2> HIDE DEF S
  <2>4. s \o r = Append(s \o q, c) /\ s \o q \in Seq(Anything)
    BY <2>2
  <2>5. WithoutSpaces(s \o r) = WithoutSpaces(s \o q) \o Printed(c)
    BY <2>4, WithoutSpacesAppend, Zenon
  <2>6. WithoutSpaces(r) = WithoutSpaces(q) \o Printed(c)
    BY <2>2, WithoutSpacesAppend, Zenon
  <2>7. (WithoutSpaces(s) \o WithoutSpaces(q)) \o Printed(c)
          = WithoutSpaces(s) \o (WithoutSpaces(q) \o Printed(c))
    BY WithoutSpacesAssociative
  <2> QED
    BY <2>3, <2>5, <2>6, <2>7, Zenon
<1> HIDE DEF S, P
<1>3. Nat \subseteq S
  BY <1>1, <1>2, SetInduction
<1>4. P(t)
  <2>1. Len(t) \in Nat
    OBVIOUS
  <2> QED
    BY <1>3, <2>1 DEF S
<1> QED
  BY <1>4 DEF P

-----------------------------------------------------------------------------
(* What the parser holds.                                                  *)

FirstLineWords ==
    {"kRequestMethod", "kRequestUri", "kRequestVersion", "kResponseVersion",
     "kResponseCode", "kResponseReason"}

\* Texts and their equality, named so that the provers do not unfold them.
IsText(x) == x \in Seq(Anything)
Same(x, y) == x = y

\* The lines that are over.
LinesHeld == FlattenSeq(words) \o CRLF \o HeaderLines(headers)

\* What the parser holds, but for the word that it is reading.
Before ==
    IF state \in FirstLineWords \cup FirstLineSpaces THEN FlattenSeq(words)
    ELSE IF state \in {"kHeaderSpaces", "kHeaderValue"}
         THEN LinesHeld \o name \o <<"colon">>
    ELSE IF state \in {"kHeadersEndLF", "kBody"} THEN LinesHeld \o CRLF
    ELSE LinesHeld

Held == IF state \in WordStates THEN Before \o buffer ELSE Before

\* The LF of a line is held as soon as the CR was read.
Missing == IF state \in DOMAIN AfterLF THEN <<"lf">> ELSE <<>>

(***************************************************************************)
(* At every character: what was read, and the LF that is missing, is what  *)
(* the parser holds, but for spaces.                                       *)
(***************************************************************************)
HeldInv ==
    /\ state # "kErrorState" => WithoutSpaces(read) \o Missing = WithoutSpaces(Held)
    /\ state \in FirstLineWords \cup FirstLineSpaces => headers = <<>>

\* Separators as texts.
LEMMA PrintedChars ==
    /\ Printed("sp") = <<>>
    /\ \A c \in Anything : c # "sp" => Printed(c) = <<c>>
    /\ "sp" \in Anything /\ "cr" \in Anything /\ "lf" \in Anything /\ "colon" \in Anything
    /\ CRLF \in Seq(Anything)
BY DEF Printed, Anything, Separators, CRLF

\* A CRLF has no space.
LEMMA WithoutSpacesCRLF == WithoutSpaces(CRLF) = CRLF
<1>1. CRLF = Append(Append(<<>>, "cr"), "lf") /\ <<"cr">> = Append(<<>>, "cr")
  BY DEF CRLF
<1>2. <<>> \in Seq(Anything) /\ <<"cr">> \in Seq(Anything)
  BY PrintedChars
<1>3. WithoutSpaces(<<"cr">>) = <<>> \o <<"cr">>
  BY <1>1, <1>2, PrintedChars, WithoutSpacesAppend, WithoutSpacesEmpty
<1>4. WithoutSpaces(CRLF) = WithoutSpaces(<<"cr">>) \o <<"lf">>
  BY <1>1, <1>2, PrintedChars, WithoutSpacesAppend
<1> QED
  BY <1>3, <1>4 DEF CRLF

\* What a character changes of a text that is held, and of the LF that is missing.
TextStep(c, h, m, h2, m2) ==
    \/ m = <<>> /\ m2 = <<>> /\ h2 = Append(h, c)
    \/ m = <<>> /\ m2 = <<>> /\ c = "sp" /\ h2 = h
    \/ m = <<>> /\ m2 = <<"lf">> /\ c = "cr" /\ h2 = h \o CRLF
    \/ m = <<"lf">> /\ m2 = <<>> /\ c = "lf" /\ h2 = h

\* Such a change keeps what was read and what is held the same.
LEMMA OneCharacter ==
    ASSUME NEW r \in Seq(Anything), NEW h \in Seq(Anything), NEW c \in Anything,
           NEW m, NEW h2, NEW m2, WithoutSpaces(r) \o m = WithoutSpaces(h),
           TextStep(c, h, m, h2, m2)
    PROVE  Same(WithoutSpaces(Append(r, c)) \o m2, WithoutSpaces(h2))
<1> SUFFICES WithoutSpaces(Append(r, c)) \o m2 = WithoutSpaces(h2)
  BY DEF Same
<1>1. PICK u \in Seq(Anything) : u = WithoutSpaces(r)
  BY WithoutSpacesIsSeq
<1>2. PICK v \in Seq(Anything) : v = WithoutSpaces(h)
  BY WithoutSpacesIsSeq
<1>3. WithoutSpaces(Append(r, c)) = u \o Printed(c)
  BY <1>1, WithoutSpacesAppend, Zenon
<1>4. u \o m = v
  BY <1>1, <1>2, Zenon
<1>5. CASE m = <<>> /\ m2 = <<>> /\ h2 = Append(h, c)
  <2>1. u = v
    BY <1>4, <1>5
  <2>2. WithoutSpaces(h2) = v \o Printed(c)
    BY <1>2, <1>5, WithoutSpacesAppend, Zenon
  <2>3. \A w \in Seq(Anything) : w \o <<>> = w
    BY ConcatEmptySeq
  <2>4. u \o Printed(c) \in Seq(Anything)
    BY PrintedIsSeq, Texts
  <2>5. WithoutSpaces(Append(r, c)) \o m2 = u \o Printed(c)
    BY <1>3, <1>5, <2>3, <2>4, Zenon
  <2> QED
    BY <2>1, <2>2, <2>5, Zenon
<1>6. CASE m = <<>> /\ m2 = <<>> /\ c = "sp" /\ h2 = h
  <2>1. u = v
    BY <1>4, <1>6
  <2>2. WithoutSpaces(Append(r, c)) = u
    BY <1>3, <1>6, PrintedChars
  <2> QED
    BY <1>2, <1>6, <2>1, <2>2
<1>7. CASE m = <<>> /\ m2 = <<"lf">> /\ c = "cr" /\ h2 = h \o CRLF
  <2>1. u = v
    BY <1>4, <1>7
  <2>2. WithoutSpaces(Append(r, c)) = u \o <<"cr">>
    BY <1>3, <1>7, PrintedChars
  <2>3. WithoutSpaces(h2) = v \o CRLF
    BY <1>2, <1>7, WithoutSpacesConcat, WithoutSpacesCRLF, PrintedChars, Zenon
  <2>4. (u \o <<"cr">>) \o <<"lf">> = u \o CRLF
    BY DEF CRLF
  <2> QED
    BY <1>7, <2>1, <2>2, <2>3, <2>4, Zenon
<1>8. CASE m = <<"lf">> /\ m2 = <<>> /\ c = "lf" /\ h2 = h
  <2>1. WithoutSpaces(Append(r, c)) = u \o <<"lf">>
    BY <1>3, <1>8, PrintedChars
  <2>2. WithoutSpaces(Append(r, c)) = v
    BY <1>4, <1>8, <2>1
  <2>3. v \o <<>> = v
    BY ConcatEmptySeq
  <2> QED
    BY <1>2, <1>8, <2>2, <2>3
<1> QED
  BY <1>5, <1>6, <1>7, <1>8 DEF TextStep

\* The kinds of states exclude each other.
LEMMA StateKinds ==
    /\ WordStates = FirstLineWords \cup {"kHeaderName", "kHeaderValue"}
    /\ WordStates \cap (DOMAIN AfterLF \cup DOMAIN AfterSpaces \cup {"kHeaderStart"}) = {}
    /\ DOMAIN AfterSpaces \cap (DOMAIN AfterLF \cup {"kHeaderStart"}) = {}
    /\ FirstLineWords \cap {"kHeaderName", "kHeaderValue"} = {}
    /\ (FirstLineWords \cup FirstLineSpaces)
          \cap {"kHeaderSpaces", "kHeaderStart", "kHeadersEndLF", "kBody", "kRequestLineLF",
                "kResponseReasonLF", "kHeaderLF"} = {}
    /\ \A s \in DOMAIN AfterSpaces :
          /\ s \in FirstLineSpaces => AfterSpaces[s] \in FirstLineWords
          /\ s = "kHeaderSpaces" <=> AfterSpaces[s] = "kHeaderValue"
<1> USE Tables DEF WordStates, FirstLineWords, FirstLineSpaces
<1>1. \A s \in DOMAIN AfterSpaces :
          /\ s \in FirstLineSpaces => AfterSpaces[s] \in FirstLineWords
          /\ s = "kHeaderSpaces" <=> AfterSpaces[s] = "kHeaderValue"
  BY DEF AfterSpaces
<1> QED
  BY <1>1

\* The texts that are held, as texts.
LEMMA HeldTexts ==
    ASSUME TypeOK
    PROVE  /\ FlattenSeq(words) \in Seq(Anything)
           /\ HeaderLines(headers) \in Seq(Anything)
           /\ LinesHeld \in Seq(Anything)
           /\ name \in Seq(Anything) /\ <<"colon">> \in Seq(Anything)
           /\ LinesHeld \o name \o <<"colon">> \in Seq(Anything)
           /\ Before \in Seq(Anything) /\ Held \in Seq(Anything)
<1>0. /\ words \in Seq(Seq(Anything)) /\ headers \in Seq(Header)
      /\ buffer \in Seq(Anything)
  BY DEF TypeOK, Header
<1>1. /\ FlattenSeq(words) \in Seq(Anything) /\ HeaderLines(headers) \in Seq(Anything)
      /\ buffer \in Seq(Anything) /\ <<"colon">> \in Seq(Anything) /\ CRLF \in Seq(Anything)
  <2>1. FlattenSeq(words) \in Seq(Anything)
    BY <1>0, FlattenIsSeq
  <2>2. HeaderLines(headers) \in Seq(Anything)
    BY <1>0, HeaderLinesIsSeq
  <2>3. <<"colon">> \in Seq(Anything) /\ CRLF \in Seq(Anything)
    BY PrintedChars
  <2> QED
    BY <1>0, <2>1, <2>2, <2>3
<1>2. name \in Seq(Anything)
  BY CharacterKinds, SeqMonotonic DEF TypeOK
<1>3. \A a, b \in Seq(Anything) : a \o b \in Seq(Anything)
  BY Texts
<1>4. LinesHeld \in Seq(Anything)
  BY <1>1, <1>3, Zenon DEF LinesHeld
<1>5. LinesHeld \o CRLF \in Seq(Anything) /\ LinesHeld \o name \in Seq(Anything)
  BY <1>1, <1>2, <1>3, <1>4, Zenon
<1>6. LinesHeld \o name \o <<"colon">> \in Seq(Anything)
  BY <1>1, <1>3, <1>5, Zenon
<1>7. Before \in Seq(Anything)
  BY <1>1, <1>4, <1>5, <1>6 DEF Before
<1>8. Held \in Seq(Anything)
  BY <1>1, <1>3, <1>7 DEF Held
<1> QED
  BY <1>1, <1>2, <1>4, <1>6, <1>7, <1>8

HeldStep(c) == TextStep(c, Held, Missing, Held', Missing')

\* A character of a word is held at the end of the word.
LEMMA HeldTake ==
    ASSUME TypeOK, NEW c \in Anything, TakeChar(c)
    PROVE  HeldStep(c)
<1>1. /\ state \in WordStates /\ state' = state /\ buffer' = Append(buffer, c)
      /\ UNCHANGED <<name, words, headers>>
  BY Tables DEF TakeChar, Takes
<1>2. Before' = Before
  BY <1>1 DEF Before, LinesHeld
<1>3. Missing = <<>> /\ Missing' = <<>>
  BY <1>1, StateKinds DEF Missing
<1>4. PICK a \in Seq(Anything) : a = Before
  BY HeldTexts
<1>5. Held = a \o buffer /\ Held' = a \o Append(buffer, c)
  BY <1>1, <1>2, <1>4 DEF Held
<1>6. a \o Append(buffer, c) = Append(a \o buffer, c)
  <2>1. buffer \in Seq(Anything)
    BY DEF TypeOK
  <2> QED
    BY <2>1
<1>7. Held' = Append(Held, c)
  BY <1>5, <1>6, Zenon
<1> QED
  BY <1>3, <1>7 DEF HeldStep, TextStep

\* The first character of a word.
LEMMA HeldBegin ==
    ASSUME TypeOK, NEW c \in Anything, BeginWord(c)
    PROVE  HeldStep(c)
<1>1. /\ buffer' = <<c>> /\ UNCHANGED <<name, words, headers>>
      /\ \/ state \in DOMAIN AfterSpaces /\ state' = AfterSpaces[state]
         \/ state = "kHeaderStart" /\ state' = "kHeaderName"
  BY StateKinds DEF BeginWord, Begins
<1>2. state \notin WordStates /\ state' \in WordStates
  BY <1>1, StateKinds, Tables
<1>3. Before' = Before
  <2>1. FlattenSeq(words') = FlattenSeq(words) /\ LinesHeld' = LinesHeld /\ name' = name
    BY <1>1 DEF LinesHeld
  <2>2. CASE state \in FirstLineSpaces
    <3>1. state' \in FirstLineWords
      BY <1>1, <2>2, StateKinds, Tables DEF FirstLineSpaces
    <3> QED
      BY <2>1, <2>2, <3>1 DEF Before
  <2>3. CASE state = "kHeaderSpaces"
    <3>1. state' = "kHeaderValue"
      BY <1>1, <2>3, StateKinds
    <3>2. /\ state \notin FirstLineWords \cup FirstLineSpaces
          /\ state' \notin FirstLineWords \cup FirstLineSpaces
      BY <2>3, <3>1, StateKinds DEF FirstLineSpaces
    <3> QED
      BY <2>1, <2>3, <3>1, <3>2 DEF Before
  <2>4. CASE state = "kHeaderStart"
    <3>1. state' = "kHeaderName"
      BY <1>1, <2>4, StateKinds
    <3>2. /\ state \notin FirstLineWords \cup FirstLineSpaces
          /\ state' \notin FirstLineWords \cup FirstLineSpaces
      BY <2>4, <3>1 DEF FirstLineWords, FirstLineSpaces
    <3> QED
      BY <2>1, <2>4, <3>1, <3>2 DEF Before
  <2> QED
    BY <1>1, <2>2, <2>3, <2>4, Tables
<1>4. Missing = <<>> /\ Missing' = <<>>
  BY <1>1, <1>2, StateKinds, Tables DEF Missing
<1>5. PICK a \in Seq(Anything) : a = Before
  BY HeldTexts
<1>6. Held = a /\ Held' = a \o <<c>>
  BY <1>1, <1>2, <1>3, <1>5 DEF Held
<1>7. a \o <<c>> = Append(a, c)
  BY AppendIsConcat
<1> QED
  BY <1>4, <1>6, <1>7 DEF HeldStep, TextStep

\* A space that is skipped is not held.
LEMMA HeldSkip ==
    ASSUME TypeOK, NEW c \in Anything, SkipSpace(c)
    PROVE  HeldStep(c)
<1>1. /\ c = "sp" /\ state \in DOMAIN AfterSpaces
      /\ UNCHANGED <<state, buffer, name, words, headers>>
  BY DEF SkipSpace, Skips, parserVars
<1>2. Held' = Held /\ Missing = <<>> /\ Missing' = <<>>
  BY <1>1, StateKinds DEF Held, Before, LinesHeld, Missing
<1> QED
  BY <1>1, <1>2 DEF HeldStep, TextStep

\* The end of a line, or of the headers.
LEMMA HeldAdvance ==
    ASSUME TypeOK, NEW c \in Anything, Advance(c)
    PROVE  HeldStep(c)
<1>1. /\ UNCHANGED <<buffer, name, words, headers>>
      /\ \/ state \in DOMAIN AfterLF /\ c = "lf" /\ state' = AfterLF[state]
         \/ state = "kHeaderStart" /\ c = "cr" /\ state' = "kHeadersEndLF"
  BY Tables DEF Advance, EndsLine, EndsHeaders
<1>2. LinesHeld' = LinesHeld
  BY <1>1 DEF LinesHeld
<1>3. CASE state \in DOMAIN AfterLF /\ c = "lf" /\ state' = AfterLF[state]
  <2>1. Missing = <<"lf">> /\ Missing' = <<>>
    BY <1>3, AfterOthers, Tables DEF Missing
  <2>2. Held' = Held
    <3>1. state' \in {"kHeaderStart", "kBody"} /\ (state' = "kBody" <=> state = "kHeadersEndLF")
      BY <1>3, AfterOthers
    <3>2. state \notin WordStates /\ state' \notin WordStates
      BY <1>3, <3>1, StateKinds DEF WordStates
    <3>3. Before' = Before
      BY <1>2, <1>3, <3>1, StateKinds, Tables DEF Before
    <3> QED
      BY <3>2, <3>3 DEF Held
  <2> QED
    BY <1>3, <2>1, <2>2 DEF HeldStep, TextStep
<1>4. CASE state = "kHeaderStart" /\ c = "cr" /\ state' = "kHeadersEndLF"
  <2>1. Missing = <<>> /\ Missing' = <<"lf">>
    BY <1>4, Tables DEF Missing
  <2>2. Held = LinesHeld /\ Held' = LinesHeld \o CRLF
    BY <1>2, <1>4, StateKinds DEF Held, Before, WordStates
  <2> QED
    BY <1>4, <2>1, <2>2 DEF HeldStep, TextStep
<1> QED
  BY <1>1, <1>3, <1>4

\* Joining texts is associative, for the opaque names.
LEMMA Associative ==
    \A a, b, c : IsText(a) /\ IsText(b) /\ IsText(c) => Same((a \o b) \o c, a \o (b \o c))
<1> SUFFICES ASSUME NEW a, NEW b, NEW c, IsText(a), IsText(b), IsText(c)
             PROVE  (a \o b) \o c = a \o (b \o c)
  BY DEF Same
<1> QED
  BY Texts DEF IsText

\* Texts that are joined are a text.
LEMMA ConcatIsText == \A a, b : IsText(a) /\ IsText(b) => IsText(a \o b)
BY Texts DEF IsText

\* A header line and the lines before it.
LEMMA Regroup ==
    ASSUME NEW a, NEW b, NEW c, NEW d, NEW e,
           IsText(a), IsText(b), IsText(c), IsText(d), IsText(e)
    PROVE  Same(a \o (b \o ((c \o d) \o e)), (((a \o b) \o c) \o d) \o e)
<1>1. IsText(a \o b) /\ IsText(c \o d) /\ IsText((c \o d) \o e)
  BY ConcatIsText, Zenon
<1>2. Same((a \o b) \o ((c \o d) \o e), a \o (b \o ((c \o d) \o e)))
  BY <1>1, Associative, Zenon
<1>3. Same(((a \o b) \o (c \o d)) \o e, (a \o b) \o ((c \o d) \o e))
  BY <1>1, Associative, Zenon
<1>4. Same(((a \o b) \o c) \o d, (a \o b) \o (c \o d))
  BY <1>1, Associative, Zenon
<1> QED
  BY <1>2, <1>3, <1>4, Zenon DEF Same

\* A word that is over becomes part of the first line or of a header.
LEMMA HeldEnd ==
    ASSUME TypeOK, HeldInv, NEW c \in Anything, EndWord(c)
    PROVE  HeldStep(c)
<1> USE Tables
<1>1. /\ state \in WordStates /\ c = Word[state].ends /\ state' = Word[state].next
      /\ Missing = <<>> /\ Held = Before \o buffer /\ UNCHANGED buffer
  BY StateKinds DEF EndWord, Ends, Missing, Held
<1>2. /\ FlattenSeq(words) \in Seq(Anything) /\ buffer \in Seq(Anything)
      /\ words \in Seq(Seq(Anything)) /\ headers \in Seq(Header)
      /\ LinesHeld \in Seq(Anything) /\ name \in Seq(NameTokens) /\ Held \in Seq(Anything)
      /\ CRLF \in Seq(Anything) /\ name \in Seq(Anything) /\ <<"colon">> \in Seq(Anything)
  BY HeldTexts, PrintedChars DEF TypeOK, Header
<1>3. CASE state \in FirstLineWords
  <2>1. words' = Append(words, buffer) /\ headers' = headers /\ headers = <<>>
    BY <1>3, StateKinds DEF EndWord, HeldInv
  <2>2. Held = FlattenSeq(words) \o buffer
    BY <1>1, <1>3 DEF Before
  <2>3. FlattenSeq(words') = Held
    BY <1>2, <2>1, <2>2, FlattenAppend
  <2>4. CASE state' \in FirstLineSpaces
    <3>1. c = "sp" /\ Missing' = <<>>
      BY <1>1, <2>4, AfterWord, StateKinds DEF Missing, FirstLineSpaces
    <3>2. Held' = Held
      <4>1. state' \notin WordStates
        BY <2>4 DEF FirstLineSpaces, WordStates
      <4> QED
        BY <2>3, <2>4, <4>1 DEF Held, Before
    <3> QED
      BY <1>1, <3>1, <3>2 DEF HeldStep, TextStep
  <2>5. CASE state' \in {"kRequestLineLF", "kResponseReasonLF"}
    <3>1. c = "cr" /\ Missing' = <<"lf">>
      BY <1>1, <1>3, <2>5 DEF Missing, Word, WordState, FirstLineWords
    <3>2. Held' = LinesHeld'
      <4>1. state' \notin WordStates
        BY <2>5 DEF WordStates
      <4> QED
        BY <2>5, <4>1, StateKinds DEF Held, Before
    <3>3. LinesHeld' = Held \o CRLF \o <<>>
      BY <2>1, <2>3, HeaderLinesIsSeq DEF LinesHeld
    <3>4. PICK h \in Seq(Anything) : h = Held
      BY <1>2
    <3>5. h \o CRLF \o <<>> = h \o CRLF
      BY <1>2, ConcatEmptySeq, Texts
    <3> QED
      BY <1>1, <3>1, <3>2, <3>3, <3>4, <3>5, Zenon DEF HeldStep, TextStep
  <2> QED
    BY <1>1, <1>3, <2>4, <2>5 DEF Word, WordState, FirstLineWords, FirstLineSpaces
<1>4. CASE state = "kHeaderName"
  <2>1. state' = "kHeaderSpaces" /\ c = "colon" /\ Missing' = <<>>
    BY <1>1, <1>4 DEF Word, WordState, Missing
  <2>2. name' = buffer /\ UNCHANGED <<words, headers>>
    BY <1>4 DEF EndWord
  <2>3. Held = LinesHeld \o buffer
    BY <1>1, <1>4, StateKinds DEF Before
  <2>4. Held' = LinesHeld \o buffer \o <<"colon">>
    BY <2>1, <2>2, StateKinds DEF Held, Before, LinesHeld, WordStates
  <2>5. Held' = Append(Held, "colon")
    BY <1>2, <2>3, <2>4, PrintedChars, AppendIsConcat
  <2> QED
    BY <1>1, <2>1, <2>5 DEF HeldStep, TextStep
<1>5. CASE state = "kHeaderValue"
  <2>1. state' = "kHeaderLF" /\ c = "cr" /\ Missing' = <<"lf">>
    BY <1>1, <1>5 DEF Word, WordState, Missing
  <2> DEFINE h == [name |-> name, value |-> buffer]
  <2>2. /\ words' = words /\ headers' = Append(headers, h)
        /\ h \in Header /\ h.name = name /\ h.value = buffer
    BY <1>2, <1>5 DEF EndWord, Header
  <2> HIDE DEF h
  <2>3. Held = LinesHeld \o name \o <<"colon">> \o buffer
    BY <1>1, <1>5, StateKinds DEF Before
  <2>4. HeaderLines(headers') = HeaderLines(headers) \o RenderHeader(h)
    BY <1>2, <2>2, HeaderLinesAppend
  <2>5. Held' = FlattenSeq(words) \o CRLF \o (HeaderLines(headers) \o RenderHeader(h))
    <3>1. Held' = LinesHeld'
      BY <2>1, StateKinds DEF Held, Before, WordStates
    <3> QED
      BY <2>2, <2>4, <3>1 DEF LinesHeld
  <2>6. PICK f \in Seq(Anything) : f = FlattenSeq(words) \o CRLF
    BY <1>2, Texts
  <2>7. PICK l \in Seq(Anything) : l = HeaderLines(headers)
    BY HeldTexts
  <2>8. PICK n \in Seq(Anything) : n = name \o <<"colon">>
    BY <1>2, Texts
  <2>9. RenderHeader(h) = n \o buffer \o CRLF
    BY <2>2, <2>8 DEF RenderHeader
  <2>10. LinesHeld \o name \o <<"colon">> = f \o l \o n
    <3>1. LinesHeld = f \o l
      BY <2>6, <2>7 DEF LinesHeld
    <3>2. (LinesHeld \o name) \o <<"colon">> = LinesHeld \o (name \o <<"colon">>)
      <4>1. IsText(LinesHeld) /\ IsText(name) /\ IsText(<<"colon">>)
        BY <1>2 DEF IsText
      <4>2. Same((LinesHeld \o name) \o <<"colon">>, LinesHeld \o (name \o <<"colon">>))
        BY <4>1, Associative, Zenon
      <4> QED
        BY <4>2, Zenon DEF Same
    <3> QED
      BY <2>8, <3>1, <3>2, Zenon
  <2>11. f \o (l \o (n \o buffer \o CRLF)) = f \o l \o n \o buffer \o CRLF
    <3>1. IsText(f) /\ IsText(l) /\ IsText(n) /\ IsText(buffer) /\ IsText(CRLF)
      BY <1>2 DEF IsText
    <3>2. Same(f \o (l \o ((n \o buffer) \o CRLF)), (((f \o l) \o n) \o buffer) \o CRLF)
      BY <3>1, Regroup, Zenon
    <3> QED
      BY <3>2, Zenon DEF Same
  <2>12. Held' = Held \o CRLF
    BY <2>3, <2>5, <2>6, <2>7, <2>9, <2>10, <2>11, Zenon
  <2> QED
    BY <1>1, <2>1, <2>12 DEF HeldStep, TextStep
<1> QED
  BY <1>1, <1>3, <1>4, <1>5, StateKinds

\* handle_char keeps what was read and what is held the same.
LEMMA HeldOfChar ==
    ASSUME ParserInv, HeldInv, NEW c \in Anything, HandleChar(c), outcome = "parsing",
           read' = Append(read, c)
    PROVE  HeldInv'
<1>1. TypeOK /\ state # "kErrorState" /\ read \in Seq(Anything)
  BY DEF ParserInv, WordInv, TypeOK
<1>2. CASE Reject(c)
  BY <1>2 DEF Reject, HeldInv, FirstLineWords, FirstLineSpaces
<1>3. CASE ~ Reject(c)
  <2>1. HeldStep(c)
    BY <1>1, <1>3, HeldTake, HeldEnd, HeldBegin, HeldSkip, HeldAdvance DEF HandleChar
  <2>2. Held \in Seq(Anything)
    BY <1>1, HeldTexts
  <2>3. WithoutSpaces(read) \o Missing = WithoutSpaces(Held)
    BY <1>1 DEF HeldInv
  <2>4. WithoutSpaces(Append(read, c)) \o Missing' = WithoutSpaces(Held')
    <3>1. PICK h, m, h2, m2 : h = Held /\ m = Missing /\ h2 = Held' /\ m2 = Missing'
      OBVIOUS
    <3>2. TextStep(c, h, m, h2, m2)
      BY <2>1, <3>1, Zenon DEF HeldStep
    <3>3. h \in Seq(Anything) /\ WithoutSpaces(read) \o m = WithoutSpaces(h)
      BY <2>2, <2>3, <3>1, Zenon
    <3>4. Same(WithoutSpaces(Append(read, c)) \o m2, WithoutSpaces(h2))
      BY <1>1, <3>2, <3>3, OneCharacter, Zenon
    <3> QED
      BY <3>1, <3>4, Zenon DEF Same
  <2>5. ASSUME state' \in FirstLineWords \cup FirstLineSpaces
        PROVE  headers' = <<>>
    <3>1. headers' = headers \/ state = "kHeaderValue"
      BY <1>3 DEF HandleChar, TakeChar, EndWord, BeginWord, SkipSpace, Advance, parserVars
    <3>2. state \in FirstLineWords \cup FirstLineSpaces
      <4>1. CASE TakeChar(c) \/ SkipSpace(c)
        BY <2>5, <4>1 DEF TakeChar, SkipSpace, parserVars
      <4>2. CASE EndWord(c)
        <5>1. state \in WordStates /\ state' = Word[state].next
          BY <4>2, Tables DEF EndWord, Ends
        <5>2. state \notin {"kHeaderName", "kHeaderValue"}
          BY <2>5, <5>1 DEF Word, WordState, FirstLineWords, FirstLineSpaces
        <5> QED
          BY <5>1, <5>2, StateKinds
      <4>3. CASE BeginWord(c)
        BY <2>5, <4>3, StateKinds, Tables DEF BeginWord, Begins, FirstLineWords, FirstLineSpaces
      <4>4. CASE Advance(c)
        <5>1. state' \in {"kHeaderStart", "kBody", "kHeadersEndLF"}
          BY <4>4, AfterOthers DEF Advance, EndsLine, EndsHeaders
        <5> QED
          BY <2>5, <5>1, StateKinds
      <4> QED
        BY <1>3, <4>1, <4>2, <4>3, <4>4 DEF HandleChar
    <3>3. state # "kHeaderValue"
      BY <3>2, StateKinds DEF FirstLineSpaces
    <3> QED
      BY <3>1, <3>2, <3>3 DEF HeldInv
  <2> QED
    BY <2>4, <2>5 DEF HeldInv
<1> QED
  BY <1>2, <1>3

NothingRead ==
    /\ state \in {"kRequestMethod", "kResponseVersion"}
    /\ buffer = <<>> /\ words = <<>> /\ headers = <<>> /\ read = <<>>

\* At the start nothing was read and nothing is held.
LEMMA HeldAtStart == NothingRead => HeldInv
<1> SUFFICES ASSUME NothingRead
             PROVE  HeldInv
  OBVIOUS
<1> USE DEF NothingRead
<1>1. state \in FirstLineWords /\ state \in WordStates /\ state \notin DOMAIN AfterLF
  BY Tables DEF FirstLineWords, WordStates
<1>2. Missing = <<>> /\ Held = FlattenSeq(<<>>) \o <<>>
  BY <1>1 DEF Missing, Held, Before
<1>3. Held = <<>>
  BY <1>2, FlattenEmpty
<1> QED
  BY <1>2, <1>3, WithoutSpacesEmpty DEF HeldInv

\* At every character the parser holds what was read.
THEOREM HeldInvHolds == Spec => []HeldInv
<1>1. Init => HeldInv
  <2> SUFFICES ASSUME Init
               PROVE  HeldInv
    OBVIOUS
  <2>1. NothingRead
    BY DEF Init, FirstState, NothingRead
  <2> QED
    BY <2>1, HeldAtStart
<1>2. ParserInv /\ HeldInv /\ [Next]_vars => HeldInv'
  <2> SUFFICES ASSUME ParserInv, HeldInv, [Next]_vars
               PROVE  HeldInv'
    OBVIOUS
  <2>1. CASE ReadChar
    <3>1. PICK c \in Anything : HandleChar(c) /\ read' = Append(read, c)
      BY <2>1 DEF ReadChar
    <3> QED
      BY <2>1, <3>1, HeldOfChar DEF ReadChar
  <2>2. CASE UNCHANGED <<parserVars, read>>
    <3>1. UNCHANGED <<state, buffer, name, words, headers, read>>
      BY <2>2 DEF parserVars
    <3>2. LinesHeld' = LinesHeld
      BY <3>1 DEF LinesHeld
    <3>3. Before' = Before
      BY <3>1, <3>2 DEF Before
    <3>4. Held' = Held /\ Missing' = Missing
      BY <3>1, <3>3 DEF Held, Missing
    <3> QED
      BY <3>1, <3>4 DEF HeldInv
  <2>3. CASE Upgrade /\ peer # "foreign"
    <3>1. NothingRead'
      BY <2>3 DEF Upgrade, NewParser, FirstState, NothingRead
    <3>2. NothingRead' => HeldInv'
      BY HeldAtStart, PTL
    <3> QED
      BY <3>1, <3>2
  <2> QED
    BY <2>1, <2>2, <2>3 DEF Next, Timeout, Refuse, Upgrade, Open, vars
<1> QED
  BY <1>1, <1>2, ParserInvHolds, PTL DEF Spec

(***************************************************************************)
(* What the parser hands over is what was read, whatever is sent: nothing  *)
(* of one word shows up in the next (buffer_ and name_ are used for all),  *)
(* and nothing but spaces is dropped.                                      *)
(***************************************************************************)
THEOREM MessageIsWhatWasRead == Spec => []NothingMisread
<1>1. ParserInv /\ HeldInv => NothingMisread
  <2> SUFFICES ASSUME ParserInv, HeldInv, state = "kBody"
               PROVE  WithoutSpaces(read) = WithoutSpaces(Rendered)
    BY DEF NothingMisread
  <2>1. Missing = <<>> /\ Held = Rendered
    BY Tables DEF Missing, Held, Before, LinesHeld, Rendered, WordStates, FirstLineWords,
       FirstLineSpaces
  <2>2. WithoutSpaces(read) \o <<>> = WithoutSpaces(Rendered)
    BY <2>1 DEF HeldInv
  <2>3. WithoutSpaces(read) \in Seq(Anything)
    BY WithoutSpacesIsSeq DEF ParserInv, TypeOK
  <2> QED
    BY <2>2, <2>3, ConcatEmptySeq
<1> QED
  BY <1>1, ParserInvHolds, HeldInvHolds, PTL

-----------------------------------------------------------------------------
(* The messages that librcom sends, and what the parser makes of them.     *)

\* The headers that librcom sends.
H(n, v) == [name |-> <<n>>, value |-> v]

Host == H("Host", <<"ip", "colon", "port">>)
Connection == H("Connection", <<"Upgrade">>)
UpgradeTo == H("Upgrade", <<"websocket">>)
Version == H("Sec-WebSocket-Version", <<"13">>)
Key == H("Sec-WebSocket-Key", <<"key">>)
Accept == H("Sec-WebSocket-Accept", <<"accept">>)

OwnHeaders(what) ==
    IF what = "request" THEN <<Host, Connection, UpgradeTo, Version, Key>>
    ELSE <<UpgradeTo, Connection, Accept>>

HeaderCount(what) == IF what = "request" THEN 5 ELSE 3

\* The header that comes after k others.
HeaderAt(what, k) == OwnHeaders(what)[k + 1]

\* A header line, and what follows it.
LineOf(h, rest) ==
    h.name \o (<<"colon">> \o (<<"sp">> \o
        (h.value \o (<<"cr">> \o (<<"lf">> \o rest)))))

\* What follows the message.
Following(what) == IF what = "request" THEN <<>> ELSE Frames

BlankLine(what) == <<"cr">> \o (<<"lf">> \o Following(what))

\* What is left of the message behind k headers.
Request4 == LineOf(Key, BlankLine("request"))
Request3 == LineOf(Version, Request4)
Request2 == LineOf(UpgradeTo, Request3)
Request1 == LineOf(Connection, Request2)
Request0 == LineOf(Host, Request1)
Response2 == LineOf(Accept, BlankLine("response"))
Response1 == LineOf(Connection, Response2)
Response0 == LineOf(UpgradeTo, Response1)

Left(what, k) ==
    IF k = HeaderCount(what) THEN BlankLine(what)
    ELSE IF what = "request"
         THEN IF k = 0 THEN Request0 ELSE IF k = 1 THEN Request1
              ELSE IF k = 2 THEN Request2 ELSE IF k = 3 THEN Request3 ELSE Request4
         ELSE IF k = 0 THEN Response0 ELSE IF k = 1 THEN Response1 ELSE Response2

\* The words of the first line, and what is left of it.
FirstWord(s) ==
    IF s = "kRequestMethod" THEN <<"GET">>
    ELSE IF s = "kRequestUri" THEN <<"/">>
    ELSE IF s \in {"kRequestVersion", "kResponseVersion"} THEN <<"HTTP/1.1">>
    ELSE IF s = "kResponseCode" THEN <<"101">>
    ELSE <<"Switching", "sp", "Protocols">>

RequestLine3 == FirstWord("kRequestVersion") \o (<<"cr">> \o (<<"lf">> \o Request0))
RequestLine2 == FirstWord("kRequestUri") \o (<<"sp">> \o RequestLine3)
ResponseLine3 == FirstWord("kResponseReason") \o (<<"cr">> \o (<<"lf">> \o Response0))
ResponseLine2 == FirstWord("kResponseCode") \o (<<"sp">> \o ResponseLine3)

-----------------------------------------------------------------------------
\* The word that state s reads, behind k headers.
WordOf(what, k, s) ==
    IF s = "kHeaderName" THEN HeaderAt(what, k).name
    ELSE IF s = "kHeaderValue" THEN HeaderAt(what, k).value
    ELSE FirstWord(s)

ValueLine(what, k) ==
    HeaderAt(what, k).value \o (<<"cr">> \o (<<"lf">> \o Left(what, k + 1)))

\* What is ahead in state s, which reads no word.
Ahead(what, k, s) ==
    IF s = "kRequestMethodSpaces" THEN RequestLine2
    ELSE IF s = "kRequestUriSpaces" THEN RequestLine3
    ELSE IF s = "kResponseVersionSpaces" THEN ResponseLine2
    ELSE IF s = "kResponseCodeSpaces" THEN ResponseLine3
    ELSE IF s = "kHeaderSpaces" THEN ValueLine(what, k)
    ELSE IF s = "kHeaderStart" THEN Left(what, k)
    ELSE IF s = "kHeadersEndLF" THEN <<"lf">> \o Following(what)
    ELSE IF s = "kBody" THEN Following(what)
    ELSE <<"lf">> \o Left(what, k)

\* What is behind the word of state s and the character that ends it.
Behind(what, k, s) ==
    IF s = "kHeaderName" THEN <<"sp">> \o ValueLine(what, k)
    ELSE IF s = "kHeaderValue" THEN <<"lf">> \o Left(what, k + 1)
    ELSE Ahead(what, k, Word[s].next)

RequestStates ==
    {"kRequestMethod", "kRequestMethodSpaces", "kRequestUri", "kRequestUriSpaces",
     "kRequestVersion", "kRequestLineLF"}

ResponseStates ==
    {"kResponseVersion", "kResponseVersionSpaces", "kResponseCode", "kResponseCodeSpaces",
     "kResponseReason", "kResponseReasonLF"}

InHeader == {"kHeaderName", "kHeaderSpaces", "kHeaderValue"}

\* The states in which the parser may be behind k headers of its own message.
At(what, k, s) ==
    /\ what \in {"request", "response"} /\ k \in 0 .. HeaderCount(what)
    /\ s \in States \ {"kErrorState"}
    /\ s \in RequestStates => what = "request" /\ k = 0
    /\ s \in ResponseStates => what = "response" /\ k = 0
    /\ s \in InHeader => k < HeaderCount(what)
    /\ s \in {"kHeadersEndLF", "kBody"} => k = HeaderCount(what)

\* State s takes the word w, and accepts it.
Fits(s, w) ==
    /\ IsText(w) /\ w # <<>>
    /\ \A i \in 1 .. Len(w) : w[i] \in Word[s].takes /\ w[i] # Word[s].ends
    /\ Len(w) <= Word[s].limit + 1
    /\ Word[s].strict => Len(w) <= Word[s].limit

\* A word that the characters of a text begin with may follow spaces.
Begin(w) == w[1] # "sp" /\ w[1] # "cr"

Sendable(h) ==
    /\ h \in Header
    /\ Fits("kHeaderName", h.name) /\ Fits("kHeaderValue", h.value)
    /\ h.name[1] \in NameTokens
    /\ Begin(h.value)

-----------------------------------------------------------------------------
\* A header of at most three characters passes the limits.
LEMMA OwnHeaderFits ==
    ASSUME NEW n \in NameTokens, NEW v \in Seq(Anything), v # <<>>, Len(v) <= 3,
           \A i \in 1 .. Len(v) : v[i] # "cr", v[1] # "sp"
    PROVE  Sendable(H(n, v))
<1> DEFINE h == H(n, v)
<1>1. h.name = <<n>> /\ h.value = v /\ h \in Header
  BY DEF H, Header
<1> HIDE DEF h
<1>2. Fits("kHeaderName", h.name)
  <2>1. <<n>> \in Seq(Anything)
    BY CharacterKinds
  <2>2. /\ Word["kHeaderName"].takes = NameTokens /\ Word["kHeaderName"].ends = "colon"
        /\ Word["kHeaderName"].limit = MaxName - 1 /\ ~ Word["kHeaderName"].strict
    BY DEF Word, WordState
  <2>3. n # "colon"
    BY DEF NameTokens, Tokens, Upper, Digits, Others
  <2> QED
    BY <1>1, <2>1, <2>2, <2>3, LimitsAssumption DEF Fits, IsText
<1>3. Fits("kHeaderValue", h.value)
  <2>2. /\ Word["kHeaderValue"].takes = Anything /\ Word["kHeaderValue"].ends = "cr"
        /\ Word["kHeaderValue"].limit = MaxValue - 1 /\ ~ Word["kHeaderValue"].strict
    BY DEF Word, WordState
  <2>3. \A i \in 1 .. Len(v) : v[i] \in Anything
    OBVIOUS
  <2> QED
    BY <1>1, <2>2, <2>3, LimitsAssumption, OwnMessagesAssumption DEF Fits, IsText
<1>4. 1 \in 1 .. Len(v)
  OBVIOUS
<1> QED
  BY <1>1, <1>2, <1>3, <1>4 DEF Sendable, Begin, h

\* So do the headers of librcom.
LEMMA OwnHeadersFit ==
    /\ Sendable(Host) /\ Sendable(Connection) /\ Sendable(UpgradeTo)
    /\ Sendable(Version) /\ Sendable(Key) /\ Sendable(Accept)
<1>1. /\ {"Host", "Connection", "Upgrade", "Sec-WebSocket-Version", "Sec-WebSocket-Key",
          "Sec-WebSocket-Accept"} \subseteq NameTokens
      /\ {"ip", "colon", "port", "Upgrade", "websocket", "13", "key", "accept"}
            \subseteq Anything
  BY DEF NameTokens, Tokens, Upper, Digits, Others, Anything, Separators
<1>2. Sendable(Host)
  <2> DEFINE v == <<"ip", "colon", "port">>
  <2>1. /\ v \in Seq(Anything) /\ v # <<>> /\ Len(v) <= 3
        /\ \A i \in 1 .. Len(v) : v[i] # "cr"
        /\ v[1] # "sp"
    BY <1>1
  <2> HIDE DEF v
  <2> QED
    BY <1>1, <2>1, OwnHeaderFits DEF Host, v
<1>3. ASSUME NEW n \in NameTokens, NEW x \in Anything, x # "cr", x # "sp"
      PROVE  Sendable(H(n, <<x>>))
  <2> DEFINE v == <<x>>
  <2>1. /\ v \in Seq(Anything) /\ v # <<>> /\ Len(v) <= 3
        /\ \A i \in 1 .. Len(v) : v[i] # "cr"
        /\ v[1] # "sp"
    BY <1>3
  <2> HIDE DEF v
  <2> QED
    BY <2>1, OwnHeaderFits DEF v
<1> QED
  BY <1>1, <1>2, <1>3 DEF Connection, UpgradeTo, Version, Key, Accept

\* Each header of a message is one of them.
LEMMA HeaderOfMessage ==
    ASSUME NEW what \in {"request", "response"}, NEW k \in 0 .. HeaderCount(what),
           k < HeaderCount(what)
    PROVE  Sendable(HeaderAt(what, k))
<1>1. CASE what = "request"
  <2>1. k \in {0, 1, 2, 3, 4}
    BY <1>1 DEF HeaderCount
  <2>2. HeaderAt(what, k) \in {Host, Connection, UpgradeTo, Version, Key}
    BY <1>1, <2>1 DEF HeaderAt, OwnHeaders
  <2> QED
    BY <2>2, OwnHeadersFit
<1>2. CASE what = "response"
  <2>1. k \in {0, 1, 2}
    BY <1>2 DEF HeaderCount
  <2>2. HeaderAt(what, k) \in {UpgradeTo, Connection, Accept}
    BY <1>2, <2>1 DEF HeaderAt, OwnHeaders
  <2> QED
    BY <2>2, OwnHeadersFit
<1> QED
  BY <1>1, <1>2

\* What is left begins with the line of the next header.
LEMMA LeftIsLine ==
    ASSUME NEW what \in {"request", "response"}, NEW k \in 0 .. HeaderCount(what),
           k < HeaderCount(what)
    PROVE  Left(what, k) = LineOf(HeaderAt(what, k), Left(what, k + 1))
<1>1. CASE what = "request"
  <2>1. k \in {0, 1, 2, 3, 4}
    BY <1>1 DEF HeaderCount
  <2> QED
    BY <1>1, <2>1 DEF Left, HeaderCount, HeaderAt, OwnHeaders, Request0, Request1, Request2,
       Request3, Request4
<1>2. CASE what = "response"
  <2>1. k \in {0, 1, 2}
    BY <1>2 DEF HeaderCount
  <2> QED
    BY <1>2, <2>1 DEF Left, HeaderCount, HeaderAt, OwnHeaders, Response0, Response1, Response2
<1> QED
  BY <1>1, <1>2

\* Texts of one separator.
LEMMA OneCharacterTexts ==
    /\ IsText(<<"sp">>) /\ IsText(<<"cr">>) /\ IsText(<<"lf">>) /\ IsText(<<"colon">>)
    /\ IsText(<<>>) /\ IsText(CRLF)
BY PrintedChars DEF IsText

\* A header line and a text that follows it are a text.
LEMMA LineIsText ==
    ASSUME NEW h, NEW rest, Sendable(h), IsText(rest)
    PROVE  IsText(LineOf(h, rest))
<1>1. IsText(h.name) /\ IsText(h.value)
  BY DEF Sendable, Fits
<1> QED
  BY <1>1, OneCharacterTexts, ConcatIsText, Zenon DEF LineOf

\* What is left of a message is a text.
LEMMA LeftIsText ==
    ASSUME NEW what \in {"request", "response"}
    PROVE  /\ \A k \in 0 .. HeaderCount(what) : IsText(Left(what, k))
           /\ IsText(Following(what))
<1>1. IsText(Following("request")) /\ IsText(Following("response"))
  <2>1. Frames \in Seq(Anything) /\ <<>> \in Seq(Anything)
    BY DEF Frames, Anything, Tokens, Others
  <2> QED
    BY <2>1 DEF Following, IsText
<1>2. IsText(BlankLine("request")) /\ IsText(BlankLine("response"))
  BY <1>1, OneCharacterTexts, ConcatIsText, Zenon DEF BlankLine
<1>3. IsText(Request4)
  BY <1>2, LineIsText, OwnHeadersFit, Zenon DEF Request4
<1>4. IsText(Request3)
  BY <1>3, LineIsText, OwnHeadersFit, Zenon DEF Request3
<1>5. IsText(Request2)
  BY <1>4, LineIsText, OwnHeadersFit, Zenon DEF Request2
<1>6. IsText(Request1)
  BY <1>5, LineIsText, OwnHeadersFit, Zenon DEF Request1
<1>7. IsText(Request0)
  BY <1>6, LineIsText, OwnHeadersFit, Zenon DEF Request0
<1>8. IsText(Response2)
  BY <1>2, LineIsText, OwnHeadersFit, Zenon DEF Response2
<1>9. IsText(Response1)
  BY <1>8, LineIsText, OwnHeadersFit, Zenon DEF Response1
<1>10. IsText(Response0)
  BY <1>9, LineIsText, OwnHeadersFit, Zenon DEF Response0
<1> QED
  BY <1>1, <1>2, <1>3, <1>4, <1>5, <1>6, <1>7, <1>8, <1>9, <1>10 DEF Left

\* The words of the first line pass the limits and the checks.
LEMMA FirstWordsFit ==
    /\ \A s \in FirstLineWords : Fits(s, FirstWord(s))
    /\ \A s \in FirstLineWords \ {"kRequestMethod", "kResponseVersion"} : Begin(FirstWord(s))
<1>0. /\ {"GET", "/", "HTTP/1.1", "101", "Switching", "sp", "Protocols"} \subseteq Anything
      /\ "GET" \in Upper /\ "101" \in Digits
  BY DEF Tokens, Upper, Digits, Others, Anything, Separators
<1>1. ASSUME NEW s \in WordStates, NEW x \in Word[s].takes, x # Word[s].ends,
             x \in Anything, Word[s].limit >= 1
      PROVE  Fits(s, <<x>>)
  BY <1>1, WordTakes DEF Fits, IsText
<1>2. Fits("kRequestMethod", <<"GET">>)
  BY <1>0, <1>1, OwnMessagesAssumption DEF WordStates, Word, WordState
<1>3. Fits("kRequestUri", <<"/">>)
  BY <1>0, <1>1, OwnMessagesAssumption DEF WordStates, Word, WordState
<1>4. Fits("kRequestVersion", <<"HTTP/1.1">>)
  BY <1>0, <1>1, OwnMessagesAssumption DEF WordStates, Word, WordState
<1>5. Fits("kResponseVersion", <<"HTTP/1.1">>)
  BY <1>0, <1>1, OwnMessagesAssumption DEF WordStates, Word, WordState
<1>6. Fits("kResponseCode", <<"101">>)
  BY <1>0, <1>1, OwnMessagesAssumption DEF WordStates, Word, WordState
<1>7. Fits("kResponseReason", <<"Switching", "sp", "Protocols">>)
  <2>1. /\ Word["kResponseReason"].takes = Anything /\ Word["kResponseReason"].ends = "cr"
        /\ Word["kResponseReason"].limit = MaxReason
    BY DEF Word, WordState
  <2> QED
    BY <1>0, <2>1, LimitsAssumption, OwnMessagesAssumption DEF Fits, IsText
<1> QED
  BY <1>2, <1>3, <1>4, <1>5, <1>6, <1>7 DEF FirstLineWords, FirstWord, Begin

\* Every word of a message fits the state that reads it.
LEMMA WordFits ==
    ASSUME NEW what, NEW k, NEW s \in WordStates, At(what, k, s)
    PROVE  Fits(s, WordOf(what, k, s))
<1>1. CASE s \in FirstLineWords
  BY <1>1, FirstWordsFit, StateKinds DEF WordOf
<1>2. CASE s \in {"kHeaderName", "kHeaderValue"}
  <2>1. Sendable(HeaderAt(what, k))
    BY <1>2, HeaderOfMessage DEF At, InHeader
  <2> QED
    BY <1>2, <2>1 DEF WordOf, Sendable
<1> QED
  BY <1>1, <1>2, StateKinds

\* What is left of the first line, or of a header, is a text.
LEMMA LinesAreTexts ==
    /\ IsText(RequestLine2) /\ IsText(RequestLine3)
    /\ IsText(ResponseLine2) /\ IsText(ResponseLine3)
    /\ \A what \in {"request", "response"} : \A k \in 0 .. HeaderCount(what) :
          k < HeaderCount(what) => IsText(ValueLine(what, k))
<1>1. IsText(Request0) /\ IsText(Response0)
  BY LeftIsText DEF Left, HeaderCount
<1>2. \A s \in FirstLineWords : IsText(FirstWord(s))
  BY FirstWordsFit DEF Fits
<1>3. /\ IsText(FirstWord("kRequestVersion")) /\ IsText(FirstWord("kRequestUri"))
      /\ IsText(FirstWord("kResponseReason")) /\ IsText(FirstWord("kResponseCode"))
  BY <1>2 DEF FirstLineWords
<1>4. IsText(RequestLine3)
  BY <1>1, <1>3, OneCharacterTexts, ConcatIsText, Zenon DEF RequestLine3
<1>5. IsText(RequestLine2)
  BY <1>4, <1>3, OneCharacterTexts, ConcatIsText, Zenon DEF RequestLine2
<1>6. IsText(ResponseLine3)
  BY <1>1, <1>3, OneCharacterTexts, ConcatIsText, Zenon DEF ResponseLine3
<1>7. IsText(ResponseLine2)
  BY <1>6, <1>3, OneCharacterTexts, ConcatIsText, Zenon DEF ResponseLine2
<1>8. ASSUME NEW what \in {"request", "response"}, NEW k \in 0 .. HeaderCount(what),
             k < HeaderCount(what)
      PROVE  IsText(ValueLine(what, k))
  <2>1. IsText(HeaderAt(what, k).value)
    BY <1>8, HeaderOfMessage DEF Sendable, Fits
  <2>2. k + 1 \in 0 .. HeaderCount(what)
    BY <1>8 DEF HeaderCount
  <2>3. IsText(Left(what, k + 1))
    BY <2>2, LeftIsText
  <2> QED
    BY <2>1, <2>3, OneCharacterTexts, ConcatIsText, Zenon DEF ValueLine
<1> QED
  BY <1>4, <1>5, <1>6, <1>7, <1>8

\* What is ahead is a text.
LEMMA AheadIsText ==
    ASSUME NEW what, NEW k, NEW s, At(what, k, s)
    PROVE  s \notin WordStates => IsText(Ahead(what, k, s))
<1>0. what \in {"request", "response"} /\ k \in 0 .. HeaderCount(what)
  BY DEF At
<1>1. CASE s = "kHeaderSpaces"
  <2>1. k < HeaderCount(what)
    BY <1>1 DEF At, InHeader
  <2> QED
    BY <1>0, <1>1, <2>1, LinesAreTexts DEF Ahead
<1>2. CASE s # "kHeaderSpaces"
  <2>1. IsText(Left(what, k)) /\ IsText(Following(what))
    BY <1>0, LeftIsText
  <2>2. IsText(<<"lf">> \o Left(what, k)) /\ IsText(<<"lf">> \o Following(what))
    BY <2>1, OneCharacterTexts, ConcatIsText, Zenon
  <2> QED
    BY <1>2, <2>1, <2>2, LinesAreTexts DEF Ahead
<1> QED
  BY <1>1, <1>2

\* What a word makes of the state.
LEMMA AfterOwnWord ==
    ASSUME NEW what, NEW k, NEW s \in WordStates, At(what, k, s)
    PROVE  /\ s \in FirstLineWords =>
                 /\ At(what, k, Word[s].next)
                 /\ Behind(what, k, s) = Ahead(what, k, Word[s].next)
           /\ s = "kHeaderName" =>
                 /\ At(what, k, "kHeaderSpaces")
                 /\ Behind(what, k, s) = <<"sp">> \o Ahead(what, k, "kHeaderSpaces")
           /\ s = "kHeaderValue" =>
                 /\ At(what, k + 1, "kHeaderLF")
                 /\ Behind(what, k, s) = Ahead(what, k + 1, "kHeaderLF")
<1>0. /\ what \in {"request", "response"} /\ k \in 0 .. HeaderCount(what)
      /\ HeaderCount(what) \in Nat
  BY DEF At, HeaderCount
<1>1. {"kHeaderSpaces", "kHeaderLF"} \subseteq States \ {"kErrorState"}
  BY CharacterKinds, Tables
<1>2. ASSUME s \in FirstLineWords
      PROVE  /\ At(what, k, Word[s].next)
             /\ Behind(what, k, s) = Ahead(what, k, Word[s].next)
  <2>1. Word[s].next \in States \ {"kErrorState"}
    BY AfterWord, CharacterKinds, Tables DEF FirstLineSpaces
  <2>2. /\ s \in RequestStates => Word[s].next \in RequestStates \ ResponseStates
        /\ s \in ResponseStates => Word[s].next \in ResponseStates \ RequestStates
        /\ s \in RequestStates \cup ResponseStates
        /\ Word[s].next \notin InHeader \cup {"kHeadersEndLF", "kBody"}
    BY <1>2 DEF Word, WordState, FirstLineWords, RequestStates, ResponseStates, InHeader
  <2>3. At(what, k, Word[s].next)
    BY <2>1, <2>2 DEF At
  <2> QED
    BY <1>2, <2>3, StateKinds DEF Behind
<1>3. ASSUME s = "kHeaderName"
      PROVE  /\ At(what, k, "kHeaderSpaces")
             /\ Behind(what, k, s) = <<"sp">> \o Ahead(what, k, "kHeaderSpaces")
  BY <1>1, <1>3 DEF At, Behind, Ahead, RequestStates, ResponseStates, InHeader
<1>4. ASSUME s = "kHeaderValue"
      PROVE  /\ At(what, k + 1, "kHeaderLF")
             /\ Behind(what, k, s) = Ahead(what, k + 1, "kHeaderLF")
  <2>1. k < HeaderCount(what)
    BY <1>4 DEF At, InHeader
  <2>2. k + 1 \in 0 .. HeaderCount(what)
    BY <1>0, <2>1
  <2> QED
    BY <1>0, <1>1, <1>4, <2>2 DEF At, Behind, Ahead, RequestStates, ResponseStates, InHeader
<1> QED
  BY <1>2, <1>3, <1>4

\* The LF of a line.
LEMMA AfterOwnLine ==
    ASSUME NEW what, NEW k, NEW s \in DOMAIN AfterLF, At(what, k, s)
    PROVE  /\ At(what, k, AfterLF[s])
           /\ Ahead(what, k, s) = <<"lf">> \o Ahead(what, k, AfterLF[s])
           /\ AfterLF[s] \notin WordStates
<1>1. {"kHeaderStart", "kBody"} \subseteq States \ {"kErrorState"}
  BY CharacterKinds
<1>2. CASE s = "kHeadersEndLF"
  BY <1>1, <1>2 DEF At, Ahead, AfterLF, WordStates, RequestStates, ResponseStates, InHeader
<1>3. CASE s # "kHeadersEndLF"
  <2>1. s \in {"kRequestLineLF", "kResponseReasonLF", "kHeaderLF"} /\ AfterLF[s] = "kHeaderStart"
    BY <1>3, Tables DEF AfterLF
  <2>2. At(what, k, "kHeaderStart")
    BY <1>1 DEF At, RequestStates, ResponseStates, InHeader
  <2> QED
    BY <2>1, <2>2 DEF Ahead, WordStates
<1> QED
  BY <1>2, <1>3

\* The word that begins in a state that reads none.
Begun(s) == IF s = "kHeaderStart" THEN "kHeaderName" ELSE AfterSpaces[s]

\* A word begins where the parser expects one.
LEMMA BeforeOwnWord ==
    ASSUME NEW what, NEW k, NEW s, At(what, k, s),
           s \in DOMAIN AfterSpaces \/ (s = "kHeaderStart" /\ k < HeaderCount(what))
    PROVE  LET t == Begun(s) IN
           /\ t \in WordStates /\ At(what, k, t)
           /\ Ahead(what, k, s) =
                WordOf(what, k, t) \o (<<Word[t].ends>> \o Behind(what, k, t))
           /\ IF s = "kHeaderStart" THEN WordOf(what, k, t)[1] \in NameTokens
              ELSE Begin(WordOf(what, k, t))
<1>0. /\ what \in {"request", "response"} /\ k \in 0 .. HeaderCount(what)
  BY DEF At
<1>1. WordStates \subseteq States \ {"kErrorState"}
  BY CharacterKinds DEF WordStates
<1>2. CASE s \in FirstLineSpaces
  <2>1. PICK t : t = Begun(s)
    OBVIOUS
  <2>2. /\ s = "kRequestMethodSpaces" => t = "kRequestUri"
        /\ s = "kRequestUriSpaces" => t = "kRequestVersion"
        /\ s = "kResponseVersionSpaces" => t = "kResponseCode"
        /\ s = "kResponseCodeSpaces" => t = "kResponseReason"
    BY <2>1 DEF Begun, AfterSpaces
  <2>3. /\ t \in FirstLineWords \ {"kRequestMethod", "kResponseVersion"}
        /\ t \in WordStates
    BY <1>2, <2>2, StateKinds DEF FirstLineSpaces, FirstLineWords
  <2>4. At(what, k, t)
    <3>1. /\ s \in RequestStates => t \in RequestStates \ ResponseStates
          /\ s \in ResponseStates => t \in ResponseStates \ RequestStates
          /\ s \in RequestStates \cup ResponseStates
          /\ t \notin InHeader \cup {"kHeadersEndLF", "kBody"}
      BY <1>2, <2>2 DEF FirstLineSpaces, RequestStates, ResponseStates, InHeader
    <3> QED
      BY <1>1, <2>3, <3>1 DEF At
  <2>5. WordOf(what, k, t) = FirstWord(t)
    BY <2>3, StateKinds DEF WordOf
  <2>6. Begin(WordOf(what, k, t))
    BY <2>3, <2>5, FirstWordsFit
  <2>7. Behind(what, k, t) = Ahead(what, k, Word[t].next)
    BY <2>3, StateKinds DEF Behind
  <2>8. Ahead(what, k, s) = FirstWord(t) \o (<<Word[t].ends>> \o Behind(what, k, t))
    <3>1. CASE s = "kRequestMethodSpaces"
      <4>1. Word[t].ends = "sp" /\ Word[t].next = "kRequestUriSpaces"
        BY <2>2, <3>1 DEF Word, WordState
      <4>2. Behind(what, k, t) = RequestLine3 /\ Ahead(what, k, s) = RequestLine2
        BY <2>7, <3>1, <4>1 DEF Ahead
      <4> QED
        BY <2>2, <3>1, <4>1, <4>2, Zenon DEF RequestLine2
    <3>2. CASE s = "kRequestUriSpaces"
      <4>1. Word[t].ends = "cr" /\ Word[t].next = "kRequestLineLF"
        BY <2>2, <3>2 DEF Word, WordState
      <4>2. Left(what, k) = Request0
        BY <3>2 DEF At, RequestStates, Left, HeaderCount
      <4>3. Behind(what, k, t) = <<"lf">> \o Request0 /\ Ahead(what, k, s) = RequestLine3
        BY <2>7, <3>2, <4>1, <4>2 DEF Ahead
      <4> QED
        BY <2>2, <3>2, <4>1, <4>3, Zenon DEF RequestLine3
    <3>3. CASE s = "kResponseVersionSpaces"
      <4>1. Word[t].ends = "sp" /\ Word[t].next = "kResponseCodeSpaces"
        BY <2>2, <3>3 DEF Word, WordState
      <4>2. Behind(what, k, t) = ResponseLine3 /\ Ahead(what, k, s) = ResponseLine2
        BY <2>7, <3>3, <4>1 DEF Ahead
      <4> QED
        BY <2>2, <3>3, <4>1, <4>2, Zenon DEF ResponseLine2
    <3>4. CASE s = "kResponseCodeSpaces"
      <4>1. Word[t].ends = "cr" /\ Word[t].next = "kResponseReasonLF"
        BY <2>2, <3>4 DEF Word, WordState
      <4>2. Left(what, k) = Response0
        BY <3>4 DEF At, ResponseStates, Left, HeaderCount
      <4>3. Behind(what, k, t) = <<"lf">> \o Response0 /\ Ahead(what, k, s) = ResponseLine3
        BY <2>7, <3>4, <4>1, <4>2 DEF Ahead
      <4> QED
        BY <2>2, <3>4, <4>1, <4>3, Zenon DEF ResponseLine3
    <3> QED
      BY <1>2, <3>1, <3>2, <3>3, <3>4 DEF FirstLineSpaces
  <2>9. s # "kHeaderStart"
    BY <1>2 DEF FirstLineSpaces
  <2> QED
    BY <2>1, <2>3, <2>4, <2>5, <2>6, <2>8, <2>9, Zenon
<1>3. CASE s = "kHeaderSpaces"
  <2>1. Begun(s) = "kHeaderValue"
    BY <1>3 DEF Begun, AfterSpaces
  <2>2. k < HeaderCount(what)
    BY <1>3 DEF At, InHeader
  <2>3. Sendable(HeaderAt(what, k))
    BY <1>0, <2>2, HeaderOfMessage
  <2>4. At(what, k, "kHeaderValue") /\ "kHeaderValue" \in WordStates
    BY <1>0, <1>1, <2>2 DEF At, RequestStates, ResponseStates, InHeader, WordStates
  <2>5. Word["kHeaderValue"].ends = "cr"
    BY DEF Word, WordState
  <2>6. /\ WordOf(what, k, "kHeaderValue") = HeaderAt(what, k).value
        /\ Behind(what, k, "kHeaderValue") = <<"lf">> \o Left(what, k + 1)
        /\ Ahead(what, k, s) = ValueLine(what, k)
    BY <1>3 DEF WordOf, Behind, Ahead
  <2>7. Begin(HeaderAt(what, k).value)
    BY <2>3 DEF Sendable
  <2>8. s # "kHeaderStart"
    BY <1>3
  <2> QED
    BY <2>1, <2>4, <2>5, <2>6, <2>7, <2>8, Zenon DEF ValueLine
<1>4. CASE s = "kHeaderStart"
  <2>1. Begun(s) = "kHeaderName"
    BY <1>4 DEF Begun
  <2>2. k < HeaderCount(what)
    BY <1>4, Tables DEF FirstLineSpaces
  <2>3. Sendable(HeaderAt(what, k))
    BY <1>0, <2>2, HeaderOfMessage
  <2>4. At(what, k, "kHeaderName") /\ "kHeaderName" \in WordStates
    BY <1>0, <1>1, <2>2 DEF At, RequestStates, ResponseStates, InHeader, WordStates
  <2>5. Left(what, k) = LineOf(HeaderAt(what, k), Left(what, k + 1))
    BY <1>0, <2>2, LeftIsLine
  <2>6. Word["kHeaderName"].ends = "colon"
    BY DEF Word, WordState
  <2>7. /\ WordOf(what, k, "kHeaderName") = HeaderAt(what, k).name
        /\ Behind(what, k, "kHeaderName") = <<"sp">> \o ValueLine(what, k)
        /\ Ahead(what, k, s) = Left(what, k)
    BY <1>4 DEF WordOf, Behind, Ahead
  <2>8. HeaderAt(what, k).name[1] \in NameTokens
    BY <2>3 DEF Sendable
  <2> QED
    BY <1>4, <2>1, <2>4, <2>5, <2>6, <2>7, <2>8, Zenon DEF LineOf, ValueLine
<1> QED
  BY <1>2, <1>3, <1>4, Tables

\* Behind the last header comes the blank line.
LEMMA BlankLineAhead ==
    ASSUME NEW what, NEW k, At(what, k, "kHeaderStart"), k = HeaderCount(what)
    PROVE  /\ At(what, k, "kHeadersEndLF")
           /\ Ahead(what, k, "kHeaderStart") = <<"cr">> \o Ahead(what, k, "kHeadersEndLF")
<1>1. "kHeadersEndLF" \in States \ {"kErrorState"}
  BY CharacterKinds, Tables
<1> QED
  BY <1>1 DEF At, Ahead, Left, BlankLine, RequestStates, ResponseStates, InHeader

-----------------------------------------------------------------------------
(* Reading a text character by character.                                  *)

\* The first character of a text, and what is left.
LEMMA ReadFirst ==
    ASSUME NEW x \in Anything, NEW r, IsText(r), NEW p, Same(p, <<x>> \o r)
    PROVE  p # <<>> /\ Head(p) = x /\ Same(Tail(p), r)
<1> USE DEF IsText, Same
<1>1. r \in Seq(Anything) /\ p \in Seq(Anything)
  OBVIOUS
<1>2. Len(p) = Len(r) + 1 /\ p[1] = x /\ \A i \in 1 .. Len(r) : p[i + 1] = r[i]
  OBVIOUS
<1> HIDE DEF Same
<1>3. p # <<>> /\ Head(p) = p[1] /\ Tail(p) \in Seq(Anything) /\ Len(Tail(p)) = Len(p) - 1
      /\ \A i \in 1 .. Len(Tail(p)) : Tail(p)[i] = p[i + 1]
  BY <1>1, <1>2
<1>4. Tail(p) = r
  <2>1. Len(Tail(p)) = Len(r) /\ \A i \in 1 .. Len(Tail(p)) : Tail(p)[i] = r[i]
    BY <1>1, <1>2, <1>3
  <2> QED
    BY <1>1, <1>3, <2>1, SeqEqual
<1> QED
  BY <1>2, <1>3, <1>4 DEF Same

\* A text is its first character and its tail.
LEMMA FirstOfWord ==
    ASSUME NEW u, IsText(u), u # <<>>
    PROVE  /\ Head(u) \in Anything /\ Head(u) = u[1] /\ IsText(Tail(u))
           /\ Same(<<Head(u)>> \o Tail(u), u)
<1> USE DEF IsText, Same
<1>1. Head(u) \in Anything /\ Head(u) = u[1] /\ Tail(u) \in Seq(Anything)
  OBVIOUS
<1>2. PICK h \in Anything, t \in Seq(Anything) : h = Head(u) /\ t = Tail(u)
  BY <1>1
<1>3. /\ Len(<<h>> \o t) = Len(u) /\ <<h>> \o t \in Seq(Anything)
      /\ \A i \in 1 .. Len(u) : (<<h>> \o t)[i] = u[i]
  BY <1>2
<1>4. <<h>> \o t = u
  BY <1>3, SeqEqual
<1> QED
  BY <1>1, <1>2, <1>4

\* The first character of a word that is pending.
LEMMA ReadWord ==
    ASSUME NEW u, IsText(u), u # <<>>, NEW r, IsText(r), NEW p, Same(p, u \o r)
    PROVE  p # <<>> /\ Head(p) = Head(u) /\ Same(Tail(p), Tail(u) \o r)
<1>1. /\ Head(u) \in Anything /\ IsText(Tail(u)) /\ Same(<<Head(u)>> \o Tail(u), u)
  BY FirstOfWord
<1>2. PICK h, t : h = Head(u) /\ t = Tail(u)
  OBVIOUS
<1>3. h \in Anything /\ IsText(t) /\ Same(<<h>> \o t, u)
  BY <1>1, <1>2, Zenon
<1>4. IsText(<<h>>)
  BY <1>3 DEF IsText
<1>5. Same((<<h>> \o t) \o r, <<h>> \o (t \o r)) /\ IsText(t \o r)
  BY <1>3, <1>4, Associative, ConcatIsText, Zenon
<1>6. Same(p, <<h>> \o (t \o r))
  BY <1>3, <1>5, Zenon DEF Same
<1>7. p # <<>> /\ Head(p) = h /\ Same(Tail(p), t \o r)
  BY <1>3, <1>5, <1>6, ReadFirst, Zenon
<1> QED
  BY <1>2, <1>7, Zenon

\* A word that is read character by character.
LEMMA CollectWord ==
    ASSUME NEW b, IsText(b), NEW u, IsText(u), u # <<>>
    PROVE  Same(Append(b, Head(u)) \o Tail(u), b \o u)
<1>1. /\ Head(u) \in Anything /\ IsText(Tail(u)) /\ Same(<<Head(u)>> \o Tail(u), u)
  BY FirstOfWord
<1>2. PICK h, t : h = Head(u) /\ t = Tail(u)
  OBVIOUS
<1>3. h \in Anything /\ IsText(t) /\ Same(<<h>> \o t, u)
  BY <1>1, <1>2, Zenon
<1>4. IsText(<<h>>) /\ Same(Append(b, h), b \o <<h>>)
  BY <1>3, AppendIsConcat DEF IsText, Same
<1>5. Same((b \o <<h>>) \o t, b \o (<<h>> \o t))
  BY <1>3, <1>4, Associative, Zenon
<1> QED
  BY <1>2, <1>3, <1>4, <1>5, Zenon DEF Same

\* A part of a word that is read.
LEMMA PartOfWord ==
    ASSUME NEW b, IsText(b), NEW u, IsText(u), NEW w, Same(b \o u, w)
    PROVE  /\ Len(b) + Len(u) = Len(w)
           /\ u # <<>> => \E i \in 1 .. Len(w) : Head(u) = w[i]
           /\ u = <<>> => Same(b, w)
<1> USE DEF IsText, Same
<1>1. /\ w \in Seq(Anything) /\ Len(b) + Len(u) = Len(w)
      /\ \A i \in 1 .. Len(b) + Len(u) : w[i] = IF i <= Len(b) THEN b[i] ELSE u[i - Len(b)]
  BY ConcatProperties
<1>2. ASSUME u # <<>>
      PROVE  \E i \in 1 .. Len(w) : Head(u) = w[i]
  <2>1. Len(b) + 1 \in 1 .. Len(w) /\ w[Len(b) + 1] = u[1] /\ Head(u) = u[1]
    BY <1>1, <1>2
  <2> QED
    BY <2>1
<1>3. ASSUME u = <<>>
      PROVE  b = w
  BY <1>3, ConcatEmptySeq
<1> QED
  BY <1>1, <1>2, <1>3

-----------------------------------------------------------------------------
(* The messages, cut where the parser cuts them.                           *)

\* A header line, cut at its separators.
LEMMA LineIsCut ==
    ASSUME NEW n \in NameTokens, NEW v, IsText(v), NEW r, IsText(r)
    PROVE  IsText(Line(n, v)) /\ Same(Line(n, v) \o r, LineOf(H(n, v), r))
<1>0. /\ IsText(<<n>>) /\ IsText(<<"colon">>) /\ IsText(<<"sp">>) /\ IsText(CRLF)
      /\ IsText(<<"cr">>) /\ IsText(<<"lf">>) /\ IsText(<<n, "colon", "sp">>)
  <2>1. n \in Anything /\ "colon" \in Anything /\ "sp" \in Anything
    BY CharacterKinds, PrintedChars
  <2>2. IsText(<<n>>) /\ IsText(<<n, "colon", "sp">>)
    BY <2>1 DEF IsText
  <2> QED
    BY <2>2, OneCharacterTexts
<1>1. /\ Same(<<n, "colon", "sp">>, <<n>> \o (<<"colon">> \o <<"sp">>))
      /\ Same(CRLF, <<"cr">> \o <<"lf">>)
  BY DEF Same, CRLF
<1> DEFINE a == <<n, "colon", "sp">>
           c == <<"colon">> \o <<"sp">>
<1>2. /\ IsText(a \o v) /\ IsText(v \o CRLF) /\ IsText(CRLF \o r) /\ IsText(v \o (CRLF \o r))
      /\ IsText(c) /\ IsText(<<"lf">> \o r) /\ IsText((a \o v) \o CRLF)
      /\ IsText(<<"sp">> \o (v \o (CRLF \o r)))
  BY <1>0, ConcatIsText, Zenon
<1>3. Same(((a \o v) \o CRLF) \o r, (a \o v) \o (CRLF \o r))
  BY <1>0, <1>2, Associative, Zenon
<1>4. Same((a \o v) \o (CRLF \o r), a \o (v \o (CRLF \o r)))
  BY <1>0, <1>2, Associative, Zenon
<1>5. Same((<<n>> \o c) \o (v \o (CRLF \o r)), <<n>> \o (c \o (v \o (CRLF \o r))))
  BY <1>0, <1>2, Associative, Zenon
<1>6. Same(c \o (v \o (CRLF \o r)), <<"colon">> \o (<<"sp">> \o (v \o (CRLF \o r))))
  BY <1>0, <1>2, Associative, Zenon
<1>7. Same((<<"cr">> \o <<"lf">>) \o r, <<"cr">> \o (<<"lf">> \o r))
  BY <1>0, <1>2, Associative, Zenon
<1>8. H(n, v).name = <<n>> /\ H(n, v).value = v
  BY DEF H
<1>9. Same(Line(n, v), (a \o v) \o CRLF)
  BY DEF Line, Same
<1>10. Same(a, <<n>> \o c)
  BY <1>1
<1> HIDE DEF a, c
<1> QED
  BY <1>1, <1>2, <1>3, <1>4, <1>5, <1>6, <1>7, <1>8, <1>9, <1>10, Zenon DEF LineOf, Same

\* One more line of a message, cut.
LEMMA CutLine ==
    ASSUME NEW p, IsText(p), NEW n \in NameTokens, NEW v, IsText(v), NEW r, IsText(r),
           NEW q, Same(q, LineOf(H(n, v), r))
    PROVE  /\ IsText(p \o Line(n, v))
           /\ Same((p \o Line(n, v)) \o r, p \o q)
<1>1. IsText(Line(n, v)) /\ Same(Line(n, v) \o r, LineOf(H(n, v), r))
  BY LineIsCut
<1>2. IsText(p \o Line(n, v)) /\ Same((p \o Line(n, v)) \o r, p \o (Line(n, v) \o r))
  BY <1>1, Associative, ConcatIsText, Zenon
<1> QED
  BY <1>1, <1>2, Zenon DEF Same

\* The words and the values of the messages.
LEMMA OwnTexts ==
    /\ IsText(<<"ip", "colon", "port">>) /\ IsText(<<"Upgrade">>) /\ IsText(<<"websocket">>)
    /\ IsText(<<"13">>) /\ IsText(<<"key">>) /\ IsText(<<"accept">>) /\ IsText(Frames)
    /\ IsText(<<"GET">>) /\ IsText(<<"/">>) /\ IsText(<<"HTTP/1.1">>) /\ IsText(<<"101">>)
    /\ IsText(<<"Switching", "sp", "Protocols">>)
    /\ {"Host", "Connection", "Upgrade", "Sec-WebSocket-Version", "Sec-WebSocket-Key",
        "Sec-WebSocket-Accept"} \subseteq NameTokens
<1>1. /\ {"ip", "colon", "port", "Upgrade", "websocket", "13", "key", "accept", "frame",
          "GET", "/", "HTTP/1.1", "101", "Switching", "sp", "Protocols"} \subseteq Anything
      /\ {"Host", "Connection", "Upgrade", "Sec-WebSocket-Version", "Sec-WebSocket-Key",
          "Sec-WebSocket-Accept"} \subseteq NameTokens
  BY DEF NameTokens, Tokens, Upper, Digits, Others, Anything, Separators
<1> QED
  BY <1>1 DEF IsText, Frames

\* The request is its first word and what is ahead of the second.
LEMMA RequestIsCut ==
    /\ Same(OwnRequest, FirstWord("kRequestMethod") \o (<<"sp">> \o RequestLine2))
    /\ IsText(OwnRequest)
<1> DEFINE f == <<"GET", "sp", "/", "sp", "HTTP/1.1">>
           w == <<"HTTP/1.1">>
           p0 == f \o CRLF
           p1 == p0 \o Line("Host", <<"ip", "colon", "port">>)
           p2 == p1 \o Line("Connection", <<"Upgrade">>)
           p3 == p2 \o Line("Upgrade", <<"websocket">>)
           p4 == p3 \o Line("Sec-WebSocket-Version", <<"13">>)
           p5 == p4 \o Line("Sec-WebSocket-Key", <<"key">>)
<1>0. IsText(CRLF) /\ IsText(<<"sp">>) /\ IsText(<<"cr">>) /\ IsText(<<"lf">>)
  BY OneCharacterTexts
<1>1. IsText(BlankLine("request")) /\ IsText(Request4) /\ IsText(Request3)
      /\ IsText(Request2) /\ IsText(Request1) /\ IsText(Request0)
  <2>1. \A k \in 0 .. 5 : IsText(Left("request", k))
    BY LeftIsText DEF HeaderCount
  <2> QED
    BY <2>1 DEF Left, HeaderCount
<1>2. /\ IsText(f) /\ IsText(w) /\ IsText(<<"GET">>) /\ IsText(<<"/">>)
      /\ Same(f, <<"GET">> \o (<<"sp">> \o (<<"/">> \o (<<"sp">> \o w))))
  <2>1. Same(f, <<"GET">> \o (<<"sp">> \o (<<"/">> \o (<<"sp">> \o w))))
    BY DEF Same
  <2>2. IsText(<<"GET">> \o (<<"sp">> \o (<<"/">> \o (<<"sp">> \o w))))
    BY <1>0, OwnTexts, ConcatIsText, Zenon
  <2> QED
    BY <2>1, <2>2, OwnTexts, Zenon DEF Same
<1>3. Same(CRLF, BlankLine("request"))
  BY DEF Same, CRLF, BlankLine, Following
<1> HIDE DEF f, w
<1>4. IsText(p0)
  BY <1>0, <1>2, ConcatIsText, Zenon
<1> HIDE DEF p0
<1>5. IsText(p1) /\ Same(p1 \o Request1, p0 \o Request0)
  <2>1. /\ "Host" \in NameTokens
        /\ Same(Request0, LineOf(H("Host", <<"ip", "colon", "port">>), Request1))
    BY OwnTexts DEF Request0, Host, Same
  <2> QED
    BY <1>1, <1>4, <2>1, OwnTexts, CutLine, Zenon
<1> HIDE DEF p1
<1>6. IsText(p2) /\ Same(p2 \o Request2, p1 \o Request1)
  <2>1. /\ "Connection" \in NameTokens
        /\ Same(Request1, LineOf(H("Connection", <<"Upgrade">>), Request2))
    BY OwnTexts DEF Request1, Connection, Same
  <2> QED
    BY <1>1, <1>5, <2>1, OwnTexts, CutLine, Zenon
<1> HIDE DEF p2
<1>7. IsText(p3) /\ Same(p3 \o Request3, p2 \o Request2)
  <2>1. /\ "Upgrade" \in NameTokens
        /\ Same(Request2, LineOf(H("Upgrade", <<"websocket">>), Request3))
    BY OwnTexts DEF Request2, UpgradeTo, Same
  <2> QED
    BY <1>1, <1>6, <2>1, OwnTexts, CutLine, Zenon
<1> HIDE DEF p3
<1>8. IsText(p4) /\ Same(p4 \o Request4, p3 \o Request3)
  <2>1. /\ "Sec-WebSocket-Version" \in NameTokens
        /\ Same(Request3, LineOf(H("Sec-WebSocket-Version", <<"13">>), Request4))
    BY OwnTexts DEF Request3, Version, Same
  <2> QED
    BY <1>1, <1>7, <2>1, OwnTexts, CutLine, Zenon
<1> HIDE DEF p4
<1>9. IsText(p5) /\ Same(p5 \o CRLF, p4 \o Request4)
  <2>1. /\ "Sec-WebSocket-Key" \in NameTokens
        /\ Same(Request4, LineOf(H("Sec-WebSocket-Key", <<"key">>), BlankLine("request")))
    BY OwnTexts DEF Request4, Key, Same
  <2>2. Same(p5 \o BlankLine("request"), p4 \o Request4) /\ IsText(p5)
    BY <1>1, <1>8, <2>1, OwnTexts, CutLine, Zenon
  <2> HIDE DEF p5
  <2> QED
    BY <1>3, <2>2, Zenon DEF Same
<1>10. Same(OwnRequest, p5 \o CRLF) /\ IsText(p5 \o CRLF)
  <2>1. OwnRequest = p5 \o CRLF
    BY Zenon DEF OwnRequest, p0, p1, p2, p3, p4, f
  <2> HIDE DEF p5
  <2> QED
    BY <1>0, <1>9, <2>1, ConcatIsText, Zenon DEF Same
<1> HIDE DEF p5
<1>11. Same(OwnRequest, p0 \o Request0)
  BY <1>5, <1>6, <1>7, <1>8, <1>9, <1>10, Zenon DEF Same
<1>12. Same(p0 \o Request0, f \o (<<"cr">> \o (<<"lf">> \o Request0)))
  <2>1. Same((f \o CRLF) \o Request0, f \o (CRLF \o Request0))
    BY <1>0, <1>1, <1>2, Associative, Zenon
  <2>2. Same(CRLF, <<"cr">> \o <<"lf">>)
    BY DEF Same, CRLF
  <2>3. Same((<<"cr">> \o <<"lf">>) \o Request0, <<"cr">> \o (<<"lf">> \o Request0))
    BY <1>0, <1>1, Associative, Zenon
  <2> QED
    BY <2>1, <2>2, <2>3, Zenon DEF Same, p0
<1> DEFINE r == <<"cr">> \o (<<"lf">> \o Request0)
           a3 == <<"sp">> \o w
           a2 == <<"/">> \o a3
           a1 == <<"sp">> \o a2
<1>13. IsText(r) /\ IsText(a3) /\ IsText(a2) /\ IsText(a1)
  BY <1>0, <1>1, <1>2, ConcatIsText, Zenon
<1>14. Same(f \o r, <<"GET">> \o (<<"sp">> \o (<<"/">> \o (<<"sp">> \o (w \o r)))))
  <2>1. Same((<<"GET">> \o a1) \o r, <<"GET">> \o (a1 \o r))
    BY <1>0, <1>2, <1>13, Associative, Zenon
  <2>2. Same(a1 \o r, <<"sp">> \o (a2 \o r))
    BY <1>0, <1>2, <1>13, Associative, Zenon
  <2>3. Same(a2 \o r, <<"/">> \o (a3 \o r))
    BY <1>0, <1>2, <1>13, Associative, Zenon
  <2>4. Same(a3 \o r, <<"sp">> \o (w \o r))
    BY <1>0, <1>2, <1>13, Associative, Zenon
  <2> HIDE DEF r
  <2> QED
    BY <1>2, <2>1, <2>2, <2>3, <2>4, Zenon DEF Same
<1>15. /\ FirstWord("kRequestMethod") = <<"GET">> /\ FirstWord("kRequestUri") = <<"/">>
       /\ FirstWord("kRequestVersion") = w
  BY DEF FirstWord, w
<1>16. Same(<<"GET">> \o (<<"sp">> \o (<<"/">> \o (<<"sp">> \o (w \o r)))),
            FirstWord("kRequestMethod") \o (<<"sp">> \o RequestLine2))
  BY <1>15, Zenon DEF Same, RequestLine2, RequestLine3
<1> QED
  BY <1>10, <1>11, <1>12, <1>14, <1>16, Zenon DEF Same

\* So is the response, with the frames that follow it.
LEMMA ResponseIsCut ==
    /\ Same(OwnResponse \o Frames, FirstWord("kResponseVersion") \o (<<"sp">> \o ResponseLine2))
    /\ IsText(OwnResponse)
<1> DEFINE f == <<"HTTP/1.1", "sp", "101", "sp", "Switching", "sp", "Protocols">>
           w == <<"Switching", "sp", "Protocols">>
           p0 == f \o CRLF
           p1 == p0 \o Line("Upgrade", <<"websocket">>)
           p2 == p1 \o Line("Connection", <<"Upgrade">>)
           p3 == p2 \o Line("Sec-WebSocket-Accept", <<"accept">>)
<1>0. /\ IsText(CRLF) /\ IsText(<<"sp">>) /\ IsText(<<"cr">>) /\ IsText(<<"lf">>)
      /\ IsText(Frames)
  BY OneCharacterTexts, OwnTexts
<1>1. IsText(BlankLine("response")) /\ IsText(Response2) /\ IsText(Response1) /\ IsText(Response0)
  <2>1. \A k \in 0 .. 3 : IsText(Left("response", k))
    BY LeftIsText DEF HeaderCount
  <2> QED
    BY <2>1 DEF Left, HeaderCount
<1>2. /\ IsText(f) /\ IsText(w) /\ IsText(<<"HTTP/1.1">>) /\ IsText(<<"101">>)
      /\ Same(f, <<"HTTP/1.1">> \o (<<"sp">> \o (<<"101">> \o (<<"sp">> \o w))))
  <2>1. Same(f, <<"HTTP/1.1">> \o (<<"sp">> \o (<<"101">> \o (<<"sp">> \o w))))
    BY DEF Same
  <2>2. IsText(<<"HTTP/1.1">> \o (<<"sp">> \o (<<"101">> \o (<<"sp">> \o w))))
    BY <1>0, OwnTexts, ConcatIsText, Zenon
  <2> QED
    BY <2>1, <2>2, OwnTexts, Zenon DEF Same
<1>3. Same(CRLF \o Frames, BlankLine("response"))
  <2>1. Same(CRLF, <<"cr">> \o <<"lf">>)
    BY DEF Same, CRLF
  <2>2. Same((<<"cr">> \o <<"lf">>) \o Frames, <<"cr">> \o (<<"lf">> \o Frames))
    BY <1>0, Associative, Zenon
  <2>3. Following("response") = Frames
    BY DEF Following
  <2> QED
    BY <2>1, <2>2, <2>3, Zenon DEF Same, BlankLine
<1> HIDE DEF f, w
<1>4. IsText(p0)
  BY <1>0, <1>2, ConcatIsText, Zenon
<1> HIDE DEF p0
<1>5. IsText(p1) /\ Same(p1 \o Response1, p0 \o Response0)
  <2>1. /\ "Upgrade" \in NameTokens
        /\ Same(Response0, LineOf(H("Upgrade", <<"websocket">>), Response1))
    BY OwnTexts DEF Response0, UpgradeTo, Same
  <2> QED
    BY <1>1, <1>4, <2>1, OwnTexts, CutLine, Zenon
<1> HIDE DEF p1
<1>6. IsText(p2) /\ Same(p2 \o Response2, p1 \o Response1)
  <2>1. /\ "Connection" \in NameTokens
        /\ Same(Response1, LineOf(H("Connection", <<"Upgrade">>), Response2))
    BY OwnTexts DEF Response1, Connection, Same
  <2> QED
    BY <1>1, <1>5, <2>1, OwnTexts, CutLine, Zenon
<1> HIDE DEF p2
<1>7. IsText(p3) /\ Same(p3 \o BlankLine("response"), p2 \o Response2)
  <2>1. /\ "Sec-WebSocket-Accept" \in NameTokens
        /\ Same(Response2, LineOf(H("Sec-WebSocket-Accept", <<"accept">>), BlankLine("response")))
    BY OwnTexts DEF Response2, Accept, Same
  <2> QED
    BY <1>1, <1>6, <2>1, OwnTexts, CutLine, Zenon
<1>8. Same(OwnResponse, p3 \o CRLF)
  <2>1. OwnResponse = p3 \o CRLF
    BY Zenon DEF OwnResponse, p0, p1, p2, f
  <2> HIDE DEF p3
  <2> QED
    BY <2>1, Zenon DEF Same
<1> HIDE DEF p3
<1>9. Same((p3 \o CRLF) \o Frames, p3 \o (CRLF \o Frames)) /\ IsText(p3 \o CRLF)
  BY <1>0, <1>7, Associative, ConcatIsText, Zenon
<1>10. Same(OwnResponse \o Frames, p0 \o Response0) /\ IsText(OwnResponse)
  BY <1>3, <1>5, <1>6, <1>7, <1>8, <1>9, Zenon DEF Same
<1>12. Same(p0 \o Response0, f \o (<<"cr">> \o (<<"lf">> \o Response0)))
  <2>1. Same((f \o CRLF) \o Response0, f \o (CRLF \o Response0))
    BY <1>0, <1>1, <1>2, Associative, Zenon
  <2>2. Same(CRLF, <<"cr">> \o <<"lf">>)
    BY DEF Same, CRLF
  <2>3. Same((<<"cr">> \o <<"lf">>) \o Response0, <<"cr">> \o (<<"lf">> \o Response0))
    BY <1>0, <1>1, Associative, Zenon
  <2> QED
    BY <2>1, <2>2, <2>3, Zenon DEF Same, p0
<1> DEFINE r == <<"cr">> \o (<<"lf">> \o Response0)
           a3 == <<"sp">> \o w
           a2 == <<"101">> \o a3
           a1 == <<"sp">> \o a2
<1>13. IsText(r) /\ IsText(a3) /\ IsText(a2) /\ IsText(a1)
  BY <1>0, <1>1, <1>2, ConcatIsText, Zenon
<1>14. Same(f \o r, <<"HTTP/1.1">> \o (<<"sp">> \o (<<"101">> \o (<<"sp">> \o (w \o r)))))
  <2>1. Same((<<"HTTP/1.1">> \o a1) \o r, <<"HTTP/1.1">> \o (a1 \o r))
    BY <1>0, <1>2, <1>13, Associative, Zenon
  <2>2. Same(a1 \o r, <<"sp">> \o (a2 \o r))
    BY <1>0, <1>2, <1>13, Associative, Zenon
  <2>3. Same(a2 \o r, <<"101">> \o (a3 \o r))
    BY <1>0, <1>2, <1>13, Associative, Zenon
  <2>4. Same(a3 \o r, <<"sp">> \o (w \o r))
    BY <1>0, <1>2, <1>13, Associative, Zenon
  <2> HIDE DEF r
  <2> QED
    BY <1>2, <2>1, <2>2, <2>3, <2>4, Zenon DEF Same
<1>15. /\ FirstWord("kResponseVersion") = <<"HTTP/1.1">> /\ FirstWord("kResponseCode") = <<"101">>
       /\ FirstWord("kResponseReason") = w
  BY DEF FirstWord, w
<1>16. Same(<<"HTTP/1.1">> \o (<<"sp">> \o (<<"101">> \o (<<"sp">> \o (w \o r)))),
            FirstWord("kResponseVersion") \o (<<"sp">> \o ResponseLine2))
  BY <1>15, Zenon DEF Same, ResponseLine2, ResponseLine3
<1> QED
  BY <1>10, <1>12, <1>14, <1>16, Zenon DEF Same

-----------------------------------------------------------------------------
(* A parser at work on its own message.                                    *)

\* In state s a part of its word is in the buffer b, and the rest is pending.
Reading(what, k, s, b, p) ==
    \E u : /\ IsText(u)
           /\ Same(b \o u, WordOf(what, k, s))
           /\ Same(p, u \o (<<Word[s].ends>> \o Behind(what, k, s)))

\* What is pending in a state that reads no word.
Waiting(what, k, s, p) ==
    \/ Same(p, Ahead(what, k, s))
    \/ s = "kHeaderSpaces" /\ Same(p, <<"sp">> \o Ahead(what, k, s))

OwnRead ==
    IF state \in WordStates THEN Reading(parsing, Len(headers), state, buffer, pending)
    ELSE Waiting(parsing, Len(headers), state, pending)

\* The headers and words that the parser holds are those of the message.
OwnHeld ==
    /\ At(parsing, Len(headers), state)
    /\ \A i \in 1 .. Len(headers) : headers[i] = OwnHeaders(parsing)[i]
    /\ state \in {"kHeaderSpaces", "kHeaderValue"} =>
          name = HeaderAt(parsing, Len(headers)).name
    /\ parsing = "request" /\ Len(words) >= 1 => words[1] = <<"GET">>
    /\ parsing = "response" /\ Len(words) >= 2 => words[2] = <<"101">>

(***************************************************************************)
(* At every character of its own message the parser holds what has been    *)
(* sent of it, and the rest is pending.                                    *)
(***************************************************************************)
OwnInv ==
    peer = "librcom" =>
        /\ outcome # "rejected" /\ OwnHeld /\ OwnRead
        /\ outcome = "open" => state = "kBody" /\ parsing = "response"

-----------------------------------------------------------------------------
\* A character is handled in one way.
LEMMA OneAction ==
    ASSUME NEW c, HandleChar(c)
    PROVE  /\ Takes(c) => TakeChar(c)
           /\ Ends(c) => EndWord(c)
           /\ Begins(c) => BeginWord(c)
           /\ Skips(c) => SkipSpace(c)
           /\ EndsLine(c) \/ EndsHeaders(c) => Advance(c)
<1>1. "cr" \notin NameTokens
  BY CharacterKinds
<1>2. /\ ~ (Takes(c) /\ Ends(c))
      /\ Takes(c) \/ Ends(c) => state \in WordStates
      /\ Begins(c) \/ Skips(c) => state \in DOMAIN AfterSpaces \cup {"kHeaderStart"}
      /\ EndsLine(c) => state \in DOMAIN AfterLF
      /\ EndsHeaders(c) => state = "kHeaderStart"
  BY Tables DEF Takes, Ends, Begins, Skips, EndsLine, EndsHeaders
<1>3. ~ (Begins(c) /\ Skips(c)) /\ ~ (Begins(c) /\ EndsHeaders(c)) /\ ~ (Skips(c) /\ EndsHeaders(c))
  BY <1>1, StateKinds DEF Begins, Skips, EndsHeaders
<1>4. /\ ~ ((Takes(c) \/ Ends(c)) /\ (Begins(c) \/ Skips(c) \/ EndsLine(c) \/ EndsHeaders(c)))
      /\ ~ (EndsLine(c) /\ (Begins(c) \/ Skips(c) \/ EndsHeaders(c)))
  BY <1>2, StateKinds, Tables DEF FirstLineSpaces
<1>5. /\ TakeChar(c) => Takes(c)
      /\ EndWord(c) => Ends(c)
      /\ BeginWord(c) => Begins(c)
      /\ SkipSpace(c) => Skips(c)
      /\ Advance(c) => EndsLine(c) \/ EndsHeaders(c)
      /\ Reject(c) => ~ (Takes(c) \/ Ends(c) \/ Begins(c) \/ Skips(c) \/ EndsLine(c)
                           \/ EndsHeaders(c))
  BY DEF TakeChar, EndWord, BeginWord, SkipSpace, Advance, Reject
<1> QED
  BY <1>2, <1>3, <1>4, <1>5, Zenon DEF HandleChar

\* What has come of the first line.
WordsOf(what, w) ==
    /\ what = "request" /\ Len(w) >= 1 => w[1] = <<"GET">>
    /\ what = "response" /\ Len(w) >= 2 => w[2] = <<"101">>

\* What the next character of a message does.
OwnStep(c) ==
    /\ OwnHeld' /\ OwnRead' /\ UNCHANGED outcome

\* What follows a word is a text.
LEMMA RestIsText ==
    ASSUME NEW what, NEW k, NEW s \in WordStates, At(what, k, s)
    PROVE  /\ IsText(<<Word[s].ends>> \o Behind(what, k, s)) /\ IsText(Behind(what, k, s))
           /\ Word[s].ends \in Anything
<1>1. Word[s].ends \in {"sp", "cr", "colon"}
  BY DEF Word, WordState, WordStates
<1>2. IsText(<<Word[s].ends>>) /\ Word[s].ends \in Anything
  BY <1>1, OneCharacterTexts, PrintedChars
<1>3. IsText(Behind(what, k, s))
  <2>1. CASE s \in FirstLineWords
    <3>1. Word[s].next \notin WordStates
      BY <2>1 DEF Word, WordState, FirstLineWords, WordStates
    <3> QED
      BY <2>1, <3>1, AfterOwnWord, AheadIsText
  <2>2. CASE s = "kHeaderName"
    <3>1. IsText(Ahead(what, k, "kHeaderSpaces"))
      <4>1. "kHeaderSpaces" \notin WordStates
        BY DEF WordStates
      <4> QED
        BY <2>2, <4>1, AfterOwnWord, AheadIsText
    <3> QED
      BY <2>2, <3>1, AfterOwnWord, OneCharacterTexts, ConcatIsText
  <2>3. CASE s = "kHeaderValue"
    <3>1. "kHeaderLF" \notin WordStates
      BY DEF WordStates
    <3> QED
      BY <2>3, <3>1, AfterOwnWord, AheadIsText
  <2> QED
    BY <2>1, <2>2, <2>3, StateKinds
<1> QED
  BY <1>2, <1>3, ConcatIsText, Zenon

\* A character of a word of the message.
LEMMA OwnTake ==
    ASSUME TypeOK, OwnHeld, NEW c, state \in WordStates, HandleChar(c),
           NEW u, IsText(u), u # <<>>, c = Head(u), pending' = Tail(pending),
           UNCHANGED parsing,
           Same(buffer \o u, WordOf(parsing, Len(headers), state)),
           Same(pending, u \o (<<Word[state].ends>> \o Behind(parsing, Len(headers), state))),
           IsText(<<Word[state].ends>> \o Behind(parsing, Len(headers), state))
    PROVE  OwnStep(c)
<1> DEFINE k == Len(headers)
           w == WordOf(parsing, k, state)
           r == <<Word[state].ends>> \o Behind(parsing, k, state)
<1>0. At(parsing, k, state) /\ IsText(buffer) /\ Len(buffer) \in Nat
  BY DEF OwnHeld, TypeOK, IsText
<1>1. Fits(state, w)
  BY <1>0, WordFits
<1> Same(buffer \o u, w)
  OBVIOUS
<1> HIDE DEF w, r
<1>2. Len(buffer) + Len(u) = Len(w) /\ \E i \in 1 .. Len(w) : c = w[i]
  <2>1. /\ Len(buffer) + Len(u) = Len(w)
        /\ u # <<>> => \E i \in 1 .. Len(w) : Head(u) = w[i]
    BY <1>0, PartOfWord
  <2> QED
    BY <2>1
<1>3. Len(u) \in Nat /\ Len(u) >= 1
  BY DEF IsText
<1>4. Takes(c)
  <2>1. c \in Word[state].takes /\ c # Word[state].ends
    BY <1>1, <1>2 DEF Fits
  <2>2. Len(buffer) <= Word[state].limit
    BY <1>0, <1>1, <1>2, <1>3, WordTakes DEF Fits
  <2> QED
    BY <2>1, <2>2, Tables DEF Takes, WithinLimit
<1>5. /\ buffer' = Append(buffer, c)
      /\ UNCHANGED <<state, name, words, headers, outcome>>
  BY <1>4, OneAction DEF TakeChar
<1>6. OwnHeld'
  BY <1>5 DEF OwnHeld
<1>7. IsText(Tail(u)) /\ Same(Append(buffer, c) \o Tail(u), buffer \o u)
  BY <1>0, FirstOfWord, CollectWord, Zenon
<1>8. Same(Tail(pending), Tail(u) \o r)
  BY ReadWord, Zenon DEF r
<1>9. Reading(parsing, k, state, buffer', pending')
  <2>1. Same(buffer' \o Tail(u), WordOf(parsing, k, state))
    BY <1>5, <1>7, Zenon DEF Same
  <2>2. Same(pending', Tail(u) \o (<<Word[state].ends>> \o Behind(parsing, k, state)))
    BY <1>8, Zenon DEF Same, r
  <2> QED
    BY <1>7, <2>1, <2>2, Zenon DEF Reading
<1>10. OwnRead'
  BY <1>5, <1>9 DEF OwnRead
<1> QED
  BY <1>5, <1>6, <1>10 DEF OwnStep

\* The end of a word: the parser accepts it, and holds it as it was sent.
LEMMA OwnEnd ==
    ASSUME TypeOK, WordInv, OwnHeld, NEW c, state \in WordStates, HandleChar(c),
           c = Word[state].ends, UNCHANGED parsing,
           Same(buffer, WordOf(parsing, Len(headers), state)),
           Same(pending', Behind(parsing, Len(headers), state))
    PROVE  OwnStep(c)
<1> DEFINE k == Len(headers)
           w == WordOf(parsing, k, state)
<1>0. /\ At(parsing, k, state) /\ state # "kErrorState" /\ k \in Nat
      /\ headers \in Seq(Header) /\ words \in Seq(Seq(Anything))
      /\ Len(words) = WordsBefore(state) /\ buffer = w
  BY DEF OwnHeld, TypeOK, WordInv, At, States, Same, Header
<1>1. Fits(state, w)
  BY <1>0, WordFits
<1>2. WordOK
  <2>1. CASE state \in FirstLineWords
    <3>1. buffer = FirstWord(state)
      BY <1>0, <2>1, StateKinds DEF WordOf
    <3>2. "101" \in Digits
      BY DEF Digits
    <3> QED
      BY <2>1, <3>1, <3>2 DEF WordOK, FirstWord, FirstLineWords
  <2>2. CASE state \in {"kHeaderName", "kHeaderValue"}
    BY <2>2 DEF WordOK
  <2> QED
    BY <2>1, <2>2, StateKinds
<1> HIDE DEF w
<1>3. Ends(c)
  BY <1>0, <1>1, <1>2, Tables DEF Ends, Fits, WithinLimit
<1>4. /\ state' = Word[state].next
      /\ name' = IF state = "kHeaderName" THEN buffer ELSE name
      /\ headers' = IF state = "kHeaderValue"
                    THEN Append(headers, [name |-> name, value |-> buffer])
                    ELSE headers
      /\ words' = IF state \in {"kHeaderName", "kHeaderValue"} THEN words
                  ELSE Append(words, buffer)
      /\ outcome' = outcome
  BY <1>3, OneAction DEF EndWord
<1>5. CASE state \in FirstLineWords
  <2>1. state \notin {"kHeaderName", "kHeaderValue"}
    BY <1>5, StateKinds
  <2>2. headers' = headers /\ words' = Append(words, buffer) /\ buffer = FirstWord(state)
    BY <1>0, <1>4, <2>1 DEF WordOf, w
  <2>3. /\ At(parsing, k, Word[state].next)
        /\ Behind(parsing, k, state) = Ahead(parsing, k, Word[state].next)
    BY <1>0, <1>5, AfterOwnWord
  <2>4. state' \notin WordStates \cup InHeader
    BY <1>4, <1>5 DEF Word, WordState, FirstLineWords, WordStates, InHeader
  <2>5. WordsOf(parsing, words')
    <3>1. /\ Len(words') = Len(words) + 1 /\ words'[Len(words) + 1] = buffer
          /\ \A i \in 1 .. Len(words) : words'[i] = words[i]
      <4>1. buffer \in Seq(Anything)
        BY DEF TypeOK
      <4> QED
        BY <1>0, <2>2, <4>1
    <3>2. CASE parsing = "request"
      <4>1. Len(words) = 0 => state = "kRequestMethod"
        <5>1. state \in RequestStates
          BY <1>0, <1>5, <3>2 DEF At, FirstLineWords, RequestStates, ResponseStates
        <5> QED
          BY <1>0, <1>5, <5>1 DEF WordsBefore, FirstLineWords, RequestStates
      <4>2. state = "kRequestMethod" => buffer = <<"GET">>
        BY <2>2 DEF FirstWord
      <4>3. Len(words) >= 1 => words[1] = <<"GET">>
        BY <3>2 DEF OwnHeld
      <4> QED
        BY <1>0, <3>1, <3>2, <4>1, <4>2, <4>3 DEF WordsOf
    <3>3. CASE parsing = "response"
      <4>1. Len(words) = 1 => state = "kResponseCode"
        <5>1. state \in ResponseStates
          BY <1>0, <1>5, <3>3 DEF At, FirstLineWords, RequestStates, ResponseStates
        <5>2. state \in {"kResponseVersion", "kResponseCode", "kResponseReason"}
          BY <1>5, <5>1 DEF FirstLineWords, ResponseStates
        <5>3. /\ WordsBefore("kResponseVersion") = 0 /\ WordsBefore("kResponseCode") = 1
              /\ WordsBefore("kResponseReason") = 2
          BY DEF WordsBefore
        <5>4. Len(words) = WordsBefore(state)
          BY <1>0
        <5>5. 0 # 1 /\ 2 # 1
          OBVIOUS
        <5> QED
          BY <5>2, <5>3, <5>4, <5>5, Zenon
      <4>2. state = "kResponseCode" => buffer = <<"101">>
        BY <2>2 DEF FirstWord
      <4>3. Len(words) >= 2 => words[2] = <<"101">>
        BY <3>3 DEF OwnHeld
      <4>4. Len(words) \in Nat
        BY <1>0
      <4>5. Len(words') >= 2 => words'[2] = <<"101">>
        <5> DEFINE n == Len(words)
        <5>1. n \in Nat /\ Len(words') = n + 1 /\ words'[n + 1] = buffer
              /\ (n >= 2 => words'[2] = words[2])
          BY <3>1, <4>4
        <5>2. (n = 1 => buffer = <<"101">>) /\ (n >= 2 => words[2] = <<"101">>)
          BY <4>1, <4>2, <4>3
        <5> HIDE DEF n
        <5>3. CASE n = 1
          BY <5>1, <5>2, <5>3
        <5>4. CASE n >= 2
          BY <5>1, <5>2, <5>4, Zenon
        <5> QED
          BY <5>1, <5>3, <5>4
      <4> QED
        BY <3>3, <4>5 DEF WordsOf
    <3>4. parsing \in {"request", "response"}
      BY DEF TypeOK
    <3> QED
      BY <3>2, <3>3, <3>4
  <2>6. OwnHeld'
    BY <1>4, <2>2, <2>3, <2>4, <2>5 DEF OwnHeld, InHeader, WordsOf
  <2>7. Waiting(parsing, k, state', pending')
    BY <1>4, <2>3 DEF Waiting
  <2>8. OwnRead'
    BY <2>2, <2>4, <2>7 DEF OwnRead
  <2> QED
    BY <1>4, <2>6, <2>8 DEF OwnStep
<1>6. CASE state = "kHeaderName"
  <2>1. state' = "kHeaderSpaces" /\ name' = buffer /\ UNCHANGED <<headers, words>>
    BY <1>4, <1>6 DEF Word, WordState
  <2>2. /\ At(parsing, k, "kHeaderSpaces")
        /\ Behind(parsing, k, state) = <<"sp">> \o Ahead(parsing, k, "kHeaderSpaces")
    BY <1>0, <1>6, AfterOwnWord
  <2>3. OwnHeld'
    BY <1>0, <1>6, <2>1, <2>2 DEF OwnHeld, WordOf, w
  <2>4. Waiting(parsing, k, state', pending')
    BY <2>1, <2>2 DEF Waiting
  <2>5. OwnRead'
    BY <2>1, <2>4 DEF OwnRead, WordStates
  <2> QED
    BY <1>4, <2>3, <2>5 DEF OwnStep
<1>7. CASE state = "kHeaderValue"
  <2> DEFINE h == [name |-> name, value |-> buffer]
  <2>1. state' = "kHeaderLF" /\ headers' = Append(headers, h) /\ words' = words
    BY <1>4, <1>7 DEF Word, WordState
  <2>2. /\ At(parsing, k + 1, "kHeaderLF")
        /\ Behind(parsing, k, state) = Ahead(parsing, k + 1, "kHeaderLF")
    BY <1>0, <1>7, AfterOwnWord
  <2>3. h = OwnHeaders(parsing)[k + 1] /\ h \in Header
    <3>1. Sendable(HeaderAt(parsing, k))
      BY <1>0, <1>7, HeaderOfMessage DEF At, InHeader
    <3>2. PICK g \in Header : g = HeaderAt(parsing, k)
      BY <3>1 DEF Sendable
    <3>3. g.name = name /\ g.value = buffer
      BY <1>0, <1>7, <3>2 DEF OwnHeld, WordOf, w
    <3>4. g = h
      BY <3>3 DEF Header
    <3> QED
      BY <3>2, <3>4 DEF HeaderAt
  <2> HIDE DEF h
  <2>4. /\ Len(headers') = k + 1 /\ headers'[k + 1] = h
        /\ \A i \in 1 .. k : headers'[i] = headers[i]
    BY <1>0, <2>1, <2>3
  <2>5. \A i \in 1 .. Len(headers') : headers'[i] = OwnHeaders(parsing)[i]
    <3>1. \A i \in 1 .. k : headers[i] = OwnHeaders(parsing)[i]
      BY DEF OwnHeld
    <3>2. \A i \in 1 .. Len(headers') : i \in 1 .. k \/ i = k + 1
      BY <1>0, <2>4
    <3> HIDE DEF k
    <3> QED
      BY <2>3, <2>4, <3>1, <3>2, Zenon
  <2>6. OwnHeld'
    BY <2>1, <2>2, <2>4, <2>5 DEF OwnHeld
  <2>7. Waiting(parsing, k + 1, state', pending')
    BY <2>1, <2>2 DEF Waiting
  <2>8. OwnRead'
    BY <2>1, <2>4, <2>7 DEF OwnRead, WordStates
  <2> QED
    BY <1>4, <2>6, <2>8 DEF OwnStep
<1> QED
  BY <1>5, <1>6, <1>7, StateKinds

\* The first character of a word.
LEMMA OwnBegin ==
    ASSUME TypeOK, OwnHeld, NEW c, HandleChar(c), UNCHANGED parsing,
           state \in DOMAIN AfterSpaces
              \/ (state = "kHeaderStart" /\ Len(headers) < HeaderCount(parsing)),
           Same(pending, Ahead(parsing, Len(headers), state)),
           c = Head(pending), pending' = Tail(pending)
    PROVE  OwnStep(c)
<1> DEFINE k == Len(headers)
<1>0. At(parsing, k, state)
  BY DEF OwnHeld
<1>1. PICK t : t = Begun(state)
  OBVIOUS
<1>2. PICK w : w = WordOf(parsing, k, t)
  OBVIOUS
<1>3. PICK r : r = <<Word[t].ends>> \o Behind(parsing, k, t)
  OBVIOUS
<1>4. /\ t \in WordStates /\ At(parsing, k, t)
      /\ Same(pending, w \o r)
      /\ IF state = "kHeaderStart" THEN w[1] \in NameTokens ELSE Begin(w)
  BY <1>0, <1>1, <1>2, <1>3, BeforeOwnWord, Zenon DEF Same
<1>5. Fits(t, w) /\ IsText(w) /\ w # <<>>
  BY <1>2, <1>4, WordFits, Zenon DEF Fits
<1>6. IsText(r)
  BY <1>3, <1>4, RestIsText, Zenon
<1>7. c = Head(w) /\ Same(pending', Tail(w) \o r)
  BY <1>4, <1>5, <1>6, ReadWord, Zenon
<1>8. c = w[1] /\ c \in Anything /\ IsText(Tail(w)) /\ Same(<<c>> \o Tail(w), w)
  BY <1>5, <1>7, FirstOfWord, Zenon
<1>9. Begins(c)
  BY <1>4, <1>8, StateKinds DEF Begins, Begin
<1>10. /\ state' = t /\ buffer' = <<c>> /\ UNCHANGED <<name, words, headers, outcome>>
  BY <1>1, <1>9, OneAction DEF BeginWord, Begun
<1>11. OwnHeld'
  <2>1. t = "kHeaderValue" => state = "kHeaderSpaces"
    BY <1>1, StateKinds DEF Begun
  <2>2. t # "kHeaderSpaces"
    BY <1>4 DEF WordStates
  <2> QED
    BY <1>4, <1>10, <2>1, <2>2 DEF OwnHeld
<1>12. Reading(parsing, k, t, buffer', pending')
  <2>1. Same(buffer' \o Tail(w), WordOf(parsing, k, t))
    BY <1>2, <1>8, <1>10, Zenon
  <2>2. Same(pending', Tail(w) \o (<<Word[t].ends>> \o Behind(parsing, k, t)))
    BY <1>3, <1>7, Zenon
  <2> QED
    BY <1>8, <2>1, <2>2, Zenon DEF Reading
<1>13. OwnRead'
  BY <1>4, <1>10, <1>12 DEF OwnRead
<1> QED
  BY <1>10, <1>11, <1>13 DEF OwnStep

\* The space behind a colon.
LEMMA OwnSkip ==
    ASSUME TypeOK, OwnHeld, NEW c, HandleChar(c), UNCHANGED parsing,
           state = "kHeaderSpaces",
           Same(pending, <<"sp">> \o Ahead(parsing, Len(headers), state)),
           c = Head(pending), pending' = Tail(pending)
    PROVE  OwnStep(c)
<1> DEFINE k == Len(headers)
<1>1. At(parsing, k, state) /\ state \notin WordStates
  BY DEF OwnHeld, WordStates
<1>2. IsText(Ahead(parsing, k, state))
  BY <1>1, AheadIsText
<1>3. c = "sp" /\ Same(pending', Ahead(parsing, k, state))
  BY <1>2, PrintedChars, ReadFirst, Zenon
<1>4. UNCHANGED <<state, buffer, name, words, headers, outcome>>
  BY <1>3, OneAction, Tables DEF Skips, SkipSpace, parserVars
<1>5. OwnHeld'
  BY <1>4 DEF OwnHeld
<1>6. OwnRead'
  BY <1>1, <1>3, <1>4 DEF OwnRead, Waiting
<1> QED
  BY <1>4, <1>5, <1>6 DEF OwnStep

\* The LF of a line, or the CR of the blank line.
LEMMA OwnAdvance ==
    ASSUME TypeOK, OwnHeld, NEW c, HandleChar(c), UNCHANGED parsing,
           state \in DOMAIN AfterLF
              \/ (state = "kHeaderStart" /\ Len(headers) = HeaderCount(parsing)),
           Same(pending, Ahead(parsing, Len(headers), state)),
           c = Head(pending), pending' = Tail(pending)
    PROVE  OwnStep(c)
<1> DEFINE k == Len(headers)
<1>0. At(parsing, k, state)
  BY DEF OwnHeld
<1>1. \E t : /\ At(parsing, k, t) /\ t \notin WordStates /\ t # "kHeaderSpaces"
             /\ Same(pending', Ahead(parsing, k, t)) /\ state' = t
             /\ UNCHANGED <<buffer, name, words, headers, outcome>>
  <2>1. CASE state \in DOMAIN AfterLF
    <3>1. PICK t : t = AfterLF[state]
      OBVIOUS
    <3>2. At(parsing, k, t) /\ t \notin WordStates
      BY <1>0, <2>1, <3>1, AfterOwnLine
    <3>3. Same(pending, <<"lf">> \o Ahead(parsing, k, t))
      BY <1>0, <2>1, <3>1, AfterOwnLine, Zenon
    <3>4. IsText(Ahead(parsing, k, t))
      BY <3>2, AheadIsText
    <3>5. c = "lf" /\ Same(pending', Ahead(parsing, k, t))
      BY <3>3, <3>4, PrintedChars, ReadFirst, Zenon
    <3>6. Advance(c) /\ ~ EndsHeaders(c)
      BY <2>1, <3>5, OneAction DEF EndsLine, EndsHeaders
    <3>7. state' = t /\ UNCHANGED <<buffer, name, words, headers, outcome>>
      BY <3>1, <3>6 DEF Advance
    <3>8. t # "kHeaderSpaces"
      BY <2>1, <3>1, AfterOthers
    <3> QED
      BY <3>2, <3>5, <3>7, <3>8
  <2>2. CASE state = "kHeaderStart" /\ k = HeaderCount(parsing)
    <3> DEFINE t == "kHeadersEndLF"
    <3>1. /\ At(parsing, k, t) /\ t \notin WordStates
          /\ Same(pending, <<"cr">> \o Ahead(parsing, k, t))
      BY <1>0, <2>2, BlankLineAhead DEF WordStates
    <3>2. IsText(Ahead(parsing, k, t))
      BY <3>1, AheadIsText
    <3>3. c = "cr" /\ Same(pending', Ahead(parsing, k, t))
      BY <3>1, <3>2, PrintedChars, ReadFirst, Zenon
    <3>4. state' = t /\ UNCHANGED <<buffer, name, words, headers, outcome>>
      BY <2>2, <3>3, OneAction DEF EndsHeaders, Advance
    <3> QED
      BY <3>1, <3>3, <3>4
  <2> QED
    BY <2>1, <2>2
<1>2. OwnHeld'
  <2>1. state' \notin {"kHeaderSpaces", "kHeaderValue"}
    BY <1>1 DEF WordStates
  <2>2. At(parsing', Len(headers'), state')
    BY <1>1
  <2>3. UNCHANGED <<headers, words, parsing>>
    BY <1>1
  <2> QED
    BY <2>1, <2>2, <2>3 DEF OwnHeld
<1>3. OwnRead'
  BY <1>1 DEF OwnRead, Waiting
<1> QED
  BY <1>1, <1>2, <1>3 DEF OwnStep

\* A character of its own message.
LEMMA OwnOfChar ==
    ASSUME ParserInv, OwnHeld, OwnRead, NEW c, HandleChar(c), state # "kBody",
           UNCHANGED parsing, c = Head(pending), pending' = Tail(pending)
    PROVE  OwnStep(c)
<1> DEFINE k == Len(headers)
<1>0. TypeOK /\ WordInv /\ At(parsing, k, state) /\ IsText(buffer)
  BY DEF ParserInv, OwnHeld, TypeOK, IsText
<1>1. CASE state \in WordStates
  <2>1. PICK w : w = WordOf(parsing, k, state)
    OBVIOUS
  <2>2. PICK r : r = Behind(parsing, k, state)
    OBVIOUS
  <2>3. IsText(<<Word[state].ends>> \o r) /\ IsText(r) /\ Word[state].ends \in Anything
    BY <1>0, <1>1, <2>2, RestIsText, Zenon
  <2>4. PICK u : /\ IsText(u) /\ Same(buffer \o u, w)
                 /\ Same(pending, u \o (<<Word[state].ends>> \o r))
    BY <1>1, <2>1, <2>2, Zenon DEF OwnRead, Reading
  <2>5. CASE u # <<>>
    <3>1. c = Head(u)
      <4>1. PICK q : q = <<Word[state].ends>> \o r
        OBVIOUS
      <4>2. IsText(q) /\ Same(pending, u \o q)
        BY <2>3, <2>4, <4>1, Zenon
      <4> QED
        BY <2>4, <2>5, <4>2, ReadWord
    <3> QED
      BY <1>0, <1>1, <2>1, <2>2, <2>3, <2>4, <2>5, <3>1, OwnTake, Zenon
  <2>6. CASE u = <<>>
    <3>1. Same(buffer, w)
      BY <1>0, <2>4, <2>6, PartOfWord
    <3>2. Same(pending, <<Word[state].ends>> \o r)
      <4>1. PICK q : q = <<Word[state].ends>> \o r
        OBVIOUS
      <4>2. Same(<<>> \o q, q)
        BY <2>3, <4>1, ConcatEmptySeq DEF Same, IsText
      <4> QED
        BY <2>4, <2>6, <4>1, <4>2, Zenon DEF Same
    <3>3. c = Word[state].ends /\ Same(pending', r)
      BY <2>3, <3>2, ReadFirst, Zenon
    <3> QED
      BY <1>0, <1>1, <2>1, <2>2, <3>1, <3>3, OwnEnd, Zenon
  <2> QED
    BY <2>5, <2>6
<1>2. CASE state \notin WordStates
  <2>1. \/ Same(pending, Ahead(parsing, k, state))
        \/ state = "kHeaderSpaces" /\ Same(pending, <<"sp">> \o Ahead(parsing, k, state))
    BY <1>2 DEF OwnRead, Waiting
  <2>2. state \in DOMAIN AfterSpaces \cup DOMAIN AfterLF \cup {"kHeaderStart"}
    BY <1>0, <1>2, CharacterKinds DEF At
  <2>3. k < HeaderCount(parsing) \/ k = HeaderCount(parsing)
    <3>1. k \in 0 .. HeaderCount(parsing) /\ HeaderCount(parsing) \in Nat
      BY <1>0 DEF At, HeaderCount
    <3> QED
      BY <3>1
  <2>4. CASE Same(pending, Ahead(parsing, k, state))
    <3>1. CASE state \in DOMAIN AfterSpaces
                 \/ (state = "kHeaderStart" /\ k < HeaderCount(parsing))
      BY <1>0, <2>4, <3>1, OwnBegin, Zenon
    <3>2. CASE state \in DOMAIN AfterLF
                 \/ (state = "kHeaderStart" /\ k = HeaderCount(parsing))
      BY <1>0, <2>4, <3>2, OwnAdvance, Zenon
    <3> QED
      BY <2>2, <2>3, <3>1, <3>2, Zenon
  <2>5. CASE state = "kHeaderSpaces" /\ Same(pending, <<"sp">> \o Ahead(parsing, k, state))
    BY <1>0, <2>5, OwnSkip, Zenon
  <2> QED
    BY <2>1, <2>4, <2>5
<1> QED
  BY <1>1, <1>2

-----------------------------------------------------------------------------
(* Both ends accept the message that they hold.                            *)

\* get_header_value finds the only header of a name.
LEMMA FindsHeader ==
    ASSUME NEW n, headers \in Seq(Header), NEW k \in 1 .. Len(headers), headers[k].name = <<n>>,
           \A i \in 1 .. Len(headers) : headers[i].name[1] = n => i = k
    PROVE  HeaderValue(n) = headers[k].value
<1> DEFINE I == {i \in 1 .. Len(headers) : headers[i].name = <<n>>}
<1>1. I = {k} /\ k # 0
  <2>1. \A i \in 1 .. Len(headers) : headers[i].name = <<n>> => headers[i].name[1] = n
    OBVIOUS
  <2> QED
    BY <2>1
<1>2. Min({k}) = k
  BY DEF Min
<1>3. SelectInSeq(headers, LAMBDA h : h.name = <<n>>) = IF I # {} THEN Min(I) ELSE 0
  BY DEF SelectInSeq
<1> HIDE DEF I
<1>4. SelectInSeq(headers, LAMBDA h : h.name = <<n>>) = k
  BY <1>1, <1>2, <1>3
<1> QED
  BY <1>1, <1>4 DEF HeaderValue

\* assert_websocket accepts the message of the other end.
LEMMA OwnMessageAccepted ==
    ASSUME ParserInv, OwnHeld, state = "kBody"
    PROVE  IF parsing = "request" THEN RequestOK ELSE ResponseOK
<1>0. /\ At(parsing, Len(headers), state) /\ headers \in Seq(Header)
      /\ Len(headers) = HeaderCount(parsing) /\ Len(words) = 3
      /\ \A i \in 1 .. Len(headers) : headers[i] = OwnHeaders(parsing)[i]
  BY AfterOthers DEF ParserInv, OwnHeld, TypeOK, At, Header, WordInv
<1> USE DEF H
<1>1. CASE parsing = "request"
  <2>1. /\ Len(headers) = 5
        /\ headers[1] = Host /\ headers[2] = Connection /\ headers[3] = UpgradeTo
        /\ headers[4] = Version /\ headers[5] = Key
    BY <1>0, <1>1 DEF HeaderCount, OwnHeaders
  <2>2. /\ headers[1].name = <<"Host">> /\ headers[2].name = <<"Connection">>
        /\ headers[3].name = <<"Upgrade">> /\ headers[4].name = <<"Sec-WebSocket-Version">>
        /\ headers[5].name = <<"Sec-WebSocket-Key">>
    BY <2>1 DEF Host, Connection, UpgradeTo, Version, Key
  <2>3. /\ headers[2].value = <<"Upgrade">> /\ headers[3].value = <<"websocket">>
        /\ headers[4].value = <<"13">> /\ headers[5].value = <<"key">>
    BY <2>1 DEF Connection, UpgradeTo, Version, Key
  <2>4. \A i \in 1 .. Len(headers) : i \in {1, 2, 3, 4, 5}
    BY <2>1
  <2>5. HeaderValue("Connection") = <<"Upgrade">>
    <3>1. \A i \in 1 .. Len(headers) : headers[i].name[1] = "Connection" => i = 2
      BY <2>2, <2>4
    <3>2. 2 \in 1 .. Len(headers)
      BY <2>1
    <3> QED
      BY <1>0, <2>2, <2>3, <3>1, <3>2, FindsHeader
  <2>6. HeaderValue("Upgrade") = <<"websocket">>
    <3>1. \A i \in 1 .. Len(headers) : headers[i].name[1] = "Upgrade" => i = 3
      BY <2>2, <2>4
    <3>2. 3 \in 1 .. Len(headers)
      BY <2>1
    <3> QED
      BY <1>0, <2>2, <2>3, <3>1, <3>2, FindsHeader
  <2>7. HeaderValue("Sec-WebSocket-Version") = <<"13">>
    <3>1. \A i \in 1 .. Len(headers) : headers[i].name[1] = "Sec-WebSocket-Version" => i = 4
      BY <2>2, <2>4
    <3>2. 4 \in 1 .. Len(headers)
      BY <2>1
    <3> QED
      BY <1>0, <2>2, <2>3, <3>1, <3>2, FindsHeader
  <2>8. HeaderValue("Sec-WebSocket-Key") = <<"key">>
    <3>1. \A i \in 1 .. Len(headers) : headers[i].name[1] = "Sec-WebSocket-Key" => i = 5
      BY <2>2, <2>4
    <3>2. 5 \in 1 .. Len(headers)
      BY <2>1
    <3> QED
      BY <1>0, <2>2, <2>3, <3>1, <3>2, FindsHeader
  <2>9. ValidKey(EncodeBase64(nonce, 16), 24)
    <3>1. nonce \in Bytes(16)
      BY NoncesAssumption DEF ParserInv, TypeOK
    <3>2. EncodedLength(16) = 24
      BY DEF EncodedLength
    <3> QED
      BY <3>1, <3>2, KeyIsValid
  <2>10. "Upgrade" \in ToSet(<<"Upgrade">>)
    BY DEF ToSet
  <2>11. words[1] = <<"GET">>
    BY <1>0, <1>1 DEF OwnHeld
  <2> QED
    BY <1>1, <2>5, <2>6, <2>7, <2>8, <2>9, <2>10, <2>11 DEF RequestOK, KeyOK
<1>2. CASE parsing = "response"
  <2>1. /\ Len(headers) = 3
        /\ headers[1] = UpgradeTo /\ headers[2] = Connection /\ headers[3] = Accept
    BY <1>0, <1>2 DEF HeaderCount, OwnHeaders
  <2>2. /\ headers[1].name = <<"Upgrade">> /\ headers[2].name = <<"Connection">>
        /\ headers[3].name = <<"Sec-WebSocket-Accept">>
    BY <2>1 DEF Connection, UpgradeTo, Accept
  <2>3. /\ headers[1].value = <<"websocket">> /\ headers[2].value = <<"Upgrade">>
        /\ headers[3].value = <<"accept">>
    BY <2>1 DEF Connection, UpgradeTo, Accept
  <2>4. \A i \in 1 .. Len(headers) : i \in {1, 2, 3}
    BY <2>1
  <2>5. HeaderValue("Connection") = <<"Upgrade">>
    <3>1. \A i \in 1 .. Len(headers) : headers[i].name[1] = "Connection" => i = 2
      BY <2>2, <2>4
    <3>2. 2 \in 1 .. Len(headers)
      BY <2>1
    <3> QED
      BY <1>0, <2>2, <2>3, <3>1, <3>2, FindsHeader
  <2>6. HeaderValue("Upgrade") = <<"websocket">>
    <3>1. \A i \in 1 .. Len(headers) : headers[i].name[1] = "Upgrade" => i = 1
      BY <2>2, <2>4
    <3>2. 1 \in 1 .. Len(headers)
      BY <2>1
    <3> QED
      BY <1>0, <2>2, <2>3, <3>1, <3>2, FindsHeader
  <2>7. HeaderValue("Sec-WebSocket-Accept") = <<"accept">>
    <3>1. \A i \in 1 .. Len(headers) : headers[i].name[1] = "Sec-WebSocket-Accept" => i = 3
      BY <2>2, <2>4
    <3>2. 3 \in 1 .. Len(headers)
      BY <2>1
    <3> QED
      BY <1>0, <2>2, <2>3, <3>1, <3>2, FindsHeader
  <2>8. words[2] = <<"101">>
    BY <1>0, <1>2 DEF OwnHeld
  <2> QED
    BY <1>2, <2>5, <2>6, <2>7, <2>8 DEF ResponseOK
<1> QED
  BY <1>0, <1>1, <1>2 DEF At

\* A message that was sent, and nothing of it is read.
Sent ==
    /\ parsing \in {"request", "response"} /\ state = FirstState(parsing)
    /\ buffer = <<>> /\ words = <<>> /\ headers = <<>>
    /\ pending = IF parsing = "request" THEN OwnRequest ELSE OwnResponse \o Frames

\* A message that was sent is pending as the parser expects it.
LEMMA OwnAtStart == Sent => OwnHeld /\ OwnRead
<1> SUFFICES ASSUME Sent
             PROVE  OwnHeld /\ OwnRead
  OBVIOUS
<1> USE DEF Sent
<1>1. Len(headers) = 0 /\ Len(words) = 0
  OBVIOUS
<1>2. At(parsing, 0, state) /\ state \in {"kRequestMethod", "kResponseVersion"}
  <2>1. {"kRequestMethod", "kResponseVersion"} \subseteq States \ {"kErrorState"}
    BY CharacterKinds DEF WordStates
  <2> QED
    BY <2>1 DEF FirstState, At, HeaderCount, RequestStates, ResponseStates, InHeader
<1>3. OwnHeld
  <2>1. state \notin {"kHeaderSpaces", "kHeaderValue"}
    BY <1>2
  <2> QED
    BY <1>1, <1>2, <2>1 DEF OwnHeld
<1>4. \E u : /\ IsText(u) /\ Same(buffer \o u, WordOf(parsing, 0, state))
             /\ Same(pending, u \o (<<Word[state].ends>> \o Behind(parsing, 0, state)))
  <2> DEFINE u == FirstWord(state)
  <2>1. state \in FirstLineWords
    BY <1>2 DEF FirstLineWords
  <2>2. IsText(u) /\ WordOf(parsing, 0, state) = u
    BY <2>1, FirstWordsFit, StateKinds DEF Fits, WordOf
  <2>3. Same(buffer \o u, u)
    BY <2>2, ConcatEmptySeq DEF Same, IsText
  <2>4. Word[state].ends = "sp"
    BY <1>2 DEF Word, WordState
  <2>5. Same(pending, u \o (<<"sp">> \o Behind(parsing, 0, state)))
    <3>1. CASE parsing = "request"
      <4>1. state = "kRequestMethod" /\ Behind(parsing, 0, state) = RequestLine2
        BY <3>1 DEF FirstState, Behind, Word, WordState, Ahead
      <4> QED
        BY <3>1, <4>1, RequestIsCut, Zenon
    <3>2. CASE parsing = "response"
      <4>1. state = "kResponseVersion" /\ Behind(parsing, 0, state) = ResponseLine2
        BY <3>2 DEF FirstState, Behind, Word, WordState, Ahead
      <4>2. pending = OwnResponse \o Frames
        BY <3>2
      <4> QED
        BY <4>1, <4>2, ResponseIsCut, Zenon
    <3> QED
      BY <3>1, <3>2
  <2> HIDE DEF u
  <2> QED
    BY <2>2, <2>3, <2>4, <2>5, Zenon
<1>5. OwnRead
  <2>1. state \in WordStates
    BY <1>2 DEF WordStates
  <2> QED
    BY <1>1, <1>4, <2>1, Zenon DEF OwnRead, Reading
<1> QED
  BY <1>3, <1>5

\* At every character of a message of librcom the parser is where it should be.
THEOREM OwnInvHolds == Spec => []OwnInv
<1>1. Init => OwnInv
  <2> SUFFICES ASSUME Init, peer = "librcom"
               PROVE  OwnHeld /\ OwnRead /\ outcome = "parsing"
    BY DEF OwnInv
  <2>1. Sent /\ outcome = "parsing"
    BY DEF Init, Sent
  <2> QED
    BY <2>1, OwnAtStart
<1>2. ParserInv /\ OwnInv /\ [Next]_vars => OwnInv'
  <2> SUFFICES ASSUME ParserInv, OwnInv, [Next]_vars, peer' = "librcom"
               PROVE  /\ outcome' # "rejected" /\ OwnHeld' /\ OwnRead'
                      /\ outcome' = "open" => state' = "kBody" /\ parsing' = "response"
    BY DEF OwnInv
  <2>0. /\ peer = "librcom" /\ outcome # "rejected" /\ OwnHeld /\ OwnRead
        /\ outcome = "open" => state = "kBody" /\ parsing = "response"
    <3>1. peer' = peer
      BY DEF Next, ReadChar, Timeout, Refuse, Upgrade, Open, vars
    <3> QED
      BY <3>1 DEF OwnInv
  <2>1. CASE ReadChar
    <3>1. PICK c \in Anything : /\ HandleChar(c)
                                /\ c = Head(pending) /\ pending' = Tail(pending)
      BY <2>0, <2>1 DEF ReadChar
    <3>2. outcome = "parsing" /\ state # "kBody" /\ UNCHANGED parsing
      BY <2>1 DEF ReadChar
    <3>3. OwnStep(c)
      BY <2>0, <3>1, <3>2, OwnOfChar
    <3> QED
      BY <3>2, <3>3 DEF OwnStep
  <2>2. CASE /\ UNCHANGED <<parsing, pending, parserVars>>
             /\ outcome' \in {"timeout", outcome}
                  \/ (outcome' = "open" /\ state = "kBody" /\ parsing = "response")
    <3>1. UNCHANGED <<parsing, pending, state, buffer, name, words, headers>>
      BY <2>2 DEF parserVars
    <3>2. OwnHeld'
      BY <2>0, <3>1 DEF OwnHeld
    <3>3. OwnRead'
      BY <2>0, <3>1 DEF OwnRead
    <3> QED
      BY <2>0, <2>2, <3>1, <3>2, <3>3
  <2>3. CASE Upgrade
    <3>1. Sent' /\ outcome' = "parsing"
      <4>1. /\ parsing' = "response" /\ pending' = OwnResponse \o Frames
            /\ NewParser("response") /\ UNCHANGED outcome /\ outcome = "parsing"
        BY <2>0, <2>3 DEF Upgrade
      <4>2. Sent' <=>
              /\ parsing' \in {"request", "response"} /\ state' = FirstState(parsing')
              /\ buffer' = <<>> /\ words' = <<>> /\ headers' = <<>>
              /\ pending' = IF parsing' = "request" THEN OwnRequest ELSE OwnResponse \o Frames
        BY DEF Sent
      <4> HIDE DEF Sent
      <4> QED
        BY <4>1, <4>2 DEF NewParser
    <3>2. Sent' => OwnHeld' /\ OwnRead'
      BY OwnAtStart, PTL
    <3> QED
      BY <3>1, <3>2
  <2>4. ~ Refuse
    <3>1. Refuse => state = "kBody" /\ ~ (IF parsing = "request" THEN RequestOK ELSE ResponseOK)
      BY DEF Refuse
    <3> QED
      BY <2>0, <3>1, OwnMessageAccepted
  <2>5. CASE Timeout
    BY <2>2, <2>5 DEF Timeout
  <2>6. CASE Open
    BY <2>2, <2>6 DEF Open
  <2>7. CASE UNCHANGED vars
    BY <2>2, <2>7 DEF vars
  <2> QED
    BY <2>1, <2>3, <2>4, <2>5, <2>6, <2>7 DEF Next
<1> QED
  BY <1>1, <1>2, ParserInvHolds, PTL DEF Spec

(***************************************************************************)
(* A librcom client and a librcom server accept each other, for every      *)
(* nonce and for all limits that let their messages pass; and the frames   *)
(* that follow the response are all left for the websocket.                *)
(***************************************************************************)
THEOREM OwnPeersAgree == Spec => []OwnHandshakeSucceeds
<1>1. OwnInv => OwnHandshakeSucceeds
  <2> SUFFICES ASSUME OwnInv, peer = "librcom"
               PROVE  outcome # "rejected" /\ (outcome = "open" => pending = Frames)
    BY DEF OwnHandshakeSucceeds
  <2>1. ASSUME outcome = "open"
        PROVE  pending = Frames
    <3>1. state = "kBody" /\ parsing = "response" /\ OwnRead
      BY <2>1 DEF OwnInv
    <3>2. Same(pending, Ahead(parsing, Len(headers), state))
      BY <3>1 DEF OwnRead, Waiting, WordStates
    <3> QED
      BY <3>1, <3>2 DEF Same, Ahead, Following
  <2> QED
    BY <2>1 DEF OwnInv
<1> QED
  BY <1>1, OwnInvHolds, PTL
=============================================================================
