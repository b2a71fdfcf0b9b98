------------------------------- MODULE Base64 -------------------------------
(***************************************************************************)
(* encode_base64 (librcom/src/util.cpp) and the check that a server makes  *)
(* of a Sec-WebSocket-Key (librcom/src/Request.cpp).  A text is a function *)
(* on 0 .. length - 1; a character of the table is its index 0 .. 63.      *)
(***************************************************************************)
EXTENDS Integers

Byte == 0 .. 255
Bytes(n) == [0 .. n - 1 -> Byte]

Pad == 64           \* the character '='
Character == 0 .. Pad

\* The number of characters that length bytes become.
EncodedLength(length) == 4 * ((length + 2) \div 3)

\* The byte at i, zero where the last block of three is not full.
ByteAt(data, length, i) == IF i < length THEN data[i] ELSE 0

Joined(x, y, z) == 65536 * x + 256 * y + z

\* p of block b: its three bytes as one number.
Block(data, length, b) ==
    Joined(ByteAt(data, length, 3 * b),
           ByteAt(data, length, 3 * b + 1),
           ByteAt(data, length, 3 * b + 2))

\* Six of the 24 bits of p.
Sextet(p, j) ==
    (IF j = 0 THEN p \div 262144
     ELSE IF j = 1 THEN p \div 4096
     ELSE IF j = 2 THEN p \div 64
     ELSE p) % 64

\* Character j of block b: '=' where there is no byte for it.
EncodedAt(data, length, b, j) ==
    IF 3 * b + j > length THEN Pad ELSE Sextet(Block(data, length, b), j)

EncodeBase64(data, length) ==
    [k \in 0 .. EncodedLength(length) - 1 |->
        EncodedAt(data, length, k \div 4, k % 4)]

\* Byte i of what a text stands for, as RFC 4648 reads it.
DecodedByte(text, i) ==
    LET b == 4 * (i \div 3)
    IN  IF i % 3 = 0 THEN 4 * text[b] + text[b + 1] \div 16
        ELSE IF i % 3 = 1 THEN 16 * (text[b + 1] % 16) + text[b + 2] \div 4
        ELSE 64 * (text[b + 2] % 4) + text[b + 3]

\* is_base64_string: characters of the table, then at most two '='.
IsBase64(text, length) ==
    \E pads \in 0 .. 2 :
        /\ length - pads > 0
        /\ \A k \in 0 .. length - 1 :
              text[k] \in Character /\ (text[k] = Pad <=> k >= length - pads)

\* is_valid_websocket_key
ValidKey(text, length) ==
    length = 24 /\ text[22] = Pad /\ text[23] = Pad /\ IsBase64(text, length)
=============================================================================
