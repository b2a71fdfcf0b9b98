---------------------------- MODULE FramingProofs ----------------------------
(***************************************************************************)
(* What the header and mask arithmetic of module Framing computes, for     *)
(* every 64-bit length and every offset, and that the reader stays in step *)
(* with the frames, whatever their lengths and number.                     *)
(***************************************************************************)
EXTENDS Framing, SequenceTheorems, TLAPS

\* One step of splitting a number into bytes.
LEMMA DivMod ==
  ASSUME NEW n \in Nat
  PROVE  /\ n \div 256 \in Nat /\ n % 256 \in Byte
         /\ n = (n \div 256) * 256 + (n % 256)
  BY DEF Byte

\* An eight-byte field carries every length below 2^64.
LEMMA Uint64RoundTrip ==
  ASSUME NEW n \in Nat, n < 256 * 256 * 256 * 256 * 256 * 256 * 256 * 256
  PROVE  Uint64(Uint64Bytes(n)) = n
  <1> DEFINE q1 == n \div 256   q2 == q1 \div 256   q3 == q2 \div 256
             q4 == q3 \div 256  q5 == q4 \div 256   q6 == q5 \div 256
             q7 == q6 \div 256
  <1>1. /\ q1 \in Nat /\ q2 \in Nat /\ q3 \in Nat /\ q4 \in Nat
        /\ q5 \in Nat /\ q6 \in Nat /\ q7 \in Nat
    BY DivMod
  <1>2. /\ n = q1 * 256 + (n % 256)    /\ q1 = q2 * 256 + (q1 % 256)
        /\ q2 = q3 * 256 + (q2 % 256)  /\ q3 = q4 * 256 + (q3 % 256)
        /\ q4 = q5 * 256 + (q4 % 256)  /\ q5 = q6 * 256 + (q5 % 256)
        /\ q6 = q7 * 256 + (q6 % 256)
    BY <1>1, DivMod
  <1>3. q7 % 256 = q7
    <2>1. q7 < 256
      <3> HIDE DEF q1, q2, q3, q4, q5, q6, q7
      <3>1. /\ n % 256 \in Byte /\ q1 % 256 \in Byte /\ q2 % 256 \in Byte
            /\ q3 % 256 \in Byte /\ q4 % 256 \in Byte /\ q5 % 256 \in Byte
            /\ q6 % 256 \in Byte
        BY <1>1, DivMod
      <3> QED  BY <1>1, <1>2, <3>1 DEF Byte
    <2> QED  BY <1>1, <2>1
  <1>4. Uint64Bytes(n) = <<q7 % 256, q6 % 256, q5 % 256, q4 % 256,
                           q3 % 256, q2 % 256, q1 % 256, n % 256>>
    BY DEF Uint64Bytes
  <1> HIDE DEF q1, q2, q3, q4, q5, q6, q7
  <1>5. Uint64(Uint64Bytes(n)) =
          ((((((q7 * 256 + (q6 % 256)) * 256 + (q5 % 256)) * 256 + (q4 % 256)) * 256
             + (q3 % 256)) * 256 + (q2 % 256)) * 256 + (q1 % 256)) * 256 + (n % 256)
    BY <1>3, <1>4 DEF Uint64
  <1> QED  BY <1>2, <1>5

\* The header that either end writes for a message of n bytes is read back by
\* the other end as the length n, for every length but 65536: the code sends
\* that one as 16 bits (data_length_65536 of Frames.h).
THEOREM LengthRoundTrip ==
  ASSUME NEW n \in Nat, n < 256 * 256 * 256 * 256 * 256 * 256 * 256 * 256,
         n # 65536
  PROVE  /\ DecodedLength(LengthField(n)) = n
         /\ Len(LengthField(n)) = 1 + ExtendedLength(LengthField(n)[1])
  <1>1. CASE n < 126
    BY <1>1 DEF LengthField, DecodedLength, ExtendedLength
  <1>2. CASE 126 <= n /\ n < 65536
    <2>1. LengthField(n) = <<126, (n \div 256) % 256, n % 256>>
      BY <1>2 DEF LengthField, Uint16Bytes
    <2>2. DecodedLength(LengthField(n)) = ((n \div 256) % 256) * 256 + (n % 256)
      BY <2>1 DEF DecodedLength, Uint16
    <2>3. (n \div 256) % 256 = n \div 256
      BY <1>2
    <2>4. n = (n \div 256) * 256 + (n % 256)
      BY DivMod
    <2> QED  BY <2>1, <2>2, <2>3, <2>4 DEF ExtendedLength
  <1>3. CASE n > 65536
    <2> DEFINE b == Uint64Bytes(n)
    <2>1. b = <<b[1], b[2], b[3], b[4], b[5], b[6], b[7], b[8]>>
      BY DEF Uint64Bytes
    <2> HIDE DEF b
    <2>2. LengthField(n) = <<127, b[1], b[2], b[3], b[4], b[5], b[6], b[7], b[8]>>
      <3>1. LengthField(n) = <<127>> \o b
        BY <1>3 DEF LengthField, b
      <3> QED  BY <2>1, <3>1
    <2>3. DecodedLength(LengthField(n)) = Uint64(b)
      BY <2>1, <2>2 DEF DecodedLength
    <2> QED  BY <2>2, <2>3, Uint64RoundTrip DEF ExtendedLength, b
  <1> QED  BY <1>1, <1>2, <1>3

\* Although the mask starts over in every block of a payload, each byte is
\* masked with the byte of the mask that RFC 6455 gives its offset.
THEOREM MaskFollowsOffset == \A i \in Nat : MaskIndex(i) = i % 4
  BY DEF MaskIndex, kPayloadBufferLength

-----------------------------------------------------------------------------
(* Headers.                                                                *)

HeaderLength(role, n) ==
    1 + Len(LengthField(n)) + (IF role = "client" THEN 4 ELSE 0)

\* HeaderBytes of a given end.
HeaderOf(role, n) ==
    <<FirstByte, (IF role = "client" THEN 128 ELSE 0) + LengthField(n)[1]>>
        \o Tail(LengthField(n)) \o (IF role = "client" THEN <<0, 0, 0, 0>> ELSE <<>>)

LEMMA HeaderIsOf == \A n : HeaderBytes(n) = HeaderOf(sender, n)
BY DEF HeaderBytes, HeaderOf, MaskFlag, MaskBytes

\* The elements of two sequences one behind the other.
LEMMA Concatenation ==
    ASSUME NEW S, NEW s \in Seq(S), NEW t \in Seq(S)
    PROVE  /\ s \o t \in Seq(S) /\ Len(s \o t) = Len(s) + Len(t)
           /\ \A i \in 1 .. Len(s) : (s \o t)[i] = s[i]
           /\ \A i \in 1 .. Len(t) : (s \o t)[Len(s) + i] = t[i]
<1>1. /\ s \o t \in Seq(S) /\ Len(s \o t) = Len(s) + Len(t)
      /\ \A i \in 1 .. Len(s) + Len(t) :
            (s \o t)[i] = IF i <= Len(s) THEN s[i] ELSE t[i - Len(s)]
  BY ConcatProperties
<1> DEFINE all == s \o t
<1>2. Len(s) \in Nat /\ Len(t) \in Nat
  OBVIOUS
<1>3. /\ all \in Seq(S) /\ Len(all) = Len(s) + Len(t)
      /\ \A i \in 1 .. Len(s) + Len(t) :
            all[i] = IF i <= Len(s) THEN s[i] ELSE t[i - Len(s)]
  BY <1>1
<1> HIDE DEF all
<1>4. ASSUME NEW i \in 1 .. Len(t)
      PROVE  all[Len(s) + i] = t[i]
  <2>1. Len(s) + i \in 1 .. Len(s) + Len(t) /\ ~ Len(s) + i <= Len(s) /\ Len(s) + i - Len(s) = i
    BY <1>2
  <2> QED
    BY <1>3, <2>1
<1>5. \A i \in 1 .. Len(s) : all[i] = s[i]
  BY <1>2, <1>3
<1> QED
  BY <1>3, <1>4, <1>5 DEF all

\* A length field is a sequence of bytes whose first tells how many follow.
LEMMA FieldBytes ==
    ASSUME NEW n \in Nat
    PROVE  /\ LengthField(n) \in Seq(Byte) /\ Len(LengthField(n)) \in Nat \ {0}
           /\ LengthField(n)[1] \in 0 .. 127
           /\ Len(LengthField(n)) = 1 + ExtendedLength(LengthField(n)[1])
<1>1. CASE n < 126
  BY <1>1 DEF LengthField, ExtendedLength, Byte
<1>2. CASE 126 <= n /\ n <= 65536
  <2> DEFINE b == Uint16Bytes(n)
  <2>1. b \in Seq(Byte) /\ Len(b) = 2
    BY DivMod DEF Uint16Bytes
  <2> HIDE DEF b
  <2>2. LengthField(n) = <<126>> \o b
    BY <1>2 DEF LengthField, b
  <2>3. <<126>> \in Seq(Byte) /\ Len(<<126>>) = 1 /\ <<126>>[1] = 126
    BY DEF Byte
  <2>4. LengthField(n) \in Seq(Byte) /\ Len(LengthField(n)) = 3 /\ LengthField(n)[1] = 126
    <3> DEFINE a == <<126>>
    <3>1. a \in Seq(Byte) /\ Len(a) = 1 /\ a[1] = 126
      BY <2>3
    <3> HIDE DEF a
    <3>2. a \in Seq(Byte) /\ b \in Seq(Byte)
      BY <2>1, <3>1
    <3>3. /\ a \o b \in Seq(Byte) /\ Len(a \o b) = Len(a) + Len(b)
          /\ \A i \in 1 .. Len(a) : (a \o b)[i] = a[i]
      BY <3>2, Concatenation, Zenon
    <3> QED
      BY <2>1, <2>2, <3>1, <3>3 DEF a
  <2> QED
    BY <2>4 DEF ExtendedLength
<1>3. CASE n > 65536
  <2> DEFINE b == Uint64Bytes(n)
  <2>1. b \in Seq(Byte) /\ Len(b) = 8
    <3> DEFINE q1 == n \div 256   q2 == q1 \div 256   q3 == q2 \div 256
               q4 == q3 \div 256  q5 == q4 \div 256   q6 == q5 \div 256
               q7 == q6 \div 256
    <3>1. /\ q1 \in Nat /\ q2 \in Nat /\ q3 \in Nat /\ q4 \in Nat
          /\ q5 \in Nat /\ q6 \in Nat /\ q7 \in Nat
      BY DivMod
    <3>2. b = <<q7 % 256, q6 % 256, q5 % 256, q4 % 256,
                q3 % 256, q2 % 256, q1 % 256, n % 256>>
      BY DEF Uint64Bytes
    <3> HIDE DEF b, q1, q2, q3, q4, q5, q6, q7
    <3>3. /\ q7 % 256 \in Byte /\ q6 % 256 \in Byte /\ q5 % 256 \in Byte
          /\ q4 % 256 \in Byte /\ q3 % 256 \in Byte /\ q2 % 256 \in Byte
          /\ q1 % 256 \in Byte /\ n % 256 \in Byte
      BY <3>1, DivMod
    <3> QED
      BY <3>2, <3>3
  <2> HIDE DEF b
  <2>2. LengthField(n) = <<127>> \o b
    BY <1>3 DEF LengthField, b
  <2>3. <<127>> \in Seq(Byte) /\ Len(<<127>>) = 1 /\ <<127>>[1] = 127
    BY DEF Byte
  <2>4. LengthField(n) \in Seq(Byte) /\ Len(LengthField(n)) = 9 /\ LengthField(n)[1] = 127
    <3> DEFINE a == <<127>>
    <3>1. a \in Seq(Byte) /\ Len(a) = 1 /\ a[1] = 127
      BY <2>3
    <3> HIDE DEF a
    <3>2. a \in Seq(Byte) /\ b \in Seq(Byte)
      BY <2>1, <3>1
    <3>3. /\ a \o b \in Seq(Byte) /\ Len(a \o b) = Len(a) + Len(b)
          /\ \A i \in 1 .. Len(a) : (a \o b)[i] = a[i]
      BY <3>2, Concatenation, Zenon
    <3> QED
      BY <2>1, <2>2, <3>1, <3>3 DEF a
  <2> QED
    BY <2>4 DEF ExtendedLength
<1> QED
  BY <1>1, <1>2, <1>3

\* The bytes of a header: the opcode, the length field behind the mask flag,
\* and the mask.
LEMMA HeaderLayout ==
    ASSUME NEW n \in Nat
    PROVE  /\ HeaderBytes(n) \in Seq(Byte) /\ Len(HeaderBytes(n)) = HeaderLength(sender, n)
           /\ HeaderLength(sender, n) \in Nat /\ HeaderLength(sender, n) > 1
           /\ HeaderBytes(n)[1] = FirstByte
           /\ HeaderBytes(n)[2] = MaskFlag + LengthField(n)[1]
           /\ \A i \in 2 .. Len(LengthField(n)) : HeaderBytes(n)[1 + i] = LengthField(n)[i]
<1> DEFINE L == LengthField(n)
           front == <<FirstByte, MaskFlag + L[1]>>
           back == Tail(L)
           all == front \o back
<1>1. L \in Seq(Byte) /\ Len(L) \in Nat \ {0} /\ L[1] \in 0 .. 127
  BY FieldBytes
<1>2. MaskFlag \in {0, 128}
  BY DEF MaskFlag
<1>3. front \in Seq(Byte) /\ Len(front) = 2 /\ front[1] = FirstByte /\ front[2] = MaskFlag + L[1]
  <2>1. MaskFlag + L[1] \in 0 .. 255
    <3> DEFINE b == L[1]
    <3>1. b \in 0 .. 127
      BY <1>1
    <3> HIDE DEF b
    <3>2. MaskFlag + b \in 0 .. 255
      BY <1>2, <3>1
    <3> QED
      BY <3>2 DEF b
  <2>2. FirstByte \in Byte /\ MaskFlag + L[1] \in Byte
    BY <2>1 DEF FirstByte, Byte
  <2> QED
    BY <2>2
<1> HIDE DEF L
<1>4. /\ back \in Seq(Byte) /\ Len(back) = Len(L) - 1
      /\ \A i \in 1 .. Len(L) - 1 : back[i] = L[i + 1]
  BY <1>1
<1>5. /\ MaskBytes \in Seq(Byte) /\ Len(MaskBytes) = IF sender = "client" THEN 4 ELSE 0
  <2>1. <<0, 0, 0, 0>> \in Seq(Byte) /\ Len(<<0, 0, 0, 0>>) = 4
        /\ <<>> \in Seq(Byte) /\ Len(<<>>) = 0
    BY DEF Byte
  <2> QED
    BY <2>1 DEF MaskBytes
<1> HIDE DEF front, back
<1>6. /\ all \in Seq(Byte) /\ Len(all) = Len(L) + 1 /\ all[1] = FirstByte
      /\ all[2] = MaskFlag + L[1] /\ \A i \in 2 .. Len(L) : all[1 + i] = L[i]
  <2>1. /\ all \in Seq(Byte) /\ Len(all) = Len(front) + Len(back)
        /\ \A i \in 1 .. Len(front) : all[i] = front[i]
        /\ \A i \in 1 .. Len(back) : all[Len(front) + i] = back[i]
    <3>1. front \in Seq(Byte) /\ back \in Seq(Byte)
      BY <1>3, <1>4
    <3>2. /\ front \o back \in Seq(Byte) /\ Len(front \o back) = Len(front) + Len(back)
          /\ \A i \in 1 .. Len(front) : (front \o back)[i] = front[i]
          /\ \A i \in 1 .. Len(back) : (front \o back)[Len(front) + i] = back[i]
      BY <3>1, Concatenation
    <3> QED
      BY <3>2, Zenon
  <2> HIDE DEF all
  <2>2. all[1] = front[1] /\ all[2] = front[2] /\ Len(all) = Len(L) + 1
    BY <1>1, <1>3, <1>4, <2>1
  <2>3. ASSUME NEW i \in 2 .. Len(L)
        PROVE  all[1 + i] = L[i]
    <3>1. i - 1 \in 1 .. Len(L) - 1 /\ i - 1 + 1 = i /\ 2 + (i - 1) = 1 + i
      BY <1>1
    <3>2. all[1 + i] = back[i - 1]
      BY <1>3, <1>4, <2>1, <3>1
    <3> QED
      BY <1>4, <3>1, <3>2
  <2> QED
    BY <1>3, <2>1, <2>2, <2>3
<1> HIDE DEF all
<1>7. HeaderBytes(n) = all \o MaskBytes
  BY DEF HeaderBytes, all, front, back, L
<1>8. /\ HeaderBytes(n) \in Seq(Byte)
      /\ Len(HeaderBytes(n)) = Len(L) + 1 + (IF sender = "client" THEN 4 ELSE 0)
      /\ \A i \in 1 .. Len(L) + 1 : HeaderBytes(n)[i] = all[i]
  <2>1. /\ all \o MaskBytes \in Seq(Byte)
        /\ Len(all \o MaskBytes) = Len(all) + Len(MaskBytes)
        /\ \A i \in 1 .. Len(all) : (all \o MaskBytes)[i] = all[i]
    <3>1. all \in Seq(Byte) /\ MaskBytes \in Seq(Byte)
      BY <1>5, <1>6
    <3> QED
      BY <3>1, Concatenation, Zenon
  <2> QED
    BY <1>1, <1>5, <1>6, <1>7, <2>1
<1> QED
  BY <1>1, <1>6, <1>8 DEF HeaderLength, L

LEMMA RunsOf ==
    ASSUME NEW bytes \in Seq(Byte)
    PROVE  /\ Runs(bytes) \in Seq(Run) /\ Len(Runs(bytes)) = Len(bytes)
           /\ \A i \in 1 .. Len(bytes) : Runs(bytes)[i] = RunOf(bytes[i])
<1>1. \A b \in Byte : RunOf(b) \in Run
  BY DEF RunOf, Run
<1>2. \A i \in 1 .. Len(bytes) : RunOf(bytes[i]) \in Run
  BY <1>1
<1>3. Runs(bytes) = [i \in 1 .. Len(bytes) |-> RunOf(bytes[i])]
  BY DEF Runs
<1> QED
  BY <1>2, <1>3

LEMMA PayloadRuns ==
    ASSUME NEW n \in Nat
    PROVE  /\ Payload(n) \in Seq(Run)
           /\ n = 0 => Payload(n) = <<>>
           /\ n > 0 => /\ Len(Payload(n)) = 1
                       /\ Payload(n)[1] = [byte |-> PayloadByte, count |-> n]
<1>1. n > 0 => [byte |-> PayloadByte, count |-> n] \in Run
  BY DEF Run, PayloadByte, Byte
<1> QED
  BY <1>1 DEF Payload

LEMMA Blocks ==
    ASSUME NEW length \in Nat, NEW d \in Nat, d < length
    PROVE  /\ BlockLength(d, length) \in 1 .. kPayloadBufferLength
           /\ BlockLength(d, length) >= 1
           /\ d + BlockLength(d, length) <= length
BY DEF BlockLength, kPayloadBufferLength

\* A message has 27 bits of length at most: far less than 64.
LEMMA LengthIsSmall ==
    ASSUME NEW n \in Nat, n < kMaximumMessageLength
    PROVE  n < 256 * 256 * 256 * 256 * 256 * 256 * 256 * 256
<1>1. n < 256 * 256 * 256 * 256
  BY SMT DEF kMaximumMessageLength
<1>2. \A m \in Nat : m >= 1 /\ n < m => n < m * 256
  BY SMT
<1>3. \A m \in Nat : m >= 1 => m * 256 \in Nat /\ m * 256 >= 1
  BY SMT
<1> DEFINE m4 == 256 * 256 * 256 * 256
<1>4. m4 \in Nat /\ m4 >= 1 /\ n < m4
  BY <1>1, SMT
<1> HIDE DEF m4
<1>5. n < m4 * 256 /\ m4 * 256 \in Nat /\ m4 * 256 >= 1
  BY <1>2, <1>3, <1>4
<1>6. n < m4 * 256 * 256 /\ m4 * 256 * 256 \in Nat /\ m4 * 256 * 256 >= 1
  BY <1>2, <1>3, <1>5
<1>7. n < m4 * 256 * 256 * 256 /\ m4 * 256 * 256 * 256 \in Nat /\ m4 * 256 * 256 * 256 >= 1
  BY <1>2, <1>3, <1>6
<1>8. n < m4 * 256 * 256 * 256 * 256
  BY <1>2, <1>7
<1> QED
  BY <1>8, SMT DEF m4

LEMMA DecodedIsNat ==
    ASSUME NEW f \in Seq(Byte), Len(f) >= 1, Len(f) >= 1 + ExtendedLength(f[1])
    PROVE  DecodedLength(f) \in Nat
<1>0. Len(f) \in Nat /\ f[1] \in Byte
  OBVIOUS
<1>1. CASE f[1] < 126
  <2>1. PICK b \in Byte : b = f[1]
    BY <1>0
  <2>2. DecodedLength(f) = b
    BY <1>1, <2>1 DEF DecodedLength
  <2>3. b \in Nat
    BY DEF Byte
  <2> QED
    BY <2>2, <2>3, Zenon
<1>2. CASE f[1] = 126
  <2>1. f[2] \in Byte /\ f[3] \in Byte
    BY <1>0, <1>2 DEF ExtendedLength
  <2>2. DecodedLength(f) = f[2] * 256 + f[3]
    BY <1>2 DEF DecodedLength, Uint16
  <2>3. \A b, c \in Byte : b * 256 + c \in Nat
    BY DEF Byte
  <2> QED
    BY <2>1, <2>2, <2>3
<1>3. CASE ~ f[1] < 126 /\ f[1] # 126
  <2>1. ExtendedLength(f[1]) = 8
    BY <1>3 DEF ExtendedLength
  <2>2. Len(f) >= 9
    BY <1>0, <2>1
  <2>3. /\ f[2] \in Byte /\ f[3] \in Byte /\ f[4] \in Byte /\ f[5] \in Byte
        /\ f[6] \in Byte /\ f[7] \in Byte /\ f[8] \in Byte /\ f[9] \in Byte
    BY <1>0, <2>2
  <2>4. DecodedLength(f) =
          ((((((f[2] * 256 + f[3]) * 256 + f[4]) * 256 + f[5]) * 256 + f[6]) * 256
             + f[7]) * 256 + f[8]) * 256 + f[9]
    BY <1>3 DEF DecodedLength, Uint64
  <2>5. \A b \in Nat, c \in Byte : b * 256 + c \in Nat
    BY DEF Byte
  <2>6. f[2] \in Nat
    <3>1. \A b \in Byte : b \in Nat
      BY DEF Byte
    <3> QED
      BY <2>3, <3>1, Zenon
  <2> DEFINE d3 == f[2] * 256 + f[3]   d4 == d3 * 256 + f[4]   d5 == d4 * 256 + f[5]
             d6 == d5 * 256 + f[6]     d7 == d6 * 256 + f[7]   d8 == d7 * 256 + f[8]
             d9 == d8 * 256 + f[9]
  <2>7. DecodedLength(f) = d9
    BY <2>4
  <2>8. d3 \in Nat
    BY <2>3, <2>5, <2>6
  <2> HIDE DEF d3
  <2>9. d4 \in Nat
    BY <2>3, <2>5, <2>8
  <2> HIDE DEF d4
  <2>10. d5 \in Nat
    BY <2>3, <2>5, <2>9
  <2> HIDE DEF d5
  <2>11. d6 \in Nat
    BY <2>3, <2>5, <2>10
  <2> HIDE DEF d6
  <2>12. d7 \in Nat
    BY <2>3, <2>5, <2>11
  <2> HIDE DEF d7
  <2>13. d8 \in Nat
    BY <2>3, <2>5, <2>12
  <2> HIDE DEF d8
  <2>14. d9 \in Nat
    BY <2>3, <2>5, <2>13
  <2> HIDE DEF d9
  <2> QED
    BY <2>7, <2>14, Zenon
<1> QED
  BY <1>1, <1>2, <1>3

-----------------------------------------------------------------------------
(***************************************************************************)
(* Positions of bytes.  All that was ever written is a function B on Nat,  *)
(* and e[i] is the number of bytes up to the end of the i-th run of s.     *)
(***************************************************************************)
Shows(s, B, e) ==
    /\ \A i \in 0 .. Len(s) : e[i] <= e[Len(s)]
    /\ \A i \in 1 .. Len(s) :
          /\ e[i] = e[i - 1] + s[i].count
          /\ \A x \in e[i - 1] .. e[i] - 1 : B[x] = s[i].byte

Ends(s) == [0 .. Len(s) -> Nat]

\* The stream s when the first n bytes, all of the first run, have been read.
Taken(s, n) ==
    IF n = Head(s).count THEN Tail(s)
    ELSE <<[Head(s) EXCEPT !.count = @ - n]>> \o Tail(s)

LEMMA ShowsConcat ==
    ASSUME NEW s \in Seq(Run), NEW t \in Seq(Run), NEW B,
           NEW e \in Ends(s), NEW f \in Ends(t),
           Shows(s, B, e), Shows(t, B, f), f[0] = e[Len(s)]
    PROVE  \E g \in Ends(s \o t) : /\ Shows(s \o t, B, g)
                                   /\ g[0] = e[0]
                                   /\ g[Len(s \o t)] = f[Len(t)]
<1> DEFINE w == s \o t
           g == [i \in 0 .. Len(w) |-> IF i <= Len(s) THEN e[i] ELSE f[i - Len(s)]]
<1>1. /\ w \in Seq(Run) /\ Len(w) = Len(s) + Len(t)
      /\ \A i \in 1 .. Len(s) : w[i] = s[i]
      /\ \A i \in 1 .. Len(t) : w[Len(s) + i] = t[i]
  BY Concatenation
<1>2. Len(s) \in Nat /\ Len(t) \in Nat
  OBVIOUS
<1>3. /\ \A i \in 0 .. Len(s) : e[i] \in Nat
      /\ \A i \in 0 .. Len(t) : f[i] \in Nat
  BY DEF Ends
<1> HIDE DEF w
<1>4. \A i \in 0 .. Len(s) : g[i] = e[i]
  BY <1>1, <1>2
<1>5. ASSUME NEW i \in 0 .. Len(t)
      PROVE  g[Len(s) + i] = f[i]
  <2>1. Len(s) + i \in 0 .. Len(w) /\ Len(s) + i - Len(s) = i
    BY <1>1, <1>2
  <2>2. CASE i = 0
    BY <1>2, <1>4, <2>2
  <2>3. CASE i > 0
    <3>1. ~ Len(s) + i <= Len(s)
      BY <1>2, <2>3
    <3> QED
      BY <2>1, <3>1
  <2> QED
    BY <2>2, <2>3
<1>6. g \in Ends(w)
  <2>1. ASSUME NEW i \in 0 .. Len(w), i > Len(s)
        PROVE  i - Len(s) \in 0 .. Len(t)
    BY <1>1, <1>2, <2>1
  <2>2. ASSUME NEW i \in 0 .. Len(w)
        PROVE  (IF i <= Len(s) THEN e[i] ELSE f[i - Len(s)]) \in Nat
    <3>1. CASE i <= Len(s)
      BY <1>2, <1>3, <3>1
    <3>2. CASE i > Len(s)
      BY <1>2, <1>3, <2>1, <3>2
    <3> QED
      BY <1>1, <1>2, <3>1, <3>2
  <2> QED
    BY <2>2 DEF Ends
<1> HIDE DEF g
<1>7. g[Len(w)] = f[Len(t)]
  BY <1>1, <1>2, <1>5
<1>8. \A i \in 0 .. Len(w) : \/ i \in 0 .. Len(s)
                             \/ \E j \in 1 .. Len(t) : i = Len(s) + j
  <2> SUFFICES ASSUME NEW i \in 0 .. Len(w), i > Len(s)
               PROVE  \E j \in 1 .. Len(t) : i = Len(s) + j
    BY <1>1, <1>2
  <2>1. i - Len(s) \in 1 .. Len(t) /\ i = Len(s) + (i - Len(s))
    BY <1>1, <1>2
  <2> QED
    BY <2>1
<1>9. ASSUME NEW i \in 0 .. Len(w)
      PROVE  g[i] <= g[Len(w)]
  <2>1. e[Len(s)] <= f[Len(t)]
    BY <1>2 DEF Shows
  <2>2. CASE i \in 0 .. Len(s)
    <3>1. e[i] <= e[Len(s)]
      BY <2>2 DEF Shows
    <3>2. e[i] \in Nat /\ e[Len(s)] \in Nat /\ f[Len(t)] \in Nat
      BY <1>2, <1>3, <2>2
    <3> QED
      BY <1>4, <1>7, <2>1, <2>2, <3>1, <3>2
  <2>3. CASE \E j \in 1 .. Len(t) : i = Len(s) + j
    <3>1. PICK j \in 1 .. Len(t) : i = Len(s) + j
      BY <2>3
    <3>2. g[i] = f[j] /\ f[j] <= f[Len(t)]
      BY <1>2, <1>5, <3>1 DEF Shows
    <3> QED
      BY <1>7, <3>2
  <2> QED
    BY <1>8, <2>2, <2>3
<1>10. ASSUME NEW i \in 1 .. Len(w)
       PROVE  /\ g[i] = g[i - 1] + w[i].count
              /\ \A x \in g[i - 1] .. g[i] - 1 : B[x] = w[i].byte
  <2>1. CASE i \in 0 .. Len(s)
    <3>1. i \in 1 .. Len(s) /\ i - 1 \in 0 .. Len(s)
      BY <1>2, <2>1
    <3>2. g[i] = e[i] /\ g[i - 1] = e[i - 1] /\ w[i] = s[i]
      BY <1>1, <1>4, <2>1, <3>1
    <3> QED
      BY <3>1, <3>2 DEF Shows
  <2>2. CASE \E j \in 1 .. Len(t) : i = Len(s) + j
    <3>1. PICK j \in 1 .. Len(t) : i = Len(s) + j
      BY <2>2
    <3>2. j - 1 \in 0 .. Len(t) /\ i - 1 = Len(s) + (j - 1) /\ j \in 0 .. Len(t)
      BY <1>2, <3>1
    <3>3. g[i] = f[j] /\ g[i - 1] = f[j - 1] /\ w[i] = t[j]
      BY <1>1, <1>5, <3>1, <3>2
    <3> QED
      BY <3>1, <3>3 DEF Shows
  <2>3. i \in 0 .. Len(w)
    BY <1>1, <1>2
  <2> QED
    BY <1>8, <2>1, <2>2, <2>3
<1>11. Shows(w, B, g)
  BY <1>9, <1>10 DEF Shows
<1>12. g[0] = e[0]
  BY <1>2, <1>4
<1> QED
  BY <1>6, <1>7, <1>11, <1>12 DEF w

\* Reading the first bytes of the stream moves its start and nothing else.
LEMMA ShowsTaken ==
    ASSUME NEW s \in Seq(Run), s # <<>>, NEW B, NEW e \in Ends(s), Shows(s, B, e),
           NEW n \in 1 .. Head(s).count
    PROVE  /\ Taken(s, n) \in Seq(Run)
           /\ B[e[0]] = Head(s).byte
           /\ e[0] < e[Len(s)]
           /\ \E g \in Ends(Taken(s, n)) :
                 /\ Shows(Taken(s, n), B, g)
                 /\ g[0] = e[0] + n
                 /\ g[Len(Taken(s, n))] = e[Len(s)]
<1> DEFINE h == Head(s)
           r == Tail(s)
<1>1. /\ Len(s) \in Nat \ {0} /\ h = s[1] /\ h \in Run
      /\ r \in Seq(Run) /\ Len(r) = Len(s) - 1
      /\ \A i \in 1 .. Len(r) : r[i] = s[i + 1]
  OBVIOUS
<1>2. h.byte \in Byte /\ h.count \in Nat \ {0}
  BY <1>1 DEF Run
<1>3. \A i \in 0 .. Len(s) : e[i] \in Nat
  BY DEF Ends
<1>4. /\ e[1] = e[0] + h.count /\ e[1] <= e[Len(s)]
      /\ \A x \in e[0] .. e[1] - 1 : B[x] = h.byte
  <2>1. 1 \in 1 .. Len(s) /\ 1 \in 0 .. Len(s) /\ 1 - 1 = 0
    BY <1>1
  <2> QED
    BY <1>1, <2>1 DEF Shows
<1>5. e[0] \in Nat /\ e[1] \in Nat /\ e[Len(s)] \in Nat
  BY <1>1, <1>3
<1> HIDE DEF h, r
<1>6. B[e[0]] = h.byte /\ e[0] < e[Len(s)]
  BY <1>2, <1>4, <1>5
<1> DEFINE gr == [i \in 0 .. Len(r) |-> e[i + 1]]
<1>7. gr \in Ends(r) /\ gr[0] = e[1] /\ gr[Len(r)] = e[Len(s)]
  <2>1. \A i \in 0 .. Len(r) : i + 1 \in 0 .. Len(s)
    BY <1>1
  <2>2. \A i \in 0 .. Len(r) : e[i + 1] \in Nat
    BY <1>3, <2>1
  <2>3. gr \in Ends(r)
    BY <2>2 DEF Ends
  <2>4. 0 \in 0 .. Len(r) /\ Len(r) \in 0 .. Len(r) /\ Len(r) + 1 = Len(s)
    BY <1>1
  <2> QED
    BY <2>3, <2>4
<1>8. Shows(r, B, gr)
  <2>1. ASSUME NEW i \in 0 .. Len(r)
        PROVE  gr[i] <= gr[Len(r)]
    <3>1. i + 1 \in 0 .. Len(s)
      BY <1>1
    <3> QED
      BY <1>7, <3>1 DEF Shows
  <2>2. ASSUME NEW i \in 1 .. Len(r)
        PROVE  /\ gr[i] = gr[i - 1] + r[i].count
               /\ \A x \in gr[i - 1] .. gr[i] - 1 : B[x] = r[i].byte
    <3>1. /\ i + 1 \in 1 .. Len(s) /\ i + 1 - 1 = i /\ i - 1 + 1 = i
          /\ i \in 0 .. Len(r) /\ i - 1 \in 0 .. Len(r)
      BY <1>1
    <3>2. gr[i] = e[i + 1] /\ gr[i - 1] = e[i] /\ r[i] = s[i + 1]
      BY <1>1, <3>1
    <3>3. /\ e[i + 1] = e[i + 1 - 1] + s[i + 1].count
          /\ \A x \in e[i + 1 - 1] .. e[i + 1] - 1 : B[x] = s[i + 1].byte
      BY <3>1 DEF Shows
    <3> HIDE DEF gr
    <3> QED
      BY <3>1, <3>2, <3>3
  <2> QED
    BY <2>1, <2>2 DEF Shows
<1>9. CASE n = h.count
  <2>1. Taken(s, n) = r
    BY <1>9 DEF Taken, h, r
  <2>2. gr[0] = e[0] + n
    BY <1>4, <1>7, <1>9
  <2> HIDE DEF gr
  <2> QED
    BY <1>1, <1>6, <1>7, <1>8, <2>1, <2>2 DEF h
<1>10. CASE n # h.count
  <2> DEFINE m == [h EXCEPT !.count = @ - n]
             one == <<m>>
             ge == [i \in 0 .. 1 |-> IF i = 0 THEN e[0] + n ELSE e[1]]
  <2>1. n \in Nat /\ 0 < n /\ n < h.count
    BY <1>2, <1>10 DEF h
  <2>2. m \in Run /\ m.byte = h.byte /\ m.count = h.count - n
    BY <1>1, <1>2, <2>1 DEF Run
  <2>3. one \in Seq(Run) /\ Len(one) = 1 /\ one[1] = m
    BY <2>2
  <2>4. ge[0] = e[0] + n /\ ge[1] = e[1] /\ ge \in Ends(one)
    BY <1>5, <2>1, <2>3 DEF Ends
  <2> HIDE DEF m, one, ge
  <2>5. Shows(one, B, ge)
    <3>1. \A i \in 0 .. 1 : ge[i] <= ge[1]
      BY <1>4, <1>5, <1>2, <2>1, <2>4
    <3>2. ge[1] = ge[0] + m.count
      BY <1>2, <1>4, <1>5, <2>1, <2>2, <2>4
    <3>3. \A x \in ge[0] .. ge[1] - 1 : B[x] = m.byte
      BY <1>4, <1>5, <2>1, <2>2, <2>4
    <3>4. \A i \in 1 .. Len(one) : i = 1
      BY <2>3
    <3> QED
      BY <2>3, <3>1, <3>2, <3>3, <3>4 DEF Shows
  <2>6. Taken(s, n) = one \o r
    BY <1>10 DEF Taken, h, r, m, one
  <2>7. gr[0] = ge[Len(one)]
    BY <1>7, <2>3, <2>4
  <2>8. one \o r \in Seq(Run)
    BY <1>1, <2>3, Concatenation
  <2> HIDE DEF gr
  <2> HIDE DEF Shows, Ends
  <2>9. \E g \in Ends(one \o r) : /\ Shows(one \o r, B, g)
                                  /\ g[0] = ge[0] /\ g[Len(one \o r)] = gr[Len(r)]
    <3>1. r \in Seq(Run) /\ one \in Seq(Run)
      BY <1>1, <2>3
    <3>2. gr \in Ends(r) /\ ge \in Ends(one)
      BY <1>7, <2>4
    <3> QED
      BY <1>8, <2>5, <2>7, <3>1, <3>2, ShowsConcat
  <2> QED
    BY <1>6, <1>7, <2>4, <2>6, <2>8, <2>9 DEF h
<1> QED
  BY <1>9, <1>10

\* Single runs show the bytes one by one.
LEMMA ShowsBytes ==
    ASSUME NEW bytes \in Seq(Byte), NEW B, NEW first \in Nat,
           \A i \in 1 .. Len(bytes) : B[first + i - 1] = bytes[i]
    PROVE  \E f \in Ends(Runs(bytes)) :
              /\ Shows(Runs(bytes), B, f) /\ f[0] = first
              /\ f[Len(Runs(bytes))] = first + Len(bytes)
<1> DEFINE t == Runs(bytes)
           f == [i \in 0 .. Len(t) |-> first + i]
<1>1. /\ t \in Seq(Run) /\ Len(t) = Len(bytes) /\ Len(t) \in Nat
      /\ \A i \in 1 .. Len(t) : t[i].byte = bytes[i] /\ t[i].count = 1
  <2> HIDE DEF t
  <2>1. /\ t \in Seq(Run) /\ Len(t) = Len(bytes)
        /\ \A i \in 1 .. Len(bytes) : t[i] = RunOf(bytes[i])
    BY RunsOf, Zenon DEF t
  <2> QED
    <3>1. ASSUME NEW i \in 1 .. Len(t)
          PROVE  t[i].byte = bytes[i] /\ t[i].count = 1
      <4>1. t[i] = RunOf(bytes[i])
        BY <2>1
      <4> QED
        BY <4>1 DEF RunOf
    <3>2. Len(t) \in Nat
      BY <2>1
    <3> QED
      BY <2>1, <3>1, <3>2
<1> HIDE DEF t
<1>2. f \in Ends(t) /\ \A i \in 0 .. Len(t) : f[i] = first + i
  BY <1>1 DEF Ends
<1> HIDE DEF f
<1>3. ASSUME NEW i \in 1 .. Len(t)
      PROVE  /\ f[i] = f[i - 1] + t[i].count
             /\ \A x \in f[i - 1] .. f[i] - 1 : B[x] = t[i].byte
  <2>1. i \in 0 .. Len(t) /\ i - 1 \in 0 .. Len(t)
    BY <1>1
  <2>2. f[i] = first + i /\ f[i - 1] = first + i - 1
    BY <1>2, <2>1
  <2>3. f[i] = f[i - 1] + t[i].count
    BY <1>1, <2>2
  <2>4. ASSUME NEW x \in f[i - 1] .. f[i] - 1
        PROVE  B[x] = t[i].byte
    <3>1. x = first + i - 1
      BY <1>1, <2>2
    <3> QED
      BY <1>1, <3>1
  <2> QED
    BY <2>3, <2>4
<1>4. \A i \in 0 .. Len(t) : f[i] <= f[Len(t)]
  BY <1>1, <1>2
<1>5. Shows(t, B, f)
  BY <1>3, <1>4 DEF Shows
<1>6. f[0] = first /\ f[Len(t)] = first + Len(bytes)
  BY <1>1, <1>2
<1> QED
  BY <1>2, <1>5, <1>6 DEF t

LEMMA ShowsPayload ==
    ASSUME NEW n \in Nat, NEW B, NEW first \in Nat,
           \A x \in first .. first + n - 1 : B[x] = PayloadByte
    PROVE  \E f \in Ends(Payload(n)) :
              /\ Shows(Payload(n), B, f) /\ f[0] = first
              /\ f[Len(Payload(n))] = first + n
<1> DEFINE t == Payload(n)
<1>1. CASE n = 0
  <2>1. Len(t) = 0
    <3>1. t = <<>>
      BY <1>1, PayloadRuns, Zenon
    <3> QED
      BY <3>1
  <2> DEFINE f == [i \in 0 .. 0 |-> first]
  <2>2. f \in [0 .. 0 -> Nat] /\ f[0] = first
    OBVIOUS
  <2> HIDE DEF t, f
  <2>3. f \in Ends(t) /\ Shows(t, B, f) /\ f[Len(t)] = first + n
    BY <1>1, <2>1, <2>2 DEF Ends, Shows
  <2> QED
    BY <2>2, <2>3 DEF t
<1>2. CASE n > 0
  <2>1. Len(t) = 1 /\ t[1].byte = PayloadByte /\ t[1].count = n
    <3>1. Len(t) = 1 /\ t[1] = [byte |-> PayloadByte, count |-> n]
      BY <1>2, PayloadRuns, Zenon
    <3> HIDE DEF t
    <3> QED
      BY <3>1
  <2> DEFINE f == [i \in 0 .. 1 |-> IF i = 0 THEN first ELSE first + n]
  <2>2. f \in [0 .. 1 -> Nat] /\ f[0] = first /\ f[1] = first + n
    OBVIOUS
  <2> HIDE DEF t, f
  <2>3. \A i \in 1 .. Len(t) : i = 1
    BY <2>1
  <2>4. f \in Ends(t) /\ Shows(t, B, f) /\ f[Len(t)] = first + n
    BY <2>1, <2>2, <2>3 DEF Ends, Shows
  <2> QED
    BY <2>2, <2>4 DEF t
<1> QED
  BY <1>1, <1>2

-----------------------------------------------------------------------------
(* The inductive invariant.                                                *)

\* What TypeOK needs besides itself: a length field is only decoded when it is
\* complete, and no more is written of a message than it has.
TypeInv ==
    /\ TypeOK
    /\ phase \in {"length", "mask", "payload"} => Len(field) >= 1
    /\ phase = "payload" => Len(field) >= 1 + ExtendedLength(field[1])
    /\ unsent > 0 => Len(sent) >= 1 /\ unsent <= sent[Len(sent)]
    /\ \A k \in 1 .. Len(sent) : sent[k] < kMaximumMessageLength

\* The frame of the k-th message begins at byte start[k] of B: its header, and
\* then its payload, also what is still to be written of it.
Frames(B, start) ==
    /\ start[1] = 0
    /\ \A k \in 1 .. Len(sent) :
          /\ start[k + 1] = start[k] + HeaderLength(sender, sent[k]) + sent[k]
          /\ \A i \in 1 .. HeaderLength(sender, sent[k]) :
                B[start[k] + i - 1] = HeaderOf(sender, sent[k])[i]
          /\ \A i \in 0 .. sent[k] - 1 :
                B[start[k] + HeaderLength(sender, sent[k]) + i] = PayloadByte
    /\ \A k \in 1 .. Len(sent) + 1 : start[k] <= start[Len(sent) + 1]

\* The reader stands at byte at, which is start of its frame and what it has
\* read of this frame.
Stands(start, at) ==
    LET k == Len(received) + 1
        n == sent[k]
        L == LengthField(n)
    IN /\ phase # "error"
       /\ Len(received) <= Len(sent)
       /\ \A j \in 1 .. Len(received) : received[j] = sent[j]
       /\ phase = "header" => need \in {1, 2}
       /\ phase = "header" /\ need = 2 => at = start[k]
       /\ phase # "header" \/ need = 1 => k <= Len(sent)
       /\ phase = "header" /\ need = 1 => at = start[k] + 1
       /\ phase \in {"length", "mask"} => done = 0
       /\ phase = "length" =>
             /\ Len(field) + need = Len(L) /\ need >= 1
             /\ \A i \in 1 .. Len(field) : field[i] = L[i]
             /\ at = start[k] + 1 + Len(field)
       /\ phase = "mask" =>
             /\ sender = "client" /\ field = L /\ need \in 1 .. 4
             /\ at = start[k] + 1 + Len(L) + 4 - need
       /\ phase = "payload" =>
             /\ field = L /\ need >= 1 /\ done + need <= n
             /\ at = start[k] + HeaderLength(sender, n) + done

Starts == [1 .. Len(sent) + 1 -> Nat]

\* The reader is in step with the frames: the stream shows the bytes from where
\* it stands up to what is not yet written.
InStep ==
    \E B \in [Nat -> Byte], start \in Starts, e \in Ends(stream) :
        /\ Frames(B, start)
        /\ Shows(stream, B, e)
        /\ e[Len(stream)] = start[Len(sent) + 1] - unsent
        /\ Stands(start, e[0])

Sendable == \A k \in 1 .. Len(sent) : sent[k] # 65536

AlignInv == Sendable => InStep

FramingInv == TypeInv /\ AlignInv

LEMMA InitFramingInv == Init => FramingInv
<1> SUFFICES ASSUME Init
             PROVE  FramingInv
  OBVIOUS
<1>1. TypeInv
  BY DEF Init, TypeInv, TypeOK, kPayloadBufferLength
<1>2. AlignInv
  <2> DEFINE B == [x \in Nat |-> 0]
             start == [k \in 1 .. 1 |-> 0]
             e == [i \in 0 .. 0 |-> 0]
  <2>1. Len(sent) = 0 /\ Len(stream) = 0 /\ Len(received) = 0 /\ unsent = 0
        /\ phase = "header" /\ need = 2
    BY DEF Init
  <2>2. B \in [Nat -> Byte] /\ start \in [1 .. 1 -> Nat] /\ e \in [0 .. 0 -> Nat]
    BY DEF Byte
  <2>3. start[1] = 0 /\ e[0] = 0
    OBVIOUS
  <2> HIDE DEF B, start, e
  <2>4. start \in Starts /\ e \in Ends(stream)
    BY <2>1, <2>2 DEF Starts, Ends
  <2>5. Frames(B, start)
    BY <2>1, <2>3 DEF Frames
  <2>6. Shows(stream, B, e)
    <3>1. /\ \A i \in 0 .. Len(stream) : i = 0
          /\ \A i \in 1 .. Len(stream) : FALSE
      BY <2>1
    <3> QED
      BY <2>1, <2>3, <3>1 DEF Shows
  <2>7. e[Len(stream)] = start[Len(sent) + 1] - unsent
    BY <2>1, <2>3
  <2>8. Stands(start, e[0])
    BY <2>1, <2>3 DEF Stands
  <2> QED
    BY <2>2, <2>4, <2>5, <2>6, <2>7, <2>8 DEF AlignInv, InStep
<1> QED
  BY <1>1, <1>2 DEF FramingInv

-----------------------------------------------------------------------------
(* Types.                                                                  *)

LEMMA TakenIsStream ==
    ASSUME NEW s \in Seq(Run), s # <<>>, NEW n \in 1 .. Head(s).count
    PROVE  Taken(s, n) \in Seq(Run)
<1>1. Head(s) \in Run /\ Tail(s) \in Seq(Run)
  OBVIOUS
<1>2. CASE n = Head(s).count
  BY <1>1, <1>2 DEF Taken
<1>3. CASE n # Head(s).count
  <2> DEFINE m == [Head(s) EXCEPT !.count = @ - n]
             one == <<m>>
             r == Tail(s)
  <2>1. m \in Run
    BY <1>1, <1>3 DEF Run
  <2>2. one \in Seq(Run) /\ r \in Seq(Run)
    BY <1>1, <2>1
  <2>3. Taken(s, n) = one \o r
    BY <1>3 DEF Taken
  <2> HIDE DEF one, r
  <2>4. one \o r \in Seq(Run)
    BY <2>2, Concatenation
  <2> QED
    BY <2>3, <2>4
<1> QED
  BY <1>2, <1>3

\* What is read next has a well-formed place.
LEMMA GoOnTypes ==
    ASSUME TypeOK, NEW f \in Seq(Byte), Len(f) >= 1, GoOn(f)
    PROVE  /\ phase' \in {"header", "length", "mask", "payload"}
           /\ need' \in 0 .. kPayloadBufferLength
           /\ received' \in Seq(Nat)
           /\ phase' = "payload" => Len(f) >= 1 + ExtendedLength(f[1])
<1>0. Len(f) \in Nat /\ ExtendedLength(f[1]) \in {0, 2, 8}
  BY DEF ExtendedLength
<1>1. CASE Len(f) < 1 + ExtendedLength(f[1])
  <2>1. /\ phase' = "length" /\ received' = received
        /\ need' = 1 + ExtendedLength(f[1]) - Len(f)
    BY <1>1 DEF GoOn
  <2>2. received \in Seq(Nat)
    BY DEF TypeOK
  <2>3. need' \in 0 .. kPayloadBufferLength
    <3> DEFINE x == ExtendedLength(f[1])
    <3>1. x \in {0, 2, 8} /\ need' = 1 + x - Len(f) /\ Len(f) < 1 + x
      BY <1>0, <1>1, <2>1
    <3> DEFINE l == Len(f)
    <3>2. l \in Nat /\ l >= 1 /\ need' = 1 + x - l /\ l < 1 + x
      BY <1>0, <3>1
    <3> HIDE DEF x, l
    <3>3. 1 + x - l \in 0 .. 1024
      BY <3>1, <3>2
    <3> QED
      BY <3>2, <3>3 DEF kPayloadBufferLength
  <2> QED
    BY <2>1, <2>2, <2>3
<1>2. CASE Len(f) >= 1 + ExtendedLength(f[1])
  <2>1. DecodedLength(f) \in Nat
    BY <1>2, DecodedIsNat
  <2>2. DecodedLength(f) > 0 => BlockLength(0, DecodedLength(f)) \in 1 .. kPayloadBufferLength
    BY <2>1, Blocks
  <2>3. ~ Len(f) < 1 + ExtendedLength(f[1])
    BY <1>0, <1>2
  <2>4. \/ phase' = "mask" /\ need' = 4 /\ received' = received
        \/ /\ DecodedLength(f) > 0 /\ phase' = "payload"
           /\ need' = BlockLength(0, DecodedLength(f)) /\ received' = received
        \/ phase' = "header" /\ need' = 2 /\ received' = Append(received, 0)
    BY <2>3 DEF GoOn
  <2>5. received \in Seq(Nat) /\ Append(received, 0) \in Seq(Nat)
    BY DEF TypeOK
  <2>6. /\ 4 \in 0 .. kPayloadBufferLength /\ 2 \in 0 .. kPayloadBufferLength
        /\ \A x \in 1 .. kPayloadBufferLength : x \in 0 .. kPayloadBufferLength
    BY DEF kPayloadBufferLength
  <2>7. CASE phase' = "mask" /\ need' = 4 /\ received' = received
    BY <2>5, <2>6, <2>7
  <2>8. CASE /\ DecodedLength(f) > 0 /\ phase' = "payload"
             /\ need' = BlockLength(0, DecodedLength(f)) /\ received' = received
    BY <1>2, <2>2, <2>5, <2>6, <2>8
  <2>9. CASE phase' = "header" /\ need' = 2 /\ received' = Append(received, 0)
    BY <2>5, <2>6, <2>9
  <2> QED
    BY <2>4, <2>7, <2>8, <2>9
<1> QED
  BY <1>0, <1>1, <1>2

LEMMA TypeStep == TypeInv /\ [Next]_vars => TypeInv'
<1> SUFFICES ASSUME TypeInv, [Next]_vars
             PROVE  TypeInv'
  OBVIOUS
<1>0. /\ sender \in SenderRoles /\ stream \in Seq(Run) /\ sent \in Seq(Lengths)
      /\ unsent \in Nat /\ need \in 0 .. 1024 /\ field \in Seq(Byte)
      /\ done \in Nat /\ received \in Seq(Nat)
      /\ phase \in {"header", "length", "mask", "payload", "error"}
  BY DEF TypeInv, TypeOK, kPayloadBufferLength
<1>a. \A i \in 1 .. Len(sent) : sent[i] \in Lengths /\ sent[i] \in Nat
  <2>1. \A i \in 1 .. Len(sent) : sent[i] \in Lengths
    BY <1>0
  <2> QED
    BY <2>1, FramingAssumption
<1>b. stream # <<>> => /\ Head(stream) \in Run
                       /\ Head(stream).byte \in Byte /\ Head(stream).count \in Nat \ {0}
  <2>1. stream # <<>> => Head(stream) \in Run
    BY <1>0
  <2>2. \A r \in Run : r.byte \in Byte /\ r.count \in Nat \ {0}
    BY DEF Run
  <2> QED
    BY <2>1, <2>2
<1>c. stream # <<>> /\ TakeByte => stream' \in Seq(Run)
  <2> SUFFICES ASSUME stream # <<>>, TakeByte
               PROVE  stream' \in Seq(Run)
    OBVIOUS
  <2>1. stream' = Taken(stream, 1)
    BY <1>b DEF TakeByte, Taken
  <2>2. 1 \in 1 .. Head(stream).count
    BY <1>b
  <2> QED
    BY <1>0, <2>1, <2>2, TakenIsStream
<1>1. ASSUME Send
      PROVE  TypeInv'
  <2>1. PICK n \in Lengths :
          /\ n < kMaximumMessageLength
          /\ sent' = Append(sent, n)
          /\ LET header == Runs(HeaderBytes(n)) IN
             IF n < kShortMessageLength
             THEN /\ stream' = stream \o header \o Payload(n)
                  /\ unsent' = 0
             ELSE /\ stream' = stream \o header
                  /\ unsent' = n
    BY <1>1 DEF Send
  <2>2. n \in Nat
    BY FramingAssumption
  <2>3. /\ sent' \in Seq(Lengths) /\ Len(sent') = Len(sent) + 1
        /\ sent'[Len(sent')] = n
        /\ \A k \in 1 .. Len(sent) : sent'[k] = sent[k]
    BY <1>0, <2>1
  <2>4. unsent' \in Nat /\ (unsent' > 0 => unsent' = n)
    BY <2>1, <2>2
  <2>5. stream' \in Seq(Run)
    <3> DEFINE h == Runs(HeaderBytes(n))
               p == Payload(n)
               front == stream \o h
    <3>1. h \in Seq(Run) /\ p \in Seq(Run)
      BY <2>2, HeaderLayout, RunsOf, PayloadRuns
    <3>2. stream' = front \o p \/ stream' = front
      BY <2>1
    <3> HIDE DEF h, p
    <3>3. front \in Seq(Run)
      BY <1>0, <3>1, Concatenation
    <3> HIDE DEF front
    <3>4. front \o p \in Seq(Run)
      BY <3>1, <3>3, Concatenation
    <3> QED
      BY <3>2, <3>3, <3>4
  <2>6. TypeOK'
    BY <1>0, <1>1, <2>3, <2>4, <2>5 DEF Send, TypeOK, kPayloadBufferLength
  <2>7. \A k \in 1 .. Len(sent') : sent'[k] < kMaximumMessageLength
    BY <1>0, <2>1, <2>3 DEF TypeInv
  <2>8. unsent' > 0 => Len(sent') >= 1 /\ unsent' <= sent'[Len(sent')]
    BY <1>0, <2>2, <2>3, <2>4
  <2> QED
    BY <1>1, <2>6, <2>7, <2>8 DEF TypeInv, Send
<1>2. ASSUME SendBlock
      PROVE  TypeInv'
  <2> DEFINE length == sent[Len(sent)]
             m == BlockLength(length - unsent, length)
  <2>1. /\ unsent > 0 /\ stream' = stream \o Payload(m) /\ unsent' = unsent - m
        /\ UNCHANGED <<sender, sent, phase, need, field, done, received>>
    BY <1>2 DEF SendBlock
  <2>2. Len(sent) >= 1 /\ unsent <= length /\ length \in Nat
    BY <1>0, <1>a, <2>1 DEF TypeInv
  <2>3. m \in 1 .. kPayloadBufferLength /\ m <= unsent
    <3>1. length - unsent \in Nat /\ length - unsent < length
      BY <1>0, <2>1, <2>2
    <3> HIDE DEF length
    <3>2. m \in 1 .. kPayloadBufferLength /\ (length - unsent) + m <= length
      BY <2>2, <3>1, Blocks
    <3> HIDE DEF m
    <3> QED
      BY <1>0, <2>2, <3>2 DEF kPayloadBufferLength
  <2> HIDE DEF m
  <2>4. m \in Nat /\ unsent' \in Nat /\ unsent' <= unsent
    BY <1>0, <2>1, <2>3 DEF kPayloadBufferLength
  <2>5. stream' \in Seq(Run)
    <3> DEFINE p == Payload(m)
    <3>1. p \in Seq(Run)
      BY <2>4, PayloadRuns
    <3> HIDE DEF p
    <3>2. stream \o p \in Seq(Run)
      BY <1>0, <3>1, Concatenation
    <3> QED
      BY <2>1, <3>2 DEF p
  <2>6. TypeOK'
    BY <1>0, <2>1, <2>4, <2>5 DEF TypeOK, kPayloadBufferLength
  <2>7. unsent' > 0 => Len(sent') >= 1 /\ unsent' <= sent'[Len(sent')]
    BY <1>0, <2>1, <2>2, <2>4
  <2> QED
    BY <2>1, <2>6, <2>7 DEF TypeInv
<1>3. ASSUME ReadHeader
      PROVE  TypeInv'
  <2> DEFINE b == Head(stream).byte
  <2>1. /\ stream # <<>> /\ TakeByte /\ done' = 0 /\ UNCHANGED <<sender, sent, unsent>>
    BY <1>3 DEF ReadHeader
  <2>2. b \in Byte
    BY <1>b, <2>1
  <2>3. <<b % 128>> \in Seq(Byte) /\ Len(<<b % 128>>) = 1
    BY <2>2 DEF Byte
  <2>4. \/ /\ phase' \in {"header", "error"} /\ need' = 1 /\ UNCHANGED <<field, received>>
        \/ field' = <<b % 128>> /\ GoOn(<<b % 128>>)
        \/ phase' = "error" /\ UNCHANGED <<need, field, received>>
    BY <1>3 DEF ReadHeader
  <2>5. stream' \in Seq(Run)
    BY <1>c, <2>1
  <2>6. /\ phase' \in {"header", "length", "mask", "payload", "error"}
        /\ need' \in 0 .. 1024 /\ received' \in Seq(Nat) /\ field' \in Seq(Byte)
        /\ phase' \in {"length", "mask", "payload"} => Len(field') >= 1
        /\ phase' = "payload" => Len(field') >= 1 + ExtendedLength(field'[1])
    <3>1. CASE phase' \in {"header", "error"} /\ UNCHANGED <<field, received>> /\ need' \in 0 .. 1024
      BY <1>0, <3>1
    <3>2. CASE field' = <<b % 128>> /\ GoOn(<<b % 128>>)
      <4> DEFINE f == <<b % 128>>
      <4>1. f \in Seq(Byte) /\ Len(f) = 1 /\ field' = f /\ GoOn(f)
        BY <2>3, <3>2
      <4> HIDE DEF f, GoOn
      <4>2. TypeOK
        BY DEF TypeInv
      <4>3. /\ phase' \in {"header", "length", "mask", "payload"}
            /\ need' \in 0 .. kPayloadBufferLength /\ received' \in Seq(Nat)
            /\ phase' = "payload" => Len(f) >= 1 + ExtendedLength(f[1])
        <5>1. Len(f) >= 1
          BY <4>1
        <5> QED
          BY <4>1, <4>2, <5>1, GoOnTypes
      <4>4. 0 .. kPayloadBufferLength = 0 .. 1024
        BY DEF kPayloadBufferLength
      <4>5. Len(f) >= 1
        BY <4>1
      <4>6. need' \in 0 .. 1024 /\ received' \in Seq(Nat)
        BY <4>3, <4>4, Zenon
      <4>7. field' \in Seq(Byte) /\ Len(field') >= 1
        BY <4>1, <4>5, Zenon
      <4>8. phase' = "payload" => Len(field') >= 1 + ExtendedLength(field'[1])
        BY <4>1, <4>3, Zenon
      <4>9. phase' \in {"header", "length", "mask", "payload", "error"}
        BY <4>3
      <4> QED
        BY <4>6, <4>7, <4>8, <4>9, Zenon
    <3>3. \/ phase' \in {"header", "error"} /\ UNCHANGED <<field, received>> /\ need' \in 0 .. 1024
          \/ field' = <<b % 128>> /\ GoOn(<<b % 128>>)
      <4> HIDE DEF GoOn, b
      <4>1. need \in 0 .. 1024 /\ 1 \in 0 .. 1024
        BY <1>0
      <4> QED
        BY <2>4, <4>1
    <3> QED
      BY <3>1, <3>2, <3>3
  <2> HIDE DEF b
  <2> QED
    BY <1>0, <2>1, <2>5, <2>6 DEF TypeInv, TypeOK, kPayloadBufferLength
<1>4. ASSUME ReadLength
      PROVE  TypeInv'
  <2> DEFINE f == Append(field, Head(stream).byte)
  <2>1. /\ phase = "length" /\ stream # <<>> /\ TakeByte /\ field' = f
        /\ UNCHANGED <<sender, sent, unsent, done>>
        /\ \/ need > 1 /\ need' = need - 1 /\ UNCHANGED <<phase, received>>
           \/ GoOn(f)
    BY <1>4 DEF ReadLength
  <2>2. f \in Seq(Byte) /\ Len(f) >= 1
    <3>1. Head(stream).byte \in Byte
      BY <1>b, <2>1
    <3> QED
      BY <1>0, <3>1
  <2> HIDE DEF f
  <2>3. stream' \in Seq(Run)
    BY <1>c, <2>1
  <2>4. /\ phase' \in {"header", "length", "mask", "payload"}
        /\ need' \in 0 .. 1024 /\ received' \in Seq(Nat)
        /\ phase' = "payload" => Len(f) >= 1 + ExtendedLength(f[1])
    <3>1. CASE need > 1 /\ need' = need - 1 /\ UNCHANGED <<phase, received>>
      BY <1>0, <2>1, <3>1
    <3>2. CASE GoOn(f)
      BY <2>2, <3>2, GoOnTypes DEF TypeInv, kPayloadBufferLength
    <3> QED
      BY <2>1, <3>1, <3>2
  <2> QED
    BY <1>0, <2>1, <2>2, <2>3, <2>4 DEF TypeInv, TypeOK, kPayloadBufferLength
<1>5. ASSUME ReadMask
      PROVE  TypeInv'
  <2>1. /\ phase = "mask" /\ stream # <<>> /\ TakeByte
        /\ UNCHANGED <<sender, sent, unsent, field, done>>
        /\ \/ need > 1 /\ need' = need - 1 /\ UNCHANGED <<phase, received>>
           \/ GoOn(field)
    BY <1>5 DEF ReadMask
  <2>2. Len(field) >= 1
    BY <2>1 DEF TypeInv
  <2>3. stream' \in Seq(Run)
    BY <1>c, <2>1
  <2>4. /\ phase' \in {"header", "length", "mask", "payload"}
        /\ need' \in 0 .. 1024 /\ received' \in Seq(Nat)
        /\ phase' = "payload" => Len(field) >= 1 + ExtendedLength(field[1])
    <3>1. CASE need > 1 /\ need' = need - 1 /\ UNCHANGED <<phase, received>>
      BY <1>0, <2>1, <3>1
    <3>2. CASE GoOn(field)
      BY <1>0, <2>2, <3>2, GoOnTypes DEF TypeInv, kPayloadBufferLength
    <3> QED
      BY <2>1, <3>1, <3>2
  <2> QED
    BY <1>0, <2>1, <2>2, <2>3, <2>4 DEF TypeInv, TypeOK, kPayloadBufferLength
<1>6. ASSUME ReadPayload
      PROVE  TypeInv'
  <2> DEFINE length == DecodedLength(field)
  <2>1. PICK n \in Received :
          /\ stream' = IF n = Head(stream).count THEN Tail(stream)
                       ELSE <<[Head(stream) EXCEPT !.count = @ - n]>> \o Tail(stream)
          /\ done' = done + n
          /\ IF n < need
             THEN need' = need - n /\ UNCHANGED <<phase, received>>
             ELSE IF done + n < length
             THEN need' = BlockLength(done + n, length) /\ UNCHANGED <<phase, received>>
             ELSE /\ phase' = "header" /\ need' = 2
                  /\ received' = Append(received, length)
    BY <1>6 DEF ReadPayload
  <2>2. /\ phase = "payload" /\ stream # <<>> /\ UNCHANGED <<sender, sent, unsent, field>>
    BY <1>6 DEF ReadPayload
  <2>3. n \in Nat /\ n <= Head(stream).count
    <3> DEFINE c == Head(stream).count
    <3>1. c \in Nat \ {0}
      BY <1>b, <2>2
    <3>2. n = c \/ (n = need /\ ~ c < need) \/ n = 1
      <4>1. \/ n \in {IF c < need THEN c ELSE need}
            \/ n = 1
        BY <2>1 DEF Received
      <4> HIDE DEF c
      <4> QED
        BY <4>1
    <3>0. need \in Nat
      BY <1>0
    <3> HIDE DEF c
    <3>3. n \in Nat /\ n <= c
      BY <3>0, <3>1, <3>2
    <3> QED
      BY <3>3 DEF c
  <2>4. length \in Nat
    BY <1>0, <2>2, DecodedIsNat DEF TypeInv
  <2>5. stream' \in Seq(Run)
    <3>1. CASE n = 0
      <4> DEFINE m == [Head(stream) EXCEPT !.count = @ - n]
                 one == <<m>>
                 r == Tail(stream)
      <4>1. m \in Run
        BY <1>b, <2>2, <3>1 DEF Run
      <4>2. one \in Seq(Run) /\ r \in Seq(Run)
        BY <1>0, <2>2, <4>1
      <4>3. stream' = one \o r \/ stream' = r
        BY <2>1
      <4> HIDE DEF one, r
      <4>4. one \o r \in Seq(Run)
        BY <4>2, Concatenation
      <4> QED
        BY <4>2, <4>3, <4>4
    <3>2. CASE n # 0
      <4>1. n \in 1 .. Head(stream).count
        BY <1>b, <2>2, <2>3, <3>2
      <4>2. stream' = Taken(stream, n)
        BY <2>1 DEF Taken
      <4> QED
        BY <1>0, <2>2, <4>1, <4>2, TakenIsStream
    <3> QED
      BY <3>1, <3>2
  <2> HIDE DEF length
  <2>6. /\ phase' \in {"header", "payload"} /\ need' \in 0 .. 1024
        /\ received' \in Seq(Nat) /\ done' \in Nat
    <3>1. CASE n < need
      BY <1>0, <2>1, <2>2, <2>3, <3>1
    <3>2. CASE ~ n < need /\ done + n < length
      <4>1. BlockLength(done + n, length) \in 1 .. kPayloadBufferLength
        <5> DEFINE d == done + n
        <5>1. d \in Nat /\ d < length
          BY <1>0, <2>3, <3>2
        <5> HIDE DEF d
        <5>2. BlockLength(d, length) \in 1 .. kPayloadBufferLength
          BY <2>4, <5>1, Blocks
        <5> QED
          BY <5>2 DEF d
      <4> QED
        BY <1>0, <2>1, <2>2, <2>3, <3>2, <4>1 DEF kPayloadBufferLength
    <3>3. CASE ~ n < need /\ ~ done + n < length
      <4>1. /\ phase' = "header" /\ need' = 2 /\ received' = Append(received, length)
            /\ done' = done + n
        BY <2>1, <3>3
      <4>2. Append(received, length) \in Seq(Nat) /\ done + n \in Nat
        BY <1>0, <2>3, <2>4
      <4> QED
        BY <4>1, <4>2
    <3> QED
      BY <3>1, <3>2, <3>3
  <2> QED
    BY <1>0, <2>2, <2>5, <2>6 DEF TypeInv, TypeOK, kPayloadBufferLength
<1>7. ASSUME UNCHANGED vars
      PROVE  TypeInv'
  BY <1>7 DEF TypeInv, TypeOK, vars
<1> QED
  BY <1>1, <1>2, <1>3, <1>4, <1>5, <1>6, <1>7 DEF Next

-----------------------------------------------------------------------------
(* Alignment.                                                              *)

\* The last frame ends where all frames end, and every frame has bytes.
LEMMA FrameEnds ==
    ASSUME TypeInv, NEW B, NEW start \in Starts, Frames(B, start), NEW k \in 1 .. Len(sent)
    PROVE  /\ sent[k] \in Nat /\ HeaderLength(sender, sent[k]) \in Nat /\ HeaderLength(sender, sent[k]) > 1
           /\ start[k] \in Nat /\ start[k + 1] \in Nat /\ start[Len(sent) + 1] \in Nat
           /\ start[k + 1] = start[k] + HeaderLength(sender, sent[k]) + sent[k]
           /\ start[k + 1] <= start[Len(sent) + 1]
<1>1. sent \in Seq(Lengths) /\ Len(sent) \in Nat
  BY DEF TypeInv, TypeOK
<1>2. sent[k] \in Nat
  <2>1. sent[k] \in Lengths
    BY <1>1
  <2> QED
    BY <2>1, FramingAssumption
<1>3. HeaderLength(sender, sent[k]) \in Nat /\ HeaderLength(sender, sent[k]) > 1
  BY <1>2, HeaderLayout
<1>4. k \in 1 .. Len(sent) + 1 /\ k + 1 \in 1 .. Len(sent) + 1 /\ Len(sent) + 1 \in 1 .. Len(sent) + 1
  BY <1>1
<1>5. start[k] \in Nat /\ start[k + 1] \in Nat /\ start[Len(sent) + 1] \in Nat
  BY <1>4 DEF Starts
<1> QED
  BY <1>2, <1>3, <1>4, <1>5 DEF Frames

\* Of the first frame that is not received the header is read up to the bytes in
\* f of its length field, or up to the mask behind it.
HasRead(start, f, at) ==
    LET k == Len(received) + 1
        L == LengthField(sent[k])
    IN /\ k \in 1 .. Len(sent) /\ sent[k] # 65536
       /\ \A j \in 1 .. Len(received) : received[j] = sent[j]
       /\ Len(f) >= 1 /\ Len(f) <= Len(L)
       /\ \A i \in 1 .. Len(f) : f[i] = L[i]
       /\ phase = "mask" => sender = "client" /\ Len(f) = Len(L)
       /\ at = start[k] + 1 + Len(f) + (IF phase = "mask" THEN 4 ELSE 0)

LEMMA GoOnInLength ==
    ASSUME NEW f \in Seq(Byte), NEW l \in Nat, 1 + ExtendedLength(f[1]) = l, Len(f) < l,
           GoOn(f)
    PROVE  phase' = "length" /\ need' = l - Len(f) /\ received' = received
<1>1. Len(f) < 1 + ExtendedLength(f[1])
  BY Zenon
<1>2. /\ phase' = "length" /\ received' = received
      /\ need' = 1 + ExtendedLength(f[1]) - Len(f)
  BY <1>1 DEF GoOn
<1> DEFINE x == ExtendedLength(f[1])
           m == Len(f)
<1>3. x \in Nat /\ m \in Nat /\ 1 + x = l /\ need' = 1 + x - m
  BY <1>2 DEF ExtendedLength
<1> HIDE DEF x, m
<1>4. need' = l - m
  BY <1>3
<1> QED
  BY <1>2, <1>4 DEF m

\* The next part of a frame, once the bytes in f of its length field are read.
LEMMA GoOnStands ==
    ASSUME TypeInv, NEW B, NEW start \in Starts, Frames(B, start),
           NEW f \in Seq(Byte), NEW at, HasRead(start, f, at),
           GoOn(f), field' = f, done' = 0, UNCHANGED <<sender, sent>>
    PROVE  Stands(start, at)'
<1>0. /\ received \in Seq(Nat) /\ Len(received) \in Nat
      /\ sent \in Seq(Lengths) /\ Len(sent) \in Nat
  BY DEF TypeInv, TypeOK
<1>k. PICK k \in 1 .. Len(sent) : k = Len(received) + 1
  BY DEF HasRead
<1>n. PICK n \in Nat : n = sent[k]
  <2>1. sent[k] \in Nat
    BY FrameEnds
  <2> QED
    BY <2>1
<1>f. /\ LengthField(n) \in Seq(Byte) /\ Len(LengthField(n)) \in Nat \ {0}
      /\ Len(LengthField(n)) = 1 + ExtendedLength(LengthField(n)[1])
  BY FieldBytes
<1>L. PICK L \in Seq(Byte) : L = LengthField(n)
  BY <1>f
<1>1. /\ start[k] \in Nat /\ HeaderLength(sender, n) \in Nat
      /\ start[k + 1] = start[k] + HeaderLength(sender, n) + n
  BY <1>n, FrameEnds
<1>2. n < kMaximumMessageLength /\ n # 65536
  BY <1>k, <1>n DEF TypeInv, HasRead
<1>3. /\ Len(L) \in Nat \ {0}
      /\ Len(L) = 1 + ExtendedLength(L[1])
  BY <1>L, <1>f, Zenon
<1>4. HeaderLength(sender, n) = 1 + Len(L) + (IF sender = "client" THEN 4 ELSE 0)
  BY <1>L DEF HeaderLength
<1>5. DecodedLength(L) = n
  BY <1>L, <1>2, LengthIsSmall, LengthRoundTrip
<1>6. /\ Len(f) <= Len(L) /\ \A i \in 1 .. Len(f) : f[i] = L[i]
      /\ phase = "mask" => sender = "client" /\ Len(f) = Len(L)
      /\ at = start[k] + 1 + Len(f) + (IF phase = "mask" THEN 4 ELSE 0)
  BY <1>k, <1>n, <1>L DEF HasRead
<1>7. /\ \A j \in 1 .. Len(received) : received[j] = sent[j]
      /\ Len(f) >= 1
  BY DEF HasRead
<1>8. f[1] = L[1] /\ Len(f) \in Nat
  BY <1>6, <1>7
<1>9. 1 + ExtendedLength(f[1]) = Len(L)
  BY <1>3, <1>8
<1>a. Len(received) + 1 = k /\ sent[k] = n /\ LengthField(n) = L /\ Len(received) <= Len(sent)
  BY <1>0, <1>k, <1>n, <1>L
<1>10. CASE Len(f) < Len(L)
  <2>1. phase' = "length" /\ need' = Len(L) - Len(f) /\ received' = received
    BY <1>3, <1>9, <1>10, GoOnInLength
  <2>2. at = start[k] + 1 + Len(f)
    BY <1>1, <1>3, <1>6, <1>8, <1>10
  <2>3. Len(f) + (Len(L) - Len(f)) = Len(L) /\ Len(L) - Len(f) >= 1
    BY <1>3, <1>8, <1>10
  <2> QED
    BY <1>0, <1>6, <1>7, <1>a, <2>1, <2>2, <2>3 DEF Stands
<1>11. CASE Len(f) = Len(L)
  <2>1. f = L
    BY <1>3, <1>6, <1>11
  <2>2. ~ Len(f) < 1 + ExtendedLength(f[1])
    BY <1>3, <1>8, <1>9, <1>11
  <2>4. CASE sender = "client" /\ phase # "mask"
    <3>1. phase' = "mask" /\ need' = 4 /\ received' = received
      BY <2>2, <2>4 DEF GoOn
    <3>2. at = start[k] + 1 + Len(L) + 4 - 4
      BY <1>1, <1>3, <1>6, <1>11, <2>4
    <3> QED
      BY <1>0, <1>7, <1>a, <2>1, <2>4, <3>1, <3>2 DEF Stands
  <2>5. CASE ~ (sender = "client" /\ phase # "mask")
    <3>1. at = start[k] + HeaderLength(sender, n)
      <4> DEFINE a == start[k]   h == HeaderLength(sender, n)   l == Len(L)
      <4>1. a \in Nat /\ l \in Nat /\ h = 1 + l + (IF sender = "client" THEN 4 ELSE 0)
        BY <1>1, <1>3, <1>4
      <4>2. at = a + 1 + l + (IF phase = "mask" THEN 4 ELSE 0)
        BY <1>6, <1>11
      <4>3. sender = "client" <=> phase = "mask"
        BY <1>6, <2>5
      <4> HIDE DEF a, h, l
      <4>4. at = a + h
        BY <4>1, <4>2, <4>3
      <4> QED
        BY <4>4 DEF a, h
    <3>2. CASE n > 0
      <4>1. /\ phase' = "payload" /\ need' = BlockLength(0, n) /\ received' = received
        BY <1>5, <2>1, <2>2, <2>5, <3>2 DEF GoOn
      <4>2. need' >= 1 /\ 0 + need' <= n
        <5> DEFINE b == BlockLength(0, n)
        <5>1. \A d \in Nat : d < n => /\ BlockLength(d, n) >= 1
                                      /\ d + BlockLength(d, n) <= n
          BY Blocks
        <5>2. b >= 1 /\ 0 + b <= n
          BY <3>2, <5>1
        <5> HIDE DEF b
        <5> QED
          BY <4>1, <5>2 DEF b
      <4>4. at = start[k] + HeaderLength(sender, n) + 0
        BY <1>1, <3>1
      <4> QED
        BY <1>0, <1>7, <1>a, <2>1, <4>1, <4>2, <4>4 DEF Stands
    <3>3. CASE n = 0
      <4>1. phase' = "header" /\ need' = 2 /\ received' = Append(received, 0)
        BY <1>5, <2>1, <2>2, <2>5, <3>3 DEF GoOn
      <4>2. /\ Len(received') = k
            /\ \A j \in 1 .. k : received'[j] = sent[j]
        BY <1>0, <1>7, <1>a, <3>3, <4>1
      <4>3. at = start[k + 1]
        BY <1>1, <3>1, <3>3
      <4> QED
        BY <1>0, <4>1, <4>2, <4>3 DEF Stands
    <3> QED
      BY <1>1, <3>2, <3>3
  <2> QED
    BY <2>4, <2>5
<1> QED
  BY <1>3, <1>6, <1>8, <1>10, <1>11

\* If the reader's place moves on with the n bytes it takes off the stream, then
\* the invariant is kept.
LEMMA ReadStep ==
    ASSUME TypeInv, InStep, stream # <<>>,
           NEW n \in 1 .. Head(stream).count, stream' = Taken(stream, n),
           UNCHANGED <<sender, sent, unsent>>,
           \A B, start, at :
              /\ start \in Starts /\ Frames(B, start) /\ at \in Nat /\ Stands(start, at)
              /\ at < start[Len(sent) + 1] /\ B[at] = Head(stream).byte
              => Stands(start, at + n)'
    PROVE  InStep'
<1>1. PICK B \in [Nat -> Byte], start \in Starts, e \in Ends(stream) :
          /\ Frames(B, start)
          /\ Shows(stream, B, e)
          /\ e[Len(stream)] = start[Len(sent) + 1] - unsent
          /\ Stands(start, e[0])
  BY DEF InStep
<1>2. stream \in Seq(Run) /\ Len(stream) \in Nat /\ unsent \in Nat /\ Len(sent) \in Nat
  BY DEF TypeInv, TypeOK
<1>3. /\ B[e[0]] = Head(stream).byte
      /\ e[0] < e[Len(stream)]
      /\ \E g \in Ends(Taken(stream, n)) :
            /\ Shows(Taken(stream, n), B, g)
            /\ g[0] = e[0] + n
            /\ g[Len(Taken(stream, n))] = e[Len(stream)]
  BY <1>1, <1>2, ShowsTaken
<1>4. PICK g \in Ends(stream') : /\ Shows(stream', B, g)
                                 /\ g[0] = e[0] + n
                                 /\ g[Len(stream')] = e[Len(stream)]
  BY <1>3
<1>5. e[0] \in Nat /\ e[Len(stream)] \in Nat /\ start[Len(sent) + 1] \in Nat
  <2>1. 0 \in 0 .. Len(stream) /\ Len(stream) \in 0 .. Len(stream)
        /\ Len(sent) + 1 \in 1 .. Len(sent) + 1
    BY <1>2
  <2>2. \A i \in 0 .. Len(stream) : e[i] \in Nat
    BY DEF Ends
  <2>3. \A i \in 1 .. Len(sent) + 1 : start[i] \in Nat
    BY DEF Starts
  <2> QED
    BY <2>1, <2>2, <2>3
<1>6. e[0] < start[Len(sent) + 1]
  BY <1>1, <1>2, <1>3, <1>5
<1>7. Stands(start, e[0] + n)'
  BY <1>1, <1>3, <1>5, <1>6
<1>8. Stands(start, g[0])'
  BY <1>4, <1>7
<1>9. start \in Starts'
  BY DEF Starts
<1>10. Frames(B, start)'
  BY <1>1 DEF Frames
<1>11. g[Len(stream')] = start[Len(sent') + 1] - unsent'
  BY <1>1, <1>4
<1> QED
  BY <1>4, <1>8, <1>9, <1>10, <1>11 DEF InStep

\* What is written at the end of the stream is shown if the bytes agree.
HeaderFits(s, B, e, h, end, l) ==
    /\ s \in Seq(Run) /\ e \in Ends(s) /\ Shows(s, B, e)
    /\ end \in Nat /\ e[Len(s)] = end
    /\ h \in Seq(Byte) /\ l = Len(h)
    /\ \A i \in 1 .. l : B[end + i - 1] = h[i]

LEMMA HeaderIsShown ==
    ASSUME NEW s, NEW B, NEW e, NEW h, NEW end, NEW l, HeaderFits(s, B, e, h, end, l)
    PROVE  /\ s \o Runs(h) \in Seq(Run)
           /\ \E g \in Ends(s \o Runs(h)) :
                 /\ Shows(s \o Runs(h), B, g)
                 /\ g[0] = e[0]
                 /\ g[Len(s \o Runs(h))] = end + l
<1>0. s \in Seq(Run) /\ e \in Ends(s) /\ Shows(s, B, e) /\ e[Len(s)] = end
      /\ h \in Seq(Byte) /\ l = Len(h) /\ end \in Nat
  BY DEF HeaderFits
<1>1. PICK t \in Seq(Run) : t = Runs(h)
  <2>1. Runs(h) \in Seq(Run)
    BY <1>0, RunsOf
  <2> QED
    BY <2>1
<1>2. \A i \in 1 .. Len(h) : B[end + i - 1] = h[i]
  BY DEF HeaderFits
<1>3. \E f \in Ends(t) : Shows(t, B, f) /\ f[0] = end /\ f[Len(t)] = end + Len(h)
  <2>1. \E f \in Ends(Runs(h)) :
           /\ Shows(Runs(h), B, f) /\ f[0] = end
           /\ f[Len(Runs(h))] = end + Len(h)
    BY <1>0, <1>2, ShowsBytes, Zenon
  <2> QED
    BY <1>1, <2>1
<1>4. PICK f \in Ends(t) : Shows(t, B, f) /\ f[0] = end /\ f[Len(t)] = end + l
  BY <1>0, <1>3
<1>5. f[0] = e[Len(s)]
  BY <1>0, <1>4
<1>6. \E g \in Ends(s \o t) : Shows(s \o t, B, g) /\ g[0] = e[0] /\ g[Len(s \o t)] = f[Len(t)]
  BY <1>0, <1>4, <1>5, ShowsConcat
<1>7. s \o t \in Seq(Run)
  BY <1>0, Concatenation, Zenon
<1>8. f[Len(t)] = end + l
  BY <1>4
<1>9. \E g \in Ends(s \o t) : Shows(s \o t, B, g) /\ g[0] = e[0] /\ g[Len(s \o t)] = end + l
  BY <1>6, <1>8, Zenon
<1> QED
  BY <1>1, <1>7, <1>9, Zenon

PayloadFits(s, B, e, end, n) ==
    /\ s \in Seq(Run) /\ e \in Ends(s) /\ Shows(s, B, e)
    /\ end \in Nat /\ e[Len(s)] = end /\ n \in Nat
    /\ \A x \in end .. end + n - 1 : B[x] = PayloadByte

LEMMA PayloadIsShown ==
    ASSUME NEW s, NEW B, NEW e, NEW end, NEW n, PayloadFits(s, B, e, end, n)
    PROVE  \E g \in Ends(s \o Payload(n)) :
              /\ Shows(s \o Payload(n), B, g)
              /\ g[0] = e[0]
              /\ g[Len(s \o Payload(n))] = end + n
<1>0. s \in Seq(Run) /\ e \in Ends(s) /\ Shows(s, B, e) /\ e[Len(s)] = end
      /\ n \in Nat /\ end \in Nat
  BY DEF PayloadFits
<1>2. \A x \in end .. end + n - 1 : B[x] = PayloadByte
  BY DEF PayloadFits
<1>1. PICK t \in Seq(Run) : t = Payload(n)
  <2>1. Payload(n) \in Seq(Run)
    BY <1>0, PayloadRuns
  <2> QED
    BY <2>1
<1>3. \E f \in Ends(t) : Shows(t, B, f) /\ f[0] = end /\ f[Len(t)] = end + n
  <2>1. \E f \in Ends(Payload(n)) :
           /\ Shows(Payload(n), B, f) /\ f[0] = end
           /\ f[Len(Payload(n))] = end + n
    BY <1>0, <1>2, ShowsPayload, Zenon
  <2> QED
    BY <1>1, <2>1
<1>4. PICK f \in Ends(t) : Shows(t, B, f) /\ f[0] = end /\ f[Len(t)] = end + n
  BY <1>0, <1>3
<1>5. f[0] = e[Len(s)]
  BY <1>0, <1>4
<1>6. \E g \in Ends(s \o t) : Shows(s \o t, B, g) /\ g[0] = e[0] /\ g[Len(s \o t)] = f[Len(t)]
  BY <1>0, <1>4, <1>5, ShowsConcat
<1>8. f[Len(t)] = end + n
  BY <1>4
<1>9. \E g \in Ends(s \o t) : Shows(s \o t, B, g) /\ g[0] = e[0] /\ g[Len(s \o t)] = end + n
  BY <1>6, <1>8, Zenon
<1> QED
  BY <1>1, <1>9, Zenon

\* C agrees with B up to end, where header h of l bytes and a payload follow.
GoesOn(C, B, end, h, l) ==
    /\ \A x \in Nat : x < end => C[x] = B[x]
    /\ \A i \in 1 .. l : C[end + i - 1] = h[i]
    /\ \A x \in Nat : x >= end + l => C[x] = PayloadByte

\* The bytes up to end can be followed by those of a header and of a payload.
LEMMA BytesGoOn ==
    ASSUME NEW B \in [Nat -> Byte], NEW end \in Nat,
           NEW h \in Seq(Byte), NEW l \in Nat, l = Len(h)
    PROVE  \E B2 \in [Nat -> Byte] : GoesOn(B2, B, end, h, l)
<1> DEFINE C == [x \in Nat |-> IF x < end THEN B[x]
                                ELSE IF x < end + l THEN h[x - end + 1] ELSE PayloadByte]
<1>1. C \in [Nat -> Byte]
  <2>1. ASSUME NEW x \in Nat, ~ x < end, x < end + l
        PROVE  h[x - end + 1] \in Byte
    <3>1. x - end + 1 \in 1 .. Len(h)
      BY <2>1
    <3> QED
      BY <3>1
  <2>2. PayloadByte \in Byte
    BY DEF PayloadByte, Byte
  <2>3. \A x \in Nat : B[x] \in Byte
    OBVIOUS
  <2>4. ASSUME NEW x \in Nat
        PROVE  (IF x < end THEN B[x]
                ELSE IF x < end + l THEN h[x - end + 1] ELSE PayloadByte) \in Byte
    BY <2>1, <2>2, <2>3
  <2> QED
    BY <2>4
<1>2. /\ \A x \in Nat : x < end => C[x] = B[x]
      /\ \A i \in 1 .. l : C[end + i - 1] = h[i]
      /\ \A x \in Nat : x >= end + l => C[x] = PayloadByte
  <2>1. ASSUME NEW i \in 1 .. l
        PROVE  C[end + i - 1] = h[i]
    <3>1. end + i - 1 \in Nat /\ ~ end + i - 1 < end /\ end + i - 1 < end + l
          /\ (end + i - 1) - end + 1 = i
      OBVIOUS
    <3> QED
      BY <3>1
  <2>2. ASSUME NEW x \in Nat, x >= end + l
        PROVE  C[x] = PayloadByte
    <3>1. ~ x < end /\ ~ x < end + l
      BY <2>2
    <3> QED
      BY <3>1
  <2> QED
    BY <2>1, <2>2
<1>3. GoesOn(C, B, end, h, l)
  BY <1>2 DEF GoesOn
<1> QED
  BY <1>1, <1>3

LEMMA SendInStep ==
    ASSUME TypeInv, InStep, Send
    PROVE  InStep'
<1>0. /\ stream \in Seq(Run) /\ sent \in Seq(Lengths) /\ unsent = 0
      /\ Len(stream) \in Nat /\ Len(sent) \in Nat
  BY DEF TypeInv, TypeOK, Send
<1>1. PICK n \in Lengths :
          /\ sent' = Append(sent, n)
          /\ LET header == Runs(HeaderBytes(n)) IN
             IF n < kShortMessageLength
             THEN /\ stream' = stream \o header \o Payload(n)
                  /\ unsent' = 0
             ELSE /\ stream' = stream \o header
                  /\ unsent' = n
  BY DEF Send
<1>2. n \in Nat
  BY FramingAssumption
<1>3. UNCHANGED <<sender, phase, need, field, done, received>>
  BY DEF Send
<1>4. PICK B \in [Nat -> Byte], start \in Starts, e \in Ends(stream) :
          /\ Frames(B, start)
          /\ Shows(stream, B, e)
          /\ e[Len(stream)] = start[Len(sent) + 1] - unsent
          /\ Stands(start, e[0])
  BY DEF InStep
<1>e. PICK end \in Nat : end = start[Len(sent) + 1]
  <2>1. Len(sent) + 1 \in 1 .. Len(sent) + 1
    BY <1>0
  <2>2. start[Len(sent) + 1] \in Nat
    BY <2>1 DEF Starts
  <2> QED
    BY <2>2
<1>h. PICK h \in Seq(Byte) : h = HeaderBytes(n)
  <2>1. HeaderBytes(n) \in Seq(Byte)
    BY <1>2, HeaderLayout
  <2> QED
    BY <2>1
<1>l. PICK l \in Nat : l = HeaderLength(sender, n) /\ l = Len(h)
  <2>1. HeaderLength(sender, n) \in Nat /\ HeaderLength(sender, n) = Len(HeaderBytes(n))
    BY <1>2, HeaderLayout
  <2> QED
    BY <1>h, <2>1
<1>5. e[Len(stream)] = end
  <2>1. e[Len(stream)] = end - 0
    BY <1>0, <1>4, <1>e
  <2> QED
    BY <2>1
<1>g. \E C \in [Nat -> Byte] : GoesOn(C, B, end, h, l)
  BY <1>l, BytesGoOn
<1>b. PICK B2 \in [Nat -> Byte] : GoesOn(B2, B, end, h, l)
  BY <1>g
<1>7. /\ \A x \in Nat : x < end => B2[x] = B[x]
      /\ \A i \in 1 .. l : B2[end + i - 1] = h[i]
      /\ \A x \in Nat : x >= end + l => B2[x] = PayloadByte
  BY <1>b DEF GoesOn
<1>6. B2 \in [Nat -> Byte]
  OBVIOUS
<1> DEFINE start1 == [k \in 1 .. Len(sent) + 2 |->
                         IF k <= Len(sent) + 1 THEN start[k] ELSE end + l + n]
<1>81. /\ start1 \in [1 .. Len(sent) + 2 -> Nat]
      /\ \A k \in 1 .. Len(sent) + 1 : start1[k] = start[k]
      /\ start1[Len(sent) + 2] = end + l + n
  <2>1. \A k \in 1 .. Len(sent) + 1 : start[k] \in Nat
    BY DEF Starts
  <2>2. ASSUME NEW k \in 1 .. Len(sent) + 2
        PROVE  (IF k <= Len(sent) + 1 THEN start[k] ELSE end + l + n) \in Nat
    <3>1. CASE k <= Len(sent) + 1
      BY <1>0, <2>1, <3>1
    <3>2. CASE ~ k <= Len(sent) + 1
      BY <1>2, <3>2
    <3> QED
      BY <3>1, <3>2
  <2>3. start1 \in [1 .. Len(sent) + 2 -> Nat]
    BY <2>2
  <2>4. Len(sent) + 2 \in 1 .. Len(sent) + 2 /\ ~ Len(sent) + 2 <= Len(sent) + 1
        /\ \A k \in 1 .. Len(sent) + 1 : k \in 1 .. Len(sent) + 2 /\ k <= Len(sent) + 1
    BY <1>0
  <2> QED
    BY <2>3, <2>4
<1> HIDE DEF start1
<1>8. PICK start2 \in [1 .. Len(sent) + 2 -> Nat] :
          /\ \A k \in 1 .. Len(sent) + 1 : start2[k] = start[k]
          /\ start2[Len(sent) + 2] = end + l + n
  BY <1>81
<1>9. /\ sent' \in Seq(Lengths) /\ Len(sent') = Len(sent) + 1 /\ sent'[Len(sent) + 1] = n
      /\ \A k \in 1 .. Len(sent) : sent'[k] = sent[k]
  BY <1>0, <1>1
<1>10. start2 \in Starts'
  <2>1. Len(sent') + 1 = Len(sent) + 2
    BY <1>0, <1>9
  <2> QED
    BY <1>8, <2>1 DEF Starts
<1>11. Frames(B2, start2)'
  <2>1. start2[1] = 0
    <3>1. 1 \in 1 .. Len(sent) + 1
      BY <1>0
    <3> QED
      BY <1>4, <1>8, <3>1 DEF Frames
  <2>2. ASSUME NEW k \in 1 .. Len(sent')
        PROVE  /\ start2[k + 1] = start2[k] + HeaderLength(sender, sent'[k]) + sent'[k]
               /\ \A i \in 1 .. HeaderLength(sender, sent'[k]) :
                     B2[start2[k] + i - 1] = HeaderOf(sender, sent'[k])[i]
               /\ \A i \in 0 .. sent'[k] - 1 :
                     B2[start2[k] + HeaderLength(sender, sent'[k]) + i] = PayloadByte
    <3>1. CASE k \in 1 .. Len(sent)
      <4>1. PICK m \in Nat : m = sent[k] /\ m = sent'[k]
        BY <1>4, <1>9, <3>1, FrameEnds
      <4>2. PICK s \in Nat, hl \in Nat : s = start[k] /\ hl = HeaderLength(sender, m)
        BY <1>4, <3>1, <4>1, FrameEnds
      <4>3. /\ start[k + 1] = s + hl + m /\ s + hl + m <= end
        BY <1>4, <1>e, <3>1, <4>1, <4>2, FrameEnds
      <4>4. start2[k] = s /\ start2[k + 1] = s + hl + m
        <5>1. k \in 1 .. Len(sent) + 1 /\ k + 1 \in 1 .. Len(sent) + 1
          BY <1>0, <3>1
        <5> QED
          BY <1>8, <4>2, <4>3, <5>1
      <4>5. /\ \A i \in 1 .. hl : B[s + i - 1] = HeaderOf(sender, m)[i]
            /\ \A i \in 0 .. m - 1 : B[s + hl + i] = PayloadByte
        BY <1>4, <3>1, <4>1, <4>2 DEF Frames
      <4>6. /\ \A i \in 1 .. hl : s + i - 1 \in Nat /\ s + i - 1 < end
            /\ \A i \in 0 .. m - 1 : s + hl + i \in Nat /\ s + hl + i < end
        BY <4>3
      <4>7. /\ \A i \in 1 .. hl : B2[s + i - 1] = HeaderOf(sender, m)[i]
            /\ \A i \in 0 .. m - 1 : B2[s + hl + i] = PayloadByte
        BY <1>7, <4>5, <4>6
      <4> QED
        BY <4>1, <4>2, <4>4, <4>7
    <3>2. CASE k = Len(sent) + 1
      <4>1. start2[k] = end /\ start2[k + 1] = end + l + n
        <5>1. k \in 1 .. Len(sent) + 1 /\ k + 1 = Len(sent) + 2
          BY <1>0, <3>2
        <5> QED
          BY <1>8, <1>e, <3>2, <5>1
      <4>2. sent'[k] = n /\ HeaderLength(sender, sent'[k]) = l /\ HeaderOf(sender, sent'[k]) = h
        BY <1>9, <1>h, <1>l, <3>2, HeaderIsOf
      <4>3. \A i \in 0 .. n - 1 : B2[end + l + i] = PayloadByte
        <5>1. \A i \in 0 .. n - 1 : end + l + i \in Nat /\ end + l + i >= end + l
          BY <1>2
        <5> QED
          BY <1>7, <5>1
      <4> QED
        BY <1>7, <4>1, <4>2, <4>3
    <3> QED
      BY <1>0, <1>9, <3>1, <3>2
  <2>3. ASSUME NEW k \in 1 .. Len(sent') + 1
        PROVE  start2[k] <= start2[Len(sent') + 1]
    <3>1. Len(sent') + 1 = Len(sent) + 2
      BY <1>0, <1>9
    <3>2. CASE k \in 1 .. Len(sent) + 1
      <4>1. start[k] <= end /\ start[k] \in Nat
        BY <1>4, <1>e, <3>2 DEF Frames, Starts
      <4>2. start2[k] = start[k]
        BY <1>8, <3>2
      <4>3. end <= end + l + n
        BY <1>2
      <4> QED
        BY <1>2, <1>8, <3>1, <4>1, <4>2, <4>3
    <3>3. CASE k = Len(sent) + 2
      BY <1>2, <1>8, <3>1, <3>3
    <3> QED
      BY <1>0, <3>1, <3>2, <3>3
  <2>4. sender' = sender
    BY <1>3
  <2> QED
    BY <2>1, <2>2, <2>3, <2>4 DEF Frames
<1>12. Shows(stream, B2, e)
  <2>1. ASSUME NEW i \in 1 .. Len(stream), NEW x \in e[i - 1] .. e[i] - 1
        PROVE  B2[x] = stream[i].byte
    <3>1. i \in 0 .. Len(stream) /\ i - 1 \in 0 .. Len(stream)
      BY <1>0
    <3>2. e[i] \in Nat /\ e[i - 1] \in Nat /\ e[i] <= end
      BY <1>4, <1>5, <3>1 DEF Ends, Shows
    <3>3. x \in Nat /\ x < end
      BY <3>2
    <3>4. B[x] = stream[i].byte
      BY <1>4 DEF Shows
    <3> QED
      BY <1>7, <3>3, <3>4
  <2> QED
    BY <1>4, <2>1 DEF Shows
<1>h1. HeaderFits(stream, B2, e, h, end, l)
  BY <1>0, <1>5, <1>7, <1>12, <1>l DEF HeaderFits
<1>h2. /\ stream \o Runs(h) \in Seq(Run)
       /\ \E g \in Ends(stream \o Runs(h)) :
             /\ Shows(stream \o Runs(h), B2, g)
             /\ g[0] = e[0]
             /\ g[Len(stream \o Runs(h))] = end + l
  BY <1>h1, HeaderIsShown
<1>13. PICK s2 \in Seq(Run) : s2 = stream \o Runs(h)
  BY <1>h2
<1>14. \E g \in Ends(s2) : Shows(s2, B2, g) /\ g[0] = e[0] /\ g[Len(s2)] = end + l
  BY <1>h2, <1>13
<1>15. PICK g \in Ends(s2) : Shows(s2, B2, g) /\ g[0] = e[0] /\ g[Len(s2)] = end + l
  BY <1>14
<1>16. PICK p \in Nat : p = end + l
  OBVIOUS
<1>17. \E g2 \in Ends(stream') :
          /\ Shows(stream', B2, g2)
          /\ g2[0] = e[0]
          /\ g2[Len(stream')] = (p + n) - unsent'
  <2>1. CASE n < kShortMessageLength
    <3>1. stream' = s2 \o Payload(n) /\ unsent' = 0
      BY <1>1, <1>h, <1>13, <2>1
    <3>2. \A x \in p .. p + n - 1 : B2[x] = PayloadByte
      BY <1>2, <1>7, <1>16
    <3>3. g[Len(s2)] = p
      BY <1>15, <1>16
    <3>4. \E g2 \in Ends(s2 \o Payload(n)) :
            /\ Shows(s2 \o Payload(n), B2, g2)
            /\ g2[0] = g[0]
            /\ g2[Len(s2 \o Payload(n))] = p + n
      <4>1. PayloadFits(s2, B2, g, p, n)
        BY <1>2, <1>15, <3>2, <3>3 DEF PayloadFits
      <4> QED
        BY <4>1, PayloadIsShown
    <3>5. p + n = (p + n) - unsent' /\ g[0] = e[0]
      BY <1>2, <1>15, <3>1
    <3> QED
      BY <3>1, <3>4, <3>5
  <2>2. CASE ~ n < kShortMessageLength
    <3>1. stream' = s2 /\ unsent' = n
      BY <1>1, <1>h, <1>13, <2>2
    <3>2. p = (p + n) - unsent'
      BY <1>2, <3>1
    <3> QED
      BY <1>15, <1>16, <3>1, <3>2
  <2> QED
    BY <2>1, <2>2
<1>18. PICK g2 \in Ends(stream') :
          /\ Shows(stream', B2, g2)
          /\ g2[0] = e[0]
          /\ g2[Len(stream')] = (p + n) - unsent'
  BY <1>17
<1>k. PICK k \in Nat : k = Len(received) + 1
  <2>1. Len(received) \in Nat
    BY DEF TypeInv, TypeOK
  <2> QED
    BY <2>1
<1>st. Stands(start, e[0])
  BY <1>4
<1>19. Stands(start2, e[0])'
  <2>1. Len(received) \in Nat /\ Len(received) <= Len(sent)
    BY <1>st DEF TypeInv, TypeOK, Stands
  <2>2. k \in 1 .. Len(sent) + 1 /\ start2[k] = start[k]
    BY <1>0, <1>8, <1>k, <2>1
  <2>3. k \in 1 .. Len(sent) => sent'[k] = sent[k]
    BY <1>9
  <2>4. \A j \in 1 .. Len(received) : sent'[j] = sent[j]
    BY <1>0, <1>9, <2>1
  <2>5. Len(received) <= Len(sent') /\ k \in 1 .. Len(sent) => k <= Len(sent')
    BY <1>0, <1>9, <2>1
  <2>6. \A j \in 1 .. Len(received) : received[j] = sent[j]
    BY <1>st DEF Stands
  <2>7. Len(received) <= Len(sent')
    BY <1>0, <1>9, <2>1
  <2>8. \A j \in 1 .. Len(received) : received[j] = sent'[j]
    BY <2>4, <2>6
  <2>9. CASE phase = "header" /\ need = 2
    <3>1. e[0] = start2[k]
      BY <1>st, <1>k, <2>2, <2>9 DEF Stands
    <3> QED
      BY <1>3, <1>k, <2>7, <2>8, <2>9, <3>1 DEF Stands
  <2>10. CASE ~ (phase = "header" /\ need = 2)
    <3>1. k <= Len(sent)
      <4>1. phase = "header" => need \in {1, 2}
        BY <1>st DEF Stands
      <4>2. phase # "header" \/ need = 1 => Len(received) + 1 <= Len(sent)
        BY <1>st DEF Stands
      <4> QED
        BY <1>k, <2>10, <4>1, <4>2
    <3>2. sent'[k] = sent[k]
      BY <2>2, <2>3, <3>1
    <3>3. k <= Len(sent')
      BY <1>0, <1>9, <3>1
    <3> QED
      BY <1>3, <1>k, <1>st, <2>2, <2>7, <2>8, <2>10, <3>2, <3>3 DEF Stands
  <2> QED
    BY <2>9, <2>10
<1>20. g2[Len(stream')] = start2[Len(sent') + 1] - unsent'
  <2>1. Len(sent') + 1 = Len(sent) + 2
    BY <1>0, <1>9
  <2>2. start2[Len(sent') + 1] = p + n
    BY <1>8, <1>16, <2>1
  <2> QED
    BY <1>18, <2>2
<1>21. Stands(start2, g2[0])'
  <2>1. g2[0] = e[0]
    BY <1>18
  <2>2. Stands(start2, e[0])' = Stands(start2, g2[0])'
    BY <2>1 DEF Stands
  <2> QED
    BY <1>19, <2>2
<1> QED
  BY <1>6, <1>10, <1>11, <1>18, <1>20, <1>21 DEF InStep

LEMMA BlockInStep ==
    ASSUME TypeInv, InStep, SendBlock
    PROVE  InStep'
<1>0. /\ stream \in Seq(Run) /\ sent \in Seq(Lengths) /\ unsent \in Nat /\ unsent > 0
      /\ Len(stream) \in Nat /\ Len(sent) \in Nat
  BY DEF TypeInv, TypeOK, SendBlock
<1>1. PICK k \in 1 .. Len(sent) : k = Len(sent) /\ unsent <= sent[k]
  BY <1>0 DEF TypeInv
<1>2. UNCHANGED <<sender, sent, phase, need, field, done, received>>
  BY DEF SendBlock
<1>3. PICK B \in [Nat -> Byte], start \in Starts, e \in Ends(stream) :
          /\ Frames(B, start)
          /\ Shows(stream, B, e)
          /\ e[Len(stream)] = start[Len(sent) + 1] - unsent
          /\ Stands(start, e[0])
  BY DEF InStep
<1>4. PICK n \in Nat, hl \in Nat, s \in Nat :
          n = sent[k] /\ hl = HeaderLength(sender, n) /\ s = start[k]
  <2>1. sent[k] \in Nat /\ HeaderLength(sender, sent[k]) \in Nat /\ start[k] \in Nat
    BY <1>3, FrameEnds
  <2> QED
    BY <2>1
<1>5. start[Len(sent) + 1] = s + hl + n
  BY <1>1, <1>3, <1>4, FrameEnds
<1>6. \A i \in 0 .. n - 1 : B[s + hl + i] = PayloadByte
  BY <1>3, <1>4 DEF Frames
<1>7. PICK m \in Nat : /\ m <= unsent
                       /\ stream' = stream \o Payload(m)
                       /\ unsent' = unsent - m
  <2>1. n - unsent \in Nat /\ n - unsent < n
    BY <1>0, <1>1, <1>4
  <2>2. PICK m \in Nat : m = BlockLength(n - unsent, n) /\ (n - unsent) + m <= n
    <3>1. BlockLength(n - unsent, n) \in 1 .. kPayloadBufferLength
          /\ (n - unsent) + BlockLength(n - unsent, n) <= n
      BY <2>1, Blocks
    <3>2. \A b \in 1 .. kPayloadBufferLength : b \in Nat
      BY DEF kPayloadBufferLength
    <3> QED
      BY <3>1, <3>2
  <2>3. m <= unsent
    BY <1>0, <2>2
  <2>4. stream' = stream \o Payload(m) /\ unsent' = unsent - m
    BY <1>1, <1>4, <2>2 DEF SendBlock
  <2> QED
    BY <2>3, <2>4
<1>8. PICK end \in Nat : end = (s + hl + n) - unsent /\ end >= s + hl
  BY <1>0, <1>1, <1>4
<1>9. \A x \in end .. end + m - 1 : B[x] = PayloadByte
  <2>1. ASSUME NEW x \in end .. end + m - 1
        PROVE  B[x] = PayloadByte
    <3>1. (x - s) - hl \in 0 .. n - 1 /\ s + hl + ((x - s) - hl) = x
      BY <1>0, <1>7, <1>8
    <3> QED
      BY <1>6, <3>1
  <2> QED
    BY <2>1
<1>10. e[Len(stream)] = end
  BY <1>3, <1>5, <1>8
<1>11. PayloadFits(stream, B, e, end, m)
  BY <1>0, <1>3, <1>9, <1>10 DEF PayloadFits
<1>12. PICK g \in Ends(stream') :
          Shows(stream', B, g) /\ g[0] = e[0] /\ g[Len(stream')] = end + m
  <2>1. \E g \in Ends(stream \o Payload(m)) :
              /\ Shows(stream \o Payload(m), B, g)
              /\ g[0] = e[0]
              /\ g[Len(stream \o Payload(m))] = end + m
    BY <1>11, PayloadIsShown
  <2> QED
    BY <1>7, <2>1
<1>13. g[Len(stream')] = start[Len(sent') + 1] - unsent'
  BY <1>0, <1>2, <1>5, <1>7, <1>8, <1>12
<1>14. start \in Starts'
  BY <1>2 DEF Starts
<1>15. Frames(B, start)'
  BY <1>2, <1>3 DEF Frames
<1>16. Stands(start, e[0])'
  BY <1>2, <1>3 DEF Stands
<1>17. Stands(start, g[0])'
  <2>1. Stands(start, e[0])' = Stands(start, g[0])'
    BY <1>12 DEF Stands
  <2> QED
    BY <1>16, <2>1
<1> QED
  BY <1>12, <1>13, <1>14, <1>15, <1>17 DEF InStep

\* What the bytes of the k-th frame's header are.
LEMMA HeaderShown ==
    ASSUME TypeInv, NEW B, NEW start \in Starts, Frames(B, start), NEW k \in 1 .. Len(sent)
    PROVE  /\ B[start[k]] = FirstByte
           /\ B[start[k] + 1] = MaskFlag + LengthField(sent[k])[1]
           /\ \A i \in 2 .. Len(LengthField(sent[k])) :
                 B[start[k] + i] = LengthField(sent[k])[i]
<1>1. PICK n \in Nat, s \in Nat : n = sent[k] /\ s = start[k]
  <2>1. sent[k] \in Nat /\ start[k] \in Nat
    BY FrameEnds
  <2> QED
    BY <2>1
<1>2. PICK h : h = HeaderOf(sender, n)
  OBVIOUS
<1>3. PICK L : L = LengthField(n)
  OBVIOUS
<1>4. /\ HeaderLength(sender, n) \in Nat /\ HeaderLength(sender, n) > 1
      /\ h[1] = FirstByte /\ h[2] = MaskFlag + L[1]
      /\ \A i \in 2 .. Len(L) : h[1 + i] = L[i]
  BY <1>2, <1>3, HeaderIsOf, HeaderLayout
<1>5. Len(L) \in Nat /\ HeaderLength(sender, n) >= 1 + Len(L)
  <2>1. Len(L) \in Nat
    BY <1>3, FieldBytes
  <2> QED
    BY <1>3, <2>1 DEF HeaderLength
<1>6. \A i \in 1 .. HeaderLength(sender, n) : B[s + i - 1] = h[i]
  BY <1>1, <1>2 DEF Frames
<1>7. B[s] = h[1] /\ B[s + 1] = h[2]
  <2>1. /\ 1 \in 1 .. HeaderLength(sender, n) /\ 2 \in 1 .. HeaderLength(sender, n)
        /\ s + 1 - 1 = s /\ s + 2 - 1 = s + 1
    BY <1>4
  <2> QED
    BY <1>6, <2>1
<1>8. ASSUME NEW i \in 2 .. Len(L)
      PROVE  B[s + i] = L[i]
  <2>1. 1 + i \in 1 .. HeaderLength(sender, n) /\ s + (1 + i) - 1 = s + i
    BY <1>4, <1>5
  <2> QED
    BY <1>4, <1>6, <2>1
<1> QED
  BY <1>1, <1>3, <1>4, <1>7, <1>8

LEMMA TakesOne ==
    ASSUME TypeInv, stream # <<>>, TakeByte
    PROVE  /\ 1 \in 1 .. Head(stream).count /\ stream' = Taken(stream, 1)
           /\ Head(stream).byte \in Byte
<1>1. Head(stream) \in Run
  BY DEF TypeInv, TypeOK
<1>2. Head(stream).count \in Nat \ {0} /\ Head(stream).byte \in Byte
  BY <1>1 DEF Run
<1>3. stream' = Taken(stream, 1)
  BY DEF TakeByte, Taken
<1> QED
  BY <1>2, <1>3

LEMMA ReadHeaderInStep ==
    ASSUME TypeInv, InStep, Sendable, ReadHeader
    PROVE  InStep'
<1> DEFINE b == Head(stream).byte
<1>1. /\ phase = "header" /\ stream # <<>> /\ TakeByte
      /\ done' = 0 /\ UNCHANGED <<sender, sent, unsent>>
  BY DEF ReadHeader
<1>2. /\ Len(received) \in Nat /\ Len(sent) \in Nat
  BY DEF TypeInv, TypeOK
<1>3. 1 \in 1 .. Head(stream).count /\ stream' = Taken(stream, 1) /\ b \in Byte
  BY <1>1, TakesOne
<1>4. /\ need = 2 => /\ phase' = IF b % 16 \in {0, 1, 2, 8, 9, 10} THEN "header" ELSE "error"
                     /\ need' = 1 /\ received' = received
      /\ need = 1 /\ b \div 128 = MaskFlag \div 128 =>
            field' = <<b % 128>> /\ GoOn(<<b % 128>>)
  BY DEF ReadHeader
<1> HIDE DEF b
<1>5. ASSUME NEW B, NEW start, NEW at,
             start \in Starts, Frames(B, start), at \in Nat, Stands(start, at),
             at < start[Len(sent) + 1], B[at] = b
      PROVE  Stands(start, at + 1)'
  <2>k. PICK k \in Nat : k = Len(received) + 1
    BY <1>2
  <2>0. /\ need \in {1, 2} /\ Len(received) <= Len(sent)
        /\ \A j \in 1 .. Len(received) : received[j] = sent[j]
        /\ need = 2 => at = start[k]
        /\ need = 1 => k <= Len(sent) /\ at = start[k] + 1
    BY <1>1, <1>5, <2>k DEF Stands
  <2>1. k \in 1 .. Len(sent)
    <3>1. CASE need = 2
      <4>1. k # Len(sent) + 1
        <5>1. start[Len(sent) + 1] \in Nat
          <6>1. Len(sent) + 1 \in 1 .. Len(sent) + 1
            BY <1>2
          <6> QED
            BY <1>5, <6>1 DEF Starts
        <5>2. k = Len(sent) + 1 => at = start[Len(sent) + 1]
          BY <2>0, <3>1
        <5> QED
          BY <1>5, <5>1, <5>2
      <4> QED
        BY <1>2, <2>0, <2>k, <4>1
    <3>2. CASE need = 1
      BY <1>2, <2>0, <2>k, <3>2
    <3> QED
      BY <2>0, <3>1, <3>2
  <2>2. PICK L : L = LengthField(sent[k])
    OBVIOUS
  <2>3. /\ sent[k] \in Nat /\ sent[k] # 65536 /\ start[k] \in Nat
        /\ B[start[k]] = FirstByte /\ B[start[k] + 1] = MaskFlag + L[1]
    BY <1>5, <2>1, <2>2, FrameEnds, HeaderShown DEF Sendable
  <2>4. Len(L) \in Nat \ {0} /\ L[1] \in 0 .. 127
    <3>1. PICK n \in Nat : n = sent[k]
      BY <2>3
    <3>2. Len(LengthField(n)) \in Nat \ {0} /\ LengthField(n)[1] \in 0 .. 127
      BY FieldBytes
    <3> QED
      BY <2>2, <3>1, <3>2, Zenon
  <2>5. CASE need = 2
    <3>1. b = 130
      BY <1>5, <2>0, <2>3, <2>5 DEF FirstByte
    <3>2. 130 % 16 = 2
      OBVIOUS
    <3>3. phase' = "header" /\ need' = 1 /\ received' = received
      BY <1>4, <2>5, <3>1, <3>2
    <3>4. at + 1 = start[k] + 1
      BY <2>0, <2>5
    <3> QED
      BY <1>1, <2>0, <2>1, <2>k, <3>3, <3>4 DEF Stands
  <2>6. CASE need = 1
    <3>1. b = MaskFlag + L[1]
      BY <1>5, <2>0, <2>3, <2>6
    <3>2. MaskFlag \in {0, 128}
      BY DEF MaskFlag
    <3>3. b \div 128 = MaskFlag \div 128 /\ b % 128 = L[1]
      <4> DEFINE x == L[1]
      <4>1. x \in 0 .. 127
        BY <2>4
      <4> HIDE DEF x
      <4>2. (0 + x) \div 128 = 0 /\ (0 + x) % 128 = x
        BY <4>1
      <4>3. (128 + x) \div 128 = 1 /\ (128 + x) % 128 = x
        BY <4>1
      <4>4. 0 \div 128 = 0 /\ 128 \div 128 = 1
        OBVIOUS
      <4>5. b = MaskFlag + x
        BY <3>1 DEF x
      <4>6. b \div 128 = MaskFlag \div 128 /\ b % 128 = x
        BY <3>2, <4>2, <4>3, <4>4, <4>5
      <4> QED
        BY <4>6 DEF x
    <3>4. PICK f \in Seq(Byte) : f = <<b % 128>> /\ Len(f) = 1 /\ f[1] = L[1]
      <4>1. PICK x \in Byte : x = L[1] /\ x = b % 128
        <5>1. \A x \in 0 .. 127 : x \in Byte
          BY DEF Byte
        <5> QED
          BY <2>4, <3>3, <5>1
      <4>2. <<x>> \in Seq(Byte) /\ Len(<<x>>) = 1 /\ <<x>>[1] = x
        OBVIOUS
      <4> QED
        BY <4>1, <4>2
    <3>5. field' = f /\ GoOn(f)
      BY <1>4, <2>6, <3>3, <3>4
    <3>6. HasRead(start, f, at + 1)
      <4>1. at + 1 = start[k] + 1 + Len(f)
        BY <2>0, <2>3, <2>6, <3>4
      <4>2. Len(f) >= 1 /\ Len(f) <= Len(L) /\ \A i \in 1 .. Len(f) : f[i] = L[i]
        BY <2>4, <3>4
      <4>3. phase # "mask"
        BY <1>1
      <4>4. at + 1 = start[k] + 1 + Len(f) + 0
        BY <2>3, <3>4, <4>1
      <4> QED
        BY <2>0, <2>1, <2>2, <2>3, <2>k, <4>2, <4>3, <4>4 DEF HasRead
    <3> QED
      BY <1>1, <1>5, <3>5, <3>6, GoOnStands
  <2> QED
    BY <2>0, <2>5, <2>6
<1> QED
  BY <1>1, <1>3, <1>5, ReadStep DEF b

LEMMA ReadLengthInStep ==
    ASSUME TypeInv, InStep, Sendable, ReadLength
    PROVE  InStep'
<1>b. PICK b \in Byte : /\ b = Head(stream).byte
                        /\ 1 \in 1 .. Head(stream).count /\ stream' = Taken(stream, 1)
  <2>1. stream # <<>> /\ TakeByte
    BY DEF ReadLength
  <2> QED
    BY <2>1, TakesOne
<1>f. PICK f \in Seq(Byte) :
          /\ f = Append(field, b) /\ Len(f) = Len(field) + 1
          /\ f[Len(field) + 1] = b /\ \A i \in 1 .. Len(field) : f[i] = field[i]
  <2>1. field \in Seq(Byte)
    BY DEF TypeInv, TypeOK
  <2>2. PICK g \in Seq(Byte) : g = field
    BY <2>1
  <2>3. /\ Append(g, b) \in Seq(Byte) /\ Len(Append(g, b)) = Len(g) + 1
        /\ Append(g, b)[Len(g) + 1] = b
        /\ \A i \in 1 .. Len(g) : Append(g, b)[i] = g[i]
    OBVIOUS
  <2>4. PICK f \in Seq(Byte) : f = Append(g, b)
    BY <2>3
  <2>5. /\ Len(f) = Len(g) + 1 /\ f[Len(g) + 1] = b
        /\ \A i \in 1 .. Len(g) : f[i] = g[i]
    BY <2>3, <2>4
  <2> QED
    BY <2>2, <2>4, <2>5
<1>1. /\ phase = "length" /\ stream # <<>> /\ field' = f
      /\ done' = done /\ UNCHANGED <<sender, sent, unsent>>
      /\ need > 1 => need' = need - 1 /\ phase' = phase /\ received' = received
      /\ ~ need > 1 => GoOn(f)
  BY <1>b, <1>f DEF ReadLength
<1>2. /\ Len(received) \in Nat /\ Len(sent) \in Nat /\ need \in Nat
      /\ Len(field) \in Nat /\ Len(field) >= 1
  BY <1>1 DEF TypeInv, TypeOK
<1>5. ASSUME NEW B, NEW start, NEW at,
             start \in Starts, Frames(B, start), at \in Nat, Stands(start, at),
             at < start[Len(sent) + 1], B[at] = Head(stream).byte
      PROVE  Stands(start, at + 1)'
  <2>k. PICK k \in Nat : k = Len(received) + 1
    BY <1>2
  <2>2. PICK L : L = LengthField(sent[k])
    OBVIOUS
  <2>0. /\ k \in 1 .. Len(sent) /\ Len(received) <= Len(sent)
        /\ \A j \in 1 .. Len(received) : received[j] = sent[j]
        /\ done = 0 /\ need >= 1 /\ Len(field) + need = Len(L)
        /\ \A i \in 1 .. Len(field) : field[i] = L[i]
        /\ at = start[k] + 1 + Len(field)
    BY <1>1, <1>2, <1>5, <2>k, <2>2 DEF Stands
  <2>3. /\ sent[k] # 65536 /\ start[k] \in Nat
        /\ \A i \in 2 .. Len(L) : B[start[k] + i] = L[i]
    <3>1. sent[k] # 65536 /\ start[k] \in Nat
      BY <1>5, <2>0, FrameEnds DEF Sendable
    <3>2. \A i \in 2 .. Len(L) : B[start[k] + i] = L[i]
      BY <1>5, <2>0, <2>2, HeaderShown
    <3> QED
      BY <3>1, <3>2
  <2>4. b = L[Len(field) + 1]
    <3>1. Len(field) + 1 \in 2 .. Len(L) /\ at = start[k] + (Len(field) + 1)
      <4>1. PICK s \in Nat, l \in Nat : s = start[k] /\ l = Len(field)
        BY <1>2, <2>3
      <4>2. /\ at = s + 1 + l /\ l + need = Len(L)
            /\ l >= 1 /\ need >= 1 /\ need \in Nat
        BY <1>2, <2>0, <4>1, Zenon
      <4>3. l + need \in Nat /\ l + 1 \in 2 .. l + need /\ s + 1 + l = s + (l + 1)
        BY <4>2
      <4> QED
        BY <4>1, <4>2, <4>3, Zenon
    <3> QED
      BY <1>5, <1>b, <2>3, <3>1
  <2>5. /\ Len(f) >= 1 /\ Len(f) <= Len(L) /\ Len(f) \in Nat
        /\ \A i \in 1 .. Len(f) : f[i] = L[i]
    <3>1. \A i \in 1 .. Len(f) : i \in 1 .. Len(field) \/ i = Len(field) + 1
      BY <1>2, <1>f
    <3>2. \A i \in 1 .. Len(f) : f[i] = L[i]
      BY <1>f, <2>0, <2>4, <3>1
    <3>3. Len(f) >= 1 /\ Len(f) <= Len(L) /\ Len(f) \in Nat
      BY <1>2, <1>f, <2>0
    <3> QED
      BY <3>2, <3>3
  <2>6. at + 1 = start[k] + 1 + Len(f)
    <3>1. PICK s \in Nat, l \in Nat : s = start[k] /\ l = Len(field)
      BY <1>2, <2>3
    <3>2. at = s + 1 + l /\ Len(f) = l + 1
      BY <1>f, <2>0, <3>1, Zenon
    <3>3. at + 1 = s + 1 + (l + 1)
      <4>1. at = s + 1 + l
        BY <3>2, Zenon
      <4> QED
        BY <1>5, <4>1
    <3> QED
      BY <3>1, <3>2, <3>3, Zenon
  <2>7. CASE need > 1
    <3>1. need' = need - 1 /\ phase' = "length" /\ received' = received
      BY <1>1, <2>7
    <3>2. Len(f) + (need - 1) = Len(L) /\ need - 1 >= 1
      BY <1>2, <1>f, <2>0, <2>7
    <3> QED
      BY <1>1, <2>0, <2>2, <2>5, <2>6, <2>k, <3>1, <3>2 DEF Stands
  <2>8. CASE ~ need > 1
    <3>1. GoOn(f) /\ done' = 0
      BY <1>1, <2>0, <2>8
    <3>2. HasRead(start, f, at + 1)
      <4>1. phase # "mask" /\ at + 1 = start[k] + 1 + Len(f) + 0
        BY <1>1, <2>3, <2>5, <2>6
      <4> QED
        BY <2>0, <2>2, <2>3, <2>5, <2>k, <4>1 DEF HasRead
    <3> QED
      BY <1>1, <1>5, <3>1, <3>2, GoOnStands
  <2> QED
    BY <2>7, <2>8
<1> QED
  BY <1>1, <1>b, <1>5, ReadStep

LEMMA ReadMaskInStep ==
    ASSUME TypeInv, InStep, Sendable, ReadMask
    PROVE  InStep'
<1>b. 1 \in 1 .. Head(stream).count /\ stream' = Taken(stream, 1)
  <2>1. stream # <<>> /\ TakeByte
    BY DEF ReadMask
  <2> QED
    BY <2>1, TakesOne
<1>1. /\ phase = "mask" /\ stream # <<>> /\ field' = field
      /\ done' = done /\ UNCHANGED <<sender, sent, unsent>>
      /\ need > 1 => need' = need - 1 /\ phase' = phase /\ received' = received
      /\ ~ need > 1 => GoOn(field)
  BY DEF ReadMask
<1>2. /\ Len(received) \in Nat /\ Len(sent) \in Nat /\ need \in Nat
      /\ field \in Seq(Byte) /\ Len(field) \in Nat /\ Len(field) >= 1
  BY <1>1 DEF TypeInv, TypeOK
<1>5. ASSUME NEW B, NEW start, NEW at,
             start \in Starts, Frames(B, start), at \in Nat, Stands(start, at),
             at < start[Len(sent) + 1], B[at] = Head(stream).byte
      PROVE  Stands(start, at + 1)'
  <2>k. PICK k \in Nat : k = Len(received) + 1
    BY <1>2
  <2>2. PICK L : L = LengthField(sent[k])
    OBVIOUS
  <2>0. /\ k \in 1 .. Len(sent) /\ Len(received) <= Len(sent)
        /\ \A j \in 1 .. Len(received) : received[j] = sent[j]
        /\ done = 0 /\ need \in 1 .. 4 /\ sender = "client" /\ field = L
        /\ at = start[k] + 1 + Len(L) + 4 - need
    BY <1>1, <1>2, <1>5, <2>k, <2>2 DEF Stands
  <2>3. sent[k] # 65536 /\ start[k] \in Nat
    BY <1>5, <2>0, FrameEnds DEF Sendable
  <2>7. CASE need > 1
    <3>1. need' = need - 1 /\ phase' = "mask" /\ received' = received
      BY <1>1, <2>7
    <3>2. at + 1 = start[k] + 1 + Len(L) + 4 - (need - 1) /\ need - 1 \in 1 .. 4
      BY <1>2, <2>0, <2>3, <2>7
    <3> QED
      BY <1>1, <2>0, <2>2, <2>k, <3>1, <3>2 DEF Stands
  <2>8. CASE ~ need > 1
    <3>1. GoOn(field) /\ done' = 0
      BY <1>1, <2>0, <2>8
    <3>2. HasRead(start, field, at + 1)
      <4>1. at + 1 = start[k] + 1 + Len(field) + 4
        BY <1>2, <2>0, <2>3, <2>8
      <4> QED
        BY <1>1, <1>2, <2>0, <2>2, <2>3, <2>k, <4>1 DEF HasRead
    <3> QED
      BY <1>1, <1>2, <1>5, <3>1, <3>2, GoOnStands
  <2> QED
    BY <2>7, <2>8
<1> QED
  BY <1>1, <1>b, <1>5, ReadStep

LEMMA ReadPayloadInStep ==
    ASSUME TypeInv, InStep, Sendable, ReadPayload
    PROVE  InStep'
<1>c. PICK c \in Nat : c >= 1 /\ c = Head(stream).count
  <2>1. Head(stream) \in Run
    BY DEF ReadPayload, TypeInv, TypeOK
  <2> QED
    BY <2>1 DEF Run
<1>1. /\ phase = "payload" /\ stream # <<>> /\ field' = field
      /\ UNCHANGED <<sender, sent, unsent>>
  BY DEF ReadPayload
<1>2. /\ Len(received) \in Nat /\ received \in Seq(Nat) /\ Len(sent) \in Nat
      /\ need \in Nat /\ done \in Nat
  BY DEF TypeInv, TypeOK
<1>3. PICK k \in 1 .. Len(sent), n \in Nat :
          /\ k = Len(received) + 1 /\ n = sent[k]
          /\ need >= 1 /\ done + need <= n /\ DecodedLength(field) = n
  <2>1. PICK B \in [Nat -> Byte], start \in Starts, e \in Ends(stream) :
            Frames(B, start) /\ Stands(start, e[0])
    BY DEF InStep
  <2>2. PICK k \in 1 .. Len(sent) : k = Len(received) + 1
    BY <1>1, <1>2, <2>1 DEF Stands
  <2>3. PICK n \in Nat : n = sent[k]
    <3>1. sent[k] \in Nat
      BY <2>1, FrameEnds
    <3> QED
      BY <3>1
  <2>4. need >= 1 /\ done + need <= n /\ field = LengthField(n)
    BY <1>1, <2>1, <2>2, <2>3 DEF Stands
  <2>5. n < kMaximumMessageLength /\ n # 65536
    BY <2>2, <2>3 DEF TypeInv, Sendable
  <2>6. DecodedLength(LengthField(n)) = n
    BY <2>5, LengthIsSmall, LengthRoundTrip
  <2> QED
    BY <2>2, <2>3, <2>4, <2>6
<1>4. PICK m \in 1 .. c :
          /\ m <= need /\ stream' = Taken(stream, m) /\ done' = done + m
          /\ m < need => need' = need - m /\ phase' = phase /\ received' = received
          /\ ~ m < need /\ done + m < n =>
                need' = BlockLength(done + m, n) /\ phase' = phase /\ received' = received
          /\ ~ m < need /\ ~ done + m < n =>
                phase' = "header" /\ need' = 2 /\ received' = Append(received, n)
  <2>1. PICK m \in Received :
          /\ stream' = IF m = Head(stream).count THEN Tail(stream)
                       ELSE <<[Head(stream) EXCEPT !.count = @ - m]>> \o Tail(stream)
          /\ done' = done + m
          /\ IF m < need
             THEN need' = need - m /\ UNCHANGED <<phase, received>>
             ELSE IF done + m < n
             THEN need' = BlockLength(done + m, n) /\ UNCHANGED <<phase, received>>
             ELSE /\ phase' = "header" /\ need' = 2
                  /\ received' = Append(received, n)
    BY <1>3 DEF ReadPayload
  <2>2. m \in 1 .. c /\ m <= need
    <3>1. \/ m \in {IF c < need THEN c ELSE need}
          \/ m = 1
      BY <1>c, <2>1 DEF Received
    <3> QED
      BY <1>2, <1>3, <1>c, <3>1
  <2>3. stream' = Taken(stream, m)
    BY <2>1 DEF Taken
  <2> QED
    BY <2>1, <2>2, <2>3
<1>5. ASSUME NEW B, NEW start, NEW at,
             start \in Starts, Frames(B, start), at \in Nat, Stands(start, at),
             at < start[Len(sent) + 1], B[at] = Head(stream).byte
      PROVE  Stands(start, at + m)'
  <2>0. /\ Len(received) <= Len(sent)
        /\ \A j \in 1 .. Len(received) : received[j] = sent[j]
        /\ field = LengthField(n)
        /\ at = start[k] + HeaderLength(sender, n) + done
    BY <1>1, <1>3, <1>5 DEF Stands
  <2>1. PICK s \in Nat, hl \in Nat : s = start[k] /\ hl = HeaderLength(sender, n)
    <3>1. start[k] \in Nat /\ HeaderLength(sender, n) \in Nat
      BY <1>3, <1>5, FrameEnds
    <3> QED
      BY <3>1
  <2>2. start[k + 1] = s + hl + n
    BY <1>3, <1>5, <2>1, FrameEnds
  <2>3. at + m = s + hl + (done + m)
    BY <1>2, <1>4, <2>0, <2>1
  <2>4. Len(received) + 1 = k /\ sent[k] = n /\ k <= Len(sent)
    BY <1>3
  <2>5. CASE m < need
    <3>1. need' = need - m /\ phase' = "payload" /\ received' = received
      BY <1>1, <1>4, <2>5
    <3>2. need - m >= 1 /\ (done + m) + (need - m) <= n
      BY <1>2, <1>3, <1>4, <2>5
    <3> QED
      BY <1>1, <1>4, <2>0, <2>1, <2>3, <2>4, <3>1, <3>2 DEF Stands
  <2>6. CASE ~ m < need /\ done + m < n
    <3>1. need' = BlockLength(done + m, n) /\ phase' = "payload" /\ received' = received
      BY <1>1, <1>4, <2>6
    <3>2. PICK d \in Nat : d = done + m
      BY <1>2, <1>4
    <3>3. BlockLength(d, n) >= 1 /\ d + BlockLength(d, n) <= n
      BY <2>6, <3>2, Blocks
    <3>4. need' >= 1 /\ done' + need' <= n /\ at + m = s + hl + done'
      BY <1>4, <2>3, <3>1, <3>2, <3>3
    <3> QED
      BY <1>1, <2>0, <2>1, <2>4, <3>1, <3>4 DEF Stands
  <2>7. CASE ~ m < need /\ ~ done + m < n
    <3>1. phase' = "header" /\ need' = 2 /\ received' = Append(received, n)
      BY <1>4, <2>7
    <3>2. done + m = n
      <4>1. m <= need /\ done + need <= n
        BY <1>3, <1>4, Zenon
      <4>2. m \in Nat
        OBVIOUS
      <4>3. m = need
        BY <1>2, <2>7, <4>1, <4>2
      <4> QED
        BY <1>2, <2>7, <4>1, <4>2, <4>3
    <3>3. at + m = start[k + 1]
      BY <2>2, <2>3, <3>2
    <3>4. Len(received') = k /\ \A j \in 1 .. k : received'[j] = sent[j]
      BY <1>2, <1>3, <2>0, <3>1
    <3> QED
      BY <1>1, <2>4, <3>1, <3>3, <3>4 DEF Stands
  <2> QED
    BY <2>5, <2>6, <2>7
<1>6. m \in 1 .. Head(stream).count
  BY <1>c, <1>4
<1> QED
  BY <1>1, <1>4, <1>5, <1>6, ReadStep

\* Every step keeps the reader in step, as long as no message has 65536 bytes.
LEMMA AlignStep == TypeInv /\ AlignInv /\ [Next]_vars => AlignInv'
<1> SUFFICES ASSUME TypeInv, AlignInv, [Next]_vars, Sendable'
             PROVE  InStep'
  BY DEF AlignInv
<1>1. Sendable
  <2>1. sent \in Seq(Lengths) /\ Len(sent) \in Nat
    BY DEF TypeInv, TypeOK
  <2>2. sent' = sent \/ \E n \in Lengths : sent' = Append(sent, n)
    BY DEF Next, Send, SendBlock, ReadHeader, ReadLength, ReadMask, ReadPayload, vars
  <2>3. \A k \in 1 .. Len(sent) : k \in 1 .. Len(sent') /\ sent'[k] = sent[k]
    BY <2>1, <2>2
  <2> QED
    BY <2>3 DEF Sendable
<1>2. InStep
  BY <1>1 DEF AlignInv
<1>3. CASE Send
  BY <1>2, <1>3, SendInStep
<1>4. CASE SendBlock
  BY <1>2, <1>4, BlockInStep
<1>5. CASE ReadHeader
  BY <1>1, <1>2, <1>5, ReadHeaderInStep
<1>6. CASE ReadLength
  BY <1>1, <1>2, <1>6, ReadLengthInStep
<1>7. CASE ReadMask
  BY <1>1, <1>2, <1>7, ReadMaskInStep
<1>8. CASE ReadPayload
  BY <1>1, <1>2, <1>8, ReadPayloadInStep
<1>9. CASE UNCHANGED vars
  <2>1. /\ sender' = sender /\ stream' = stream /\ sent' = sent /\ unsent' = unsent
        /\ phase' = phase /\ need' = need /\ field' = field /\ done' = done
        /\ received' = received
    BY <1>9 DEF vars
  <2>2. PICK B \in [Nat -> Byte], start \in Starts, e \in Ends(stream) :
            /\ Frames(B, start)
            /\ Shows(stream, B, e)
            /\ e[Len(stream)] = start[Len(sent) + 1] - unsent
            /\ Stands(start, e[0])
    BY <1>2 DEF InStep
  <2>3. start \in Starts'
    BY <2>1 DEF Starts
  <2>4. Frames(B, start)'
    BY <2>1, <2>2 DEF Frames
  <2>5. Stands(start, e[0])'
    BY <2>1, <2>2 DEF Stands
  <2>6. e \in Ends(stream') /\ Shows(stream', B, e)
        /\ e[Len(stream')] = start[Len(sent') + 1] - unsent'
    BY <2>1, <2>2
  <2> QED
    BY <2>3, <2>4, <2>5, <2>6 DEF InStep
<1> QED
  BY <1>3, <1>4, <1>5, <1>6, <1>7, <1>8, <1>9 DEF Next

(***************************************************************************)
(* The invariant of the framing: the well-formed state, and a reader that  *)
(* stands where a frame, or the part of it that it waits for, begins.      *)
(***************************************************************************)
THEOREM FramingInvHolds == Spec => []FramingInv
<1>1. FramingInv /\ [Next]_vars => FramingInv'
  BY TypeStep, AlignStep DEF FramingInv
<1> QED
  BY <1>1, InitFramingInv, PTL DEF Spec

\* The fields of the sender's and of the reader's state keep their types.
THEOREM TypeCorrect == Spec => []TypeOK
<1>1. FramingInv => TypeOK
  BY DEF FramingInv, TypeInv
<1> QED
  BY <1>1, FramingInvHolds, PTL

(***************************************************************************)
(* read_message gets the messages with the lengths that send was given,    *)
(* and has got them all when the stream is empty: however many messages of *)
(* whatever lengths but 65536 follow each other, in whatever pieces they   *)
(* arrive, from a client or from a server.                                 *)
(***************************************************************************)
THEOREM FramesStayAligned == Spec => []FramesAligned
<1>1. FramingInv => FramesAligned
  <2> SUFFICES ASSUME TypeInv, Sendable, InStep
               PROVE  Aligned
    BY DEF FramingInv, AlignInv, FramesAligned, Sendable
  <2>1. PICK B \in [Nat -> Byte], start \in Starts, e \in Ends(stream) :
            /\ Frames(B, start)
            /\ Shows(stream, B, e)
            /\ e[Len(stream)] = start[Len(sent) + 1] - unsent
            /\ Stands(start, e[0])
    BY DEF InStep
  <2>2. /\ Len(received) \in Nat /\ Len(sent) \in Nat
    BY DEF TypeInv, TypeOK
  <2>3. /\ phase # "error" /\ Len(received) <= Len(sent)
        /\ \A k \in 1 .. Len(received) : received[k] = sent[k]
    BY <2>1 DEF Stands
  <2>4. ASSUME stream = <<>>, unsent = 0
        PROVE  Len(received) = Len(sent) /\ phase = "header"
    <3>1. PICK end \in Nat : end = start[Len(sent) + 1]
      <4>1. Len(sent) + 1 \in 1 .. Len(sent) + 1
        BY <2>2
      <4> QED
        BY <4>1 DEF Starts
    <3>2. e[0] = end
      <4>1. Len(stream) = 0
        BY <2>4
      <4> QED
        BY <2>1, <2>4, <3>1, <4>1
    <3>3. PICK k \in Nat : k = Len(received) + 1
      BY <2>2
    <3>4. ASSUME k <= Len(sent)
          PROVE  FALSE
      <4>1. k \in 1 .. Len(sent)
        BY <2>2, <3>3, <3>4
      <4>2. PICK n \in Nat, s \in Nat, hl \in Nat :
                /\ n = sent[k] /\ s = start[k] /\ hl = HeaderLength(sender, n)
                /\ hl > 1 /\ s + hl + n <= end
        <5>1. /\ sent[k] \in Nat /\ start[k] \in Nat
              /\ HeaderLength(sender, sent[k]) \in Nat /\ HeaderLength(sender, sent[k]) > 1
              /\ start[k] + HeaderLength(sender, sent[k]) + sent[k] <= end
          BY <2>1, <3>1, <4>1, FrameEnds
        <5> QED
          BY <5>1
      <4>3. PICK l \in Nat : l = Len(LengthField(n)) /\ hl >= 1 + l
                             /\ (sender = "client" => hl = 1 + l + 4)
        <5>1. Len(LengthField(n)) \in Nat
          BY FieldBytes
        <5> QED
          BY <4>2, <5>1 DEF HeaderLength
      <4>4. need \in Nat /\ done \in Nat /\ Len(field) \in Nat
        BY DEF TypeInv, TypeOK
      <4>5. e[0] < end
        <5>1. CASE phase = "header"
          <6>1. e[0] = s \/ e[0] = s + 1
            BY <2>1, <3>3, <4>2, <5>1 DEF Stands
          <6> QED
            BY <4>2, <6>1
        <5>2. CASE phase = "length"
          <6>1. Len(field) + need = l /\ need >= 1 /\ e[0] = s + 1 + Len(field)
            BY <2>1, <3>3, <4>2, <4>3, <5>2 DEF Stands
          <6>2. PICK i \in Nat : i = Len(field)
            BY <4>4
          <6>3. i + need = l /\ e[0] = s + 1 + i
            BY <6>1, <6>2, Zenon
          <6>4. s + 1 + i < end
            <7>1. s + hl + n <= end /\ hl >= 1 + l /\ need \in Nat /\ need >= 1 /\ i + need = l
              BY <4>2, <4>3, <4>4, <6>1, <6>3, Zenon
            <7> QED
              BY <7>1
          <6> QED
            BY <6>3, <6>4
        <5>3. CASE phase = "mask"
          <6>1. sender = "client" /\ need \in 1 .. 4 /\ e[0] = s + 1 + l + 4 - need
            BY <2>1, <3>3, <4>2, <4>3, <5>3 DEF Stands
          <6>2. s + 1 + l + 4 - need < end
            <7>1. s + hl + n <= end /\ hl = 1 + l + 4 /\ need \in 1 .. 4
              BY <4>2, <4>3, <6>1, Zenon
            <7> QED
              BY <7>1
          <6> QED
            BY <6>1, <6>2
        <5>4. CASE phase = "payload"
          <6>1. need >= 1 /\ done + need <= n /\ e[0] = s + hl + done
            BY <2>1, <3>3, <4>2, <5>4 DEF Stands
          <6> QED
            BY <4>2, <4>4, <6>1
        <5> QED
          BY <2>3, <5>1, <5>2, <5>3, <5>4 DEF TypeInv, TypeOK
      <4> QED
        BY <3>2, <4>5
    <3>5. Len(received) = Len(sent)
      BY <2>2, <2>3, <3>3, <3>4
    <3>6. phase = "header"
      <4>1. phase # "header" => Len(received) + 1 <= Len(sent)
        BY <2>1 DEF Stands
      <4> QED
        BY <2>2, <3>5, <4>1
    <3> QED
      BY <3>5, <3>6
  <2> QED
    BY <2>3, <2>4 DEF Aligned
<1> QED
  BY <1>1, FramingInvHolds, PTL
=============================================================================
