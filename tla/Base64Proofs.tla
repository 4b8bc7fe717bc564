---------------------------- MODULE Base64Proofs ----------------------------
(* What base64DecodeString makes of what base64EncodeString wrote, for byte
   strings of every length. *)
EXTENDS Base64, SequenceTheorems, TLAPS

\* EncodedSize and DecodedSize undo each other, and no encoding has a length
\* that base64DecodeString refuses.
LEMMA SizesAgree ==
  ASSUME NEW n \in Nat
  PROVE  /\ EncodedSize(n) \in Nat
         /\ EncodedSize(n) % 4 # 1
         /\ DecodedSize(EncodedSize(n)) = n
  BY DEF EncodedSize, DecodedSize

LEMMA ByteAtType ==
  ASSUME NEW s \in Seq(Bytes), NEW i \in Nat \ {0}
  PROVE  ByteAt(s, i) \in 0 .. 255
<1>1. Len(s) \in Nat
  OBVIOUS
<1>2. CASE i <= Len(s)
  <2>1. i \in 1 .. Len(s)
    BY <1>1, <1>2
  <2>2. s[i] \in Bytes
    BY <2>1
  <2> QED
    BY <2>2, <1>2 DEF ByteAt, Bytes
<1>3. CASE ~(i <= Len(s))
  BY <1>3 DEF ByteAt
<1> QED
  BY <1>2, <1>3

\* The four characters of a group, and what they decode to.
LEMMA GroupInverse ==
  ASSUME NEW a \in 0 .. 255, NEW b \in 0 .. 255, NEW c \in 0 .. 255
  PROVE  /\ Or(((a \div 4) * 4) % 256, ((a % 4) * 16 + b \div 16) \div 16, 4) = a
         /\ Or((((a % 4) * 16 + b \div 16) * 16) % 256, ((b % 16) * 4 + c \div 64) \div 4, 16) = b
         /\ Or((((b % 16) * 4 + c \div 64) * 64) % 256, c % 64, 64) = c
  BY DEF Or

\* Every encoded character is one of the 64 of the alphabet.
LEMMA EncodedChars ==
  ASSUME NEW s \in Seq(Bytes), NEW g \in Nat, NEW j \in 0 .. 3
  PROVE  base64_encode(s, g, j) \in 0 .. 63
<1> DEFINE a == ByteAt(s, 3 * g + 1)
           b == ByteAt(s, 3 * g + 2)
           c == ByteAt(s, 3 * g + 3)
<1>1. a \in 0 .. 255 /\ b \in 0 .. 255 /\ c \in 0 .. 255
  BY ByteAtType
<1>2. base64_encode(s, g, j) = IF j = 0 THEN a \div 4
                               ELSE IF j = 1 THEN (a % 4) * 16 + b \div 16
                               ELSE IF j = 2 THEN (b % 16) * 4 + c \div 64
                               ELSE c % 64
  BY DEF base64_encode
<1> HIDE DEF a, b, c
<1>3. /\ a \div 4 \in 0 .. 63
      /\ (a % 4) * 16 + b \div 16 \in 0 .. 63
      /\ (b % 16) * 4 + c \div 64 \in 0 .. 63
      /\ c % 64 \in 0 .. 63
  BY <1>1
<1> QED
  BY <1>2, <1>3

\* Character j of group g of an encoding.
LEMMA CharOfEncoding ==
  ASSUME NEW s \in Seq(Bytes), NEW g \in Nat, NEW j \in 0 .. 3,
         4 * g + j + 1 <= EncodedSize(Len(s))
  PROVE  base64EncodeString(s)[4 * g + j + 1] = base64_encode(s, g, j)
<1> DEFINE k == 4 * g + j + 1
<1>1. EncodedSize(Len(s)) \in Nat
  BY SizesAgree
<1>2. k \in 1 .. EncodedSize(Len(s))
  BY <1>1
<1>3. (k - 1) \div 4 = g /\ (k - 1) % 4 = j
  OBVIOUS
<1> HIDE DEF k
<1>4. base64EncodeString(s)[k] = base64_encode(s, (k - 1) \div 4, (k - 1) % 4)
  BY <1>2 DEF base64EncodeString
<1>5. base64EncodeString(s)[k] = base64_encode(s, g, j)
  BY <1>3, <1>4
<1> QED
  BY <1>5 DEF k

\* The characters that byte k is decoded from are all there.
LEMMA CharsPresent ==
  ASSUME NEW n \in Nat, NEW k \in 1 .. n
  PROVE  4 * ((k - 1) \div 3) + ((k - 1) % 3) + 2 <= EncodedSize(n)
  BY DEF EncodedSize

\* The byte k is byte (k - 1) % 3 of group (k - 1) \div 3.
LEMMA PlaceOfByte ==
  ASSUME NEW k \in Nat \ {0}
  PROVE  /\ (k - 1) \div 3 \in Nat
         /\ (k - 1) % 3 \in 0 .. 2
         /\ 3 * ((k - 1) \div 3) + ((k - 1) % 3) + 1 = k
  OBVIOUS

\* Decoding, in terms of the characters of the group.
LEMMA DecodeEncoded ==
  ASSUME NEW s \in Seq(Bytes), NEW g \in Nat, NEW j \in 0 .. 2,
         4 * g + j + 2 <= EncodedSize(Len(s))
  PROVE  base64_decode(base64EncodeString(s), g, j) = ByteAt(s, 3 * g + j + 1)
<1> DEFINE e == base64EncodeString(s)
           a == ByteAt(s, 3 * g + 1)
           b == ByteAt(s, 3 * g + 2)
           c == ByteAt(s, 3 * g + 3)
<1>1. a \in 0 .. 255 /\ b \in 0 .. 255 /\ c \in 0 .. 255
  BY ByteAtType
<1>2. EncodedSize(Len(s)) \in Nat
  BY SizesAgree
<1>3. /\ base64_encode(s, g, 0) = a \div 4
      /\ base64_encode(s, g, 1) = (a % 4) * 16 + b \div 16
      /\ base64_encode(s, g, 2) = (b % 16) * 4 + c \div 64
      /\ base64_encode(s, g, 3) = c % 64
  BY DEF base64_encode
<1>4. /\ base64_encode(s, g, 0) \in 0 .. 63
      /\ base64_encode(s, g, 1) \in 0 .. 63
      /\ base64_encode(s, g, 2) \in 0 .. 63
      /\ base64_encode(s, g, 3) \in 0 .. 63
  BY EncodedChars
<1>5. ASSUME NEW i \in 0 .. 63
      PROVE  Table(i) = i
  BY DEF Table, NotBase64
<1>9. /\ Or(((a \div 4) * 4) % 256, ((a % 4) * 16 + b \div 16) \div 16, 4) = a
      /\ Or((((a % 4) * 16 + b \div 16) * 16) % 256, ((b % 16) * 4 + c \div 64) \div 4, 16) = b
      /\ Or((((b % 16) * 4 + c \div 64) * 64) % 256, c % 64, 64) = c
  <2> HIDE DEF a, b, c
  <2> QED
    BY <1>1 DEF Or
<1>6. CASE j = 0
  <2>1. e[4 * g + 1] = a \div 4 /\ e[4 * g + 2] = (a % 4) * 16 + b \div 16
    BY <1>2, <1>3, <1>6, CharOfEncoding
  <2>2. Table(e[4 * g + 1]) = a \div 4 /\ Table(e[4 * g + 2]) = (a % 4) * 16 + b \div 16
    BY <2>1, <1>3, <1>4, <1>5
  <2>3. base64_decode(e, g, j) = Or(((a \div 4) * 4) % 256, ((a % 4) * 16 + b \div 16) \div 16, 4)
    BY <2>2, <1>6 DEF base64_decode
  <2>4. base64_decode(e, g, j) = a
    BY <2>3, <1>9
  <2> QED
    BY <2>4, <1>6
<1>7. CASE j = 1
  <2>1. e[4 * g + 2] = (a % 4) * 16 + b \div 16 /\ e[4 * g + 3] = (b % 16) * 4 + c \div 64
    BY <1>2, <1>3, <1>7, CharOfEncoding
  <2>2. /\ Table(e[4 * g + 2]) = (a % 4) * 16 + b \div 16
        /\ Table(e[4 * g + 3]) = (b % 16) * 4 + c \div 64
    BY <2>1, <1>3, <1>4, <1>5
  <2>3. base64_decode(e, g, j)
          = Or((((a % 4) * 16 + b \div 16) * 16) % 256, ((b % 16) * 4 + c \div 64) \div 4, 16)
    BY <2>2, <1>7 DEF base64_decode
  <2>4. base64_decode(e, g, j) = b
    BY <2>3, <1>9
  <2> QED
    BY <2>4, <1>7
<1>8. CASE j = 2
  <2>1. e[4 * g + 3] = (b % 16) * 4 + c \div 64 /\ e[4 * g + 4] = c % 64
    BY <1>2, <1>3, <1>8, CharOfEncoding
  <2>2. Table(e[4 * g + 3]) = (b % 16) * 4 + c \div 64 /\ Table(e[4 * g + 4]) = c % 64
    BY <2>1, <1>3, <1>4, <1>5
  <2>3. base64_decode(e, g, j) = Or((((b % 16) * 4 + c \div 64) * 64) % 256, c % 64, 64)
    BY <2>2, <1>8 DEF base64_decode
  <2>4. base64_decode(e, g, j) = c
    BY <2>3, <1>9
  <2> QED
    BY <2>4, <1>8
<1> QED
  BY <1>6, <1>7, <1>8

\* base64DecodeString undoes base64EncodeString for every byte string: writeBinary
\* and readBinary lose nothing.
THEOREM Base64RoundTrip ==
  ASSUME NEW s \in Seq(Bytes)
  PROVE  /\ ~Undecodable(base64EncodeString(s))
         /\ base64DecodeString(base64EncodeString(s)) = s
<1> DEFINE e == base64EncodeString(s)
           n == Len(s)
<1>1. n \in Nat /\ s = [k \in 1 .. n |-> s[k]]
  OBVIOUS
<1>2. /\ EncodedSize(n) \in Nat
      /\ EncodedSize(n) % 4 # 1
      /\ DecodedSize(EncodedSize(n)) = n
  BY <1>1, SizesAgree
<1>3. Len(e) = EncodedSize(n)
  <2>1. e = [k \in 1 .. EncodedSize(n) |-> base64_encode(s, (k - 1) \div 4, (k - 1) % 4)]
    BY DEF base64EncodeString
  <2>2. ASSUME NEW k \in 1 .. EncodedSize(n)
        PROVE  base64_encode(s, (k - 1) \div 4, (k - 1) % 4) \in 0 .. 63
    <3>1. (k - 1) \div 4 \in Nat /\ (k - 1) % 4 \in 0 .. 3
      BY <1>2
    <3> QED
      BY <3>1, EncodedChars
  <2> HIDE DEF e
  <2>3. e \in [1 .. EncodedSize(n) -> 0 .. 63]
    BY <2>1, <2>2
  <2>4. e \in Seq(0 .. 63)
    <3>1. e \in UNION {[1 .. m -> 0 .. 63] : m \in Nat}
      BY <2>3, <1>2, Zenon
    <3> QED
      BY <3>1, SeqDef, Zenon
  <2> QED
    BY <2>3, <2>4, <1>2, LenProperties
<1>4. ~Undecodable(e)
  BY <1>2, <1>3 DEF Undecodable
<1>5. ASSUME NEW k \in 1 .. n
      PROVE  base64_decode(e, (k - 1) \div 3, (k - 1) % 3) = s[k]
  <2>1. /\ (k - 1) \div 3 \in Nat
        /\ (k - 1) % 3 \in 0 .. 2
        /\ 3 * ((k - 1) \div 3) + ((k - 1) % 3) + 1 = k
    BY <1>1, PlaceOfByte
  <2>2. 4 * ((k - 1) \div 3) + ((k - 1) % 3) + 2 <= EncodedSize(n)
    BY <1>1, CharsPresent
  <2>3. base64_decode(e, (k - 1) \div 3, (k - 1) % 3)
          = ByteAt(s, 3 * ((k - 1) \div 3) + ((k - 1) % 3) + 1)
    BY <2>1, <2>2, DecodeEncoded
  <2>4. base64_decode(e, (k - 1) \div 3, (k - 1) % 3) = ByteAt(s, k)
    BY <2>1, <2>3
  <2> QED
    BY <2>4, <1>1 DEF ByteAt
<1>6. base64DecodeString(e) = [k \in 1 .. n |-> base64_decode(e, (k - 1) \div 3, (k - 1) % 3)]
  BY <1>2, <1>3 DEF base64DecodeString
<1> QED
  BY <1>1, <1>4, <1>5, <1>6
=============================================================================
