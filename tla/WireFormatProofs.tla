-------------------------- MODULE WireFormatProofs --------------------------
(***************************************************************************)
(* The codec for any base of the bytes, any limits, messages and           *)
(* announcements, and for packets of any length, damaged any number of     *)
(* times.                                                                  *)
(***************************************************************************)
EXTENDS WireFormat, SequenceTheorems, WellFoundedInduction, TLAPS

-----------------------------------------------------------------------------
(* Loops.  Induction over the naturals, for sets.                          *)

\* A set with 0 that has the successor of each of its numbers has all numbers.
LEMMA NatSet ==
    ASSUME NEW T, 0 \in T, \A n \in Nat : n \in T => n + 1 \in T
    PROVE  Nat \subseteq T
<1> DEFINE Out == Nat \ T
<1>1. SUFFICES ASSUME Out # {} PROVE FALSE
  OBVIOUS
<1>2. PICK x \in Out : \A y \in Out : ~(<<y, x>> \in OpToRel(<, Nat))
  BY <1>1, WFMin, NatLessThanWellFounded, Zenon
<1>3. \A y \in Out : ~(y < x)
  BY <1>2 DEF OpToRel
<1>4. x # 0 /\ x - 1 \in Nat /\ x - 1 \notin Out
  BY <1>3
<1> QED
  BY <1>4

\* A loop of n rounds, of which round i takes a state y in S to F[<<i, y>>] in S,
\* and the states f that it goes through.
IsLoop(n, S, x, F) == n \in Nat /\ x \in S /\ \A i \in 1 .. n, y \in S : F[<<i, y>>] \in S
Goes(f, n, S, x, F) ==
    /\ f \in [0 .. n -> S] /\ f[0] = x
    /\ \A i \in 1 .. n : f[i] = F[<<i, f[i - 1]>>]

\* Every loop has such states.
LEMMA LoopExists ==
    ASSUME NEW n, NEW S, NEW x, NEW F, IsLoop(n, S, x, F)
    PROVE  \E f : Goes(f, n, S, x, F)
<1> USE DEF IsLoop
<1> DEFINE Run(k, g) == g[0] = x /\ \A i \in 1 .. k : g[i] = F[<<i, g[i - 1]>>]
           T == {k \in Nat : k <= n => \E g \in [0 .. k -> S] : Run(k, g)}
<1>1. 0 \in T
  <2> DEFINE g == [i \in 0 .. 0 |-> x]
  <2>1. g \in [0 .. 0 -> S] /\ Run(0, g)
    OBVIOUS
  <2> QED
    BY <2>1
<1>2. ASSUME NEW k \in Nat, k \in T PROVE k + 1 \in T
  <2> SUFFICES ASSUME k + 1 <= n PROVE \E g \in [0 .. k + 1 -> S] : Run(k + 1, g)
    OBVIOUS
  <2>1. PICK g \in [0 .. k -> S] : Run(k, g)
    BY <1>2
  <2> DEFINE h == [i \in 0 .. k + 1 |-> IF i <= k THEN g[i] ELSE F[<<k + 1, g[k]>>]]
  <2>2. F[<<k + 1, g[k]>>] \in S
    BY <2>1
  <2>3. h \in [0 .. k + 1 -> S]
    BY <2>1, <2>2
  <2>4. h[0] = x
    BY <2>1
  <2>5. ASSUME NEW i \in 1 .. k + 1 PROVE h[i] = F[<<i, h[i - 1]>>]
    <3>1. h[i - 1] = g[i - 1]
      BY <2>5
    <3>2. CASE i <= k
      <4>1. h[i] = g[i] /\ g[i] = F[<<i, g[i - 1]>>]
        BY <2>1, <2>5, <3>2
      <4> QED
        BY <3>1, <4>1
    <3>3. CASE i = k + 1
      <4>1. h[i] = F[<<k + 1, g[k]>>] /\ i - 1 = k
        BY <2>5, <3>3
      <4> QED
        BY <3>1, <3>3, <4>1
    <3> QED
      BY <2>5, <3>2, <3>3
  <2> QED
    BY <2>3, <2>4, <2>5
<1>3. n \in T
  <2> HIDE DEF T
  <2> QED
    BY <1>1, <1>2, NatSet
<1> QED
  BY <1>3 DEF Goes

\* A loop never leaves the set its rounds stay in.
LEMMA LoopStays ==
    ASSUME NEW n, NEW S, NEW x, NEW F, IsLoop(n, S, x, F),
           NEW g, g[0] = x, \A i \in 1 .. n : g[i - 1] \in S => g[i] = F[<<i, g[i - 1]>>]
    PROVE  \A i \in 0 .. n : g[i] \in S
<1> USE DEF IsLoop
<1> DEFINE T == {i \in Nat : i <= n => g[i] \in S}
<1>1. 0 \in T
  OBVIOUS
<1>2. ASSUME NEW i \in Nat, i \in T PROVE i + 1 \in T
  <2> SUFFICES ASSUME i + 1 <= n PROVE g[i + 1] \in S
    OBVIOUS
  <2>1. i + 1 \in 1 .. n /\ (i + 1) - 1 = i /\ g[i] \in S
    BY <1>2
  <2>2. g[i + 1] = F[<<i + 1, g[i]>>]
    BY <2>1
  <2> QED
    BY <2>1, <2>2
<1>3. Nat \subseteq T
  <2> HIDE DEF T
  <2> QED
    BY <1>1, <1>2, NatSet
<1> QED
  BY <1>3

-----------------------------------------------------------------------------
(* Numbers and their bytes.                                                *)

LEMMA Base == ByteBase \in Nat /\ ByteBase >= 4
  BY WireAssumption

LEMMA PowerDef == Power = [i \in 0 .. 8 |-> IF i = 0 THEN 1 ELSE ByteBase * Power[i - 1]]
<1> DEFINE Is(f) == f = [i \in 0 .. 8 |-> IF i = 0 THEN 1 ELSE ByteBase * f[i - 1]]
           F == [p \in (1 .. 8) \X Nat |-> ByteBase * p[2]]
<1>1. IsLoop(8, Nat, 1, F) /\ \A i \in 1 .. 8, y \in Nat : F[<<i, y>>] = ByteBase * y
  BY Base DEF IsLoop
<1> HIDE DEF F
<1>2. PICK f : Goes(f, 8, Nat, 1, F)
  BY <1>1, LoopExists
<1>3. Is(f)
  BY <1>1, <1>2 DEF Goes
<1>4. Power = CHOOSE g : Is(g)
  BY DEF Power
<1> HIDE DEF Is
<1>5. Is(Power)
  BY <1>3, <1>4, Zenon
<1> QED
  BY <1>5 DEF Is

LEMMA Powers ==
    /\ \A i \in 0 .. 8 : Power[i] \in Nat /\ Power[i] >= 1
    /\ \A i \in 0 .. 7 : Power[i + 1] = ByteBase * Power[i]
    /\ Power[0] = 1 /\ Power[1] = ByteBase /\ Power[2] = ByteBase * ByteBase
<1> USE Base
<1>1. /\ Power[0] = 1
      /\ \A i \in 0 .. 7 : Power[i + 1] = ByteBase * Power[i]
  BY PowerDef
<1> DEFINE T == {i \in Nat : i <= 8 => Power[i] \in Nat /\ Power[i] >= 1}
<1>2. 0 \in T
  BY <1>1
<1>3. ASSUME NEW i \in Nat, i \in T PROVE i + 1 \in T
  BY <1>1, <1>3
<1>4. Nat \subseteq T
  <2> HIDE DEF T
  <2> QED
    BY <1>2, <1>3, NatSet
<1>5. \A i \in 0 .. 8 : Power[i] \in Nat /\ Power[i] >= 1
  BY <1>4
<1>6. Power[1] = ByteBase * Power[0] /\ Power[2] = ByteBase * Power[1]
  <2>1. Power[0 + 1] = ByteBase * Power[0] /\ Power[1 + 1] = ByteBase * Power[1]
    BY <1>1
  <2> QED
    BY <2>1
<1> QED
  BY <1>1, <1>5, <1>6

LEMMA PowerStep ==
    ASSUME NEW i \in 1 .. 8
    PROVE  Power[i - 1] \in Nat /\ Power[i - 1] >= 1 /\ Power[i] = ByteBase * Power[i - 1]
<1>1. i - 1 \in 0 .. 8 /\ i - 1 \in 0 .. 7 /\ (i - 1) + 1 = i
  OBVIOUS
<1> QED
  BY <1>1, Powers

\* Quotient and remainder are unique.
LEMMA Unique ==
    ASSUME NEW a \in Nat, NEW b \in Nat, NEW c \in 0 .. ByteBase - 1,
           NEW d \in 0 .. ByteBase - 1, ByteBase * a + c = ByteBase * b + d
    PROVE  a = b /\ c = d
<1>1. ASSUME NEW x \in Nat, NEW y \in Nat, x > y PROVE ByteBase * x >= ByteBase * y + ByteBase
  BY <1>1, Base
<1>2. ByteBase * a \in Nat /\ ByteBase * b \in Nat
  BY Base
<1>3. ~(a > b) /\ ~(b > a)
  BY <1>1, <1>2, Base
<1> QED
  BY <1>2, <1>3

LEMMA Remainder ==
    ASSUME NEW q \in Nat, NEW r \in Nat, NEW d \in 0 .. ByteBase - 1, q = ByteBase * r + d
    PROVE  q % ByteBase = d /\ q \div ByteBase = r
<1>1. q \div ByteBase \in Nat /\ q % ByteBase \in 0 .. ByteBase - 1
  BY Base
<1>2. q = ByteBase * (q \div ByteBase) + (q % ByteBase)
  BY Base
<1> QED
  BY <1>1, <1>2, Unique

\* The digit of n at the place of weight p is what is left between two quotients.
LEMMA Digit ==
    ASSUME NEW n \in Nat, NEW p \in Nat, p >= 1
    PROVE  /\ n \div p \in Nat /\ n \div (ByteBase * p) \in Nat
           /\ (n \div p) % ByteBase \in 0 .. ByteBase - 1
           /\ ((n \div p) % ByteBase) * p = (n \div p) * p - (n \div (ByteBase * p)) * (ByteBase * p)
<1> DEFINE q == n \div p
           r == n \div (ByteBase * p)
<1>1. q \in Nat /\ p * q <= n /\ n < p * (q + 1)
  OBVIOUS
<1>2. ByteBase * p \in Nat /\ ByteBase * p >= 1
  BY Base
<1>3. r \in Nat /\ (ByteBase * p) * r <= n /\ n < (ByteBase * p) * (r + 1)
  BY <1>2
<1> HIDE DEF q, r
<1>4. p * (ByteBase * r) <= n /\ n < p * (ByteBase * (r + 1))
  BY <1>3, Base
<1>5. ASSUME NEW x \in Nat, NEW y \in Nat, p * x < p * y PROVE x < y
  BY <1>5
<1>6. ByteBase * r < q + 1 /\ q < ByteBase * (r + 1)
  <2>1. ByteBase * r \in Nat /\ ByteBase * (r + 1) \in Nat /\ q + 1 \in Nat
    BY <1>1, <1>3, Base
  <2>2. p * (ByteBase * r) < p * (q + 1) /\ p * q < p * (ByteBase * (r + 1))
    BY <1>1, <1>4, <2>1
  <2> QED
    BY <1>5, <2>1, <2>2, <1>1
<1>7. q % ByteBase = q - ByteBase * r
  <2>1. q - ByteBase * r \in 0 .. ByteBase - 1 /\ q = ByteBase * r + (q - ByteBase * r)
    BY <1>1, <1>3, <1>6, Base
  <2> QED
    BY <1>1, <1>3, <2>1, Remainder
<1>8. (q - ByteBase * r) * p = q * p - r * (ByteBase * p)
  BY <1>1, <1>3, Base
<1>9. q % ByteBase \in 0 .. ByteBase - 1
  BY <1>1, Base
<1> QED
  BY <1>1, <1>3, <1>7, <1>8, <1>9 DEF q, r

LEMMA UIntType == ASSUME NEW w \in 0 .. 8 PROVE UInt(w) \subseteq Nat
  BY Powers DEF UInt

\* A number becomes as many bytes as it has places.
LEMMA PutType ==
    ASSUME NEW n \in Nat, NEW w \in 0 .. 8
    PROVE  Put(n, w) \in Seq(Bytes) /\ Len(Put(n, w)) = w
<1>1. \A i \in 1 .. w : (n \div Power[i - 1]) % ByteBase \in UInt(1)
  <2> SUFFICES ASSUME NEW i \in 1 .. w PROVE (n \div Power[i - 1]) % ByteBase \in UInt(1)
    OBVIOUS
  <2>1. Power[i - 1] \in Nat /\ Power[i - 1] >= 1
    BY PowerStep
  <2>2. UInt(1) = 0 .. ByteBase - 1
    BY Powers DEF UInt
  <2> QED
    BY <2>1, <2>2, Digit
<1>2. \A i \in 1 .. w : Byte((n \div Power[i - 1]) % ByteBase) \in Bytes
  BY <1>1 DEF Bytes
<1> QED
  BY <1>2 DEF Put

\* A number that fits is read as it was written, whatever its width.
LEMMA GetPut ==
    ASSUME NEW w \in 1 .. 8, NEW n \in UInt(w)
    PROVE  Get(Put(n, w)) = n
<1> DEFINE Q(i) == (n \div Power[i]) * Power[i]
           R(i) == IF i <= w THEN Q(i) ELSE 0
           Term(i) == IF i <= Len(Put(n, w)) THEN Put(n, w)[i][1] * Power[i - 1] ELSE 0
<1>1. n \in Nat /\ Len(Put(n, w)) = w
  <2>1. w \in 0 .. 8
    OBVIOUS
  <2>2. n \in Nat
    BY <2>1, UIntType
  <2> QED
    BY <2>1, <2>2, PutType
<1>2. \A i \in 0 .. 8 : Q(i) \in Int
  <2> SUFFICES ASSUME NEW i \in 0 .. 8 PROVE Q(i) \in Int
    OBVIOUS
  <2>1. Power[i] \in Nat /\ Power[i] >= 1
    BY Powers
  <2>2. n \div Power[i] \in Int
    BY <1>1, <2>1
  <2> QED
    BY <2>1, <2>2
<1>3. ASSUME NEW i \in 1 .. 8 PROVE Term(i) = R(i - 1) - R(i)
  <2>1. CASE i > w
    <3>1. Term(i) = 0 /\ R(i) = 0
      BY <1>1, <2>1
    <3>2. R(i - 1) = 0
      <4>1. CASE i - 1 > w
        BY <4>1
      <4>2. CASE i - 1 = w
        <5>1. Power[w] \in Nat /\ n < Power[w] /\ n >= 0
          BY Powers DEF UInt
        <5>2. n \div Power[w] = 0
          BY <1>1, <5>1
        <5> QED
          BY <4>2, <5>1, <5>2
      <4> QED
        BY <2>1, <4>1, <4>2
    <3> QED
      BY <3>1, <3>2
  <2>2. CASE i <= w
    <3>1. Term(i) = ((n \div Power[i - 1]) % ByteBase) * Power[i - 1]
      BY <1>1, <2>2 DEF Put, Byte
    <3>2. Power[i - 1] \in Nat /\ Power[i - 1] >= 1 /\ Power[i] = ByteBase * Power[i - 1]
      BY PowerStep
    <3>3. Term(i) = Q(i - 1) - Q(i)
      BY <1>1, <3>1, <3>2, Digit
    <3> QED
      BY <2>2, <3>3
  <2> QED
    BY <2>1, <2>2
<1>4. R(0) = n
  BY <1>1, Powers
<1>5. R(8) = 0
  <2>1. CASE w < 8
    BY <2>1
  <2>2. CASE w = 8
    <3>1. Power[8] \in Nat /\ n < Power[8] /\ n >= 0
      BY <2>2, Powers DEF UInt
    <3>2. n \div Power[8] = 0
      BY <1>1, <3>1
    <3> QED
      BY <2>2, <3>1, <3>2
  <2> QED
    BY <2>1, <2>2
<1>6. \A i \in 0 .. 8 : R(i) \in Int
  BY <1>2
<1>7. Get(Put(n, w)) = Term(1) + Term(2) + Term(3) + Term(4) + Term(5) + Term(6) + Term(7) + Term(8)
  BY DEF Get
<1> HIDE DEF Term, R
<1>8. /\ Term(1) = R(0) - R(1) /\ Term(2) = R(1) - R(2) /\ Term(3) = R(2) - R(3)
      /\ Term(4) = R(3) - R(4) /\ Term(5) = R(4) - R(5) /\ Term(6) = R(5) - R(6)
      /\ Term(7) = R(6) - R(7) /\ Term(8) = R(7) - R(8)
  BY <1>3
<1>9. /\ R(0) \in Int /\ R(1) \in Int /\ R(2) \in Int /\ R(3) \in Int /\ R(4) \in Int
      /\ R(5) \in Int /\ R(6) \in Int /\ R(7) \in Int /\ R(8) \in Int
  BY <1>6
<1>10. ASSUME NEW a \in Int, NEW b \in Int, NEW c \in Int, NEW d \in Int, NEW e \in Int,
              NEW f \in Int, NEW g \in Int, NEW h \in Int, NEW k \in Int
       PROVE  (a - b) + (b - c) + (c - d) + (d - e) + (e - f) + (f - g) + (g - h) + (h - k) = a - k
  OBVIOUS
<1>11. Get(Put(n, w)) = R(0) - R(8)
  BY <1>7, <1>8, <1>9, <1>10
<1> QED
  BY <1>1, <1>4, <1>5, <1>11

-----------------------------------------------------------------------------
(* Cells of a packet, and what can be read from them.                      *)

\* The cells a packet is made of: bytes, and those of a checksum of bytes.
Sums == {<<i, covered>> : i \in 1 .. 4, covered \in Seq(Bytes)}
Cells == Bytes \cup Sums

LEMMA CellType ==
    /\ \A c \in Cells : c[1] \in Nat
    /\ Beyond \notin Cells
    /\ Bytes \cap Sums = {}
<1>1. \A c \in Bytes : DOMAIN c = 1 .. 1 /\ c[1] \in Nat /\ Len(c) = 1
  BY Powers, UIntType DEF Bytes, Byte
<1>2. \A c \in Sums : DOMAIN c = 1 .. 2 /\ c[1] \in Nat /\ Len(c) = 2
  BY DEF Sums
<1>3. Beyond[1] = -1
  BY DEF Beyond, Byte
<1> QED
  BY <1>1, <1>2, <1>3 DEF Cells

LEMMA NatSum ==
    ASSUME NEW f \in [1 .. 8 -> Nat]
    PROVE  f[1] + f[2] + f[3] + f[4] + f[5] + f[6] + f[7] + f[8] \in Nat
  OBVIOUS

LEMMA GetType == ASSUME NEW s \in Seq(Cells) PROVE Get(s) \in Nat
<1> DEFINE Term(i) == IF i <= Len(s) THEN s[i][1] * Power[i - 1] ELSE 0
<1>1. \A i \in 1 .. 8 : Term(i) \in Nat
  <2> SUFFICES ASSUME NEW i \in 1 .. 8, i <= Len(s) PROVE s[i][1] * Power[i - 1] \in Nat
    OBVIOUS
  <2>1. s[i] \in Cells
    OBVIOUS
  <2>2. s[i][1] \in Nat
    BY <2>1, CellType
  <2>3. Power[i - 1] \in Nat
    BY PowerStep
  <2> QED
    BY <2>2, <2>3
<1> DEFINE f == [i \in 1 .. 8 |-> Term(i)]
<1>2. Get(s) = f[1] + f[2] + f[3] + f[4] + f[5] + f[6] + f[7] + f[8]
  BY DEF Get
<1>3. f \in [1 .. 8 -> Nat]
  BY <1>1
<1> HIDE DEF f
<1> QED
  BY <1>2, <1>3, NatSum

\* What is read inside a packet are its cells.
LEMMA AtType ==
    ASSUME NEW S, NEW data \in Seq(S), NEW off \in Nat, NEW size \in Nat, off + size <= Len(data)
    PROVE  /\ At(data, off, size) \in Seq(S)
           /\ Len(At(data, off, size)) = size
           /\ \A i \in 1 .. size : At(data, off, size)[i] = data[off + i]
  BY DEF At

\* A field of n cells inside the packet is a number.
LEMMA FieldType ==
    ASSUME NEW data \in Seq(Cells), NEW off \in Nat, NEW width \in Nat, off + width <= Len(data)
    PROVE  Get(At(data, off, width)) \in Nat
  BY AtType, GetType

-----------------------------------------------------------------------------
(* Whatever is received is made of the cells of the packet.                *)

Text == Seq(Cells)
Decoded ==
    [kind : {"message"}, type : Nat, qos : Nat, flags : Nat, serializer : Nat, source : Nat,
     dest : Nat, seq : Nat, corr : Nat, time : Text, topic : Text, payload : Text]

LEMMA DecodeType == ASSUME NEW data \in Text PROVE decode(data) \in Decoded \cup {Refused}
<1> DEFINE U(off, width) == Get(At(data, off, width))
           hasTs == U(4, 1) % 2 = 1
           hasCrc == (U(4, 1) \div 2) % 2 = 1
           checksumPos == HEADER_BASE_SIZE + IF hasTs THEN 8 ELSE 0
           headerSize == checksumPos + IF hasCrc THEN 4 ELSE 0
           topicLen == U(12, 2)
           payloadLen == U(22, 4)
<1> SUFFICES ASSUME decode(data) # Refused PROVE decode(data) \in Decoded
  OBVIOUS
<1>1. decode(data) =
        [kind |-> "message", type |-> U(3, 1), qos |-> U(5, 1),
         flags |-> U(6, 1), serializer |-> U(7, 1), source |-> U(8, 2),
         dest |-> U(10, 2), seq |-> U(14, 4), corr |-> U(18, 4),
         time |-> IF hasTs THEN At(data, HEADER_BASE_SIZE, 8) ELSE <<>>,
         topic |-> At(data, headerSize, topicLen),
         payload |-> At(data, headerSize + topicLen, payloadLen)]
  BY DEF decode
<1>2. /\ ~(Len(data) < HEADER_BASE_SIZE) /\ ~(Len(data) < headerSize)
      /\ ~(Len(data) < headerSize + topicLen + payloadLen)
  BY DEF decode
<1>3. Len(data) \in Nat /\ Len(data) >= 26
  BY <1>2 DEF Text, HEADER_BASE_SIZE
<1>4. \A off, width \in Nat : off + width <= 26 => U(off, width) \in Nat
  BY <1>3, FieldType DEF Text
<1> HIDE DEF U
<1>5. /\ U(3, 1) \in Nat /\ U(5, 1) \in Nat /\ U(6, 1) \in Nat /\ U(7, 1) \in Nat
      /\ U(8, 2) \in Nat /\ U(10, 2) \in Nat /\ U(14, 4) \in Nat /\ U(18, 4) \in Nat
  BY <1>4
<1>6. topicLen \in Nat /\ payloadLen \in Nat
  BY <1>4
<1> HIDE DEF hasTs, hasCrc, topicLen, payloadLen
<1>7. headerSize \in Nat /\ headerSize >= 26 /\ (hasTs => headerSize >= 34)
  BY DEF HEADER_BASE_SIZE
<1> HIDE DEF headerSize
<1>8. hasTs => At(data, HEADER_BASE_SIZE, 8) \in Text
  <2>1. hasTs => HEADER_BASE_SIZE \in Nat /\ 8 \in Nat /\ HEADER_BASE_SIZE + 8 <= Len(data)
    BY <1>2, <1>3, <1>6, <1>7 DEF HEADER_BASE_SIZE
  <2> QED
    BY <2>1, AtType DEF Text
<1>9. At(data, headerSize, topicLen) \in Text
  <2>1. headerSize + topicLen <= Len(data)
    BY <1>2, <1>3, <1>6, <1>7
  <2> QED
    BY <1>6, <1>7, <2>1, AtType DEF Text
<1>10. At(data, headerSize + topicLen, payloadLen) \in Text
  <2>1. headerSize + topicLen \in Nat /\ (headerSize + topicLen) + payloadLen <= Len(data)
    BY <1>2, <1>3, <1>6, <1>7
  <2> QED
    BY <1>6, <2>1, AtType DEF Text
<1>11. <<>> \in Text
  BY DEF Text
<1> QED
  BY <1>1, <1>5, <1>8, <1>9, <1>10, <1>11 DEF Decoded

\* What is parsed of an announcement, and the cursor over its bytes p.
PeerEndpoints == [type : Text, address : Text, port : Nat]
Wills == [qos : Nat, retain : BOOLEAN, topic : Text, payload : Text]
Peers ==
    [kind : {"peer"}, id : Nat, name : Text, host : Text, subscribed : Seq(Text),
     published : Seq(Text), endpoints : Seq(PeerEndpoints), will : SUBSET Wills]
Readers(p) == [p : {p}, off : 0 .. Len(p), ok : BOOLEAN, v : Text, out : Peers]

LEMMA ReaderMoves ==
    ASSUME NEW p, NEW r \in Readers(p), NEW n \in 0 .. Len(p), NEW v \in Text
    PROVE  [r EXCEPT !.off = n, !.v = v] \in Readers(p)
  BY DEF Readers

LEMMA ReaderFails ==
    ASSUME NEW p, NEW r \in Readers(p), NEW v \in Text
    PROVE  [r EXCEPT !.ok = FALSE, !.v = v] \in Readers(p)
  BY DEF Readers

LEMMA ReadType ==
    ASSUME NEW p \in Text, NEW r \in Readers(p), NEW n \in Nat
    PROVE  Read(r, n) \in Readers(p)
<1>1. <<>> \in Text /\ Len(p) \in Nat
  BY DEF Text
<1>2. CASE Need(r, n)
  <2>1. r.off + n <= Len(p) /\ r.off \in Nat /\ r.p = p
    BY <1>1, <1>2 DEF Need, Readers
  <2>2. At(r.p, r.off, n) \in Text
    BY <2>1, AtType DEF Text
  <2>3. r.off + n \in 0 .. Len(p)
    BY <1>1, <2>1
  <2> QED
    BY <1>2, <2>2, <2>3, ReaderMoves DEF Read
<1>3. CASE ~Need(r, n)
  BY <1>1, <1>3, ReaderFails DEF Read
<1> QED
  BY <1>2, <1>3

LEMMA StrType ==
    ASSUME NEW p \in Text, NEW r \in Readers(p), NEW width \in Nat
    PROVE  str(r, width) \in Readers(p)
<1>1. Read(r, width) \in Readers(p)
  BY ReadType
<1>2. Get(Read(r, width).v) \in Nat
  BY <1>1, GetType DEF Readers, Text
<1> QED
  BY <1>1, <1>2, ReadType DEF str

LEMMA ParseTopicType ==
    ASSUME NEW p \in Text, NEW r \in Readers(p)
    PROVE  ParseTopic(r) \in Readers(p)
<1> DEFINE role == Read(r, 1)
           topic == str(role, 2)
<1>1. role \in Readers(p)
  BY ReadType
<1>2. topic \in Readers(p)
  BY <1>1, StrType
<1> HIDE DEF role, topic
<1>3. /\ topic.out \in Peers /\ topic.v \in Text
      /\ topic.out.subscribed \in Seq(Text) /\ topic.out.published \in Seq(Text)
  BY <1>2 DEF Readers, Peers
<1>4. [topic EXCEPT !.out.subscribed = Append(@, topic.v)] \in Readers(p)
  <2>1. Append(topic.out.subscribed, topic.v) \in Seq(Text)
    BY <1>3, AppendProperties
  <2>2. [topic.out EXCEPT !.subscribed = Append(@, topic.v)] \in Peers
    BY <1>3, <2>1 DEF Peers
  <2> QED
    BY <1>2, <2>2 DEF Readers
<1>5. [topic EXCEPT !.out.published = Append(@, topic.v)] \in Readers(p)
  <2>1. Append(topic.out.published, topic.v) \in Seq(Text)
    BY <1>3, AppendProperties
  <2>2. [topic.out EXCEPT !.published = Append(@, topic.v)] \in Peers
    BY <1>3, <2>1 DEF Peers
  <2> QED
    BY <1>2, <2>2 DEF Readers
<1> QED
  BY <1>2, <1>4, <1>5 DEF ParseTopic, role, topic

LEMMA ParseEndpointType ==
    ASSUME NEW p \in Text, NEW r \in Readers(p)
    PROVE  ParseEndpoint(r) \in Readers(p)
<1> DEFINE type == str(r, 1)
           address == str(type, 1)
           port == Read(address, 2)
           ep == [type |-> type.v, address |-> address.v, port |-> Get(port.v)]
<1>1. type \in Readers(p)
  BY StrType
<1>2. address \in Readers(p)
  BY <1>1, StrType
<1>3. port \in Readers(p)
  BY <1>2, ReadType
<1> HIDE DEF type, address, port
<1>4. ep \in PeerEndpoints
  BY <1>1, <1>2, <1>3, GetType DEF Readers, PeerEndpoints, Text
<1> HIDE DEF ep
<1>5. port.out \in Peers /\ port.out.endpoints \in Seq(PeerEndpoints)
  BY <1>3 DEF Readers, Peers
<1>6. [port EXCEPT !.out.endpoints = Append(@, ep)] \in Readers(p)
  <2>1. Append(port.out.endpoints, ep) \in Seq(PeerEndpoints)
    BY <1>4, <1>5, AppendProperties
  <2>2. [port.out EXCEPT !.endpoints = Append(@, ep)] \in Peers
    BY <1>5, <2>1 DEF Peers
  <2> QED
    BY <1>3, <2>2 DEF Readers
<1> QED
  BY <1>3, <1>6 DEF ParseEndpoint, type, address, port, ep

LEMMA ParseWillType ==
    ASSUME NEW p \in Text, NEW r \in Readers(p)
    PROVE  ParseWill(r) \in Readers(p)
<1> DEFINE qos == Read(r, 1)
           retain == Read(qos, 1)
           topic == str(retain, 2)
           size == Read(topic, 4)
           payload == Read(size, Get(size.v))
           will == [qos |-> Get(qos.v), retain |-> Get(retain.v) # 0,
                    topic |-> topic.v, payload |-> payload.v]
<1>1. qos \in Readers(p)
  BY ReadType
<1>2. retain \in Readers(p)
  BY <1>1, ReadType
<1>3. topic \in Readers(p)
  BY <1>2, StrType
<1>4. size \in Readers(p)
  BY <1>3, ReadType
<1>5. payload \in Readers(p)
  <2>1. Get(size.v) \in Nat
    BY <1>4, GetType DEF Readers, Text
  <2> QED
    BY <1>4, <2>1, ReadType
<1> HIDE DEF qos, retain, topic, size, payload
<1>6. will \in Wills
  BY <1>1, <1>2, <1>3, <1>5, GetType DEF Readers, Wills, Text
<1> HIDE DEF will
<1>7. [payload EXCEPT !.out.will = {will}] \in Readers(p)
  BY <1>5, <1>6 DEF Readers, Peers
<1> QED
  BY <1>4, <1>5, <1>7 DEF ParseWill, qos, retain, topic, size, payload, will

\* The rounds of the two loops, one by one.
TopicLoop(f, p, r) ==
    /\ f \in [0 .. Get(r.v) -> Readers(p)] /\ f[0] = r
    /\ \A i \in 1 .. Get(r.v) : f[i] = ParseTopic(f[i - 1])
    /\ Times(ParseTopic, r) = f[Get(r.v)]
LEMMA TopicRounds ==
    ASSUME NEW p \in Text, NEW r \in Readers(p)
    PROVE  \E f : TopicLoop(f, p, r)
<1> DEFINE n == Get(r.v)
           Is(f) == f = [i \in 0 .. n |-> IF i = 0 THEN r ELSE ParseTopic(f[i - 1])]
           F == [q \in (1 .. n) \X Readers(p) |-> ParseTopic(q[2])]
           after == CHOOSE f : Is(f)
<1>1. n \in Nat
  BY GetType DEF Readers, Text
<1>2. Times(ParseTopic, r) = after[n]
  BY DEF Times
<1> HIDE DEF n
<1>3. \A i \in 1 .. n, y \in Readers(p) : F[<<i, y>>] = ParseTopic(y) /\ ParseTopic(y) \in Readers(p)
  BY ParseTopicType
<1> HIDE DEF F
<1>4. IsLoop(n, Readers(p), r, F)
  BY <1>1, <1>3 DEF IsLoop
<1>5. PICK f : Goes(f, n, Readers(p), r, F)
  BY <1>4, LoopExists
<1>6. Is(f)
  <2>1. \A i \in 1 .. n : f[i] = F[<<i, f[i - 1]>>] /\ f[i - 1] \in Readers(p)
    BY <1>1, <1>5 DEF Goes
  <2>2. \A i \in 1 .. n : f[i] = ParseTopic(f[i - 1])
    BY <1>3, <2>1
  <2> QED
    BY <1>1, <1>5, <2>2 DEF Goes
<1> HIDE DEF Is
<1>7. Is(after)
  BY <1>6, Zenon
<1> USE DEF Is
<1> HIDE DEF after
<1>8. after[0] = r /\ \A i \in 1 .. n : after[i] = ParseTopic(after[i - 1])
  BY <1>1, <1>7
<1>9. \A i \in 0 .. n : after[i] \in Readers(p)
  BY <1>3, <1>4, <1>8, LoopStays
<1>10. after \in [0 .. n -> Readers(p)]
  <2>1. after = [i \in 0 .. n |-> after[i]]
    BY <1>7
  <2> QED
    BY <1>9, <2>1
<1> QED
  <2>1. TopicLoop(after, p, r)
    BY <1>2, <1>8, <1>10 DEF n, TopicLoop
  <2> QED
    BY <2>1

EndpointLoop(f, p, r) ==
    /\ f \in [0 .. Get(r.v) -> Readers(p)] /\ f[0] = r
    /\ \A i \in 1 .. Get(r.v) : f[i] = ParseEndpoint(f[i - 1])
    /\ Times(ParseEndpoint, r) = f[Get(r.v)]
LEMMA EndpointRounds ==
    ASSUME NEW p \in Text, NEW r \in Readers(p)
    PROVE  \E f : EndpointLoop(f, p, r)
<1> DEFINE n == Get(r.v)
           Is(f) == f = [i \in 0 .. n |-> IF i = 0 THEN r ELSE ParseEndpoint(f[i - 1])]
           F == [q \in (1 .. n) \X Readers(p) |-> ParseEndpoint(q[2])]
           after == CHOOSE f : Is(f)
<1>1. n \in Nat
  BY GetType DEF Readers, Text
<1>2. Times(ParseEndpoint, r) = after[n]
  BY DEF Times
<1> HIDE DEF n
<1>3. \A i \in 1 .. n, y \in Readers(p) : F[<<i, y>>] = ParseEndpoint(y) /\ ParseEndpoint(y) \in Readers(p)
  BY ParseEndpointType
<1> HIDE DEF F
<1>4. IsLoop(n, Readers(p), r, F)
  BY <1>1, <1>3 DEF IsLoop
<1>5. PICK f : Goes(f, n, Readers(p), r, F)
  BY <1>4, LoopExists
<1>6. Is(f)
  <2>1. \A i \in 1 .. n : f[i] = F[<<i, f[i - 1]>>] /\ f[i - 1] \in Readers(p)
    BY <1>1, <1>5 DEF Goes
  <2>2. \A i \in 1 .. n : f[i] = ParseEndpoint(f[i - 1])
    BY <1>3, <2>1
  <2> QED
    BY <1>1, <1>5, <2>2 DEF Goes
<1> HIDE DEF Is
<1>7. Is(after)
  BY <1>6, Zenon
<1> USE DEF Is
<1> HIDE DEF after
<1>8. after[0] = r /\ \A i \in 1 .. n : after[i] = ParseEndpoint(after[i - 1])
  BY <1>1, <1>7
<1>9. \A i \in 0 .. n : after[i] \in Readers(p)
  BY <1>3, <1>4, <1>8, LoopStays
<1>10. after \in [0 .. n -> Readers(p)]
  <2>1. after = [i \in 0 .. n |-> after[i]]
    BY <1>7
  <2> QED
    BY <1>9, <2>1
<1> QED
  <2>1. EndpointLoop(after, p, r)
    BY <1>2, <1>8, <1>10 DEF n, EndpointLoop
  <2> QED
    BY <2>1

LEMMA TopicsType ==
    ASSUME NEW p \in Text, NEW r \in Readers(p)
    PROVE  Times(ParseTopic, r) \in Readers(p)
<1>1. Get(r.v) \in Nat
  BY GetType DEF Readers, Text
<1>2. PICK f : TopicLoop(f, p, r)
  BY TopicRounds
<1> QED
  BY <1>1, <1>2 DEF TopicLoop

LEMMA EndpointsType ==
    ASSUME NEW p \in Text, NEW r \in Readers(p)
    PROVE  Times(ParseEndpoint, r) \in Readers(p)
<1>1. Get(r.v) \in Nat
  BY GetType DEF Readers, Text
<1>2. PICK f : EndpointLoop(f, p, r)
  BY EndpointRounds
<1> QED
  BY <1>1, <1>2 DEF EndpointLoop

LEMMA ParseType == ASSUME NEW p \in Text PROVE parseAnnouncePayload(p) \in Peers \cup {Refused}
<1> DEFINE id == Read(Reader(p), 2)
           domain == Read(id, 1)
           flags == Read(domain, 1)
           names == ParseNames(flags, Get(id.v))
           topics == Times(ParseTopic, Read(names, 1))
           lists == Times(ParseEndpoint, Read(topics, 1))
           end == IF Get(flags.v) % 2 = 1 THEN ParseWill(lists) ELSE lists
<1>1. Reader(p) \in Readers(p)
  BY EmptySeq DEF Reader, Readers, Peers, Text
<1>2. id \in Readers(p)
  BY <1>1, ReadType
<1>3. domain \in Readers(p)
  BY <1>2, ReadType
<1>4. flags \in Readers(p)
  BY <1>3, ReadType
<1>5. parseAnnouncePayload(p) \in {Refused, end.out}
  BY DEF parseAnnouncePayload, ParseLists
<1>6. Get(id.v) \in Nat
  BY <1>2, GetType DEF Readers, Text
<1> HIDE DEF id, domain, flags
<1>7. names \in Readers(p)
  <2> DEFINE name == str(flags, 1)
             host == str(name, 1)
             out == [host.out EXCEPT !.id = Get(id.v), !.name = name.v, !.host = host.v]
  <2>1. name \in Readers(p)
    BY <1>4, StrType
  <2>2. host \in Readers(p)
    BY <2>1, StrType
  <2>3. names = [host EXCEPT !.out = out]
    BY DEF ParseNames
  <2> HIDE DEF name, host
  <2>4. name.v \in Text /\ host.v \in Text /\ host.out \in Peers
    BY <2>1, <2>2 DEF Readers
  <2>5. out \in Peers
    BY <1>6, <2>4 DEF Peers
  <2> HIDE DEF out
  <2> QED
    BY <2>2, <2>3, <2>5 DEF Readers
<1> HIDE DEF names
<1>8. topics \in Readers(p)
  <2>1. Read(names, 1) \in Readers(p)
    BY <1>7, ReadType
  <2> QED
    BY <2>1, TopicsType
<1> HIDE DEF topics
<1>9. lists \in Readers(p)
  <2>1. Read(topics, 1) \in Readers(p)
    BY <1>8, ReadType
  <2> QED
    BY <2>1, EndpointsType
<1> HIDE DEF lists
<1>10. end \in Readers(p)
  BY <1>9, ParseWillType
<1> HIDE DEF end
<1> QED
  BY <1>5, <1>10 DEF Readers

LEMMA FromType == From \in PeerEndpoints /\ From.type = Udp
<1>1. From \in Endpoints /\ From.type = Udp /\ {Udp, Tcp, Shm} \subseteq Short
  BY WireAssumption
<1>2. Short \subseteq Text
  BY SeqMonotonic DEF Short, Text, Cells
<1>3. UInt(2) \subseteq Nat
  BY UIntType
<1> QED
  BY <1>1, <1>2, <1>3 DEF Endpoints, PeerEndpoints

LEMMA ReachType == ASSUME NEW e \in PeerEndpoints PROVE Reach(e) \in PeerEndpoints
  BY FromType DEF Reach, PeerEndpoints

\* The rounds of the loop over the endpoints of a peer.
ResolveLoop(f, s) ==
    /\ f \in [0 .. Len(s) -> Seq(PeerEndpoints)] /\ f[0] = <<From>>
    /\ \A i \in 1 .. Len(s) :
         f[i] = IF s[i].type = Udp THEN f[i - 1] ELSE Append(f[i - 1], Reach(s[i]))
    /\ Resolve(s) = f[Len(s)]
LEMMA ResolveRounds ==
    ASSUME NEW s \in Seq(PeerEndpoints)
    PROVE  \E f : ResolveLoop(f, s)
<1> DEFINE n == Len(s)
           S == Seq(PeerEndpoints)
           Round(i, y) == IF s[i].type = Udp THEN y ELSE Append(y, Reach(s[i]))
           Is(f) == f = [i \in 0 .. n |-> IF i = 0 THEN <<From>> ELSE Round(i, f[i - 1])]
           F == [q \in (1 .. n) \X S |-> Round(q[1], q[2])]
           resolved == CHOOSE f : Is(f)
<1>1. n \in Nat
  OBVIOUS
<1>2. Resolve(s) = resolved[n]
  BY DEF Resolve
<1>3. \A i \in 1 .. n, y \in S : Round(i, y) \in S
  <2> SUFFICES ASSUME NEW i \in 1 .. n, NEW y \in S PROVE Append(y, Reach(s[i])) \in S
    OBVIOUS
  <2>1. Reach(s[i]) \in PeerEndpoints
    BY ReachType
  <2> QED
    BY <2>1, AppendProperties
<1> HIDE DEF Round, n, S
<1>4. \A i \in 1 .. n, y \in S : F[<<i, y>>] = Round(i, y) /\ Round(i, y) \in S
  BY <1>3
<1> HIDE DEF F
<1>5. IsLoop(n, S, <<From>>, F)
  <2>1. <<From>> \in S
    BY FromType DEF S
  <2> QED
    BY <1>1, <1>4, <2>1 DEF IsLoop
<1>6. PICK f : Goes(f, n, S, <<From>>, F)
  BY <1>5, LoopExists
<1>7. Is(f)
  <2>1. \A i \in 1 .. n : f[i] = F[<<i, f[i - 1]>>] /\ f[i - 1] \in S
    BY <1>1, <1>6 DEF Goes
  <2>2. \A i \in 1 .. n : f[i] = Round(i, f[i - 1])
    BY <1>4, <2>1
  <2>3. f \in [0 .. n -> S] /\ f[0] = <<From>>
    BY <1>6 DEF Goes
  <2> DEFINE g == [i \in 0 .. n |-> IF i = 0 THEN <<From>> ELSE Round(i, f[i - 1])]
  <2>4. ASSUME NEW i \in 0 .. n PROVE f[i] = g[i]
    <3>1. CASE i = 0
      BY <1>1, <2>3, <3>1
    <3>2. CASE i # 0
      <4>1. i \in 1 .. n
        BY <1>1, <3>2
      <4> QED
        BY <2>2, <3>2, <4>1
    <3> QED
      BY <3>1, <3>2
  <2>5. f = [i \in 0 .. n |-> f[i]] /\ g = [i \in 0 .. n |-> g[i]]
    BY <2>3
  <2> HIDE DEF g
  <2>6. f = g
    BY <2>4, <2>5
  <2> QED
    BY <2>6 DEF g
<1> HIDE DEF Is
<1>8. Is(resolved)
  BY <1>7, Zenon
<1> USE DEF Is
<1> HIDE DEF resolved
<1>9. resolved[0] = <<From>> /\ \A i \in 1 .. n : resolved[i] = Round(i, resolved[i - 1])
  BY <1>1, <1>8
<1>10. \A i \in 0 .. n : resolved[i] \in S
  BY <1>4, <1>5, <1>9, LoopStays
<1>11. resolved \in [0 .. n -> S]
  <2>1. resolved = [i \in 0 .. n |-> resolved[i]]
    BY <1>8
  <2> QED
    BY <1>10, <2>1
<1> QED
  <2>1. ResolveLoop(resolved, s)
    BY <1>2, <1>9, <1>11 DEF n, S, Round, ResolveLoop
  <2> QED
    BY <2>1

\* What the callback makes of any packet.
Signs == [kind : {"sign"}, type : Nat, id : Nat]
LEMMA ReceivedType ==
    ASSUME NEW data \in Text
    PROVE  recvCallback(data) \in Decoded \cup Peers \cup Signs \cup {Refused}
<1>1. decode(data) \in Decoded \cup {Refused}
  BY DecodeType
<1>2. ASSUME decode(data) # Refused
      PROVE  onDiscoveryMessage(data) \in Peers \cup Signs \cup {Refused}
  <2> DEFINE result == decode(data)
             peer == parseAnnouncePayload(result.payload)
  <2>1. result \in Decoded
    BY <1>1, <1>2
  <2> HIDE DEF result
  <2>2. peer \in Peers \cup {Refused}
    BY <2>1, ParseType DEF Decoded
  <2> HIDE DEF peer
  <2>3. ASSUME peer # Refused PROVE [peer EXCEPT !.endpoints = Resolve(@)] \in Peers
    <3>1. peer \in Peers /\ peer.endpoints \in Seq(PeerEndpoints)
      BY <2>2, <2>3 DEF Peers
    <3>2. PICK f : ResolveLoop(f, peer.endpoints)
      BY <3>1, ResolveRounds
    <3>3. Resolve(peer.endpoints) \in Seq(PeerEndpoints)
      BY <3>1, <3>2, LenProperties DEF ResolveLoop
    <3> QED
      BY <3>1, <3>3 DEF Peers
  <2>4. [kind |-> "sign", type |-> result.type, id |-> result.source] \in Signs
    BY <2>1 DEF Decoded, Signs
  <2> QED
    BY <2>3, <2>4 DEF onDiscoveryMessage, result, peer
<1>3. ASSUME decode(data) = Refused PROVE onDiscoveryMessage(data) = Refused
  BY <1>3 DEF onDiscoveryMessage
<1> QED
  BY <1>1, <1>2, <1>3 DEF recvCallback, onReceived

-----------------------------------------------------------------------------
(* The layout of a packet.                                                 *)

\* The cells s stand in p behind the first off cells.
Holds(p, off, s) ==
    /\ off + Len(s) <= Len(p)
    /\ \A i \in 1 .. Len(s) : p[off + i] = s[i]

LEMMA HoldsSplit ==
    ASSUME NEW S, NEW s \in Seq(S), NEW t \in Seq(S), NEW C, NEW p \in Seq(C), NEW off \in Nat,
           Holds(p, off, s \o t)
    PROVE  Holds(p, off, s) /\ Holds(p, off + Len(s), t)
<1>1. /\ Len(s \o t) = Len(s) + Len(t) /\ Len(s) \in Nat /\ Len(t) \in Nat /\ Len(p) \in Nat
      /\ \A i \in 1 .. Len(s) : (s \o t)[i] = s[i]
      /\ \A i \in 1 .. Len(t) : (s \o t)[Len(s) + i] = t[i]
  BY ConcatProperties, LenProperties
<1>2. off + (Len(s) + Len(t)) <= Len(p)
  BY <1>1 DEF Holds
<1>3. \A i \in 1 .. Len(s) + Len(t) : p[off + i] = (s \o t)[i]
  BY <1>1 DEF Holds
<1>4. Holds(p, off, s)
  <2>1. \A i \in 1 .. Len(s) : i \in 1 .. Len(s) + Len(t)
    BY <1>1
  <2> QED
    BY <1>1, <1>2, <1>3, <2>1 DEF Holds
<1>5. Holds(p, off + Len(s), t)
  <2>1. \A i \in 1 .. Len(t) : p[(off + Len(s)) + i] = t[i]
    <3> SUFFICES ASSUME NEW i \in 1 .. Len(t) PROVE p[(off + Len(s)) + i] = t[i]
      OBVIOUS
    <3>1. Len(s) + i \in 1 .. Len(s) + Len(t) /\ off + (Len(s) + i) = (off + Len(s)) + i
      BY <1>1
    <3> QED
      BY <1>1, <1>3, <3>1
  <2> QED
    BY <1>1, <1>2, <2>1 DEF Holds
<1> QED
  BY <1>4, <1>5

\* What stands in a packet is read from it.
LEMMA HoldsAt ==
    ASSUME NEW S, NEW s \in Seq(S), NEW off \in Nat, NEW p, Holds(p, off, s)
    PROVE  At(p, off, Len(s)) = s
<1>1. Len(s) \in Nat /\ s = [i \in 1 .. Len(s) |-> s[i]]
  OBVIOUS
<1>2. At(p, off, Len(s)) = [i \in 1 .. Len(s) |-> IF off + i <= Len(p) THEN p[off + i] ELSE Beyond]
  BY DEF At
<1> QED
  BY <1>1, <1>2 DEF Holds

LEMMA HoldsNumber ==
    ASSUME NEW w \in 1 .. 8, NEW n \in UInt(w), NEW off \in Nat, NEW p, Holds(p, off, Put(n, w))
    PROVE  off + w <= Len(p) /\ At(p, off, w) = Put(n, w) /\ Get(At(p, off, w)) = n
<1>1. n \in Nat /\ w \in 0 .. 8
  BY UIntType
<1>2. Put(n, w) \in Seq(Bytes) /\ Len(Put(n, w)) = w
  BY <1>1, PutType
<1>3. At(p, off, w) = Put(n, w)
  BY <1>2, HoldsAt
<1> QED
  BY <1>2, <1>3, GetPut DEF Holds

\* The messages and announcements that become packets.
Packable ==
    [type : UInt(1), crc : BOOLEAN, qos : UInt(1), flags : UInt(1), serializer : UInt(1),
     source : UInt(2), dest : UInt(2), seq : UInt(4), corr : UInt(4), time : UInt(8),
     topic : Seq(Bytes), payload : Seq(Bytes)]
FlagByte(m) == (IF m.type \in DataTypes THEN 1 ELSE 0) + (IF m.crc THEN 2 ELSE 0)
HeaderSize(m) == IF m.type \in DataTypes THEN 34 ELSE 26

\* Where the fields of the header stand.
HasHeader(p, m) ==
    /\ Holds(p, 0, Put(EMBEDMQ_MAGIC, 2)) /\ Holds(p, 2, Put(EMBEDMQ_VERSION, 1))
    /\ Holds(p, 3, Put(m.type, 1)) /\ Holds(p, 4, Put(FlagByte(m), 1))
    /\ Holds(p, 5, Put(m.qos, 1)) /\ Holds(p, 6, Put(m.flags, 1))
    /\ Holds(p, 7, Put(m.serializer, 1)) /\ Holds(p, 8, Put(m.source, 2))
    /\ Holds(p, 10, Put(m.dest, 2)) /\ Holds(p, 12, Put(Len(m.topic), 2))
    /\ Holds(p, 14, Put(m.seq, 4)) /\ Holds(p, 18, Put(m.corr, 4))
    /\ Holds(p, 22, Put(Len(m.payload), 4))
    /\ m.type \in DataTypes => Holds(p, 26, Put(m.time, 8))

\* A field behind what was written so far.
Written(s, n) == s \in Seq(Bytes) /\ Len(s) = n
Adds(t, s, k, n, w) == t = s \o Put(n, w) /\ Written(s, k) /\ k \in Nat /\ n \in Nat /\ w \in 0 .. 8
LEMMA WriteField ==
    ASSUME NEW t, NEW s, NEW k, NEW n, NEW w, Adds(t, s, k, n, w)
    PROVE  /\ Written(t, k + w)
           /\ \A p \in Text : Holds(p, 0, t) => Holds(p, 0, s) /\ Holds(p, k, Put(n, w))
<1> USE DEF Adds
<1>1. s \in Seq(Bytes) /\ Len(s) = k /\ Put(n, w) \in Seq(Bytes) /\ Len(Put(n, w)) = w
  BY PutType DEF Written
<1>2. Written(t, k + w)
  BY <1>1, ConcatProperties DEF Written
<1>3. ASSUME NEW p \in Text, Holds(p, 0, t)
      PROVE  Holds(p, 0, s) /\ Holds(p, 0 + Len(s), Put(n, w))
  BY <1>1, <1>3, HoldsSplit DEF Text
<1> QED
  BY <1>1, <1>2, <1>3

LEMMA PackableType ==
    ASSUME NEW m \in Packable
    PROVE  /\ EMBEDMQ_MAGIC \in UInt(2) /\ EMBEDMQ_VERSION \in UInt(1) /\ m.type \in UInt(1)
           /\ FlagByte(m) \in UInt(1) /\ FlagByte(m) \in 0 .. 3
           /\ m.qos \in UInt(1) /\ m.flags \in UInt(1)
           /\ m.serializer \in UInt(1) /\ m.source \in UInt(2) /\ m.dest \in UInt(2)
           /\ m.seq \in UInt(4) /\ m.corr \in UInt(4) /\ m.time \in UInt(8)
           /\ m.topic \in Seq(Bytes) /\ m.payload \in Seq(Bytes) /\ m.crc \in BOOLEAN
           /\ Len(m.topic) \in Nat /\ Len(m.payload) \in Nat
<1>1. FlagByte(m) \in 0 .. 3
  BY DEF FlagByte
<1>2. UInt(1) = 0 .. ByteBase - 1
  BY Powers DEF UInt
<1>3. FlagByte(m) \in UInt(1)
  BY <1>1, <1>2, Base
<1>4. EMBEDMQ_MAGIC \in UInt(2) /\ EMBEDMQ_VERSION \in UInt(1)
  BY WireAssumption
<1> QED
  BY <1>1, <1>3, <1>4 DEF Packable

LEMMA HeaderLayout ==
    ASSUME NEW m \in Packable
    PROVE  /\ Written(writeHeader(m), HeaderSize(m))
           /\ \A p \in Text : Holds(p, 0, writeHeader(m)) => HasHeader(p, m)
<1> DEFINE h1 == Put(EMBEDMQ_MAGIC, 2)
           h2 == h1 \o Put(EMBEDMQ_VERSION, 1)
           h3 == h2 \o Put(m.type, 1)
           h4 == h3 \o Put(FlagByte(m), 1)
           h5 == h4 \o Put(m.qos, 1)
           h6 == h5 \o Put(m.flags, 1)
           h7 == h6 \o Put(m.serializer, 1)
           h8 == h7 \o Put(m.source, 2)
           h9 == h8 \o Put(m.dest, 2)
           h10 == h9 \o Put(Len(m.topic), 2)
           h11 == h10 \o Put(m.seq, 4)
           h12 == h11 \o Put(m.corr, 4)
           h13 == h12 \o Put(Len(m.payload), 4)
           h14 == h13 \o Put(m.time, 8)
<1>1. /\ EMBEDMQ_MAGIC \in Nat /\ EMBEDMQ_VERSION \in Nat /\ m.type \in Nat /\ FlagByte(m) \in Nat
      /\ m.qos \in Nat /\ m.flags \in Nat /\ m.serializer \in Nat /\ m.source \in Nat
      /\ m.dest \in Nat /\ Len(m.topic) \in Nat /\ m.seq \in Nat /\ m.corr \in Nat
      /\ Len(m.payload) \in Nat /\ m.time \in Nat
  BY PackableType, UIntType, SMTT(30)
<1>2. writeHeader(m) = IF m.type \in DataTypes THEN h14 ELSE h13 \o <<>>
  BY DEF writeHeader, FlagByte
<1> HIDE DEF h1
<1>3. Written(h1, 2)
  <2>1. 2 \in 0 .. 8
    OBVIOUS
  <2> QED
    BY <1>1, <2>1, PutType DEF h1, Written
<1>4. /\ Written(h2, 3)
      /\ \A p \in Text : Holds(p, 0, h2) => Holds(p, 0, h1) /\ Holds(p, 2, Put(EMBEDMQ_VERSION, 1))
  <2>1. Adds(h2, h1, 2, EMBEDMQ_VERSION, 1)
    BY <1>1, <1>3 DEF Adds
  <2>2. Written(h2, 2 + 1)
    BY <2>1, WriteField
  <2> QED
    BY <2>1, <2>2, WriteField
<1> HIDE DEF h2
<1>5. /\ Written(h3, 4)
      /\ \A p \in Text : Holds(p, 0, h3) => Holds(p, 0, h2) /\ Holds(p, 3, Put(m.type, 1))
  <2>1. Adds(h3, h2, 3, m.type, 1)
    BY <1>1, <1>4 DEF Adds
  <2>2. Written(h3, 3 + 1)
    BY <2>1, WriteField
  <2> QED
    BY <2>1, <2>2, WriteField
<1> HIDE DEF h3
<1>6. /\ Written(h4, 5)
      /\ \A p \in Text : Holds(p, 0, h4) => Holds(p, 0, h3) /\ Holds(p, 4, Put(FlagByte(m), 1))
  <2>1. Adds(h4, h3, 4, FlagByte(m), 1)
    BY <1>1, <1>5 DEF Adds
  <2>2. Written(h4, 4 + 1)
    BY <2>1, WriteField
  <2> QED
    BY <2>1, <2>2, WriteField
<1> HIDE DEF h4
<1>7. /\ Written(h5, 6)
      /\ \A p \in Text : Holds(p, 0, h5) => Holds(p, 0, h4) /\ Holds(p, 5, Put(m.qos, 1))
  <2>1. Adds(h5, h4, 5, m.qos, 1)
    BY <1>1, <1>6 DEF Adds
  <2>2. Written(h5, 5 + 1)
    BY <2>1, WriteField
  <2> QED
    BY <2>1, <2>2, WriteField
<1> HIDE DEF h5
<1>8. /\ Written(h6, 7)
      /\ \A p \in Text : Holds(p, 0, h6) => Holds(p, 0, h5) /\ Holds(p, 6, Put(m.flags, 1))
  <2>1. Adds(h6, h5, 6, m.flags, 1)
    BY <1>1, <1>7 DEF Adds
  <2>2. Written(h6, 6 + 1)
    BY <2>1, WriteField
  <2> QED
    BY <2>1, <2>2, WriteField
<1> HIDE DEF h6
<1>9. /\ Written(h7, 8)
      /\ \A p \in Text : Holds(p, 0, h7) => Holds(p, 0, h6) /\ Holds(p, 7, Put(m.serializer, 1))
  <2>1. Adds(h7, h6, 7, m.serializer, 1)
    BY <1>1, <1>8 DEF Adds
  <2>2. Written(h7, 7 + 1)
    BY <2>1, WriteField
  <2> QED
    BY <2>1, <2>2, WriteField
<1> HIDE DEF h7
<1>10. /\ Written(h8, 10)
      /\ \A p \in Text : Holds(p, 0, h8) => Holds(p, 0, h7) /\ Holds(p, 8, Put(m.source, 2))
  <2>1. Adds(h8, h7, 8, m.source, 2)
    BY <1>1, <1>9 DEF Adds
  <2>2. Written(h8, 8 + 2)
    BY <2>1, WriteField
  <2> QED
    BY <2>1, <2>2, WriteField
<1> HIDE DEF h8
<1>11. /\ Written(h9, 12)
      /\ \A p \in Text : Holds(p, 0, h9) => Holds(p, 0, h8) /\ Holds(p, 10, Put(m.dest, 2))
  <2>1. Adds(h9, h8, 10, m.dest, 2)
    BY <1>1, <1>10 DEF Adds
  <2>2. Written(h9, 10 + 2)
    BY <2>1, WriteField
  <2> QED
    BY <2>1, <2>2, WriteField
<1> HIDE DEF h9
<1>12. /\ Written(h10, 14)
      /\ \A p \in Text : Holds(p, 0, h10) => Holds(p, 0, h9) /\ Holds(p, 12, Put(Len(m.topic), 2))
  <2>1. Adds(h10, h9, 12, Len(m.topic), 2)
    BY <1>1, <1>11 DEF Adds
  <2>2. Written(h10, 12 + 2)
    BY <2>1, WriteField
  <2> QED
    BY <2>1, <2>2, WriteField
<1> HIDE DEF h10
<1>13. /\ Written(h11, 18)
      /\ \A p \in Text : Holds(p, 0, h11) => Holds(p, 0, h10) /\ Holds(p, 14, Put(m.seq, 4))
  <2>1. Adds(h11, h10, 14, m.seq, 4)
    BY <1>1, <1>12 DEF Adds
  <2>2. Written(h11, 14 + 4)
    BY <2>1, WriteField
  <2> QED
    BY <2>1, <2>2, WriteField
<1> HIDE DEF h11
<1>14. /\ Written(h12, 22)
      /\ \A p \in Text : Holds(p, 0, h12) => Holds(p, 0, h11) /\ Holds(p, 18, Put(m.corr, 4))
  <2>1. Adds(h12, h11, 18, m.corr, 4)
    BY <1>1, <1>13 DEF Adds
  <2>2. Written(h12, 18 + 4)
    BY <2>1, WriteField
  <2> QED
    BY <2>1, <2>2, WriteField
<1> HIDE DEF h12
<1>15. /\ Written(h13, 26)
      /\ \A p \in Text : Holds(p, 0, h13) => Holds(p, 0, h12) /\ Holds(p, 22, Put(Len(m.payload), 4))
  <2>1. Adds(h13, h12, 22, Len(m.payload), 4)
    BY <1>1, <1>14 DEF Adds
  <2>2. Written(h13, 22 + 4)
    BY <2>1, WriteField
  <2> QED
    BY <2>1, <2>2, WriteField
<1> HIDE DEF h13
<1>16. /\ Written(h14, 34)
      /\ \A p \in Text : Holds(p, 0, h14) => Holds(p, 0, h13) /\ Holds(p, 26, Put(m.time, 8))
  <2>1. Adds(h14, h13, 26, m.time, 8)
    BY <1>1, <1>15 DEF Adds
  <2>2. Written(h14, 26 + 8)
    BY <2>1, WriteField
  <2> QED
    BY <2>1, <2>2, WriteField
<1> HIDE DEF h14
<1>17. h13 \o <<>> = h13
  BY <1>15, ConcatEmptySeq DEF Written
<1>18. Written(writeHeader(m), HeaderSize(m))
  BY <1>2, <1>15, <1>16, <1>17 DEF HeaderSize
<1>19. ASSUME NEW p \in Text, Holds(p, 0, writeHeader(m)) PROVE HasHeader(p, m)
  <2>1. Holds(p, 0, h13) /\ (m.type \in DataTypes => Holds(p, 26, Put(m.time, 8)))
    BY <1>2, <1>16, <1>17, <1>19
  <2>2. Holds(p, 0, Put(EMBEDMQ_MAGIC, 2)) <=> Holds(p, 0, h1)
    BY DEF h1
  <2> QED
    BY <2>1, <2>2, <1>4, <1>5, <1>6, <1>7, <1>8, <1>9, <1>10, <1>11, <1>12, <1>13, <1>14, <1>15 DEF HasHeader
<1> QED
  BY <1>18, <1>19

\* A packet: the header, the checksum over all but its first cells, topic and payload.
Rest(m) == m.topic \o m.payload
Covered(m) == SubSeq(writeHeader(m), 5, HeaderSize(m)) \o Rest(m)
Check(m) == IF m.crc THEN Crc(Covered(m)) ELSE <<>>
Head2(m) == writeHeader(m) \o Check(m)
Frame(m) == Head2(m) \o Rest(m)

LEMMA Slice ==
    ASSUME NEW S, NEW s \in Seq(S), NEW lo \in Nat, NEW hi \in Nat, lo >= 1, hi <= Len(s), lo <= hi + 1
    PROVE  /\ SubSeq(s, lo, hi) \in Seq(S) /\ Len(SubSeq(s, lo, hi)) = (hi + 1) - lo
           /\ \A i \in 1 .. (hi + 1) - lo : SubSeq(s, lo, hi)[i] = s[lo + (i - 1)]
  OBVIOUS

LEMMA Join ==
    ASSUME NEW S, NEW s \in Seq(S), NEW t \in Seq(S)
    PROVE  /\ s \o t \in Seq(S) /\ Len(s \o t) = Len(s) + Len(t)
           /\ \A i \in 1 .. Len(s) : (s \o t)[i] = s[i]
           /\ \A i \in 1 .. Len(t) : (s \o t)[Len(s) + i] = t[i]
  OBVIOUS

\* The second part of a sequence.
LEMMA SecondPart ==
    ASSUME NEW S, NEW a \in Seq(S), NEW r \in Seq(S)
    PROVE  SubSeq(a \o r, Len(a) + 1, Len(a \o r)) = r
<1>1. Len(a) \in Nat /\ Len(r) \in Nat /\ Len(a \o r) = Len(a) + Len(r)
  BY ConcatProperties, LenProperties
<1> DEFINE lo == Len(a) + 1
           hi == Len(a) + Len(r)
<1>2. SubSeq(a \o r, Len(a) + 1, Len(a \o r)) = SubSeq(a \o r, lo, hi)
  BY <1>1
<1>3. CASE r = <<>>
  <2>1. lo \in Int /\ hi \in Int /\ hi < lo
    BY <1>1, <1>3
  <2> HIDE DEF lo, hi
  <2> QED
    BY <1>2, <1>3, <2>1, SubSeqEmpty
<1>4. CASE r # <<>>
  <2>1. /\ lo \in Len(a) + 1 .. Len(a) + Len(r) /\ hi \in Len(a) + 1 .. Len(a) + Len(r)
        /\ lo - Len(a) = 1 /\ hi - Len(a) = Len(r)
    BY <1>1, <1>4, EmptySeq
  <2> HIDE DEF lo, hi
  <2>2. SubSeq(a \o r, lo, hi) = SubSeq(r, lo - Len(a), hi - Len(a))
    BY <2>1, SubSeqOfConcat2
  <2> QED
    BY <1>2, <2>1, <2>2, SubSeqFull
<1> QED
  BY <1>3, <1>4

\* The cells before and behind the checksum of a packet w \o z \o r.
LEMMA AroundSum ==
    ASSUME NEW S, NEW w \in Seq(S), NEW z \in Seq(S), NEW r \in Seq(S), Len(z) = 4, Len(w) >= 26
    PROVE  LET x == (w \o z) \o r
           IN  /\ SubSeq(x, 5, Len(w)) = SubSeq(w, 5, Len(w))
               /\ SubSeq(x, Len(w) + 5, Len(x)) = r
<1> DEFINE wz == w \o z
           n == Len(w)
<1>1. n \in Nat /\ n >= 26 /\ n \in 1 .. Len(w) /\ 5 \in 1 .. Len(w)
  BY LenProperties
<1>2. wz \in Seq(S) /\ Len(wz) = n + 4
  <2>1. w \o z \in Seq(S) /\ Len(w \o z) = Len(w) + Len(z)
    BY ConcatProperties
  <2> QED
    BY <2>1
<1>3. SubSeq(wz, 5, n) = SubSeq(w, 5, n)
  BY <1>1, SubSeqOfConcat1
<1> HIDE DEF wz, n
<1>4. n \in 1 .. Len(wz) /\ 5 \in 1 .. Len(wz)
  BY <1>1, <1>2
<1>5. SubSeq(wz \o r, 5, n) = SubSeq(wz, 5, n)
  BY <1>2, <1>4, SubSeqOfConcat1
<1>6. SubSeq(wz \o r, Len(wz) + 1, Len(wz \o r)) = r
  BY <1>2, SecondPart
<1>7. Len(wz) + 1 = n + 5
  BY <1>1, <1>2
<1> QED
  BY <1>3, <1>5, <1>6, <1>7 DEF wz, n

\* What precedes the checksum of a header.
LEMMA HeaderPart ==
    ASSUME NEW m \in Packable
    PROVE  SubSeq(writeHeader(m), 5, HeaderSize(m)) \in Seq(Bytes)
<1> DEFINE w == writeHeader(m)
           hi == HeaderSize(m)
<1>1. w \in Seq(Bytes) /\ Len(w) = hi
  BY HeaderLayout DEF Written
<1>2. hi \in Nat /\ hi >= 26
  BY DEF HeaderSize
<1> HIDE DEF w, hi
<1>3. \A i \in 5 .. hi : w[i] \in Bytes
  BY <1>1, <1>2, ElementOfSeq
<1>4. SubSeq(w, 5, hi) \in Seq(Bytes)
  BY <1>2, <1>3, SubSeqProperties
<1> QED
  BY <1>4 DEF w, hi

LEMMA FrameType ==
    ASSUME NEW m \in Packable
    PROVE  /\ writeHeader(m) \in Seq(Bytes) /\ Len(writeHeader(m)) = HeaderSize(m)
           /\ writeHeader(m) \in Text /\ HeaderSize(m) \in {26, 34}
           /\ Rest(m) \in Seq(Bytes) /\ Rest(m) \in Text /\ Len(Rest(m)) = Len(m.topic) + Len(m.payload)
           /\ Covered(m) \in Seq(Bytes)
           /\ Check(m) \in Text /\ Len(Check(m)) = (IF m.crc THEN 4 ELSE 0)
           /\ Head2(m) \in Text /\ Len(Head2(m)) = HeaderSize(m) + Len(Check(m))
           /\ Frame(m) \in Text /\ Len(Frame(m)) = Len(Head2(m)) + Len(Rest(m))
<1>1. writeHeader(m) \in Seq(Bytes) /\ Len(writeHeader(m)) = HeaderSize(m)
  BY HeaderLayout DEF Written
<1>2. HeaderSize(m) \in {26, 34}
  BY DEF HeaderSize
<1>3. Rest(m) \in Seq(Bytes) /\ Len(Rest(m)) = Len(m.topic) + Len(m.payload)
  BY PackableType, ConcatProperties DEF Rest
<1>4. \A s \in Seq(Bytes) : s \in Text
  BY SeqMonotonic DEF Text, Cells
<1>5. Covered(m) \in Seq(Bytes)
  BY <1>3, HeaderPart, ConcatProperties DEF Covered
<1>6. Check(m) \in Text /\ Len(Check(m)) = (IF m.crc THEN 4 ELSE 0)
  <2>1. \A i \in 1 .. 4 : <<i, Covered(m)>> \in Cells
    BY <1>5 DEF Cells, Sums
  <2>2. Crc(Covered(m)) \in Seq(Cells) /\ Len(Crc(Covered(m))) = 4
    BY <2>1 DEF Crc
  <2>3. <<>> \in Seq(Cells) /\ Len(<<>>) = 0 /\ m.crc \in BOOLEAN
    BY PackableType
  <2>4. CASE m.crc
    BY <2>2, <2>4 DEF Check, Text
  <2>5. CASE ~m.crc
    BY <2>3, <2>5 DEF Check, Text
  <2> QED
    BY <2>4, <2>5
<1>7. Head2(m) \in Text /\ Len(Head2(m)) = HeaderSize(m) + Len(Check(m))
  BY <1>1, <1>4, <1>6, ConcatProperties DEF Text, Head2
<1>8. Frame(m) \in Text /\ Len(Frame(m)) = Len(Head2(m)) + Len(Rest(m))
  BY <1>3, <1>4, <1>7, ConcatProperties DEF Text, Frame
<1> QED
  BY <1>1, <1>2, <1>3, <1>4, <1>5, <1>6, <1>7, <1>8

\* Both encoders make this packet.
LEMMA Gathered ==
    ASSUME NEW m \in Packable, Fits(m)
    PROVE  encodeHeader(m) \o m.topic \o m.payload = Frame(m)
<1>1. /\ m.topic \in Text /\ m.payload \in Text /\ m.topic \in Seq(Bytes) /\ m.payload \in Seq(Bytes)
      /\ Head2(m) \in Text /\ SubSeq(writeHeader(m), 5, HeaderSize(m)) \in Seq(Bytes)
      /\ Len(writeHeader(m)) = HeaderSize(m)
  <2>1. \A s \in Seq(Bytes) : s \in Text
    BY SeqMonotonic DEF Text, Cells
  <2> QED
    BY <2>1, HeaderPart, FrameType, PackableType
<1> DEFINE w == SubSeq(writeHeader(m), 5, HeaderSize(m))
           t == m.topic
           p == m.payload
           h == Head2(m)
<1>2. (w \o t) \o p = w \o (t \o p) /\ (h \o t) \o p = h \o (t \o p)
  <2> HIDE DEF w, t, p, h
  <2>1. w \in Seq(Bytes) /\ t \in Seq(Bytes) /\ p \in Seq(Bytes)
    BY <1>1 DEF w, t, p
  <2>2. h \in Seq(Cells) /\ t \in Seq(Cells) /\ p \in Seq(Cells)
    BY <1>1 DEF h, t, p, Text
  <2>3. (w \o t) \o p = w \o (t \o p)
    BY <2>1, ConcatAssociative
  <2>4. (h \o t) \o p = h \o (t \o p)
    BY <2>2, ConcatAssociative
  <2> QED
    BY <2>3, <2>4
<1>3. encodeHeader(m) = Head2(m)
  <2>1. m.crc \in BOOLEAN /\ Covered(m) = (w \o t) \o p
    BY <1>2, PackableType DEF Covered, Rest
  <2> QED
    BY <1>1, <2>1, ConcatEmptySeq DEF encodeHeader, Head2, Check
<1> QED
  BY <1>2, <1>3 DEF Frame, Rest

\* Four cells written over those behind w.
LEMMA Overlay ==
    ASSUME NEW S, NEW w \in Seq(S), NEW z \in Seq(S), NEW c \in Seq(S), NEW r \in Seq(S),
           Len(z) = 4, Len(c) = 4
    PROVE  LET buf == (w \o z) \o r
           IN  [i \in DOMAIN buf |-> IF i \in Len(w) + 1 .. Len(w) + 4 THEN c[i - Len(w)] ELSE buf[i]]
                 = (w \o c) \o r
<1> DEFINE wz == w \o z
           wc == w \o c
           n == Len(w)
           buf == wz \o r
           new == wc \o r
           k == Len(r)
<1>1. n \in Nat /\ k \in Nat
  BY LenProperties
<1>2. wz \in Seq(S) /\ wc \in Seq(S)
  BY ConcatProperties
<1>3. Len(wz) = n + 4 /\ Len(wc) = n + 4
  <2>1. Len(w \o z) = Len(w) + Len(z) /\ Len(w \o c) = Len(w) + Len(c)
    BY ConcatProperties
  <2> QED
    BY <2>1
<1>4. /\ \A i \in 1 .. n + 4 : wz[i] = IF i <= n THEN w[i] ELSE z[i - n]
      /\ \A i \in 1 .. n + 4 : wc[i] = IF i <= n THEN w[i] ELSE c[i - n]
  <2>1. /\ \A i \in 1 .. Len(w) + Len(z) : (w \o z)[i] = IF i <= Len(w) THEN w[i] ELSE z[i - Len(w)]
        /\ \A i \in 1 .. Len(w) + Len(c) : (w \o c)[i] = IF i <= Len(w) THEN w[i] ELSE c[i - Len(w)]
    BY ConcatProperties
  <2> QED
    BY <2>1
<1> HIDE DEF wz, wc, n
<1>5. /\ buf \in Seq(S) /\ Len(buf) = (n + 4) + k
      /\ \A i \in 1 .. (n + 4) + k : buf[i] = IF i <= n + 4 THEN wz[i] ELSE r[i - (n + 4)]
  <2>1. /\ buf \in Seq(S) /\ Len(buf) = Len(wz) + Len(r)
        /\ \A i \in 1 .. Len(wz) + Len(r) : buf[i] = IF i <= Len(wz) THEN wz[i] ELSE r[i - Len(wz)]
    BY <1>2, ConcatProperties
  <2> QED
    BY <1>3, <2>1
<1>6. /\ new \in Seq(S) /\ Len(new) = (n + 4) + k
      /\ \A i \in 1 .. (n + 4) + k : new[i] = IF i <= n + 4 THEN wc[i] ELSE r[i - (n + 4)]
  <2>1. /\ new \in Seq(S) /\ Len(new) = Len(wc) + Len(r)
        /\ \A i \in 1 .. Len(wc) + Len(r) : new[i] = IF i <= Len(wc) THEN wc[i] ELSE r[i - Len(wc)]
    BY <1>2, ConcatProperties
  <2> QED
    BY <1>3, <2>1
<1> HIDE DEF buf, new, k
<1>7. DOMAIN buf = 1 .. (n + 4) + k /\ new = [i \in 1 .. (n + 4) + k |-> new[i]]
  BY <1>1, <1>5, <1>6, LenProperties
<1>8. ASSUME NEW i \in 1 .. (n + 4) + k
      PROVE  new[i] = IF i \in n + 1 .. n + 4 THEN c[i - n] ELSE buf[i]
  <2>1. CASE i <= n
    <3>1. new[i] = wc[i] /\ buf[i] = wz[i] /\ wc[i] = w[i] /\ wz[i] = w[i]
      BY <1>1, <1>4, <1>5, <1>6, <2>1
    <3> QED
      BY <1>1, <2>1, <3>1
  <2>2. CASE i \in n + 1 .. n + 4
    <3>1. new[i] = wc[i] /\ wc[i] = c[i - n]
      BY <1>1, <1>4, <1>6, <2>2
    <3> QED
      BY <2>2, <3>1
  <2>3. CASE i > n + 4
    <3>1. new[i] = r[i - (n + 4)] /\ buf[i] = r[i - (n + 4)]
      BY <1>1, <1>5, <1>6, <2>3
    <3> QED
      BY <1>1, <2>3, <3>1
  <2> QED
    BY <1>1, <2>1, <2>2, <2>3
<1>9. [i \in DOMAIN buf |-> IF i \in n + 1 .. n + 4 THEN c[i - n] ELSE buf[i]] = new
  BY <1>7, <1>8
<1> QED
  BY <1>9 DEF buf, new, wz, wc, n

LEMMA Encoded ==
    ASSUME NEW m \in Packable, Fits(m)
    PROVE  encode(m) = Frame(m)
<1> DEFINE w == writeHeader(m)
           z == Put(0, IF m.crc THEN 4 ELSE 0)
           r == Rest(m)
           n == Len(w)
           buf == (w \o z) \o r
           crc == computeCrcContiguous(buf, n)
<1>1. w \in Seq(Cells) /\ r \in Seq(Cells) /\ n = HeaderSize(m) /\ n \in Nat /\ n >= 26
  <2>1. w \in Seq(Cells) /\ r \in Seq(Cells) /\ n = HeaderSize(m)
    BY FrameType DEF Text
  <2>2. HeaderSize(m) \in Nat /\ HeaderSize(m) >= 26
    BY DEF HeaderSize
  <2> QED
    BY <2>1, <2>2
<1>2. z \in Seq(Cells) /\ z \in Seq(Bytes) /\ Len(z) = (IF m.crc THEN 4 ELSE 0)
  <2>1. 0 \in 0 .. 8 /\ 4 \in 0 .. 8 /\ m.crc \in BOOLEAN
    BY PackableType
  <2>2. Put(0, 0) \in Seq(Bytes) /\ Len(Put(0, 0)) = 0 /\ Put(0, 4) \in Seq(Bytes) /\ Len(Put(0, 4)) = 4
    BY <2>1, PutType
  <2>3. \A s \in Seq(Bytes) : s \in Seq(Cells)
    BY SeqMonotonic DEF Cells
  <2> QED
    BY <2>1, <2>2, <2>3
<1>3. w \o z \o m.topic \o m.payload = buf
  <2> DEFINE wz == w \o z
             t == m.topic
             p == m.payload
  <2>1. wz \in Seq(Cells)
    BY <1>1, <1>2, ConcatProperties
  <2>2. t \in Seq(Cells) /\ p \in Seq(Cells)
    BY PackableType, SeqMonotonic DEF Cells
  <2> HIDE DEF wz, t, p
  <2>3. (wz \o t) \o p = wz \o (t \o p)
    BY <2>1, <2>2, ConcatAssociative
  <2> QED
    BY <2>3 DEF wz, t, p, Rest
<1>4. encode(m) = [i \in DOMAIN buf |-> IF m.crc /\ i \in n + 1 .. n + 4 THEN crc[i - n] ELSE buf[i]]
  <2> HIDE DEF w, z, r, n
  <2> QED
    BY <1>3 DEF encode, w, z, n
<1>5. CASE m.crc
  <2>1. SubSeq(buf, 5, n) = SubSeq(w, 5, n) /\ SubSeq(buf, n + 5, Len(buf)) = r
    <3> HIDE DEF w, z, r
    <3> QED
      BY <1>1, <1>2, <1>5, AroundSum, SMTT(30)
  <2>2. crc = Check(m)
    <3> HIDE DEF w, r, n
    <3>1. crc = Crc(SubSeq(w, 5, n) \o r)
      BY <2>1 DEF computeCrcContiguous
    <3> QED
      BY <1>1, <1>5, <3>1 DEF Check, Covered, w, r
  <2> DEFINE c == Check(m)
  <2>3. c \in Seq(Cells) /\ Len(c) = 4
    BY <1>5, FrameType DEF Text
  <2>4. encode(m) = [i \in DOMAIN buf |-> IF i \in Len(w) + 1 .. Len(w) + 4 THEN c[i - Len(w)] ELSE buf[i]]
    <3> HIDE DEF buf, c, crc
    <3> QED
      BY <1>4, <1>5, <2>2 DEF c
  <2> HIDE DEF w, z, r, n, c
  <2>5. encode(m) = (w \o c) \o r
    BY <1>1, <1>2, <1>5, <2>3, <2>4, Overlay, SMTT(30)
  <2> QED
    BY <2>5 DEF Frame, Head2, w, c, r
<1>6. CASE ~m.crc
  <2>1. z = <<>>
    BY <1>2, <1>6, EmptySeq
  <2>2. w \o z = w /\ Head2(m) = w
    BY <1>1, <1>6, <2>1, ConcatEmptySeq DEF Head2, Check
  <2>3. buf = Frame(m)
    BY <2>2 DEF Frame
  <2>4. buf \in Seq(Cells)
    BY <2>3, FrameType DEF Text
  <2> HIDE DEF buf
  <2>5. encode(m) = [i \in DOMAIN buf |-> buf[i]]
    BY <1>4, <1>6
  <2>6. buf = [i \in DOMAIN buf |-> buf[i]]
    BY <2>4
  <2> QED
    BY <2>3, <2>5, <2>6
<1> QED
  BY <1>5, <1>6


-----------------------------------------------------------------------------
(* What is announced.                                                      *)

LEMMA CappedType ==
    ASSUME NEW S, NEW s \in Seq(S), NEW limit \in Nat
    PROVE  /\ Capped(s, limit) \in Seq(S) /\ Len(Capped(s, limit)) \in 0 .. limit
           /\ Len(Capped(s, limit)) <= Len(s)
           /\ \A i \in 1 .. Len(Capped(s, limit)) : Capped(s, limit)[i] = s[i]
           /\ Len(s) <= limit => Capped(s, limit) = s
<1>1. CASE Len(s) > limit
  <2>1. SubSeq(s, 1, limit) \in Seq(S) /\ Len(SubSeq(s, 1, limit)) = limit
        /\ \A i \in 1 .. limit : SubSeq(s, 1, limit)[i] = s[i]
    BY <1>1
  <2> QED
    BY <1>1, <2>1 DEF Capped
<1>2. CASE ~(Len(s) > limit)
  BY <1>2 DEF Capped
<1> QED
  BY <1>1, <1>2

\* A string, after its length.
LEMMA Str8Type ==
    ASSUME NEW s \in Seq(Bytes)
    PROVE  /\ Capped(s, ByteBase - 1) \in Seq(Bytes) /\ Len(Capped(s, ByteBase - 1)) \in UInt(1)
           /\ putStr8(s) \in Seq(Bytes)
           /\ Put(Len(Capped(s, ByteBase - 1)), 1) \in Seq(Bytes)
           /\ Len(Put(Len(Capped(s, ByteBase - 1)), 1)) = 1
<1> DEFINE limit == ByteBase - 1
           c == Capped(s, limit)
<1>1. limit \in Nat /\ UInt(1) = 0 .. limit
  BY Base, Powers DEF UInt
<1>2. c \in Seq(Bytes) /\ Len(c) \in 0 .. limit /\ Len(c) \in Nat
  BY <1>1, CappedType
<1>3. 1 \in 0 .. 8
  OBVIOUS
<1>4. Put(Len(c), 1) \in Seq(Bytes) /\ Len(Put(Len(c), 1)) = 1
  BY <1>2, <1>3, PutType
<1>5. putStr8(s) = Put(Len(c), 1) \o c
  BY DEF putStr8
<1> HIDE DEF c
<1>6. Put(Len(c), 1) \o c \in Seq(Bytes)
  BY <1>2, <1>4, ConcatProperties
<1> QED
  BY <1>1, <1>2, <1>4, <1>5, <1>6 DEF c

LEMMA Str16Type ==
    ASSUME NEW s \in Seq(Bytes)
    PROVE  /\ Capped(s, Power[2] - 1) \in Seq(Bytes) /\ Len(Capped(s, Power[2] - 1)) \in UInt(2)
           /\ putStr16(s) \in Seq(Bytes)
           /\ Put(Len(Capped(s, Power[2] - 1)), 2) \in Seq(Bytes)
           /\ Len(Put(Len(Capped(s, Power[2] - 1)), 2)) = 2
<1> DEFINE limit == Power[2] - 1
           c == Capped(s, limit)
<1>1. limit \in Nat /\ UInt(2) = 0 .. limit
  <2>1. 2 \in 0 .. 8 /\ Power[2] \in Nat /\ Power[2] >= 1
    BY Powers
  <2> QED
    BY <2>1 DEF UInt
<1>2. c \in Seq(Bytes) /\ Len(c) \in 0 .. limit /\ Len(c) \in Nat
  BY <1>1, CappedType
<1>3. 2 \in 0 .. 8
  OBVIOUS
<1>4. Put(Len(c), 2) \in Seq(Bytes) /\ Len(Put(Len(c), 2)) = 2
  BY <1>2, <1>3, PutType
<1>5. putStr16(s) = Put(Len(c), 2) \o c
  BY DEF putStr16
<1> HIDE DEF c
<1>6. Put(Len(c), 2) \o c \in Seq(Bytes)
  BY <1>2, <1>4, ConcatProperties
<1> QED
  BY <1>1, <1>2, <1>4, <1>5, <1>6 DEF c

LEMMA TopicItemType == ASSUME NEW t \in Seq(Bytes) PROVE TopicItem(t) \in Seq(Bytes)
<1>1. ROLE_SUB \in Nat /\ 1 \in 0 .. 8
  BY DEF ROLE_SUB
<1>2. Put(ROLE_SUB, 1) \in Seq(Bytes)
  BY <1>1, PutType
<1> QED
  BY <1>2, Str16Type, ConcatProperties DEF TopicItem

LEMMA EndpointItemType == ASSUME NEW e \in Endpoints PROVE EndpointItem(e) \in Seq(Bytes)
<1>1. e.type \in Seq(Bytes) /\ e.address \in Seq(Bytes) /\ e.port \in UInt(2)
  BY WireAssumption DEF Endpoints, Short
<1>2. e.port \in Nat /\ 2 \in 0 .. 8
  BY <1>1, UIntType
<1> DEFINE a == putStr8(e.type)
           b == putStr8(e.address)
           c == Put(e.port, 2)
<1>3. a \in Seq(Bytes) /\ b \in Seq(Bytes) /\ c \in Seq(Bytes)
  BY <1>1, <1>2, Str8Type, PutType
<1>4. EndpointItem(e) = (a \o b) \o c
  BY DEF EndpointItem
<1> HIDE DEF a, b, c
<1>5. a \o b \in Seq(Bytes)
  BY <1>3, ConcatProperties
<1>6. (a \o b) \o c \in Seq(Bytes)
  BY <1>3, <1>5, ConcatProperties
<1> QED
  BY <1>4, <1>6

\* The rounds of the two loops.
TopicList(b, list) ==
    LET s == Capped(list, ByteBase - 1)
    IN  /\ b \in [0 .. Len(s) -> Seq(Bytes)] /\ b[0] = Put(Len(s), 1)
        /\ \A i \in 1 .. Len(s) : b[i] = b[i - 1] \o TopicItem(s[i])
        /\ List(TopicItem, list) = b[Len(s)]
LEMMA TopicListRounds ==
    ASSUME NEW list \in Seq(Seq(Bytes))
    PROVE  \E b : TopicList(b, list)
<1> DEFINE s == Capped(list, ByteBase - 1)
           n == Len(s)
           x == Put(n, 1)
           Is(f) == f = [i \in 0 .. n |-> IF i = 0 THEN x ELSE f[i - 1] \o TopicItem(s[i])]
           F == [q \in (1 .. n) \X Seq(Bytes) |-> q[2] \o TopicItem(s[q[1]])]
           b == CHOOSE f : Is(f)
<1>1. s \in Seq(Seq(Bytes)) /\ n \in Nat
  BY CappedType, Base
<1>2. List(TopicItem, list) = b[n]
  BY DEF List
<1>3. x \in Seq(Bytes)
  <2>1. 1 \in 0 .. 8
    OBVIOUS
  <2> QED
    BY <1>1, <2>1, PutType
<1> HIDE DEF s, n, x
<1>4. \A i \in 1 .. n : TopicItem(s[i]) \in Seq(Bytes)
  BY <1>1, TopicItemType, ElementOfSeq DEF n
<1>5. \A i \in 1 .. n, y \in Seq(Bytes) : /\ F[<<i, y>>] = y \o TopicItem(s[i])
                                         /\ y \o TopicItem(s[i]) \in Seq(Bytes)
  BY <1>4, ConcatProperties
<1> HIDE DEF F
<1>6. IsLoop(n, Seq(Bytes), x, F)
  BY <1>1, <1>3, <1>5 DEF IsLoop
<1>7. PICK f : Goes(f, n, Seq(Bytes), x, F)
  BY <1>6, LoopExists
<1>8. Is(f)
  <2>1. \A i \in 1 .. n : f[i] = F[<<i, f[i - 1]>>] /\ f[i - 1] \in Seq(Bytes)
    BY <1>1, <1>7 DEF Goes
  <2>2. \A i \in 1 .. n : f[i] = f[i - 1] \o TopicItem(s[i])
    BY <1>5, <2>1
  <2>3. f \in [0 .. n -> Seq(Bytes)] /\ f[0] = x
    BY <1>7 DEF Goes
  <2> DEFINE g == [i \in 0 .. n |-> IF i = 0 THEN x ELSE f[i - 1] \o TopicItem(s[i])]
  <2>4. ASSUME NEW i \in 0 .. n PROVE f[i] = g[i]
    <3>1. CASE i = 0
      BY <1>1, <2>3, <3>1
    <3>2. CASE i # 0
      <4>1. i \in 1 .. n
        BY <1>1, <3>2
      <4> QED
        BY <2>2, <3>2, <4>1
    <3> QED
      BY <3>1, <3>2
  <2>5. f = [i \in 0 .. n |-> f[i]] /\ g = [i \in 0 .. n |-> g[i]]
    BY <2>3
  <2> HIDE DEF g
  <2>6. f = g
    BY <2>4, <2>5
  <2> QED
    BY <2>6 DEF g
<1> HIDE DEF Is
<1>9. Is(b)
  BY <1>8, Zenon
<1> USE DEF Is
<1> HIDE DEF b
<1>10. b[0] = x /\ \A i \in 1 .. n : b[i] = b[i - 1] \o TopicItem(s[i])
  BY <1>1, <1>9, SMTT(30)
<1>11. \A i \in 0 .. n : b[i] \in Seq(Bytes)
  <2>1. \A i \in 1 .. n : b[i - 1] \in Seq(Bytes) => b[i] = F[<<i, b[i - 1]>>]
    BY <1>5, <1>10
  <2>2. b[0] = x
    BY <1>10
  <2> QED
    BY <1>6, <2>1, <2>2, LoopStays, SMTT(30)
<1>12. b \in [0 .. n -> Seq(Bytes)]
  <2>1. b = [i \in 0 .. n |-> b[i]]
    BY <1>9
  <2> QED
    BY <1>11, <2>1
<1>13. TopicList(b, list)
  BY <1>2, <1>10, <1>12 DEF TopicList, s, n, x
<1> QED
  BY <1>13

EndpointList(b, list) ==
    LET s == Capped(list, ByteBase - 1)
    IN  /\ b \in [0 .. Len(s) -> Seq(Bytes)] /\ b[0] = Put(Len(s), 1)
        /\ \A i \in 1 .. Len(s) : b[i] = b[i - 1] \o EndpointItem(s[i])
        /\ List(EndpointItem, list) = b[Len(s)]
LEMMA EndpointListRounds ==
    ASSUME NEW list \in Seq(Endpoints)
    PROVE  \E b : EndpointList(b, list)
<1> DEFINE s == Capped(list, ByteBase - 1)
           n == Len(s)
           x == Put(n, 1)
           Is(f) == f = [i \in 0 .. n |-> IF i = 0 THEN x ELSE f[i - 1] \o EndpointItem(s[i])]
           F == [q \in (1 .. n) \X Seq(Bytes) |-> q[2] \o EndpointItem(s[q[1]])]
           b == CHOOSE f : Is(f)
<1>1. s \in Seq(Endpoints) /\ n \in Nat
  BY CappedType, Base
<1>2. List(EndpointItem, list) = b[n]
  BY DEF List
<1>3. x \in Seq(Bytes)
  <2>1. 1 \in 0 .. 8
    OBVIOUS
  <2> QED
    BY <1>1, <2>1, PutType
<1> HIDE DEF s, n, x
<1>4. \A i \in 1 .. n : EndpointItem(s[i]) \in Seq(Bytes)
  BY <1>1, EndpointItemType, ElementOfSeq DEF n
<1>5. \A i \in 1 .. n, y \in Seq(Bytes) : /\ F[<<i, y>>] = y \o EndpointItem(s[i])
                                         /\ y \o EndpointItem(s[i]) \in Seq(Bytes)
  BY <1>4, ConcatProperties
<1> HIDE DEF F
<1>6. IsLoop(n, Seq(Bytes), x, F)
  BY <1>1, <1>3, <1>5 DEF IsLoop
<1>7. PICK f : Goes(f, n, Seq(Bytes), x, F)
  BY <1>6, LoopExists
<1>8. Is(f)
  <2>1. \A i \in 1 .. n : f[i] = F[<<i, f[i - 1]>>] /\ f[i - 1] \in Seq(Bytes)
    BY <1>1, <1>7 DEF Goes
  <2>2. \A i \in 1 .. n : f[i] = f[i - 1] \o EndpointItem(s[i])
    BY <1>5, <2>1
  <2>3. f \in [0 .. n -> Seq(Bytes)] /\ f[0] = x
    BY <1>7 DEF Goes
  <2> DEFINE g == [i \in 0 .. n |-> IF i = 0 THEN x ELSE f[i - 1] \o EndpointItem(s[i])]
  <2>4. ASSUME NEW i \in 0 .. n PROVE f[i] = g[i]
    <3>1. CASE i = 0
      BY <1>1, <2>3, <3>1
    <3>2. CASE i # 0
      <4>1. i \in 1 .. n
        BY <1>1, <3>2
      <4> QED
        BY <2>2, <3>2, <4>1
    <3> QED
      BY <3>1, <3>2
  <2>5. f = [i \in 0 .. n |-> f[i]] /\ g = [i \in 0 .. n |-> g[i]]
    BY <2>3
  <2> HIDE DEF g
  <2>6. f = g
    BY <2>4, <2>5
  <2> QED
    BY <2>6 DEF g
<1> HIDE DEF Is
<1>9. Is(b)
  BY <1>8, Zenon
<1> USE DEF Is
<1> HIDE DEF b
<1>10. b[0] = x /\ \A i \in 1 .. n : b[i] = b[i - 1] \o EndpointItem(s[i])
  BY <1>1, <1>9, SMTT(30)
<1>11. \A i \in 0 .. n : b[i] \in Seq(Bytes)
  <2>1. \A i \in 1 .. n : b[i - 1] \in Seq(Bytes) => b[i] = F[<<i, b[i - 1]>>]
    BY <1>5, <1>10
  <2>2. b[0] = x
    BY <1>10
  <2> QED
    BY <1>6, <2>1, <2>2, LoopStays, SMTT(30)
<1>12. b \in [0 .. n -> Seq(Bytes)]
  <2>1. b = [i \in 0 .. n |-> b[i]]
    BY <1>9
  <2> QED
    BY <1>11, <2>1
<1>13. EndpointList(b, list)
  BY <1>2, <1>10, <1>12 DEF EndpointList, s, n, x
<1> QED
  BY <1>13

\* A sequence of bytes in two parts.
Part(t, s, u) == t = s \o u /\ s \in Seq(Bytes) /\ u \in Seq(Bytes)
LEMMA Parts ==
    ASSUME NEW t, NEW s, NEW u, Part(t, s, u)
    PROVE  /\ t \in Seq(Bytes) /\ Len(t) = Len(s) + Len(u) /\ Len(s) \in Nat /\ Len(u) \in Nat
           /\ \A p \in Text, off \in Nat :
                Holds(p, off, t) => Holds(p, off, s) /\ Holds(p, off + Len(s), u)
<1> USE DEF Part
<1>1. t \in Seq(Bytes) /\ Len(t) = Len(s) + Len(u) /\ Len(s) \in Nat /\ Len(u) \in Nat
  BY ConcatProperties, LenProperties
<1>2. ASSUME NEW p \in Text, NEW off \in Nat, Holds(p, off, t)
      PROVE  Holds(p, off, s) /\ Holds(p, off + Len(s), u)
  BY <1>2, HoldsSplit DEF Text
<1> QED
  BY <1>1, <1>2

\* What an announcement starts with, up to each of its parts, and its will.
WillFlag(a) == IF HasWill(a) THEN 1 ELSE 0
IdOnly(a) == Put(a.id, 2)
WithDomain(a) == IdOnly(a) \o Put(a.domain, 1)
WithFlag(a) == WithDomain(a) \o Put(WillFlag(a), 1)
WithName(a) == WithFlag(a) \o putStr8(a.name)
WithHost(a) == WithName(a) \o putStr8(a.host)
WithTopics(a) == WithHost(a) \o List(TopicItem, a.topics)
WithEndpoints(a) == WithTopics(a) \o List(EndpointItem, a.endpoints)
RetainFlag(w) == IF w.retain THEN 1 ELSE 0
WillQos(w) == Put(w.qos, 1)
WillRetain(w) == WillQos(w) \o Put(RetainFlag(w), 1)
WillTopic(w) == WillRetain(w) \o putStr16(w.topic)
WillSize(w) == WillTopic(w) \o Put(Len(w.payload), 4)
WillPart(w) == WillSize(w) \o w.payload

LEMMA AnnounceType ==
    ASSUME NEW a \in AnnounceRecords
    PROVE  /\ a.id \in UInt(2) /\ a.domain \in UInt(1) /\ a.name \in Seq(Bytes) /\ a.host \in Seq(Bytes)
           /\ Len(a.host) < ByteBase /\ a.topics \in Seq(Seq(Bytes)) /\ a.endpoints \in Seq(Endpoints)
           /\ Len(a.endpoints) < ByteBase
           /\ a.will.enabled \in BOOLEAN /\ a.will.qos \in UInt(1) /\ a.will.retain \in BOOLEAN
           /\ a.will.topic \in Seq(Bytes) /\ a.will.payload \in Seq(Bytes)
           /\ a.id \in Nat /\ a.domain \in Nat /\ a.will.qos \in Nat
           /\ WillFlag(a) \in UInt(1) /\ WillFlag(a) \in 0 .. 1
           /\ RetainFlag(a.will) \in UInt(1) /\ RetainFlag(a.will) \in 0 .. 1
<1>1. UInt(1) = 0 .. ByteBase - 1
  BY Powers DEF UInt
<1>2. WillFlag(a) \in 0 .. 1 /\ RetainFlag(a.will) \in 0 .. 1
  BY DEF WillFlag, RetainFlag
<1>3. WillFlag(a) \in UInt(1) /\ RetainFlag(a.will) \in UInt(1)
  BY <1>1, <1>2, Base
<1>4. /\ a.id \in UInt(2) /\ a.domain \in UInt(1) /\ a.name \in Seq(Bytes) /\ a.host \in Short
      /\ a.topics \in Seq(Seq(Bytes)) /\ a.endpoints \in {s \in Seq(Endpoints) : Len(s) < ByteBase}
      /\ a.will \in [enabled : BOOLEAN, qos : UInt(1), retain : BOOLEAN, topic : Seq(Bytes),
                     payload : Seq(Bytes)]
  BY DEF AnnounceRecords
<1>5. a.id \in Nat /\ a.domain \in Nat /\ a.will.qos \in Nat
  BY <1>4, UIntType
<1> QED
  BY <1>2, <1>3, <1>4, <1>5 DEF Short

LEMMA AnnounceParts ==
    ASSUME NEW a \in AnnounceRecords
    PROVE  /\ IdOnly(a) \in Seq(Bytes) /\ Len(IdOnly(a)) = 2
           /\ Part(WithDomain(a), IdOnly(a), Put(a.domain, 1)) /\ Len(WithDomain(a)) = 3
           /\ Part(WithFlag(a), WithDomain(a), Put(WillFlag(a), 1)) /\ Len(WithFlag(a)) = 4
           /\ Part(WithName(a), WithFlag(a), putStr8(a.name))
           /\ Part(WithHost(a), WithName(a), putStr8(a.host))
           /\ Part(WithTopics(a), WithHost(a), List(TopicItem, a.topics))
           /\ Part(WithEndpoints(a), WithTopics(a), List(EndpointItem, a.endpoints))
<1>1. 1 \in 0 .. 8 /\ 2 \in 0 .. 8 /\ WillFlag(a) \in Nat
  BY AnnounceType
<1>2. /\ IdOnly(a) \in Seq(Bytes) /\ Len(IdOnly(a)) = 2
      /\ Put(a.domain, 1) \in Seq(Bytes) /\ Len(Put(a.domain, 1)) = 1
      /\ Put(WillFlag(a), 1) \in Seq(Bytes) /\ Len(Put(WillFlag(a), 1)) = 1
  BY <1>1, AnnounceType, PutType DEF IdOnly
<1>3. Part(WithDomain(a), IdOnly(a), Put(a.domain, 1))
  BY <1>2 DEF Part, WithDomain
<1>4. WithDomain(a) \in Seq(Bytes) /\ Len(WithDomain(a)) = 3
  <2> DEFINE d == Put(a.domain, 1)
  <2>1. Part(WithDomain(a), IdOnly(a), d)
    BY <1>3
  <2>2. Len(d) = 1
    BY <1>2
  <2> HIDE DEF d
  <2>3. WithDomain(a) \in Seq(Bytes) /\ Len(WithDomain(a)) = Len(IdOnly(a)) + Len(d)
    BY <2>1, Parts
  <2>4. Len(IdOnly(a)) = 2
    BY <1>2
  <2> QED
    BY <2>2, <2>3, <2>4
<1>5. Part(WithFlag(a), WithDomain(a), Put(WillFlag(a), 1))
  BY <1>2, <1>4 DEF Part, WithFlag
<1>6. WithFlag(a) \in Seq(Bytes) /\ Len(WithFlag(a)) = 4
  <2> DEFINE d == Put(WillFlag(a), 1)
  <2>1. Part(WithFlag(a), WithDomain(a), d)
    BY <1>5
  <2>2. Len(d) = 1
    BY <1>2
  <2> HIDE DEF d
  <2>3. WithFlag(a) \in Seq(Bytes) /\ Len(WithFlag(a)) = Len(WithDomain(a)) + Len(d)
    BY <2>1, Parts
  <2>4. Len(WithDomain(a)) = 3
    BY <1>4
  <2> QED
    BY <2>2, <2>3, <2>4
<1>7. Part(WithName(a), WithFlag(a), putStr8(a.name))
  BY <1>6, AnnounceType, Str8Type DEF Part, WithName
<1>8. Part(WithHost(a), WithName(a), putStr8(a.host))
  BY <1>7, Parts, AnnounceType, Str8Type DEF Part, WithHost
<1>9. List(TopicItem, a.topics) \in Seq(Bytes)
  <2> DEFINE s == Capped(a.topics, ByteBase - 1)
  <2>1. PICK b : TopicList(b, a.topics)
    BY AnnounceType, TopicListRounds
  <2>2. Len(s) \in Nat
    BY Base, AnnounceType, CappedType
  <2>3. b \in [0 .. Len(s) -> Seq(Bytes)] /\ List(TopicItem, a.topics) = b[Len(s)]
    BY <2>1 DEF TopicList
  <2> QED
    BY <2>2, <2>3
<1>10. List(EndpointItem, a.endpoints) \in Seq(Bytes)
  <2> DEFINE s == Capped(a.endpoints, ByteBase - 1)
  <2>1. PICK b : EndpointList(b, a.endpoints)
    BY AnnounceType, EndpointListRounds
  <2>2. Len(s) \in Nat
    BY Base, AnnounceType, CappedType
  <2>3. b \in [0 .. Len(s) -> Seq(Bytes)] /\ List(EndpointItem, a.endpoints) = b[Len(s)]
    BY <2>1 DEF EndpointList
  <2> QED
    BY <2>2, <2>3
<1>11. Part(WithTopics(a), WithHost(a), List(TopicItem, a.topics))
  BY <1>8, <1>9, Parts DEF Part, WithTopics
<1>12. Part(WithEndpoints(a), WithTopics(a), List(EndpointItem, a.endpoints))
  BY <1>10, <1>11, Parts DEF Part, WithEndpoints
<1> QED
  BY <1>2, <1>3, <1>4, <1>5, <1>6, <1>7, <1>8, <1>11, <1>12

LEMMA WillParts ==
    ASSUME NEW a \in AnnounceRecords, NEW w, w = a.will
    PROVE  /\ WillQos(w) \in Seq(Bytes) /\ Len(WillQos(w)) = 1
           /\ Part(WillRetain(w), WillQos(w), Put(RetainFlag(w), 1)) /\ Len(WillRetain(w)) = 2
           /\ Part(WillTopic(w), WillRetain(w), putStr16(w.topic))
           /\ Part(WillSize(w), WillTopic(w), Put(Len(w.payload), 4))
           /\ Part(WillPart(w), WillSize(w), w.payload)
<1>1. /\ 1 \in 0 .. 8 /\ 4 \in 0 .. 8 /\ RetainFlag(w) \in Nat /\ w.qos \in Nat
      /\ w.topic \in Seq(Bytes) /\ w.payload \in Seq(Bytes) /\ Len(w.payload) \in Nat
  BY AnnounceType
<1>2. /\ WillQos(w) \in Seq(Bytes) /\ Len(WillQos(w)) = 1
      /\ Put(RetainFlag(w), 1) \in Seq(Bytes) /\ Len(Put(RetainFlag(w), 1)) = 1
      /\ Put(Len(w.payload), 4) \in Seq(Bytes)
  BY <1>1, PutType DEF WillQos
<1>3. Part(WillRetain(w), WillQos(w), Put(RetainFlag(w), 1))
  BY <1>2 DEF Part, WillRetain
<1>4. WillRetain(w) \in Seq(Bytes) /\ Len(WillRetain(w)) = 2
  <2> DEFINE d == Put(RetainFlag(w), 1)
  <2>1. Part(WillRetain(w), WillQos(w), d)
    BY <1>3
  <2>2. Len(d) = 1
    BY <1>2
  <2> HIDE DEF d
  <2>3. WillRetain(w) \in Seq(Bytes) /\ Len(WillRetain(w)) = Len(WillQos(w)) + Len(d)
    BY <2>1, Parts
  <2>4. Len(WillQos(w)) = 1
    BY <1>2
  <2> QED
    BY <2>2, <2>3, <2>4
<1>5. Part(WillTopic(w), WillRetain(w), putStr16(w.topic))
  BY <1>1, <1>4, Str16Type DEF Part, WillTopic
<1>6. Part(WillSize(w), WillTopic(w), Put(Len(w.payload), 4))
  BY <1>2, <1>5, Parts DEF Part, WillSize
<1>7. Part(WillPart(w), WillSize(w), w.payload)
  BY <1>1, <1>6, Parts DEF Part, WillPart
<1> QED
  BY <1>2, <1>3, <1>4, <1>5, <1>6, <1>7

LEMMA PayloadParts ==
    ASSUME NEW a \in AnnounceRecords
    PROVE  /\ HasWill(a) => Part(buildAnnouncePayload(a), WithEndpoints(a), WillPart(a.will))
           /\ ~HasWill(a) => Part(buildAnnouncePayload(a), WithEndpoints(a), <<>>)
           /\ buildAnnouncePayload(a) \in Seq(Bytes)
<1>1. WithEndpoints(a) \in Seq(Bytes) /\ WillPart(a.will) \in Seq(Bytes) /\ <<>> \in Seq(Bytes)
  BY AnnounceParts, WillParts, Parts, SMTT(30)
<1>2. buildAnnouncePayload(a) = WithEndpoints(a) \o IF ~HasWill(a) THEN <<>> ELSE WillPart(a.will)
  BY DEF buildAnnouncePayload, WithEndpoints, WithTopics, WithHost, WithName, WithFlag, WithDomain,
         IdOnly, WillFlag, WillPart, WillSize, WillTopic, WillRetain, WillQos, RetainFlag
<1>3. /\ HasWill(a) => Part(buildAnnouncePayload(a), WithEndpoints(a), WillPart(a.will))
      /\ ~HasWill(a) => Part(buildAnnouncePayload(a), WithEndpoints(a), <<>>)
  BY <1>1, <1>2 DEF Part
<1> QED
  BY <1>3, Parts

LEMMA ZeroFits == 0 \in UInt(1) /\ 0 \in UInt(4) /\ 0 \in UInt(8) /\ Power[2] - 1 \in UInt(2)
<1>1. 1 \in 0 .. 8 /\ 2 \in 0 .. 8 /\ 4 \in 0 .. 8 /\ 8 \in 0 .. 8
  OBVIOUS
<1>2. /\ Power[1] \in Nat /\ Power[1] >= 1 /\ Power[2] \in Nat /\ Power[2] >= 1
      /\ Power[4] \in Nat /\ Power[4] >= 1 /\ Power[8] \in Nat /\ Power[8] >= 1
  BY <1>1, Powers
<1> QED
  BY <1>2 DEF UInt

LEMMA SentType ==
    /\ Messages \subseteq Packable
    /\ \A a \in Announcements :
         /\ a \in AnnounceRecords /\ AnnounceMessage(a) \in Packable
         /\ [AnnounceMessage(a) EXCEPT !.crc = FALSE] \in Packable
<1>1. Messages \subseteq Packable
  BY WireAssumption DEF MessageRecords, Packable
<1>2. ANNOUNCE \in UInt(1)
  BY WireAssumption
<1>3. ASSUME NEW a \in Announcements
      PROVE  /\ a \in AnnounceRecords /\ AnnounceMessage(a) \in Packable
             /\ [AnnounceMessage(a) EXCEPT !.crc = FALSE] \in Packable
  <2>1. a \in AnnounceRecords
    BY WireAssumption
  <2>2. buildAnnouncePayload(a) \in Seq(Bytes) /\ a.id \in UInt(2) /\ <<>> \in Seq(Bytes)
    BY <2>1, PayloadParts, AnnounceType
  <2>3. AnnounceMessage(a) \in Packable
    BY <1>2, <2>2, ZeroFits DEF AnnounceMessage, Packable
  <2> QED
    BY <2>1, <2>3 DEF Packable
<1> QED
  BY <1>1, <1>3

LEMMA PacketText ==
    ASSUME NEW m \in Packable
    PROVE  encode(m) \in Text /\ encodeHeader(m) \o m.topic \o m.payload \in Text
<1>1. CASE Fits(m)
  BY <1>1, Encoded, Gathered, FrameType
<1>2. CASE ~Fits(m)
  <2>1. encode(m) = <<>> /\ encodeHeader(m) = <<>>
    BY <1>2 DEF encode, encodeHeader
  <2>2. m.topic \in Seq(Cells) /\ m.payload \in Seq(Cells) /\ <<>> \in Seq(Cells)
    BY PackableType, SeqMonotonic DEF Cells
  <2>3. <<>> \o m.topic = m.topic
    BY <2>2, ConcatEmptySeq
  <2>4. m.topic \o m.payload \in Seq(Cells)
    BY <2>2, ConcatProperties
  <2> QED
    BY <2>1, <2>2, <2>3, <2>4 DEF Text
<1> QED
  BY <1>1, <1>2

-----------------------------------------------------------------------------
(* Nothing is read from behind the end of a packet.                        *)

\* The packet in the network is made of cells, and what the receiver has is what the
\* callback makes of that packet.
PacketInv == packet \in Text
ResultInv == got = Waiting \/ got = recvCallback(packet)

LEMMA ShortRefused == recvCallback(<<>>) = Refused
  BY DEF recvCallback, HEADER_BASE_SIZE

LEMMA NoiseType == \A n \in Noise : Byte(n) \in Bytes
  BY WireAssumption DEF Bytes

LEMMA InvStep ==
    ASSUME PacketInv, ResultInv, [Next]_vars
    PROVE  PacketInv' /\ ResultInv'
<1> USE DEF PacketInv, ResultInv
<1>1. ASSUME NEW m \in Messages, Send(m) \/ SendGathered(m) PROVE PacketInv' /\ ResultInv'
  BY <1>1, SentType, PacketText DEF Send, SendGathered, Carry
<1>2. ASSUME NEW a \in Announcements, SendAnnounce(a) \/ Stray(a) PROVE PacketInv' /\ ResultInv'
  BY <1>2, SentType, PacketText DEF SendAnnounce, Stray, Carry
<1>3. ASSUME NEW off \in 0 .. Len(packet) - 1, NEW n \in Noise, Overwrite(off, n)
      PROVE  PacketInv' /\ ResultInv'
  <2>1. Len(packet) \in Nat /\ off + 1 \in 1 .. Len(packet)
    BY <1>3 DEF Text
  <2>2. Byte(n) \in Cells
    BY NoiseType DEF Cells
  <2>3. [packet EXCEPT ![off + 1] = Byte(n)] \in Seq(Cells)
    BY <2>1, <2>2, ExceptSeq DEF Text
  <2> QED
    BY <1>3, <2>3 DEF Overwrite, Text
<1>4. ASSUME NEW size \in 0 .. Len(packet) - 1, Cut(size) PROVE PacketInv' /\ ResultInv'
  <2>1. SubSeq(packet, 1, size) \in Seq(Cells)
    BY DEF Text
  <2> QED
    BY <1>4, <2>1 DEF Cut, Text
<1>5. CASE Receive
  BY <1>5 DEF Receive
<1>6. CASE UNCHANGED vars
  BY <1>6 DEF vars
<1> QED
  BY <1>1, <1>2, <1>3, <1>4, <1>5, <1>6 DEF Next

LEMMA CodecInvariant == Spec => [](PacketInv /\ ResultInv)
<1>1. Init => PacketInv /\ ResultInv
  BY ShortRefused, EmptySeq DEF Init, PacketInv, ResultInv, Text
<1>2. (PacketInv /\ ResultInv) /\ [Next]_vars => (PacketInv /\ ResultInv)'
  BY InvStep
<1> QED
  BY <1>1, <1>2, PTL DEF Spec

LEMMA CleanText == ASSUME NEW s \in Text PROVE \A i \in DOMAIN s : s[i] # Beyond
<1>1. \A i \in DOMAIN s : s[i] \in Cells
  BY DEF Text
<1> QED
  BY <1>1, CellType

\* Whatever happens to a packet, and whatever it claims about the sizes of its parts,
\* all that the receiver makes of it are bytes inside the packet.
THEOREM NeverOverread == Spec => []NoOverread
<1>1. PacketInv /\ ResultInv => NoOverread
  <2> SUFFICES ASSUME packet \in Text, got = Waiting \/ got = recvCallback(packet) PROVE NoOverread
    BY DEF PacketInv, ResultInv
  <2>1. got \in Decoded \cup Peers \cup Signs \cup {Refused, Waiting}
    BY ReceivedType
  <2>2. CASE got \in Decoded
    <3>1. got.kind = "message" /\ got.topic \in Text /\ got.payload \in Text /\ got.time \in Text
      BY <2>2 DEF Decoded
    <3> QED
      BY <3>1, CleanText DEF NoOverread
  <2>3. CASE got \in Peers
    <3>1. /\ got.kind = "peer" /\ got.name \in Text /\ got.host \in Text /\ got.id >= 0
          /\ got.subscribed \in Seq(Text) /\ got.endpoints \in Seq(PeerEndpoints)
          /\ got.will \in SUBSET Wills
      BY <2>3 DEF Peers
    <3>2. \A i \in DOMAIN got.subscribed : got.subscribed[i] \in Text
      BY <3>1
    <3>3. \A e \in ToSet(got.endpoints) : e.address \in Text /\ e.port >= 0
      <4>1. ToSet(got.endpoints) \subseteq PeerEndpoints
        BY <3>1 DEF ToSet
      <4> QED
        BY <4>1 DEF PeerEndpoints
    <3>4. \A w \in got.will : w.topic \in Text /\ w.payload \in Text
      BY <3>1 DEF Wills
    <3> QED
      BY <3>1, <3>2, <3>3, <3>4, CleanText DEF NoOverread
  <2>4. CASE got \in Signs \cup {Refused, Waiting}
    <3>1. got.kind \notin {"message", "peer"}
      BY <2>4 DEF Signs, Refused, Waiting
    <3> QED
      BY <3>1 DEF NoOverread
  <2> QED
    BY <2>1, <2>2, <2>3, <2>4
<1> QED
  BY <1>1, CodecInvariant, PTL

-----------------------------------------------------------------------------
(* A packet that nothing happened to.                                      *)

\* What the header says, when it is read.
Content(m) ==
    [kind |-> "message", type |-> m.type, qos |-> m.qos, flags |-> m.flags,
     serializer |-> m.serializer, source |-> m.source, dest |-> m.dest, seq |-> m.seq,
     corr |-> m.corr, time |-> IF m.type \in DataTypes THEN Put(m.time, 8) ELSE <<>>,
     topic |-> m.topic, payload |-> m.payload]
ReadsHeader(p, m) ==
    /\ Get(At(p, 0, 2)) = EMBEDMQ_MAGIC /\ Get(At(p, 2, 1)) = EMBEDMQ_VERSION
    /\ Get(At(p, 3, 1)) = m.type /\ Get(At(p, 4, 1)) = FlagByte(m)
    /\ Get(At(p, 5, 1)) = m.qos /\ Get(At(p, 6, 1)) = m.flags
    /\ Get(At(p, 7, 1)) = m.serializer /\ Get(At(p, 8, 2)) = m.source
    /\ Get(At(p, 10, 2)) = m.dest /\ Get(At(p, 12, 2)) = Len(m.topic)
    /\ Get(At(p, 14, 4)) = m.seq /\ Get(At(p, 18, 4)) = m.corr
    /\ Get(At(p, 22, 4)) = Len(m.payload)
    /\ m.type \in DataTypes => At(p, 26, 8) = Put(m.time, 8)

\* A field of a header, read by its place.
FieldAt(p, off, n, w) == off \in Nat /\ w \in 1 .. 8 /\ n \in UInt(w) /\ Holds(p, off, Put(n, w))
LEMMA ReadField ==
    ASSUME NEW p, NEW off, NEW n, NEW w, FieldAt(p, off, n, w)
    PROVE  Get(At(p, off, w)) = n /\ At(p, off, w) = Put(n, w)
  BY HoldsNumber DEF FieldAt

LEMMA SizesFit ==
    ASSUME NEW m \in Packable, Fits(m)
    PROVE  Len(m.topic) \in UInt(2) /\ Len(m.payload) \in UInt(4)
<1>1. Len(m.topic) \in Nat /\ Len(m.payload) \in Nat
  BY PackableType
<1>2. 2 \in 0 .. 8 /\ 4 \in 0 .. 8 /\ Power[2] \in Nat /\ Power[4] \in Nat
  BY Powers
<1>3. MAX_PAYLOAD_LEN \in UInt(4)
  BY WireAssumption
<1> QED
  BY <1>1, <1>2, <1>3 DEF Fits, MAX_TOPIC_LEN, UInt

LEMMA HeaderRead ==
    ASSUME NEW m \in Packable, Fits(m), NEW p, HasHeader(p, m)
    PROVE  ReadsHeader(p, m)
<1>1. /\ FieldAt(p, 0, EMBEDMQ_MAGIC, 2) /\ FieldAt(p, 2, EMBEDMQ_VERSION, 1)
      /\ FieldAt(p, 3, m.type, 1) /\ FieldAt(p, 4, FlagByte(m), 1)
      /\ FieldAt(p, 5, m.qos, 1) /\ FieldAt(p, 6, m.flags, 1)
      /\ FieldAt(p, 7, m.serializer, 1) /\ FieldAt(p, 8, m.source, 2)
      /\ FieldAt(p, 10, m.dest, 2) /\ FieldAt(p, 12, Len(m.topic), 2)
      /\ FieldAt(p, 14, m.seq, 4) /\ FieldAt(p, 18, m.corr, 4)
      /\ FieldAt(p, 22, Len(m.payload), 4)
      /\ m.type \in DataTypes => FieldAt(p, 26, m.time, 8)
  BY PackableType, SizesFit DEF HasHeader, FieldAt
<1> QED
  BY <1>1, ReadField, SMTT(30) DEF ReadsHeader

\* Where the parts of a packet stand.
LEMMA FrameHolds ==
    ASSUME NEW m \in Packable, NEW p, p = Frame(m)
    PROVE  /\ p \in Text /\ HasHeader(p, m)
           /\ Holds(p, HeaderSize(m), Check(m))
           /\ Holds(p, Len(Head2(m)), m.topic)
           /\ Holds(p, Len(Head2(m)) + Len(m.topic), m.payload)
<1> DEFINE h == Head2(m)
           r == Rest(m)
           w == writeHeader(m)
           c == Check(m)
           t == m.topic
           q == m.payload
<1>1. /\ p \in Seq(Cells) /\ h \in Seq(Cells) /\ r \in Seq(Cells) /\ w \in Seq(Cells) /\ c \in Seq(Cells)
      /\ Len(w) = HeaderSize(m) /\ Len(h) \in Nat
  <2>1. /\ p \in Seq(Cells) /\ h \in Seq(Cells) /\ r \in Seq(Cells) /\ w \in Seq(Cells)
        /\ c \in Seq(Cells) /\ Len(w) = HeaderSize(m)
    BY FrameType DEF Text
  <2> QED
    BY <2>1, LenProperties
<1>2. t \in Seq(Cells) /\ q \in Seq(Cells)
  BY PackableType, SeqMonotonic DEF Cells
<1>3. p = h \o r /\ h = w \o c /\ r = t \o q
  BY DEF Frame, Head2, Rest
<1> HIDE DEF h, r, w, c, t, q
<1>4. Holds(p, 0, p)
  BY <1>1 DEF Holds
<1>5. Holds(p, 0, h) /\ Holds(p, 0 + Len(h), r)
  <2>1. Holds(p, 0, h \o r) /\ 0 \in Nat
    BY <1>3, <1>4
  <2> QED
    BY <1>1, <2>1, HoldsSplit
<1>6. Holds(p, 0, w) /\ Holds(p, 0 + Len(w), c)
  <2>1. Holds(p, 0, w \o c) /\ 0 \in Nat
    BY <1>3, <1>5
  <2> QED
    BY <1>1, <2>1, HoldsSplit
<1>7. Holds(p, Len(h), t) /\ Holds(p, Len(h) + Len(t), q)
  <2>1. Holds(p, Len(h), t \o q)
    BY <1>1, <1>3, <1>5
  <2> QED
    BY <1>1, <1>2, <2>1, HoldsSplit
<1>8. p \in Text /\ HasHeader(p, m)
  BY <1>1, <1>6, HeaderLayout DEF Text, w
<1>9. Holds(p, HeaderSize(m), Check(m))
  <2>1. 0 + Len(w) = HeaderSize(m)
    BY <1>1 DEF HeaderSize
  <2> QED
    BY <1>6, <2>1 DEF c
<1> QED
  BY <1>7, <1>8, <1>9 DEF h, t, q

\* The flags tell whether there are a time and a checksum.
LEMMA FlagBits ==
    ASSUME NEW m \in Packable
    PROVE  /\ FlagByte(m) % 2 = 1 <=> m.type \in DataTypes
           /\ (FlagByte(m) \div 2) % 2 = 1 <=> m.crc
<1>1. m.crc \in BOOLEAN
  BY PackableType
<1>2. /\ 0 % 2 = 0 /\ 1 % 2 = 1 /\ 2 % 2 = 0 /\ 3 % 2 = 1
      /\ 0 \div 2 = 0 /\ 1 \div 2 = 0 /\ 2 \div 2 = 1 /\ 3 \div 2 = 1
  OBVIOUS
<1> QED
  BY <1>1, <1>2 DEF FlagByte

LEMMA WholeAt == ASSUME NEW S, NEW p \in Seq(S) PROVE At(p, 0, Len(p)) = p
<1>1. Holds(p, 0, p)
  BY DEF Holds
<1> QED
  BY <1>1, HoldsAt

\* The checksum of an undamaged packet is found right.
LEMMA SumRight ==
    ASSUME NEW m \in Packable, m.crc, NEW p, p = Frame(m)
    PROVE  At(p, HeaderSize(m), 4) = computeCrcContiguous(p, HeaderSize(m))
<1> DEFINE w == writeHeader(m)
           c == Check(m)
           r == Rest(m)
<1>1. w \in Seq(Cells) /\ c \in Seq(Cells) /\ r \in Seq(Cells) /\ Len(c) = 4 /\ Len(w) = HeaderSize(m)
  BY FrameType DEF Text
<1>2. HeaderSize(m) \in Nat /\ HeaderSize(m) >= 26
  BY DEF HeaderSize
<1>3. p = (w \o c) \o r
  BY DEF Frame, Head2
<1>4. Holds(p, HeaderSize(m), c)
  BY FrameHolds
<1> HIDE DEF w, c, r
<1>5. At(p, HeaderSize(m), 4) = c
  BY <1>1, <1>2, <1>4, HoldsAt
<1>6. SubSeq(p, 5, Len(w)) = SubSeq(w, 5, Len(w)) /\ SubSeq(p, Len(w) + 5, Len(p)) = r
  BY <1>1, <1>2, <1>3, AroundSum, SMTT(30)
<1>7. computeCrcContiguous(p, HeaderSize(m)) = Crc(SubSeq(w, 5, HeaderSize(m)) \o r)
  BY <1>1, <1>6 DEF computeCrcContiguous
<1> QED
  BY <1>5, <1>7 DEF Check, Covered, w, r, c

\* An undamaged packet is decoded to what was encoded.
LEMMA DecodeFrame ==
    ASSUME NEW m \in Packable, Fits(m), NEW p, p = Frame(m)
    PROVE  decode(p) = Content(m) /\ Len(p) >= HEADER_BASE_SIZE
<1> DEFINE U(off, width) == Get(At(p, off, width))
           hasTs == U(4, 1) % 2 = 1
           hasCrc == (U(4, 1) \div 2) % 2 = 1
           checksumPos == HEADER_BASE_SIZE + IF hasTs THEN 8 ELSE 0
           headerSize == checksumPos + IF hasCrc THEN 4 ELSE 0
           topicLen == U(12, 2)
           payloadLen == U(22, 4)
           expected == headerSize + topicLen + payloadLen
<1>1. p \in Text /\ ReadsHeader(p, m)
  BY FrameHolds, HeaderRead
<1>2. (hasTs <=> m.type \in DataTypes) /\ (hasCrc <=> m.crc)
  BY <1>1, FlagBits DEF ReadsHeader
<1>3. topicLen = Len(m.topic) /\ payloadLen = Len(m.payload)
  BY <1>1 DEF ReadsHeader
<1>4. decode(p) =
        IF \/ Len(p) < HEADER_BASE_SIZE
           \/ U(0, 2) # EMBEDMQ_MAGIC \/ U(2, 1) # EMBEDMQ_VERSION
           \/ Len(p) < headerSize
           \/ Len(p) < expected
           \/ hasCrc /\ At(p, checksumPos, 4) # computeCrcContiguous(At(p, 0, expected), checksumPos)
        THEN Refused
        ELSE [kind |-> "message", type |-> U(3, 1), qos |-> U(5, 1),
              flags |-> U(6, 1), serializer |-> U(7, 1), source |-> U(8, 2),
              dest |-> U(10, 2), seq |-> U(14, 4), corr |-> U(18, 4),
              time |-> IF hasTs THEN At(p, HEADER_BASE_SIZE, 8) ELSE <<>>,
              topic |-> At(p, headerSize, topicLen),
              payload |-> At(p, headerSize + topicLen, payloadLen)]
  BY DEF decode
<1>5. /\ U(0, 2) = EMBEDMQ_MAGIC /\ U(2, 1) = EMBEDMQ_VERSION /\ U(3, 1) = m.type
      /\ U(5, 1) = m.qos /\ U(6, 1) = m.flags /\ U(7, 1) = m.serializer /\ U(8, 2) = m.source
      /\ U(10, 2) = m.dest /\ U(14, 4) = m.seq /\ U(18, 4) = m.corr
      /\ m.type \in DataTypes => At(p, HEADER_BASE_SIZE, 8) = Put(m.time, 8)
  BY <1>1 DEF ReadsHeader, HEADER_BASE_SIZE
<1> HIDE DEF U, hasTs, hasCrc, topicLen, payloadLen
<1>6. checksumPos = HeaderSize(m)
  BY <1>2 DEF HeaderSize, HEADER_BASE_SIZE
<1>7. headerSize = Len(Head2(m)) /\ headerSize \in Nat /\ headerSize >= HEADER_BASE_SIZE
  <2>1. HeaderSize(m) \in Nat /\ HeaderSize(m) >= HEADER_BASE_SIZE /\ m.crc \in BOOLEAN
    BY PackableType DEF HeaderSize, HEADER_BASE_SIZE
  <2>2. Len(Head2(m)) = HeaderSize(m) + Len(Check(m)) /\ Len(Check(m)) = (IF m.crc THEN 4 ELSE 0)
    BY FrameType
  <2> QED
    BY <1>2, <1>6, <2>1, <2>2 DEF HEADER_BASE_SIZE
<1> HIDE DEF checksumPos, headerSize
<1>8. expected = Len(p) /\ Len(p) >= HEADER_BASE_SIZE /\ Len(p) >= headerSize /\ Len(p) \in Nat
  <2>1. Len(p) = Len(Head2(m)) + (Len(m.topic) + Len(m.payload))
    BY FrameType
  <2> DEFINE n == Len(p)
             t == Len(m.topic)
             q == Len(m.payload)
  <2>2. t \in Nat /\ q \in Nat /\ topicLen = t /\ payloadLen = q /\ n = headerSize + (t + q)
    BY <1>3, <1>7, <2>1, PackableType
  <2> HIDE DEF n, t, q
  <2>3. expected = n /\ n >= headerSize /\ n \in Nat /\ n >= HEADER_BASE_SIZE
    BY <1>7, <2>2 DEF HEADER_BASE_SIZE
  <2> QED
    BY <2>3 DEF n
<1> HIDE DEF expected
<1>9. At(p, headerSize, topicLen) = m.topic /\ At(p, headerSize + topicLen, payloadLen) = m.payload
  <2> DEFINE t == m.topic
             q == m.payload
             off == headerSize + topicLen
  <2>1. t \in Seq(Bytes) /\ q \in Seq(Bytes)
    BY PackableType
  <2>2. off \in Nat /\ Holds(p, headerSize, t) /\ Holds(p, off, q)
    BY <1>3, <1>7, FrameHolds, PackableType
  <2> HIDE DEF t, q, off
  <2>3. At(p, headerSize, Len(t)) = t /\ At(p, off, Len(q)) = q
    BY <1>7, <2>1, <2>2, HoldsAt
  <2> QED
    BY <1>3, <2>3 DEF t, q, off
<1>10. hasCrc => At(p, checksumPos, 4) = computeCrcContiguous(At(p, 0, expected), checksumPos)
  <2>1. At(p, 0, expected) = p
    BY <1>1, <1>8, WholeAt DEF Text
  <2> QED
    BY <1>2, <1>6, <2>1, SumRight
<1>11. /\ ~(Len(p) < HEADER_BASE_SIZE) /\ ~(Len(p) < headerSize) /\ ~(Len(p) < expected)
  BY <1>7, <1>8 DEF HEADER_BASE_SIZE
<1>12. decode(p) = [kind |-> "message", type |-> U(3, 1), qos |-> U(5, 1),
              flags |-> U(6, 1), serializer |-> U(7, 1), source |-> U(8, 2),
              dest |-> U(10, 2), seq |-> U(14, 4), corr |-> U(18, 4),
              time |-> IF hasTs THEN At(p, HEADER_BASE_SIZE, 8) ELSE <<>>,
              topic |-> At(p, headerSize, topicLen),
              payload |-> At(p, headerSize + topicLen, payloadLen)]
  BY <1>4, <1>5, <1>10, <1>11
<1>13. decode(p) = Content(m)
  BY <1>2, <1>5, <1>9, <1>12 DEF Content
<1> QED
  BY <1>8, <1>13

-----------------------------------------------------------------------------
(* The cursor over an announcement that nothing happened to.               *)

\* The cursor r over p, with no failed read, went on to off, and q is the result: it read v.
Moved(q, r, p, off, v) ==
    /\ q \in Readers(p) /\ q.p = p /\ q.off = off /\ q.v = v /\ q.ok = r.ok /\ q.out = r.out

LEMMA ReadHolds ==
    ASSUME NEW p \in Text, NEW r \in Readers(p), NEW s \in Seq(Bytes), Holds(p, r.off, s),
           NEW n, n = Len(s)
    PROVE  Moved(Read(r, n), r, p, r.off + n, s)
<1>1. r.p = p /\ r.off \in Nat /\ Len(p) \in Nat /\ n \in Nat
  BY DEF Readers, Text
<1>2. r.off + n <= Len(p)
  BY <1>1 DEF Holds
<1>3. Need(r, n)
  BY <1>1, <1>2 DEF Need
<1>4. At(r.p, r.off, n) = s
  BY <1>1, HoldsAt
<1>5. Read(r, n) = [r EXCEPT !.off = @ + n, !.v = s]
  BY <1>3, <1>4 DEF Read
<1>6. Read(r, n) \in Readers(p)
  BY <1>1, ReadType
<1> QED
  BY <1>1, <1>5, <1>6 DEF Moved, Readers

LEMMA StrHolds8 ==
    ASSUME NEW p \in Text, NEW r \in Readers(p), NEW s \in Seq(Bytes), Holds(p, r.off, putStr8(s))
    PROVE  Moved(str(r, 1), r, p, r.off + Len(putStr8(s)), Capped(s, ByteBase - 1))
<1> DEFINE c == Capped(s, ByteBase - 1)
           k == Put(Len(c), 1)
           q == Read(r, 1)
           z == Len(c)
           off == r.off
           one == 1
<1>1. /\ c \in Seq(Bytes) /\ k \in Seq(Bytes) /\ Len(k) = one /\ z \in UInt(one) /\ one \in 1 .. 8
      /\ putStr8(s) = k \o c
  BY Str8Type DEF putStr8
<1>2. off \in Nat /\ p \in Seq(Cells)
  BY DEF Readers, Text
<1>3. Get(k) = z
  <2> HIDE DEF one
  <2>1. Get(Put(z, one)) = z
    BY <1>1, GetPut
  <2> QED
    BY <2>1 DEF one
<1>4. str(r, 1) = Read(q, Get(q.v))
  BY DEF str
<1>5. q = Read(r, one)
  OBVIOUS
<1> HIDE DEF c, k, q, z, one
<1>6. Holds(p, off, k) /\ Holds(p, off + Len(k), c) /\ Len(putStr8(s)) = Len(k) + Len(c)
  BY <1>1, <1>2, HoldsSplit, ConcatProperties
<1>7. Moved(q, r, p, off + one, k)
  BY <1>1, <1>5, <1>6, ReadHolds
<1>8. q \in Readers(p) /\ q.off = off + one /\ q.v = k /\ q.ok = r.ok /\ q.out = r.out
  BY <1>7 DEF Moved
<1>9. Holds(p, q.off, c) /\ Get(q.v) = Len(c)
  BY <1>1, <1>3, <1>6, <1>8 DEF z
<1>10. Moved(Read(q, Get(q.v)), q, p, q.off + Get(q.v), c)
  BY <1>1, <1>8, <1>9, ReadHolds
<1>11. q.off + Get(q.v) = r.off + Len(putStr8(s))
  <2> DEFINE size == Len(putStr8(s))
  <2>1. one \in Nat /\ z \in Nat /\ off \in Nat /\ size = one + z
    BY <1>1, <1>2, <1>6, LenProperties DEF one, z
  <2>2. q.off + Get(q.v) = (off + one) + z
    BY <1>8, <1>9 DEF z
  <2> HIDE DEF size, off
  <2>3. (off + one) + z = off + size
    BY <2>1
  <2> QED
    BY <2>2, <2>3 DEF size, off
<1> QED
  BY <1>4, <1>8, <1>10, <1>11 DEF Moved, c

LEMMA StrHolds16 ==
    ASSUME NEW p \in Text, NEW r \in Readers(p), NEW s \in Seq(Bytes), Holds(p, r.off, putStr16(s))
    PROVE  Moved(str(r, 2), r, p, r.off + Len(putStr16(s)), Capped(s, Power[2] - 1))
<1> DEFINE c == Capped(s, Power[2] - 1)
           k == Put(Len(c), 2)
           q == Read(r, 2)
           z == Len(c)
           off == r.off
           two == 2
<1>1. /\ c \in Seq(Bytes) /\ k \in Seq(Bytes) /\ Len(k) = two /\ z \in UInt(two) /\ two \in 1 .. 8
      /\ putStr16(s) = k \o c
  BY Str16Type DEF putStr16
<1>2. off \in Nat /\ p \in Seq(Cells)
  BY DEF Readers, Text
<1>3. Get(k) = z
  <2> HIDE DEF two
  <2>1. Get(Put(z, two)) = z
    BY <1>1, GetPut
  <2> QED
    BY <2>1 DEF two
<1>4. str(r, 2) = Read(q, Get(q.v))
  BY DEF str
<1>5. q = Read(r, two)
  OBVIOUS
<1> HIDE DEF c, k, q, z, two
<1>6. Holds(p, off, k) /\ Holds(p, off + Len(k), c) /\ Len(putStr16(s)) = Len(k) + Len(c)
  BY <1>1, <1>2, HoldsSplit, ConcatProperties
<1>7. Moved(q, r, p, off + two, k)
  BY <1>1, <1>5, <1>6, ReadHolds
<1>8. q \in Readers(p) /\ q.off = off + two /\ q.v = k /\ q.ok = r.ok /\ q.out = r.out
  BY <1>7 DEF Moved
<1>9. Holds(p, q.off, c) /\ Get(q.v) = Len(c)
  BY <1>1, <1>3, <1>6, <1>8 DEF z
<1>10. Moved(Read(q, Get(q.v)), q, p, q.off + Get(q.v), c)
  BY <1>1, <1>8, <1>9, ReadHolds
<1>11. q.off + Get(q.v) = r.off + Len(putStr16(s))
  <2> DEFINE size == Len(putStr16(s))
  <2>1. two \in Nat /\ z \in Nat /\ off \in Nat /\ size = two + z
    BY <1>1, <1>2, <1>6, LenProperties DEF two, z
  <2>2. q.off + Get(q.v) = (off + two) + z
    BY <1>8, <1>9 DEF z
  <2> HIDE DEF size, off
  <2>3. (off + two) + z = off + size
    BY <2>1
  <2> QED
    BY <2>2, <2>3 DEF size, off
<1> QED
  BY <1>4, <1>8, <1>10, <1>11 DEF Moved, c

\* One round of the loop over the topics.
TopicAdded(q, r, t) ==
    /\ q.ok /\ q.off = r.off + Len(TopicItem(t))
    /\ q.out = [r.out EXCEPT !.subscribed = Append(r.out.subscribed, Capped(t, Power[2] - 1))]
LEMMA TopicRound ==
    ASSUME NEW p \in Text, NEW r \in Readers(p), r.ok, NEW t \in Seq(Bytes), Holds(p, r.off, TopicItem(t))
    PROVE  TopicAdded(ParseTopic(r), r, t)
<1> DEFINE one == 1
           k == Put(ROLE_SUB, one)
           s == putStr16(t)
           role == Read(r, one)
           topic == str(role, 2)
           c == Capped(t, Power[2] - 1)
           off == r.off
<1>1. ROLE_SUB \in UInt(one) /\ one \in 1 .. 8 /\ one \in 0 .. 8 /\ ROLE_SUB \in Nat
  <2>1. UInt(1) = 0 .. ByteBase - 1
    BY Powers DEF UInt
  <2> QED
    BY <2>1, Base DEF ROLE_SUB
<1>2. topic.ok /\ Get(role.v) = ROLE_SUB =>
         ParseTopic(r) = [topic EXCEPT !.out.subscribed = Append(@, topic.v)]
  BY DEF ParseTopic
<1>3. TopicItem(t) = k \o s
  BY DEF TopicItem
<1> HIDE DEF one
<1>4. k \in Seq(Bytes) /\ Len(k) = one /\ Get(k) = ROLE_SUB /\ s \in Seq(Bytes)
  BY <1>1, PutType, GetPut, Str16Type
<1>5. off \in Nat /\ p \in Seq(Cells)
  BY DEF Readers, Text
<1> HIDE DEF k, s, role
<1>6. Holds(p, off, k) /\ Holds(p, off + Len(k), s) /\ Len(TopicItem(t)) = Len(k) + Len(s)
  BY <1>3, <1>4, <1>5, HoldsSplit, ConcatProperties
<1>7. Moved(role, r, p, off + one, k)
  BY <1>4, <1>6, ReadHolds DEF role
<1>8. role \in Readers(p) /\ role.off = off + one /\ role.v = k /\ role.ok = r.ok /\ role.out = r.out
  BY <1>7 DEF Moved
<1>9. Holds(p, role.off, s)
  BY <1>4, <1>6, <1>8
<1>10. Moved(topic, role, p, role.off + Len(s), c)
  BY <1>8, <1>9, StrHolds16 DEF s
<1> HIDE DEF topic, c
<1>11. topic \in Readers(p) /\ topic.off = role.off + Len(s) /\ topic.v = c /\ topic.ok /\ topic.out = r.out
  BY <1>8, <1>10 DEF Moved
<1>12. ParseTopic(r) = [topic EXCEPT !.out.subscribed = Append(@, topic.v)]
  BY <1>2, <1>4, <1>8, <1>11
<1>13. ParseTopic(r).ok /\ ParseTopic(r).off = topic.off
  BY <1>11, <1>12 DEF Readers
<1>14. ParseTopic(r).out = [r.out EXCEPT !.subscribed = Append(r.out.subscribed, c)]
  BY <1>11, <1>12 DEF Readers, Peers
<1>15. topic.off = off + Len(TopicItem(t))
  <2> DEFINE z == Len(s)
             size == Len(TopicItem(t))
  <2>1. z \in Nat /\ one \in Nat /\ size = one + z /\ topic.off = (off + one) + z
    BY <1>1, <1>4, <1>6, <1>8, <1>11, LenProperties
  <2> HIDE DEF z, size, off
  <2>2. off \in Nat
    BY <1>5
  <2>3. (off + one) + z = off + size
    BY <2>1, <2>2
  <2> QED
    BY <2>1, <2>3 DEF size
<1> QED
  BY <1>13, <1>14, <1>15 DEF c, TopicAdded

\* One round of the loop over the endpoints.
LEMMA ShortCapped == ASSUME NEW s \in Short PROVE s \in Seq(Bytes) /\ Capped(s, ByteBase - 1) = s
<1>1. s \in Seq(Bytes) /\ Len(s) < ByteBase /\ Len(s) \in Nat
  BY DEF Short
<1>2. ByteBase - 1 \in Nat /\ Len(s) <= ByteBase - 1
  BY <1>1, Base
<1> QED
  BY <1>1, <1>2, CappedType

EndpointAdded(q, r, e) ==
    /\ q.ok /\ q.off = r.off + Len(EndpointItem(e))
    /\ q.out = [r.out EXCEPT !.endpoints = Append(r.out.endpoints, e)]
LEMMA EndpointRound ==
    ASSUME NEW p \in Text, NEW r \in Readers(p), r.ok, NEW e \in Endpoints,
           Holds(p, r.off, EndpointItem(e))
    PROVE  EndpointAdded(ParseEndpoint(r), r, e)
<1> DEFINE two == 2
           a == putStr8(e.type)
           b == putStr8(e.address)
           c == Put(e.port, two)
           ab == a \o b
           type == str(r, 1)
           address == str(type, 1)
           port == Read(address, two)
           ep == [type |-> type.v, address |-> address.v, port |-> Get(port.v)]
           off == r.off
<1>1. /\ e.type \in Short /\ e.address \in Short /\ e.port \in UInt(two) /\ two \in 1 .. 8 /\ two \in 0 .. 8
      /\ e = [type |-> e.type, address |-> e.address, port |-> e.port]
  BY WireAssumption DEF Endpoints
<1>2. /\ e.type \in Seq(Bytes) /\ Capped(e.type, ByteBase - 1) = e.type
      /\ e.address \in Seq(Bytes) /\ Capped(e.address, ByteBase - 1) = e.address
  BY <1>1, ShortCapped
<1>3. EndpointItem(e) = ab \o c
  BY DEF EndpointItem
<1>4. ParseEndpoint(r) = [port EXCEPT !.out.endpoints = Append(@, ep)] \/ ~port.ok
  BY DEF ParseEndpoint
<1> HIDE DEF two
<1>5. /\ a \in Seq(Bytes) /\ b \in Seq(Bytes) /\ c \in Seq(Bytes) /\ Len(c) = two /\ Get(c) = e.port
      /\ e.port \in Nat
  <2>1. e.port \in Nat
    BY <1>1, UIntType
  <2> QED
    BY <1>1, <1>2, <2>1, Str8Type, PutType, GetPut
<1>6. off \in Nat /\ p \in Seq(Cells) /\ Len(a) \in Nat /\ Len(b) \in Nat /\ two \in Nat
  BY <1>1, <1>5, LenProperties DEF Readers, Text
<1> HIDE DEF a, b, c, type, address, port
<1>7. ab \in Seq(Bytes) /\ Len(ab) = Len(a) + Len(b)
  BY <1>5, ConcatProperties
<1>8. Holds(p, off, ab) /\ Holds(p, off + Len(ab), c) /\ Len(EndpointItem(e)) = Len(ab) + Len(c)
  <2> HIDE DEF ab
  <2> QED
    BY <1>3, <1>5, <1>6, <1>7, HoldsSplit, ConcatProperties, ZenonT(40)
<1>9. Holds(p, off, a) /\ Holds(p, off + Len(a), b)
  BY <1>5, <1>6, <1>8, HoldsSplit
<1> HIDE DEF ab
<1>10. Moved(type, r, p, off + Len(a), e.type)
  BY <1>2, <1>9, StrHolds8 DEF a, type
<1>11. type \in Readers(p) /\ type.off = off + Len(a) /\ type.v = e.type /\ type.ok /\ type.out = r.out
  BY <1>10 DEF Moved
<1>12. Moved(address, type, p, type.off + Len(b), e.address)
  BY <1>2, <1>9, <1>11, StrHolds8 DEF b, address
<1>13. /\ address \in Readers(p) /\ address.off = (off + Len(a)) + Len(b) /\ address.v = e.address
       /\ address.ok /\ address.out = r.out
  BY <1>11, <1>12 DEF Moved
<1>14. address.off = off + Len(ab)
  BY <1>6, <1>7, <1>13
<1>15. Moved(port, address, p, address.off + two, c)
  BY <1>5, <1>8, <1>13, <1>14, ReadHolds DEF port
<1>16. port \in Readers(p) /\ port.off = address.off + two /\ port.v = c /\ port.ok /\ port.out = r.out
  BY <1>13, <1>15 DEF Moved
<1>17. ep = e
  BY <1>1, <1>5, <1>11, <1>13, <1>16
<1> HIDE DEF ep
<1>18. ParseEndpoint(r) = [port EXCEPT !.out.endpoints = Append(@, e)]
  BY <1>4, <1>16, <1>17
<1>19. ParseEndpoint(r).ok /\ ParseEndpoint(r).off = port.off
  BY <1>16, <1>18 DEF Readers
<1>20. ParseEndpoint(r).out = [r.out EXCEPT !.endpoints = Append(r.out.endpoints, e)]
  BY <1>16, <1>18 DEF Readers, Peers
<1>21. port.off = off + Len(EndpointItem(e))
  <2> DEFINE x == Len(ab)
             size == Len(EndpointItem(e))
  <2>1. x \in Nat /\ size = x + two /\ port.off = (off + x) + two
    BY <1>5, <1>6, <1>7, <1>8, <1>14, <1>16
  <2> HIDE DEF x, size, off
  <2>2. off \in Nat
    BY <1>6
  <2>3. (off + x) + two = off + size
    BY <1>6, <2>1, <2>2
  <2> QED
    BY <2>1, <2>3 DEF size
<1> QED
  BY <1>19, <1>20, <1>21 DEF EndpointAdded

\* What a loop wrote item by item stands in the packet item by item.
Grows(b, g, n) ==
    /\ n \in Nat /\ b \in [0 .. n -> Seq(Bytes)] /\ g \in [1 .. n -> Seq(Bytes)]
    /\ \A i \in 1 .. n : b[i] = b[i - 1] \o g[i]
ItemByItem(p, off, b, g, n) ==
    /\ \A i \in 0 .. n : Holds(p, off, b[i])
    /\ \A i \in 1 .. n : /\ Holds(p, off + Len(b[i - 1]), g[i])
                         /\ Len(b[i]) = Len(b[i - 1]) + Len(g[i])
LEMMA ItemsHold ==
    ASSUME NEW p \in Text, NEW off \in Nat, NEW b, NEW g, NEW n, Grows(b, g, n), Holds(p, off, b[n])
    PROVE  ItemByItem(p, off, b, g, n)
<1> USE DEF Grows, ItemByItem
<1>1. ASSUME NEW i \in 1 .. n, Holds(p, off, b[i])
      PROVE  Holds(p, off, b[i - 1]) /\ Holds(p, off + Len(b[i - 1]), g[i])
  <2> DEFINE x == b[i - 1]
             y == g[i]
  <2>1. x \in Seq(Bytes) /\ y \in Seq(Bytes) /\ b[i] = x \o y
    OBVIOUS
  <2> HIDE DEF x, y
  <2>2. Holds(p, off, x) /\ Holds(p, off + Len(x), y)
    BY <1>1, <2>1, HoldsSplit DEF Text
  <2> QED
    BY <2>2 DEF x, y
<1> DEFINE T == {k \in Nat : k <= n => Holds(p, off, b[n - k])}
<1>2. 0 \in T
  OBVIOUS
<1>3. ASSUME NEW k \in Nat, k \in T PROVE k + 1 \in T
  <2> SUFFICES ASSUME k + 1 <= n PROVE Holds(p, off, b[n - (k + 1)])
    OBVIOUS
  <2>1. n - k \in 1 .. n /\ (n - k) - 1 = n - (k + 1) /\ Holds(p, off, b[n - k])
    BY <1>3
  <2> QED
    BY <1>1, <2>1
<1>4. Nat \subseteq T
  <2> HIDE DEF T
  <2> QED
    BY <1>2, <1>3, NatSet
<1>5. ASSUME NEW i \in 0 .. n PROVE Holds(p, off, b[i])
  <2> DEFINE k == n - i
  <2>1. k \in Nat /\ k <= n /\ n - k = i
    OBVIOUS
  <2> HIDE DEF k
  <2>2. k \in T
    BY <1>4, <2>1
  <2> QED
    BY <2>1, <2>2
<1>6. ASSUME NEW i \in 1 .. n PROVE Len(b[i]) = Len(b[i - 1]) + Len(g[i])
  <2> DEFINE x == b[i - 1]
             y == g[i]
  <2>1. x \in Seq(Bytes) /\ y \in Seq(Bytes) /\ b[i] = x \o y
    OBVIOUS
  <2> HIDE DEF x, y
  <2>2. Len(x \o y) = Len(x) + Len(y)
    BY <2>1, ConcatProperties
  <2> QED
    BY <2>1, <2>2 DEF x, y
<1> QED
  BY <1>1, <1>5, <1>6

\* The count before the items.
LEMMA CountRead ==
    ASSUME NEW p \in Text, NEW r \in Readers(p), NEW b, NEW g, NEW n, Grows(b, g, n), n \in UInt(1),
           b[0] = Put(n, 1), Holds(p, r.off, b[n])
    PROVE  Moved(Read(r, 1), r, p, r.off + Len(b[0]), b[0]) /\ Get(b[0]) = n
<1> DEFINE one == 1
           off == r.off
           x == b[0]
<1>1. one \in 1 .. 8 /\ one \in 0 .. 8 /\ n \in Nat /\ n \in UInt(one) /\ x = Put(n, one) /\ off \in Nat
  BY DEF Grows, Readers, Text
<1>2. Holds(p, off, x)
  <2> HIDE DEF off
  <2>1. off \in Nat /\ Holds(p, off, b[n])
    BY <1>1 DEF off
  <2>2. ItemByItem(p, off, b, g, n)
    BY <2>1, ItemsHold
  <2>3. 0 \in 0 .. n
    BY <1>1
  <2> QED
    BY <2>2, <2>3 DEF ItemByItem
<1> HIDE DEF one, x
<1>3. x \in Seq(Bytes) /\ Len(x) = one /\ Get(x) = n
  BY <1>1, PutType, GetPut
<1>4. Moved(Read(r, one), r, p, off + one, x)
  BY <1>2, <1>3, ReadHolds
<1> QED
  BY <1>3, <1>4 DEF one, x

LEMMA ByteRange == ByteBase - 1 \in Nat /\ UInt(1) = 0 .. ByteBase - 1
  BY Base, Powers DEF UInt

LEMMA OutTwice ==
    ASSUME NEW o \in Peers, NEW x, NEW y
    PROVE  /\ [o EXCEPT !.subscribed = x].subscribed = x
           /\ [[o EXCEPT !.subscribed = x] EXCEPT !.subscribed = y] = [o EXCEPT !.subscribed = y]
           /\ [o EXCEPT !.endpoints = x].endpoints = x
           /\ [[o EXCEPT !.endpoints = x] EXCEPT !.endpoints = y] = [o EXCEPT !.endpoints = y]
  BY DEF Peers

\* The loop over the topics adds them all.
TopicTexts(list, k) == [j \in 1 .. k |-> Capped(Capped(list, ByteBase - 1)[j], Power[2] - 1)]
LEMMA TopicsParsed ==
    ASSUME NEW p \in Text, NEW r \in Readers(p), r.ok, NEW list \in Seq(Seq(Bytes)),
           Holds(p, r.off, List(TopicItem, list)), r.out.subscribed = <<>>,
           NEW q, q = Times(ParseTopic, Read(r, 1))
    PROVE  /\ q \in Readers(p) /\ q.ok /\ q.off = r.off + Len(List(TopicItem, list))
           /\ q.out = [r.out EXCEPT !.subscribed = TopicTexts(list, Len(Capped(list, ByteBase - 1)))]
<1> DEFINE s == Capped(list, ByteBase - 1)
           n == Len(s)
           off == r.off
           count == Read(r, 1)
           Got(k) == TopicTexts(list, k)
<1>1. s \in Seq(Seq(Bytes)) /\ n \in Nat /\ n \in UInt(1)
  BY ByteRange, CappedType
<1>2. PICK b : TopicList(b, list)
  BY TopicListRounds
<1>3. /\ b \in [0 .. n -> Seq(Bytes)] /\ b[0] = Put(n, 1)
      /\ \A i \in 1 .. n : b[i] = b[i - 1] \o TopicItem(s[i])
      /\ List(TopicItem, list) = b[n]
  BY <1>2 DEF TopicList
<1> HIDE DEF s, n
<1> DEFINE g == [i \in 1 .. n |-> TopicItem(s[i])]
<1>4. \A i \in 1 .. n : s[i] \in Seq(Bytes) /\ g[i] = TopicItem(s[i]) /\ TopicItem(s[i]) \in Seq(Bytes)
  BY <1>1, ElementOfSeq, TopicItemType DEF n
<1>5. Grows(b, g, n)
  BY <1>1, <1>3, <1>4 DEF Grows
<1> HIDE DEF g
<1>6. off \in Nat /\ r.out \in Peers
  BY DEF Readers, Text
<1>7. /\ \A i \in 1 .. n : Holds(p, off + Len(b[i - 1]), TopicItem(s[i]))
      /\ \A i \in 1 .. n : Len(b[i]) = Len(b[i - 1]) + Len(TopicItem(s[i]))
  <2> HIDE DEF off
  <2>1. off \in Nat /\ Holds(p, off, b[n])
    BY <1>3, <1>6 DEF off
  <2>2. ItemByItem(p, off, b, g, n)
    BY <1>5, <2>1, ItemsHold
  <2> QED
    BY <1>4, <2>2 DEF ItemByItem
<1>8. Moved(count, r, p, off + Len(b[0]), b[0]) /\ Get(b[0]) = n
  BY <1>1, <1>3, <1>5, CountRead
<1> HIDE DEF count
<1>9. /\ count \in Readers(p) /\ count.off = off + Len(b[0]) /\ count.ok /\ count.out = r.out
      /\ Get(count.v) = n
  BY <1>8 DEF Moved
<1>10. PICK f : TopicLoop(f, p, count)
  BY <1>9, TopicRounds
<1>11. /\ f \in [0 .. n -> Readers(p)] /\ f[0] = count
       /\ \A i \in 1 .. n : f[i] = ParseTopic(f[i - 1])
       /\ q = f[n]
  BY <1>9, <1>10 DEF TopicLoop, count
<1> DEFINE Good(k) == /\ f[k].ok /\ f[k].off = off + Len(b[k])
                      /\ f[k].out = [r.out EXCEPT !.subscribed = Got(k)]
           T == {k \in Nat : k <= n => Good(k)}
<1>12. 0 \in T
  <2>1. Got(0) = <<>>
    BY DEF TopicTexts
  <2>2. r.out = [r.out EXCEPT !.subscribed = <<>>]
    BY <1>6 DEF Peers
  <2> QED
    BY <1>9, <1>11, <2>1, <2>2
<1>13. ASSUME NEW k \in Nat, k \in T PROVE k + 1 \in T
  <2> SUFFICES ASSUME k + 1 <= n PROVE Good(k + 1)
    OBVIOUS
  <2> DEFINE i == k + 1
             y == f[k]
             t == s[i]
             c == Capped(t, Power[2] - 1)
  <2>1. i \in 1 .. n /\ i - 1 = k /\ k \in 0 .. n /\ k <= n
    BY <1>1
  <2>2. Good(k)
    BY <1>13, <2>1
  <2>3. y \in Readers(p) /\ f[i] = ParseTopic(y)
    BY <1>11, <2>1
  <2>4. t \in Seq(Bytes) /\ Holds(p, y.off, TopicItem(t)) /\ Len(b[i]) = Len(b[k]) + Len(TopicItem(t))
    BY <1>4, <1>7, <2>1, <2>2, ZenonT(40)
  <2>5. y.ok /\ y.off = off + Len(b[k]) /\ y.out = [r.out EXCEPT !.subscribed = Got(k)]
    BY <2>2
  <2> DEFINE z == ParseTopic(y)
             had == Got(k)
             base == r.out
  <2> HIDE DEF y, t, Got, i
  <2>6. /\ z.ok /\ z.off = y.off + Len(TopicItem(t))
        /\ z.out = [y.out EXCEPT !.subscribed = Append(y.out.subscribed, c)]
    <3>1. y \in Readers(p) /\ y.ok /\ t \in Seq(Bytes) /\ Holds(p, y.off, TopicItem(t))
      BY <2>3, <2>4, <2>5
    <3>2. TopicAdded(z, y, t)
      BY <3>1, TopicRound
    <3> QED
      BY <3>2 DEF TopicAdded
  <2> HIDE DEF c, z, had, base
  <2>7. Len(b[k]) \in Nat /\ Len(TopicItem(t)) \in Nat
    BY <1>3, <2>1, <2>4, TopicItemType, LenProperties
  <2>8. f[i].off = off + Len(b[i])
    <3> DEFINE u == Len(b[k])
               v == Len(TopicItem(t))
               w == Len(b[i])
    <3>1. u \in Nat /\ v \in Nat /\ w = u + v /\ f[i].off = (off + u) + v
      BY <2>3, <2>4, <2>5, <2>6, <2>7 DEF z
    <3> HIDE DEF u, v, w, off
    <3>2. (off + u) + v = off + w
      BY <1>6, <3>1
    <3> QED
      BY <3>1, <3>2 DEF w
  <2>9. f[i].out = [r.out EXCEPT !.subscribed = Append(Got(k), c)]
    <3>1. base \in Peers /\ y.out = [base EXCEPT !.subscribed = had]
      BY <1>6, <2>5 DEF base, had
    <3>2. y.out.subscribed = had
      <4>1. [base EXCEPT !.subscribed = had].subscribed = had
        BY <3>1, OutTwice
      <4> QED
        BY <3>1, <4>1
    <3>3. z.out = [[base EXCEPT !.subscribed = had] EXCEPT !.subscribed = Append(had, c)]
      BY <2>6, <3>1, <3>2
    <3>4. z.out = [base EXCEPT !.subscribed = Append(had, c)]
      BY <3>1, <3>3, OutTwice
    <3> QED
      BY <2>3, <3>4 DEF z, base, had
  <2>10. Append(Got(k), c) = Got(i)
    BY DEF Got, TopicTexts, i, c, t, s
  <2> QED
    BY <2>3, <2>6, <2>8, <2>9, <2>10 DEF i, z
<1>14. n \in T
  <2> HIDE DEF T
  <2>1. Nat \subseteq T
    BY <1>12, <1>13, NatSet
  <2> QED
    BY <1>1, <2>1
<1>15. Good(n)
  BY <1>1, <1>14
<1>16. q \in Readers(p)
  BY <1>1, <1>11
<1> QED
  BY <1>3, <1>11, <1>15, <1>16 DEF n, s

\* The loop over the endpoints adds them all.
FirstEndpoints(list, k) == [j \in 1 .. k |-> Capped(list, ByteBase - 1)[j]]
LEMMA EndpointsParsed ==
    ASSUME NEW p \in Text, NEW r \in Readers(p), r.ok, NEW list \in Seq(Endpoints),
           Holds(p, r.off, List(EndpointItem, list)), r.out.endpoints = <<>>,
           NEW q, q = Times(ParseEndpoint, Read(r, 1))
    PROVE  /\ q \in Readers(p) /\ q.ok /\ q.off = r.off + Len(List(EndpointItem, list))
           /\ q.out = [r.out EXCEPT !.endpoints = FirstEndpoints(list, Len(Capped(list, ByteBase - 1)))]
<1> DEFINE s == Capped(list, ByteBase - 1)
           n == Len(s)
           off == r.off
           count == Read(r, 1)
           Got(k) == FirstEndpoints(list, k)
<1>1. s \in Seq(Endpoints) /\ n \in Nat /\ n \in UInt(1)
  BY ByteRange, CappedType
<1>2. PICK b : EndpointList(b, list)
  BY EndpointListRounds
<1>3. /\ b \in [0 .. n -> Seq(Bytes)] /\ b[0] = Put(n, 1)
      /\ \A i \in 1 .. n : b[i] = b[i - 1] \o EndpointItem(s[i])
      /\ List(EndpointItem, list) = b[n]
  BY <1>2 DEF EndpointList
<1> HIDE DEF s, n
<1> DEFINE g == [i \in 1 .. n |-> EndpointItem(s[i])]
<1>4. \A i \in 1 .. n : s[i] \in Endpoints /\ g[i] = EndpointItem(s[i]) /\ EndpointItem(s[i]) \in Seq(Bytes)
  BY <1>1, ElementOfSeq, EndpointItemType DEF n
<1>5. Grows(b, g, n)
  BY <1>1, <1>3, <1>4 DEF Grows
<1> HIDE DEF g
<1>6. off \in Nat /\ r.out \in Peers
  BY DEF Readers, Text
<1>7. /\ \A i \in 1 .. n : Holds(p, off + Len(b[i - 1]), EndpointItem(s[i]))
      /\ \A i \in 1 .. n : Len(b[i]) = Len(b[i - 1]) + Len(EndpointItem(s[i]))
  <2> HIDE DEF off
  <2>1. off \in Nat /\ Holds(p, off, b[n])
    BY <1>3, <1>6 DEF off
  <2>2. ItemByItem(p, off, b, g, n)
    BY <1>5, <2>1, ItemsHold
  <2> QED
    BY <1>4, <2>2 DEF ItemByItem
<1>8. Moved(count, r, p, off + Len(b[0]), b[0]) /\ Get(b[0]) = n
  BY <1>1, <1>3, <1>5, CountRead
<1> HIDE DEF count
<1>9. /\ count \in Readers(p) /\ count.off = off + Len(b[0]) /\ count.ok /\ count.out = r.out
      /\ Get(count.v) = n
  BY <1>8 DEF Moved
<1>10. PICK f : EndpointLoop(f, p, count)
  BY <1>9, EndpointRounds
<1>11. /\ f \in [0 .. n -> Readers(p)] /\ f[0] = count
       /\ \A i \in 1 .. n : f[i] = ParseEndpoint(f[i - 1])
       /\ q = f[n]
  BY <1>9, <1>10 DEF EndpointLoop, count
<1> DEFINE Good(k) == /\ f[k].ok /\ f[k].off = off + Len(b[k])
                      /\ f[k].out = [r.out EXCEPT !.endpoints = Got(k)]
           T == {k \in Nat : k <= n => Good(k)}
<1>12. 0 \in T
  <2>1. Got(0) = <<>>
    BY DEF FirstEndpoints
  <2>2. r.out = [r.out EXCEPT !.endpoints = <<>>]
    BY <1>6 DEF Peers
  <2> QED
    BY <1>9, <1>11, <2>1, <2>2
<1>13. ASSUME NEW k \in Nat, k \in T PROVE k + 1 \in T
  <2> SUFFICES ASSUME k + 1 <= n PROVE Good(k + 1)
    OBVIOUS
  <2> DEFINE i == k + 1
             y == f[k]
             t == s[i]
             c == t
  <2>1. i \in 1 .. n /\ i - 1 = k /\ k \in 0 .. n /\ k <= n
    BY <1>1
  <2>2. Good(k)
    BY <1>13, <2>1
  <2>3. y \in Readers(p) /\ f[i] = ParseEndpoint(y)
    BY <1>11, <2>1
  <2>4. t \in Endpoints /\ Holds(p, y.off, EndpointItem(t)) /\ Len(b[i]) = Len(b[k]) + Len(EndpointItem(t))
    BY <1>4, <1>7, <2>1, <2>2, ZenonT(40)
  <2>5. y.ok /\ y.off = off + Len(b[k]) /\ y.out = [r.out EXCEPT !.endpoints = Got(k)]
    BY <2>2
  <2> DEFINE z == ParseEndpoint(y)
             had == Got(k)
             base == r.out
  <2> HIDE DEF y, t, Got, i
  <2>6. /\ z.ok /\ z.off = y.off + Len(EndpointItem(t))
        /\ z.out = [y.out EXCEPT !.endpoints = Append(y.out.endpoints, c)]
    <3>1. y \in Readers(p) /\ y.ok /\ t \in Endpoints /\ Holds(p, y.off, EndpointItem(t))
      BY <2>3, <2>4, <2>5
    <3>2. EndpointAdded(z, y, t)
      BY <3>1, EndpointRound
    <3> QED
      BY <3>2 DEF EndpointAdded
  <2> HIDE DEF c, z, had, base
  <2>7. Len(b[k]) \in Nat /\ Len(EndpointItem(t)) \in Nat
    BY <1>3, <2>1, <2>4, EndpointItemType, LenProperties
  <2>8. f[i].off = off + Len(b[i])
    <3> DEFINE u == Len(b[k])
               v == Len(EndpointItem(t))
               w == Len(b[i])
    <3>1. u \in Nat /\ v \in Nat /\ w = u + v /\ f[i].off = (off + u) + v
      BY <2>3, <2>4, <2>5, <2>6, <2>7 DEF z
    <3> HIDE DEF u, v, w, off
    <3>2. (off + u) + v = off + w
      BY <1>6, <3>1
    <3> QED
      BY <3>1, <3>2 DEF w
  <2>9. f[i].out = [r.out EXCEPT !.endpoints = Append(Got(k), c)]
    <3>1. base \in Peers /\ y.out = [base EXCEPT !.endpoints = had]
      BY <1>6, <2>5 DEF base, had
    <3>2. y.out.endpoints = had
      <4>1. [base EXCEPT !.endpoints = had].endpoints = had
        BY <3>1, OutTwice
      <4> QED
        BY <3>1, <4>1
    <3>3. z.out = [[base EXCEPT !.endpoints = had] EXCEPT !.endpoints = Append(had, c)]
      BY <2>6, <3>1, <3>2
    <3>4. z.out = [base EXCEPT !.endpoints = Append(had, c)]
      BY <3>1, <3>3, OutTwice
    <3> QED
      BY <2>3, <3>4 DEF z, base, had
  <2>10. Append(Got(k), c) = Got(i)
    BY DEF Got, FirstEndpoints, i, c, t, s
  <2> QED
    BY <2>3, <2>6, <2>8, <2>9, <2>10 DEF i, z
<1>14. n \in T
  <2> HIDE DEF T
  <2>1. Nat \subseteq T
    BY <1>12, <1>13, NatSet
  <2> QED
    BY <1>1, <2>1
<1>15. Good(n)
  BY <1>1, <1>14
<1>16. q \in Readers(p)
  BY <1>1, <1>11
<1> QED
  BY <1>3, <1>11, <1>15, <1>16 DEF n, s

\* A will that nothing happened to.
LEMMA WillParsed ==
    ASSUME NEW p \in Text, NEW r \in Readers(p), r.ok, NEW a \in AnnounceRecords, NEW w, w = a.will,
           Len(w.payload) \in UInt(4), Holds(p, r.off, WillPart(w))
    PROVE  /\ ParseWill(r) \in Readers(p) /\ ParseWill(r).ok
           /\ ParseWill(r).out =
                [r.out EXCEPT !.will = {[qos |-> w.qos, retain |-> w.retain,
                                         topic |-> Capped(w.topic, Power[2] - 1),
                                         payload |-> w.payload]}]
<1> DEFINE one == 1
           four == 4
           kq == Put(w.qos, one)
           kr == Put(RetainFlag(w), one)
           ks == putStr16(w.topic)
           kz == Put(Len(w.payload), four)
           kp == w.payload
           x1 == WillQos(w)
           x2 == WillRetain(w)
           x3 == WillTopic(w)
           x4 == WillSize(w)
           off == r.off
           qos == Read(r, one)
           retain == Read(qos, one)
           topic == str(retain, 2)
           size == Read(topic, four)
           payload == Read(size, Get(size.v))
           will == [qos |-> Get(qos.v), retain |-> Get(retain.v) # 0,
                    topic |-> topic.v, payload |-> payload.v]
<1>1. /\ x1 = kq /\ Part(x2, x1, kr) /\ Part(x3, x2, ks) /\ Part(x4, x3, kz)
      /\ Part(WillPart(w), x4, kp)
  BY WillParts DEF WillQos
<1>2. /\ w.qos \in UInt(one) /\ RetainFlag(w) \in UInt(one) /\ Len(w.payload) \in UInt(four)
      /\ one \in 1 .. 8 /\ four \in 1 .. 8 /\ one \in 0 .. 8 /\ four \in 0 .. 8
      /\ w.topic \in Seq(Bytes) /\ w.payload \in Seq(Bytes)
  BY AnnounceType
<1>3. w.qos \in Nat /\ RetainFlag(w) \in Nat /\ Len(w.payload) \in Nat /\ w.retain \in BOOLEAN
      /\ (RetainFlag(w) # 0 <=> w.retain)
  BY AnnounceType DEF RetainFlag
<1>4. off \in Nat
  BY DEF Readers, Text
<1>5. ParseWill(r) = [payload EXCEPT !.out.will = {will}] \/ ~(size.ok /\ payload.ok)
  BY DEF ParseWill
<1> HIDE DEF one, four
<1>6. /\ kq \in Seq(Bytes) /\ Len(kq) = one /\ Get(kq) = w.qos
      /\ kr \in Seq(Bytes) /\ Len(kr) = one /\ Get(kr) = RetainFlag(w)
      /\ kz \in Seq(Bytes) /\ Len(kz) = four /\ Get(kz) = Len(w.payload)
  BY <1>2, <1>3, PutType, GetPut
<1> HIDE DEF kq, kr, ks, kz, kp, x1, x2, x3, x4, qos, retain, topic, size, payload, off
<1>7. Holds(p, off, x4) /\ Holds(p, off + Len(x4), kp)
  BY <1>1, <1>4, Parts DEF off
<1>8. Holds(p, off, x3) /\ Holds(p, off + Len(x3), kz) /\ Len(x4) = Len(x3) + Len(kz)
  BY <1>1, <1>4, <1>7, Parts
<1>9. Holds(p, off, x2) /\ Holds(p, off + Len(x2), ks) /\ Len(x3) = Len(x2) + Len(ks)
  BY <1>1, <1>4, <1>8, Parts
<1>10. Holds(p, off, x1) /\ Holds(p, off + Len(x1), kr) /\ Len(x2) = Len(x1) + Len(kr)
  <2>1. Part(x2, x1, kr)
    BY <1>1
  <2> QED
    BY <1>4, <1>9, <2>1, Parts
<1>11. /\ Len(x1) \in Nat /\ Len(x2) \in Nat /\ Len(x3) \in Nat /\ Len(x4) \in Nat
       /\ Len(kr) \in Nat /\ Len(ks) \in Nat /\ Len(kz) \in Nat
  BY <1>1, Parts
<1>12. Moved(qos, r, p, off + one, kq)
  BY <1>1, <1>6, <1>10, ReadHolds DEF qos, off
<1>13. qos \in Readers(p) /\ qos.off = off + Len(x1) /\ qos.v = kq /\ qos.ok /\ qos.out = r.out
  BY <1>1, <1>6, <1>12 DEF Moved
<1>14. Moved(retain, qos, p, qos.off + one, kr)
  <2>1. Holds(p, qos.off, kr)
    BY <1>10, <1>13
  <2> QED
    BY <1>6, <1>13, <2>1, ReadHolds DEF retain
<1>15. (off + Len(x1)) + Len(kr) = off + Len(x2) /\ (off + Len(x2)) + Len(ks) = off + Len(x3)
       /\ (off + Len(x3)) + Len(kz) = off + Len(x4)
  BY <1>4, <1>8, <1>9, <1>10, <1>11
<1>16. retain \in Readers(p) /\ retain.off = off + Len(x2) /\ retain.v = kr /\ retain.ok /\ retain.out = r.out
  <2>1. qos.off + one = (off + Len(x1)) + Len(kr)
    BY <1>6, <1>13
  <2> QED
    BY <1>13, <1>14, <1>15, <2>1 DEF Moved
<1>17. Moved(topic, retain, p, retain.off + Len(ks), Capped(w.topic, Power[2] - 1))
  <2>1. Holds(p, retain.off, ks)
    BY <1>9, <1>16
  <2> QED
    BY <1>2, <1>16, <2>1, StrHolds16 DEF topic, ks
<1>18. /\ topic \in Readers(p) /\ topic.off = off + Len(x3) /\ topic.v = Capped(w.topic, Power[2] - 1)
       /\ topic.ok /\ topic.out = r.out
  <2>1. retain.off + Len(ks) = off + Len(x3)
    BY <1>15, <1>16
  <2> QED
    BY <1>16, <1>17, <2>1 DEF Moved
<1>19. Moved(size, topic, p, topic.off + four, kz)
  <2>1. Holds(p, topic.off, kz)
    BY <1>8, <1>18
  <2> QED
    BY <1>6, <1>18, <2>1, ReadHolds DEF size
<1>20. size \in Readers(p) /\ size.off = off + Len(x4) /\ size.v = kz /\ size.ok /\ size.out = r.out
  <2>1. topic.off + four = off + Len(x4)
    BY <1>6, <1>15, <1>18
  <2> QED
    BY <1>18, <1>19, <2>1 DEF Moved
<1>21. Get(size.v) = Len(kp) /\ kp \in Seq(Bytes)
  BY <1>2, <1>6, <1>20 DEF kp
<1>22. Moved(payload, size, p, size.off + Get(size.v), kp)
  <2>1. Holds(p, size.off, kp)
    BY <1>7, <1>20
  <2> QED
    BY <1>20, <1>21, <2>1, ReadHolds DEF payload
<1>23. payload \in Readers(p) /\ payload.v = kp /\ payload.ok /\ payload.out = r.out
  BY <1>20, <1>22 DEF Moved
<1>24. will = [qos |-> w.qos, retain |-> w.retain, topic |-> Capped(w.topic, Power[2] - 1),
               payload |-> w.payload]
  <2>1. (Get(retain.v) # 0) = w.retain
    BY <1>3, <1>6, <1>16
  <2> QED
    BY <1>6, <1>13, <1>18, <1>23, <2>1 DEF kp
<1> HIDE DEF will
<1>25. ParseWill(r) = [payload EXCEPT !.out.will = {will}]
  BY <1>5, <1>20, <1>23
<1>26. ParseWill(r).ok /\ ParseWill(r).out = [r.out EXCEPT !.will = {will}]
  BY <1>23, <1>25 DEF Readers
<1>27. ParseWill(r) \in Readers(p)
  BY ParseWillType
<1> QED
  BY <1>24, <1>26, <1>27

\* Where the parts of an announcement stand.
AnnounceHeld(p, a) ==
    /\ Holds(p, 0, Put(a.id, 2)) /\ Holds(p, 2, Put(a.domain, 1)) /\ Holds(p, 3, Put(WillFlag(a), 1))
    /\ Holds(p, 4, putStr8(a.name)) /\ Holds(p, Len(WithName(a)), putStr8(a.host))
    /\ Holds(p, Len(WithHost(a)), List(TopicItem, a.topics))
    /\ Holds(p, Len(WithTopics(a)), List(EndpointItem, a.endpoints))
    /\ HasWill(a) => Holds(p, Len(WithEndpoints(a)), WillPart(a.will))
    /\ Len(WithName(a)) = 4 + Len(putStr8(a.name))
    /\ Len(WithHost(a)) = Len(WithName(a)) + Len(putStr8(a.host))
    /\ Len(WithTopics(a)) = Len(WithHost(a)) + Len(List(TopicItem, a.topics))
    /\ Len(WithEndpoints(a)) = Len(WithTopics(a)) + Len(List(EndpointItem, a.endpoints))

\* The parts of what stands at the start of a packet.
StartsWith(p, t) == p \in Text /\ Holds(p, 0, t)
LEMMA StartParts ==
    ASSUME NEW p, NEW t, NEW s, NEW u, Part(t, s, u), StartsWith(p, t)
    PROVE  StartsWith(p, s) /\ Holds(p, Len(s), u) /\ Len(t) = Len(s) + Len(u) /\ Len(s) \in Nat
<1>1. /\ Len(t) = Len(s) + Len(u) /\ Len(s) \in Nat
      /\ \A q \in Text, off \in Nat : Holds(q, off, t) => Holds(q, off, s) /\ Holds(q, off + Len(s), u)
  BY Parts
<1>2. p \in Text /\ Holds(p, 0, t) /\ 0 \in Nat
  BY DEF StartsWith
<1>3. Holds(p, 0, s) /\ Holds(p, 0 + Len(s), u)
  BY <1>1, <1>2
<1> QED
  BY <1>1, <1>2, <1>3 DEF StartsWith

LEMMA AnnouncePlaces ==
    ASSUME NEW a \in AnnounceRecords, NEW p, p = buildAnnouncePayload(a)
    PROVE  p \in Text /\ AnnounceHeld(p, a)
<1>1. p \in Seq(Bytes)
  BY PayloadParts
<1>2. p \in Text
  BY <1>1, SeqMonotonic DEF Text, Cells
<1>3. StartsWith(p, p)
  BY <1>2 DEF StartsWith, Holds, Text
<1>4. /\ StartsWith(p, WithEndpoints(a))
      /\ HasWill(a) => Holds(p, Len(WithEndpoints(a)), WillPart(a.will))
  <2>1. CASE HasWill(a)
    <3>1. Part(p, WithEndpoints(a), WillPart(a.will))
      BY <2>1, PayloadParts
    <3> QED
      BY <1>3, <3>1, StartParts
  <2>2. CASE ~HasWill(a)
    <3>1. Part(p, WithEndpoints(a), <<>>)
      BY <2>2, PayloadParts
    <3> QED
      BY <1>3, <2>2, <3>1, StartParts
  <2> QED
    BY <2>1, <2>2
<1>5. /\ StartsWith(p, WithTopics(a)) /\ Holds(p, Len(WithTopics(a)), List(EndpointItem, a.endpoints))
      /\ Len(WithEndpoints(a)) = Len(WithTopics(a)) + Len(List(EndpointItem, a.endpoints))
  <2>1. Part(WithEndpoints(a), WithTopics(a), List(EndpointItem, a.endpoints))
    BY AnnounceParts
  <2> QED
    BY <1>4, <2>1, StartParts
<1>6. /\ StartsWith(p, WithHost(a)) /\ Holds(p, Len(WithHost(a)), List(TopicItem, a.topics))
      /\ Len(WithTopics(a)) = Len(WithHost(a)) + Len(List(TopicItem, a.topics))
  <2>1. Part(WithTopics(a), WithHost(a), List(TopicItem, a.topics))
    BY AnnounceParts
  <2> QED
    BY <1>5, <2>1, StartParts
<1>7. /\ StartsWith(p, WithName(a)) /\ Holds(p, Len(WithName(a)), putStr8(a.host))
      /\ Len(WithHost(a)) = Len(WithName(a)) + Len(putStr8(a.host))
  <2>1. Part(WithHost(a), WithName(a), putStr8(a.host))
    BY AnnounceParts
  <2> QED
    BY <1>6, <2>1, StartParts
<1>8. /\ StartsWith(p, WithFlag(a)) /\ Holds(p, Len(WithFlag(a)), putStr8(a.name))
      /\ Len(WithName(a)) = Len(WithFlag(a)) + Len(putStr8(a.name))
  <2>1. Part(WithName(a), WithFlag(a), putStr8(a.name))
    BY AnnounceParts
  <2> QED
    BY <1>7, <2>1, StartParts
<1>9. StartsWith(p, WithDomain(a)) /\ Holds(p, Len(WithDomain(a)), Put(WillFlag(a), 1))
  <2>1. Part(WithFlag(a), WithDomain(a), Put(WillFlag(a), 1))
    BY AnnounceParts
  <2> QED
    BY <1>8, <2>1, StartParts
<1>10. StartsWith(p, IdOnly(a)) /\ Holds(p, Len(IdOnly(a)), Put(a.domain, 1))
  <2>1. Part(WithDomain(a), IdOnly(a), Put(a.domain, 1))
    BY AnnounceParts
  <2> QED
    BY <1>9, <2>1, StartParts
<1>11. Len(IdOnly(a)) = 2 /\ Len(WithDomain(a)) = 3 /\ Len(WithFlag(a)) = 4
  BY AnnounceParts
<1>12. Holds(p, 0, Put(a.id, 2))
  BY <1>10 DEF StartsWith, IdOnly
<1> QED
  BY <1>2, <1>4, <1>5, <1>6, <1>7, <1>8, <1>9, <1>10, <1>11, <1>12 DEF AnnounceHeld

\* A number of an announcement that nothing happened to.
NumberRead(q, r, p, off, n) ==
    q \in Readers(p) /\ q.off = off /\ Get(q.v) = n /\ q.ok = r.ok /\ q.out = r.out
LEMMA ReadNumber ==
    ASSUME NEW p \in Text, NEW r \in Readers(p), NEW n, NEW w, FieldAt(p, r.off, n, w)
    PROVE  NumberRead(Read(r, w), r, p, r.off + w, n)
<1> DEFINE s == Put(n, w)
<1>1. w \in 1 .. 8 /\ w \in 0 .. 8 /\ n \in UInt(w) /\ Holds(p, r.off, s)
  BY DEF FieldAt
<1>2. n \in Nat
  BY <1>1, UIntType
<1>3. s \in Seq(Bytes) /\ Len(s) = w /\ Get(s) = n
  BY <1>1, <1>2, PutType, GetPut
<1> HIDE DEF s
<1>4. Moved(Read(r, w), r, p, r.off + w, s)
  BY <1>1, <1>3, ReadHolds
<1> QED
  BY <1>3, <1>4 DEF Moved, NumberRead

\* The peer that an announcement describes.
WillOf(a) ==
    IF HasWill(a)
    THEN {[qos |-> a.will.qos, retain |-> a.will.retain, topic |-> Capped(a.will.topic, Power[2] - 1),
           payload |-> a.will.payload]}
    ELSE {}
PeerOf(a) ==
    [kind |-> "peer", id |-> a.id, name |-> Capped(a.name, ByteBase - 1), host |-> a.host,
     subscribed |-> TopicTexts(a.topics, Len(Capped(a.topics, ByteBase - 1))),
     published |-> <<>>, endpoints |-> a.endpoints, will |-> WillOf(a)]

PeerRecord(i, n, h, s, e, w) ==
    [kind |-> "peer", id |-> i, name |-> n, host |-> h, subscribed |-> s, published |-> <<>>,
     endpoints |-> e, will |-> w]
IsPeer(o, i, n, h, s, e, w) == o = PeerRecord(i, n, h, s, e, w)
Renamed(q, o, x, y, z) == q = [o EXCEPT !.id = x, !.name = y, !.host = z]
LEMMA PeerRenamed ==
    ASSUME NEW o, NEW i, NEW n, NEW h, NEW s, NEW e, NEW w, IsPeer(o, i, n, h, s, e, w),
           NEW q, NEW x, NEW y, NEW z, Renamed(q, o, x, y, z)
    PROVE  IsPeer(q, x, y, z, s, e, w)
<1>1. q = [[[o EXCEPT !.id = x] EXCEPT !.name = y] EXCEPT !.host = z]
  BY DEF Renamed
<1>2. [o EXCEPT !.id = x] = PeerRecord(x, n, h, s, e, w)
  BY DEF PeerRecord, IsPeer
<1>3. [PeerRecord(x, n, h, s, e, w) EXCEPT !.name = y] = PeerRecord(x, y, h, s, e, w)
  BY DEF PeerRecord
<1>4. [PeerRecord(x, y, h, s, e, w) EXCEPT !.host = z] = PeerRecord(x, y, z, s, e, w)
  BY DEF PeerRecord
<1> QED
  BY <1>1, <1>2, <1>3, <1>4 DEF IsPeer

PeerChanges(q1, q2, q3, o, x, y, z) ==
    /\ q1 = [o EXCEPT !.subscribed = x] /\ q2 = [q1 EXCEPT !.endpoints = y] /\ q3 = [q2 EXCEPT !.will = z]
LEMMA PeerFilled ==
    ASSUME NEW o, NEW i, NEW n, NEW h, NEW s, NEW e, NEW w, IsPeer(o, i, n, h, s, e, w),
           NEW q1, NEW q2, NEW q3, NEW x, NEW y, NEW z, PeerChanges(q1, q2, q3, o, x, y, z)
    PROVE  IsPeer(q3, i, n, h, x, y, z)
<1>1. q1 = PeerRecord(i, n, h, x, e, w)
  BY DEF PeerRecord, IsPeer, PeerChanges
<1>2. [PeerRecord(i, n, h, x, e, w) EXCEPT !.endpoints = y] = PeerRecord(i, n, h, x, y, w)
  BY DEF PeerRecord
<1>3. [PeerRecord(i, n, h, x, y, w) EXCEPT !.will = z] = PeerRecord(i, n, h, x, y, z)
  BY DEF PeerRecord
<1> QED
  BY <1>1, <1>2, <1>3 DEF IsPeer, PeerChanges

LEMMA AllEndpoints ==
    ASSUME NEW a \in AnnounceRecords
    PROVE  FirstEndpoints(a.endpoints, Len(Capped(a.endpoints, ByteBase - 1))) = a.endpoints
<1> DEFINE s == a.endpoints
<1>1. s \in Seq(Endpoints) /\ Len(s) < ByteBase /\ Len(s) \in Nat
  BY AnnounceType
<1> HIDE DEF s
<1>2. Len(s) <= ByteBase - 1 /\ ByteBase - 1 \in Nat
  BY <1>1, ByteRange, Base
<1>3. Capped(s, ByteBase - 1) = s
  BY <1>1, <1>2, CappedType
<1>4. FirstEndpoints(s, Len(s)) = [j \in 1 .. Len(s) |-> s[j]]
  BY <1>3 DEF FirstEndpoints
<1> QED
  BY <1>1, <1>3, <1>4 DEF s

LEMMA ParseAnnounced ==
    ASSUME NEW a \in AnnounceRecords, NEW p, p = buildAnnouncePayload(a), Len(p) \in UInt(4)
    PROVE  parseAnnouncePayload(p) = IF a.domain # DomainId THEN Refused ELSE PeerOf(a)
<1> DEFINE r == Reader(p)
           id == Read(r, 2)
           domain == Read(id, 1)
           flags == Read(domain, 1)
           name == str(flags, 1)
           host == str(name, 1)
           names == ParseNames(flags, Get(id.v))
           topics == Times(ParseTopic, Read(names, 1))
           lists == Times(ParseEndpoint, Read(topics, 1))
           end == IF Get(flags.v) % 2 = 1 THEN ParseWill(lists) ELSE lists
           texts == TopicTexts(a.topics, Len(Capped(a.topics, ByteBase - 1)))
<1>1. p \in Text /\ AnnounceHeld(p, a)
  BY AnnouncePlaces
<1>2. parseAnnouncePayload(p) =
        IF ~domain.ok \/ Get(domain.v) # DomainId \/ ~end.ok THEN Refused ELSE end.out
  BY DEF parseAnnouncePayload, ParseLists
<1>3. names = [host EXCEPT !.out = [@ EXCEPT !.id = Get(id.v), !.name = name.v, !.host = host.v]]
  BY DEF ParseNames
<1>4. r \in Readers(p) /\ r.off = 0 /\ r.ok
  BY <1>1, EmptySeq DEF Reader, Readers, Peers, Text
<1> HIDE DEF id, domain, flags, name, host, names, topics, lists, end, texts
<1>5. NumberRead(id, r, p, 2, a.id)
  <2>1. FieldAt(p, 0, a.id, 2)
    BY <1>1, AnnounceType DEF AnnounceHeld, FieldAt
  <2>2. NumberRead(id, r, p, 0 + 2, a.id)
    BY <1>1, <1>4, <2>1, ReadNumber DEF id
  <2> QED
    BY <2>2
<1>6. id \in Readers(p) /\ id.off = 2 /\ Get(id.v) = a.id /\ id.ok /\ id.out = r.out
  BY <1>4, <1>5 DEF NumberRead
<1>7. NumberRead(domain, id, p, 3, a.domain)
  <2>1. FieldAt(p, 2, a.domain, 1)
    BY <1>1, AnnounceType DEF AnnounceHeld, FieldAt
  <2>2. NumberRead(domain, id, p, 2 + 1, a.domain)
    BY <1>1, <1>6, <2>1, ReadNumber DEF domain
  <2> QED
    BY <2>2
<1>8. /\ domain \in Readers(p) /\ domain.off = 3 /\ Get(domain.v) = a.domain /\ domain.ok
      /\ domain.out = r.out
  BY <1>6, <1>7 DEF NumberRead
<1>9. NumberRead(flags, domain, p, 4, WillFlag(a))
  <2>1. FieldAt(p, 3, WillFlag(a), 1)
    BY <1>1, AnnounceType DEF AnnounceHeld, FieldAt
  <2>2. NumberRead(flags, domain, p, 3 + 1, WillFlag(a))
    BY <1>1, <1>8, <2>1, ReadNumber DEF flags
  <2> QED
    BY <2>2
<1>10. flags \in Readers(p) /\ flags.off = 4 /\ Get(flags.v) = WillFlag(a) /\ flags.ok /\ flags.out = r.out
  BY <1>8, <1>9 DEF NumberRead
<1>11. Moved(name, flags, p, Len(WithName(a)), Capped(a.name, ByteBase - 1))
  <2>1. a.name \in Seq(Bytes) /\ Holds(p, flags.off, putStr8(a.name))
    BY <1>1, <1>10, AnnounceType DEF AnnounceHeld
  <2>2. Moved(name, flags, p, flags.off + Len(putStr8(a.name)), Capped(a.name, ByteBase - 1))
    BY <1>1, <1>10, <2>1, StrHolds8 DEF name
  <2>3. flags.off + Len(putStr8(a.name)) = Len(WithName(a))
    BY <1>1, <1>10 DEF AnnounceHeld
  <2> QED
    BY <2>2, <2>3
<1>12. /\ name \in Readers(p) /\ name.off = Len(WithName(a)) /\ name.v = Capped(a.name, ByteBase - 1)
       /\ name.ok /\ name.out = r.out
  BY <1>10, <1>11 DEF Moved
<1>13. Capped(a.host, ByteBase - 1) = a.host
  <2>1. a.host \in Short
    BY AnnounceType DEF Short
  <2> QED
    BY <2>1, ShortCapped
<1>14. Moved(host, name, p, Len(WithHost(a)), a.host)
  <2>1. a.host \in Seq(Bytes) /\ Holds(p, name.off, putStr8(a.host))
    BY <1>1, <1>12, AnnounceType DEF AnnounceHeld
  <2>2. Moved(host, name, p, name.off + Len(putStr8(a.host)), a.host)
    BY <1>1, <1>12, <1>13, <2>1, StrHolds8 DEF host
  <2>3. name.off + Len(putStr8(a.host)) = Len(WithHost(a))
    BY <1>1, <1>12 DEF AnnounceHeld
  <2> QED
    BY <2>2, <2>3
<1>15. /\ host \in Readers(p) /\ host.off = Len(WithHost(a)) /\ host.v = a.host
       /\ host.ok /\ host.out = r.out
  BY <1>12, <1>14 DEF Moved
<1> DEFINE out == [kind |-> "peer", id |-> a.id, name |-> Capped(a.name, ByteBase - 1), host |-> a.host,
                   subscribed |-> <<>>, published |-> <<>>, endpoints |-> <<>>, will |-> {}]
<1>16. out \in Peers
  <2>1. a.id \in Nat /\ Capped(a.name, ByteBase - 1) \in Text /\ a.host \in Text
    BY <1>12, <1>15, AnnounceType DEF Readers
  <2> QED
    BY <2>1, EmptySeq DEF Peers
<1>17. names.out = out /\ names.ok /\ names.off = Len(WithHost(a)) /\ names \in Readers(p)
  <2>1. [host.out EXCEPT !.id = Get(id.v), !.name = name.v, !.host = host.v] = out
    <3> DEFINE n == Capped(a.name, ByteBase - 1)
               h == a.host
               i == a.id
               nil == <<>>
               no == {}
               o == host.out
               q == [o EXCEPT !.id = Get(id.v), !.name = name.v, !.host = host.v]
    <3>1. IsPeer(o, 0, nil, nil, nil, nil, no) /\ IsPeer(out, i, n, h, nil, nil, no)
      BY <1>15 DEF Reader, PeerRecord, IsPeer
    <3>2. Renamed(q, o, i, n, h)
      BY <1>6, <1>12, <1>15 DEF Renamed
    <3> HIDE DEF n, h, i, out, nil, no, o, q
    <3>3. IsPeer(q, i, n, h, nil, nil, no)
      BY <3>1, <3>2, PeerRenamed
    <3>4. q = out
      BY <3>1, <3>3 DEF IsPeer
    <3> QED
      BY <3>4 DEF q, o
  <2> HIDE DEF out
  <2>2. names = [host EXCEPT !.out = out]
    BY <1>3, <2>1
  <2> QED
    BY <1>15, <1>16, <2>2 DEF Readers
<1>18. /\ topics \in Readers(p) /\ topics.ok /\ topics.off = Len(WithTopics(a))
       /\ topics.out = [out EXCEPT !.subscribed = texts]
  <2>1. /\ Holds(p, names.off, List(TopicItem, a.topics)) /\ a.topics \in Seq(Seq(Bytes))
        /\ names.out.subscribed = <<>>
        /\ Len(WithTopics(a)) = names.off + Len(List(TopicItem, a.topics))
    BY <1>1, <1>17, AnnounceType DEF AnnounceHeld
  <2> HIDE DEF out
  <2>2. /\ topics \in Readers(p) /\ topics.ok /\ topics.off = names.off + Len(List(TopicItem, a.topics))
        /\ topics.out = [names.out EXCEPT !.subscribed = texts]
    <3> DEFINE list == a.topics
               q == Times(ParseTopic, Read(names, 1))
    <3>1. p \in Text /\ names \in Readers(p) /\ names.ok
      BY <1>1, <1>17
    <3>2. /\ list \in Seq(Seq(Bytes)) /\ Holds(p, names.off, List(TopicItem, list))
          /\ names.out.subscribed = <<>>
      BY <2>1
    <3> HIDE DEF list
    <3>3. /\ q \in Readers(p) /\ q.ok /\ q.off = names.off + Len(List(TopicItem, list))
          /\ q.out = [names.out EXCEPT !.subscribed = TopicTexts(list, Len(Capped(list, ByteBase - 1)))]
      <4> HIDE DEF q
      <4>1. q = Times(ParseTopic, Read(names, 1))
        BY DEF q
      <4> QED
        BY <3>1, <3>2, <4>1, TopicsParsed
    <3> QED
      BY <3>3 DEF topics, texts, list
  <2> QED
    BY <1>17, <2>1, <2>2
<1>19. /\ lists \in Readers(p) /\ lists.ok /\ lists.off = Len(WithEndpoints(a))
       /\ lists.out = [topics.out EXCEPT !.endpoints = a.endpoints]
  <2>1. /\ Holds(p, topics.off, List(EndpointItem, a.endpoints)) /\ a.endpoints \in Seq(Endpoints)
        /\ topics.out.endpoints = <<>>
        /\ Len(WithEndpoints(a)) = topics.off + Len(List(EndpointItem, a.endpoints))
    BY <1>1, <1>18, AnnounceType DEF AnnounceHeld
  <2> HIDE DEF out
  <2>2. /\ lists \in Readers(p) /\ lists.ok /\ lists.off = topics.off + Len(List(EndpointItem, a.endpoints))
        /\ lists.out = [topics.out EXCEPT !.endpoints = a.endpoints]
    <3> DEFINE list == a.endpoints
               q == Times(ParseEndpoint, Read(topics, 1))
    <3>1. p \in Text /\ topics \in Readers(p) /\ topics.ok
      BY <1>1, <1>18
    <3>2. /\ list \in Seq(Endpoints) /\ Holds(p, topics.off, List(EndpointItem, list))
          /\ topics.out.endpoints = <<>>
      BY <2>1
    <3>3. FirstEndpoints(list, Len(Capped(list, ByteBase - 1))) = list
      BY AllEndpoints
    <3> HIDE DEF list
    <3>4. /\ q \in Readers(p) /\ q.ok /\ q.off = topics.off + Len(List(EndpointItem, list))
          /\ q.out = [topics.out EXCEPT !.endpoints = FirstEndpoints(list, Len(Capped(list, ByteBase - 1)))]
      <4> HIDE DEF q
      <4>1. q = Times(ParseEndpoint, Read(topics, 1))
        BY DEF q
      <4> QED
        BY <3>1, <3>2, <4>1, EndpointsParsed
    <3> QED
      BY <3>3, <3>4 DEF lists, list
  <2> QED
    BY <1>18, <2>1, <2>2
<1>20. /\ end.ok /\ end.out = [lists.out EXCEPT !.will = WillOf(a)]
  <2>1. CASE HasWill(a)
    <3>1. Get(flags.v) % 2 = 1
      BY <1>10, <2>1 DEF WillFlag
    <3>2. end = ParseWill(lists)
      BY <3>1 DEF end
    <3>3. Len(a.will.payload) \in UInt(4)
      <4>1. /\ Part(p, WithEndpoints(a), WillPart(a.will)) /\ Part(WillPart(a.will), WillSize(a.will), a.will.payload)
        BY <2>1, PayloadParts, WillParts
      <4> DEFINE x == Len(a.will.payload)
                 y == Len(WillPart(a.will))
                 z == Len(p)
      <4>2. x \in Nat /\ y \in Nat /\ x <= y
        BY <4>1, Parts
      <4>3. z \in Nat /\ y <= z
        BY <4>1, Parts
      <4>4. z \in UInt(4)
        OBVIOUS
      <4> HIDE DEF x, y, z
      <4>5. 4 \in 0 .. 8 /\ Power[4] \in Nat
        BY Powers
      <4>6. x \in UInt(4)
        BY <4>2, <4>3, <4>4, <4>5 DEF UInt
      <4> QED
        BY <4>6 DEF x
    <3>4. Holds(p, lists.off, WillPart(a.will))
      BY <1>1, <1>19, <2>1 DEF AnnounceHeld
    <3> QED
      BY <1>1, <1>19, <2>1, <3>2, <3>3, <3>4, WillParsed, ZenonT(40) DEF WillOf
  <2>2. CASE ~HasWill(a)
    <3>1. Get(flags.v) % 2 # 1
      BY <1>10, <2>2 DEF WillFlag
    <3>2. end = lists
      BY <3>1 DEF end
    <3>3. lists.out.will = {} /\ lists.out \in Peers
      BY <1>18, <1>19 DEF Readers
    <3>4. lists.out = [lists.out EXCEPT !.will = {}]
      BY <3>3 DEF Peers
    <3> QED
      BY <1>19, <2>2, <3>2, <3>4 DEF WillOf
  <2> QED
    BY <2>1, <2>2
<1>21. end.out = PeerOf(a)
  <2> DEFINE n == Capped(a.name, ByteBase - 1)
             h == a.host
             i == a.id
             e == a.endpoints
             w == WillOf(a)
             nil == <<>>
             no == {}
             q1 == topics.out
             q2 == lists.out
             q3 == end.out
  <2>1. IsPeer(out, i, n, h, nil, nil, no) /\ PeerOf(a) = PeerRecord(i, n, h, texts, e, w)
    BY DEF PeerRecord, PeerOf, texts, IsPeer
  <2>2. PeerChanges(q1, q2, q3, out, texts, e, w)
    BY <1>18, <1>19, <1>20 DEF PeerChanges
  <2> HIDE DEF n, h, i, e, w, out, nil, no, q1, q2, q3
  <2>3. IsPeer(q3, i, n, h, texts, e, w)
    BY <2>1, <2>2, PeerFilled
  <2> QED
    BY <2>1, <2>3 DEF IsPeer, q3
<1> QED
  BY <1>2, <1>8, <1>20, <1>21

-----------------------------------------------------------------------------
(* The endpoints by which an announced peer is reached.                    *)

LEMMA ReachSame ==
    ASSUME NEW e \in Endpoints
    PROVE  /\ e \in PeerEndpoints
           /\ Reach(e) \in PeerEndpoints /\ Reach(e).type = e.type
           /\ [Reach(e) EXCEPT !.address = <<>>] = [e EXCEPT !.address = <<>>]
           /\ e.type # Udp => Reach(e).address \notin {AnyHost, <<>>}
<1>1. e \in PeerEndpoints
  <2>1. {Udp, Tcp, Shm} \subseteq Short
    BY WireAssumption
  <2>2. Short \subseteq Text
    BY SeqMonotonic DEF Short, Text, Cells
  <2>3. UInt(2) \subseteq Nat
    BY UIntType
  <2> QED
    BY <2>1, <2>2, <2>3 DEF Endpoints, PeerEndpoints
<1>2. From.address \notin {AnyHost, <<>>}
  BY WireAssumption
<1>3. e.type \in {Udp, Tcp, Shm} /\ (e.type = Shm => e.address \notin {AnyHost, <<>>})
  BY DEF Endpoints
<1>4. Reach(e) \in PeerEndpoints /\ Reach(e).type = e.type
  BY <1>1, ReachType DEF Reach, PeerEndpoints
<1>5. [Reach(e) EXCEPT !.address = <<>>] = [e EXCEPT !.address = <<>>]
  BY <1>1 DEF Reach, PeerEndpoints
<1>6. e.type # Udp => Reach(e).address \notin {AnyHost, <<>>}
  BY <1>1, <1>2, <1>3 DEF Reach, PeerEndpoints
<1> QED
  BY <1>1, <1>4, <1>5, <1>6

\* The first k endpoints of s are in r, the "udp" ones as the one the packet came from.
Reached(r, s, k) ==
    /\ r \in Seq(PeerEndpoints) /\ Len(r) >= 1 /\ r[1] = From
    /\ \A i \in 2 .. Len(r) : \E j \in 1 .. k : s[j].type # Udp /\ r[i] = Reach(s[j])
    /\ \A j \in 1 .. k : s[j].type # Udp => \E i \in 2 .. Len(r) : r[i] = Reach(s[j])

LEMMA ReachedMore ==
    ASSUME NEW s, NEW k \in Nat, NEW r, Reached(r, s, k), s[k + 1] \in PeerEndpoints,
           NEW q, q = IF s[k + 1].type = Udp THEN r ELSE Append(r, Reach(s[k + 1]))
    PROVE  Reached(q, s, k + 1)
<1>1. CASE s[k + 1].type = Udp
  BY <1>1, SMTT(30) DEF Reached
<1>2. CASE s[k + 1].type # Udp
  <2> DEFINE e == Reach(s[k + 1])
             n == Len(r)
  <2>1. e \in PeerEndpoints /\ r \in Seq(PeerEndpoints) /\ n \in Nat /\ n >= 1 /\ r[1] = From
    BY ReachType DEF Reached
  <2>2. q = Append(r, e)
    BY <1>2
  <2> HIDE DEF e
  <2>3. /\ q \in Seq(PeerEndpoints) /\ Len(q) = n + 1 /\ q[n + 1] = e
        /\ \A i \in 1 .. n : q[i] = r[i]
    BY <2>1, <2>2, AppendProperties
  <2> HIDE DEF n
  <2>4. ASSUME NEW i \in 2 .. n + 1
        PROVE  \E j \in 1 .. k + 1 : s[j].type # Udp /\ q[i] = Reach(s[j])
    <3>1. CASE i = n + 1
      BY <1>2, <2>3, <3>1 DEF e
    <3>2. CASE i # n + 1
      <4>1. i \in 2 .. n /\ q[i] = r[i]
        BY <2>1, <2>3, <3>2
      <4> QED
        BY <4>1 DEF Reached, n
    <3> QED
      BY <3>1, <3>2
  <2>5. ASSUME NEW j \in 1 .. k + 1, s[j].type # Udp
        PROVE  \E i \in 2 .. n + 1 : q[i] = Reach(s[j])
    <3>1. CASE j = k + 1
      <4>1. n + 1 \in 2 .. n + 1 /\ q[n + 1] = Reach(s[j])
        BY <2>1, <2>3, <3>1 DEF e
      <4> QED
        BY <4>1
    <3>2. CASE j # k + 1
      <4>1. PICK i \in 2 .. n : r[i] = Reach(s[j])
        BY <2>5, <3>2 DEF Reached, n
      <4>2. i \in 2 .. n + 1 /\ q[i] = Reach(s[j])
        BY <2>1, <2>3, <4>1
      <4> QED
        BY <4>2
    <3> QED
      BY <3>1, <3>2
  <2>6. q[1] = From /\ Len(q) >= 1
    BY <2>1, <2>3
  <2> QED
    BY <2>3, <2>4, <2>5, <2>6 DEF Reached
<1> QED
  BY <1>1, <1>2

LEMMA ResolveAll ==
    ASSUME NEW s \in Seq(PeerEndpoints)
    PROVE  Reached(Resolve(s), s, Len(s))
<1> DEFINE n == Len(s)
<1>1. PICK f : ResolveLoop(f, s)
  BY ResolveRounds
<1>2. /\ n \in Nat /\ f[0] = <<From>> /\ Resolve(s) = f[n]
      /\ \A i \in 1 .. n : f[i] = IF s[i].type = Udp THEN f[i - 1] ELSE Append(f[i - 1], Reach(s[i]))
  BY <1>1, LenProperties DEF ResolveLoop
<1>3. \A i \in 1 .. n : s[i] \in PeerEndpoints
  OBVIOUS
<1> HIDE DEF n
<1> DEFINE T == {k \in Nat : k <= n => Reached(f[k], s, k)}
<1>4. 0 \in T
  <2>1. Reached(<<From>>, s, 0)
    BY FromType DEF Reached
  <2> QED
    BY <1>2, <2>1
<1>5. ASSUME NEW k \in Nat, k \in T PROVE k + 1 \in T
  <2> SUFFICES ASSUME k + 1 <= n PROVE Reached(f[k + 1], s, k + 1)
    OBVIOUS
  <2>1. k + 1 \in 1 .. n /\ (k + 1) - 1 = k /\ Reached(f[k], s, k)
    BY <1>2, <1>5
  <2>2. f[k + 1] = IF s[k + 1].type = Udp THEN f[k] ELSE Append(f[k], Reach(s[k + 1]))
    BY <1>2, <2>1
  <2> QED
    BY <1>3, <2>1, <2>2, ReachedMore
<1>6. n \in T
  <2> HIDE DEF T
  <2> QED
    BY <1>2, <1>4, <1>5, NatSet
<1> QED
  BY <1>2, <1>6 DEF n

\* The first endpoint of a type, as the bus looks for it.
Search(r, type) == SelectInSeq(r, LAMBDA e : e.type = type)
LEMMA SearchFinds ==
    ASSUME NEW r \in Seq(PeerEndpoints), NEW type
    PROVE  /\ \/ Search(r, type) = 0
              \/ Search(r, type) \in 1 .. Len(r) /\ r[Search(r, type)].type = type
           /\ (\E i \in 1 .. Len(r) : r[i].type = type) => Search(r, type) # 0
<1> DEFINE I == {i \in 1 .. Len(r) : r[i].type = type}
           Least(x) == x \in I /\ \A y \in I : x =< y
<1>1. Search(r, type) = IF I # {} THEN CHOOSE x \in I : \A y \in I : x =< y ELSE 0
  BY DEF Search, SelectInSeq, Min
<1>2. Search(r, type) = IF I # {} THEN CHOOSE x : Least(x) ELSE 0
  BY <1>1
<1>3. ASSUME I # {} PROVE \E x : Least(x)
  <2>1. I \subseteq Nat
    BY LenProperties
  <2>2. PICK x \in I : \A y \in I : ~(<<y, x>> \in OpToRel(<, Nat))
    BY <1>3, <2>1, WFMin, NatLessThanWellFounded, Zenon
  <2> HIDE DEF I
  <2>3. ASSUME NEW y \in I PROVE x =< y
    <3>1. x \in Nat /\ y \in Nat
      BY <2>1
    <3>2. ~(y < x)
      BY <2>2, <3>1 DEF OpToRel
    <3> QED
      BY <3>1, <3>2
  <2> QED
    BY <2>3
<1> HIDE DEF Least
<1>4. ASSUME I # {} PROVE Least(CHOOSE x : Least(x))
  BY <1>3, <1>4, Zenon
<1>5. ASSUME I # {} PROVE Search(r, type) \in I
  BY <1>2, <1>4, <1>5 DEF Least
<1>6. \A i \in I : i \in 1 .. Len(r) /\ r[i].type = type /\ i # 0
  BY LenProperties
<1>7. (\E i \in 1 .. Len(r) : r[i].type = type) => I # {}
  OBVIOUS
<1>8. I = {} => Search(r, type) = 0
  BY <1>2
<1> HIDE DEF I
<1> QED
  BY <1>5, <1>6, <1>7, <1>8

\* What is announced, as the receiver knows it.
Known(a) == [PeerOf(a) EXCEPT !.endpoints = Resolve(@)]

LEMMA KnownEndpoints ==
    ASSUME NEW s \in Seq(Endpoints), NEW r, r = Resolve(s)
    PROVE  /\ r \in Seq(PeerEndpoints) /\ r # <<>> /\ Len(r) \in Nat /\ Len(r) >= 1
           /\ r[1] = From
           /\ {[e EXCEPT !.address = <<>>] : e \in ToSet(Tail(r))}
                = {[e EXCEPT !.address = <<>>] : e \in {f \in ToSet(s) : f.type # Udp}}
           /\ \A i \in 1 .. Len(r) : r[i].address \notin {AnyHost, <<>>}
           /\ \A j \in 1 .. Len(s) : s[j].type = Tcp => \E i \in 1 .. Len(r) : r[i].type = Tcp
<1> DEFINE n == Len(s)
           k == Len(r)
           Bare(e) == [e EXCEPT !.address = <<>>]
<1>1. s \in Seq(PeerEndpoints)
  BY ReachSame, SeqMonotonic
<1>2. Reached(r, s, n)
  BY <1>1, ResolveAll
<1>3. r \in Seq(PeerEndpoints) /\ k \in Nat /\ k >= 1 /\ r[1] = From /\ n \in Nat /\ r # <<>>
  BY <1>2 DEF Reached
<1>4. \A j \in 1 .. n : s[j] \in Endpoints
  OBVIOUS
<1>5. /\ \A i \in 2 .. k : \E j \in 1 .. n : s[j].type # Udp /\ r[i] = Reach(s[j])
      /\ \A j \in 1 .. n : s[j].type # Udp => \E i \in 2 .. k : r[i] = Reach(s[j])
  BY <1>2 DEF Reached
<1>6. ToSet(s) = {s[j] : j \in 1 .. n} /\ ToSet(Tail(r)) = {r[i] : i \in 2 .. k}
  <2>1. DOMAIN s = 1 .. n
    OBVIOUS
  <2>2. DOMAIN Tail(r) = 1 .. k - 1 /\ \A i \in 1 .. k - 1 : Tail(r)[i] = r[i + 1]
    BY <1>3
  <2>3. ASSUME NEW i \in 2 .. k PROVE i - 1 \in 1 .. k - 1 /\ Tail(r)[i - 1] = r[i]
    <3>1. i - 1 \in 1 .. k - 1 /\ (i - 1) + 1 = i
      BY <1>3
    <3> QED
      BY <2>2, <3>1
  <2>4. \A i \in 1 .. k - 1 : i + 1 \in 2 .. k
    BY <1>3
  <2> HIDE DEF k, n
  <2> DEFINE t == Tail(r)
  <2>5. {t[i] : i \in 1 .. k - 1} = {r[i] : i \in 2 .. k}
    <3>1. \A i \in 1 .. k - 1 : t[i] = r[i + 1] /\ i + 1 \in 2 .. k
      BY <2>2, <2>4
    <3>2. \A i \in 2 .. k : i - 1 \in 1 .. k - 1 /\ t[i - 1] = r[i]
      BY <2>3
    <3> HIDE DEF t
    <3>3. ASSUME NEW i \in 1 .. k - 1 PROVE t[i] \in {r[j] : j \in 2 .. k}
      BY <3>1
    <3>4. ASSUME NEW i \in 2 .. k PROVE r[i] \in {t[j] : j \in 1 .. k - 1}
      BY <3>2
    <3> QED
      BY <3>3, <3>4
  <2> QED
    BY <2>1, <2>2, <2>5 DEF ToSet
<1> HIDE DEF n, k
<1>7. \A j \in 1 .. n : /\ Reach(s[j]).type = s[j].type /\ Bare(Reach(s[j])) = Bare(s[j])
                        /\ s[j].type # Udp => Reach(s[j]).address \notin {AnyHost, <<>>}
  BY <1>4, ReachSame
<1> HIDE DEF Bare
<1>8. {Bare(e) : e \in {r[i] : i \in 2 .. k}} = {Bare(e) : e \in {f \in {s[j] : j \in 1 .. n} : f.type # Udp}}
  <2>1. ASSUME NEW i \in 2 .. k
        PROVE  \E e \in {f \in {s[j] : j \in 1 .. n} : f.type # Udp} : Bare(r[i]) = Bare(e)
    <3>1. PICK j \in 1 .. n : s[j].type # Udp /\ r[i] = Reach(s[j])
      BY <1>5
    <3>2. Bare(r[i]) = Bare(s[j])
      BY <1>7, <3>1
    <3> QED
      BY <3>1, <3>2
  <2>2. ASSUME NEW j \in 1 .. n, s[j].type # Udp
        PROVE  \E e \in {r[i] : i \in 2 .. k} : Bare(e) = Bare(s[j])
    <3>1. PICK i \in 2 .. k : r[i] = Reach(s[j])
      BY <1>5, <2>2
    <3>2. Bare(r[i]) = Bare(s[j])
      BY <1>7, <3>1
    <3> QED
      BY <3>1, <3>2
  <2> QED
    BY <2>1, <2>2
<1>9. ASSUME NEW i \in 1 .. k PROVE r[i].address \notin {AnyHost, <<>>}
  <2>1. CASE i = 1
    BY <1>3, <2>1, WireAssumption
  <2>2. CASE i # 1
    <3>1. i \in 2 .. k
      BY <1>3, <2>2
    <3>2. PICK j \in 1 .. n : s[j].type # Udp /\ r[i] = Reach(s[j])
      BY <1>5, <3>1
    <3> QED
      BY <1>7, <3>2
  <2> QED
    BY <2>1, <2>2
<1>10. ASSUME NEW j \in 1 .. n, s[j].type = Tcp PROVE \E i \in 1 .. k : r[i].type = Tcp
  <2>1. Tcp # Udp
    BY WireAssumption
  <2>2. PICK i \in 2 .. k : r[i] = Reach(s[j])
    BY <1>5, <1>10, <2>1
  <2>3. i \in 1 .. k /\ r[i].type = Tcp
    BY <1>3, <1>7, <1>10, <2>2
  <2> QED
    BY <2>3
<1> QED
  BY <1>3, <1>6, <1>8, <1>9, <1>10 DEF n, k, Bare

LEMMA KnownFields ==
    ASSUME NEW a \in AnnounceRecords
    PROVE  /\ Known(a).kind = "peer" /\ Known(a).id = a.id /\ Known(a).host = a.host
           /\ Known(a).name = Capped(a.name, ByteBase - 1)
           /\ Known(a).subscribed = TopicTexts(a.topics, Len(Capped(a.topics, ByteBase - 1)))
           /\ Known(a).published = <<>> /\ Known(a).endpoints = Resolve(a.endpoints)
           /\ Known(a).will = WillOf(a)
  BY DEF Known, PeerOf

LEMMA SubscribedTexts ==
    ASSUME NEW a \in AnnounceRecords
    PROVE  TopicTexts(a.topics, Len(Capped(a.topics, ByteBase - 1)))
             = [i \in DOMAIN Capped(a.topics, ByteBase - 1) |-> Capped(a.topics[i], MAX_TOPIC_LEN)]
<1> DEFINE list == a.topics
           c == Capped(list, ByteBase - 1)
<1>1. list \in Seq(Seq(Bytes))
  BY AnnounceType
<1>2. c \in Seq(Seq(Bytes)) /\ DOMAIN c = 1 .. Len(c) /\ \A i \in 1 .. Len(c) : c[i] = list[i]
  <2> HIDE DEF list
  <2>1. Len(list) \in Nat /\ ByteBase - 1 \in Nat
    BY <1>1, ByteRange
  <2>2. /\ c \in Seq(Seq(Bytes)) /\ Len(c) \in Nat
        /\ \A i \in 1 .. Len(c) : c[i] = list[i]
    BY <1>1, <2>1, CappedType
  <2> HIDE DEF c
  <2> QED
    BY <2>2
<1> HIDE DEF list, c
<1>3. [j \in 1 .. Len(c) |-> Capped(c[j], Power[2] - 1)] = [i \in DOMAIN c |-> Capped(list[i], Power[2] - 1)]
  BY <1>2
<1> QED
  BY <1>3 DEF TopicTexts, MAX_TOPIC_LEN, list, c

LEMMA PeerKnown ==
    ASSUME NEW a \in AnnounceRecords, got = Known(a)
    PROVE  SamePeer(a)
<1> DEFINE r == Resolve(a.endpoints)
<1>1. a.endpoints \in Seq(Endpoints)
  BY AnnounceType
<1>2. /\ r \in Seq(PeerEndpoints) /\ Len(r) \in Nat /\ Len(r) >= 1 /\ r[1] = From
      /\ {[e EXCEPT !.address = <<>>] : e \in ToSet(Tail(r))}
           = {[e EXCEPT !.address = <<>>] : e \in {f \in ToSet(a.endpoints) : f.type # Udp}}
      /\ \A i \in 1 .. Len(r) : r[i].address \notin {AnyHost, <<>>}
  BY <1>1, KnownEndpoints
<1>3. \A e \in ToSet(r) : e.address \notin {AnyHost, <<>>}
  BY <1>2 DEF ToSet
<1>4. got.endpoints = r
  BY KnownFields
<1> HIDE DEF r
<1>5. /\ got.endpoints[1] = From
      /\ {[e EXCEPT !.address = <<>>] : e \in ToSet(Tail(got.endpoints))}
           = {[e EXCEPT !.address = <<>>] : e \in {f \in ToSet(a.endpoints) : f.type # Udp}}
      /\ \A e \in ToSet(got.endpoints) : e.address \notin {AnyHost, <<>>}
  BY <1>2, <1>3, <1>4
<1>6. got.will = IF HasWill(a)
                 THEN {[qos |-> a.will.qos, retain |-> a.will.retain,
                        topic |-> Capped(a.will.topic, MAX_TOPIC_LEN),
                        payload |-> a.will.payload]} ELSE {}
  BY KnownFields DEF WillOf, MAX_TOPIC_LEN
<1>7. got.subscribed = [i \in DOMAIN Capped(a.topics, ByteBase - 1) |-> Capped(a.topics[i], MAX_TOPIC_LEN)]
  BY KnownFields, SubscribedTexts
<1>8. /\ got.kind = "peer" /\ got.id = a.id /\ got.name = Capped(a.name, ByteBase - 1)
      /\ got.host = a.host /\ got.published = <<>>
  BY KnownFields
<1> QED
  BY <1>5, <1>6, <1>7, <1>8, Zenon DEF SamePeer

LEMMA PeerRouted ==
    ASSUME NEW a \in AnnounceRecords, got = Known(a)
    PROVE  WellRouted(a)
<1> DEFINE r == Resolve(a.endpoints)
           s == a.endpoints
<1>1. s \in Seq(Endpoints)
  BY AnnounceType
<1>2. /\ r \in Seq(PeerEndpoints) /\ Len(r) \in Nat /\ Len(r) >= 1 /\ r[1] = From
      /\ \A i \in 1 .. Len(r) : r[i].address \notin {AnyHost, <<>>}
      /\ \A j \in 1 .. Len(s) : s[j].type = Tcp => \E i \in 1 .. Len(r) : r[i].type = Tcp
  BY <1>1, KnownEndpoints
<1>3. got.endpoints = r /\ got.host = a.host
  BY KnownFields
<1>4. ToSet(s) = {s[j] : j \in 1 .. Len(s)} /\ ToSet(r) = {r[i] : i \in 1 .. Len(r)}
  BY <1>1, <1>2 DEF ToSet
<1> HIDE DEF r, s
<1> SUFFICES ASSUME NEW active \in SUBSET {Udp, Tcp, Shm}, Udp \in active,
                    NEW ep, ep = selectEndpoint(got, active)
             PROVE  /\ ep.type \in active /\ ep \in ToSet(r)
                    /\ ep.type = Shm => a.host = LocalHost
                    /\ ep.type = Udp => \A e \in ToSet(s) : e.type = Tcp => Tcp \notin active
  BY <1>3 DEF WellRouted, s
<1> DEFINE shm == Search(r, Shm)
           tcp == Search(r, Tcp)
           udp == Search(r, Udp)
<1>5. /\ shm = 0 \/ (shm \in 1 .. Len(r) /\ r[shm].type = Shm)
      /\ tcp = 0 \/ (tcp \in 1 .. Len(r) /\ r[tcp].type = Tcp)
      /\ udp = 0 \/ (udp \in 1 .. Len(r) /\ r[udp].type = Udp)
      /\ (\E i \in 1 .. Len(r) : r[i].type = Tcp) => tcp # 0
      /\ (\E i \in 1 .. Len(r) : r[i].type = Udp) => udp # 0
  BY <1>2, SearchFinds
<1>6. udp # 0
  <2>1. 1 \in 1 .. Len(r) /\ r[1].type = Udp
    BY <1>2, FromType
  <2> QED
    BY <1>5, <2>1
<1>7. ep = IF shm # 0 /\ Shm \in active /\ r[shm].address # <<>> /\ LocalHost # <<>> /\ a.host = LocalHost
           THEN r[shm]
           ELSE IF tcp # 0 /\ Tcp \in active /\ r[tcp].address # <<>> THEN r[tcp]
           ELSE IF udp # 0 THEN r[udp] ELSE Head(r)
  BY <1>3 DEF selectEndpoint, Search
<1> HIDE DEF shm, tcp, udp
<1>8. Udp # Tcp /\ Udp # Shm /\ Tcp # Shm
  BY WireAssumption
<1>9. CASE shm # 0 /\ Shm \in active /\ r[shm].address # <<>> /\ LocalHost # <<>> /\ a.host = LocalHost
  <2>1. ep = r[shm] /\ shm \in 1 .. Len(r) /\ r[shm].type = Shm
    BY <1>5, <1>7, <1>9
  <2> QED
    BY <1>4, <1>8, <1>9, <2>1
<1>10. CASE /\ ~(shm # 0 /\ Shm \in active /\ r[shm].address # <<>> /\ LocalHost # <<>> /\ a.host = LocalHost)
            /\ tcp # 0 /\ Tcp \in active /\ r[tcp].address # <<>>
  <2>1. ep = r[tcp] /\ tcp \in 1 .. Len(r) /\ r[tcp].type = Tcp
    BY <1>5, <1>7, <1>10
  <2> QED
    BY <1>4, <1>8, <1>10, <2>1
<1>11. CASE /\ ~(shm # 0 /\ Shm \in active /\ r[shm].address # <<>> /\ LocalHost # <<>> /\ a.host = LocalHost)
            /\ ~(tcp # 0 /\ Tcp \in active /\ r[tcp].address # <<>>)
  <2>1. ep = r[udp] /\ udp \in 1 .. Len(r) /\ r[udp].type = Udp
    BY <1>5, <1>6, <1>7, <1>11
  <2>2. ASSUME NEW j \in 1 .. Len(s), s[j].type = Tcp PROVE Tcp \notin active
    <3>1. tcp # 0
      BY <1>2, <1>5, <2>2
    <3>2. r[tcp].address # <<>>
      BY <1>2, <1>5, <3>1
    <3> QED
      BY <1>11, <3>1, <3>2
  <2> QED
    BY <1>4, <1>8, <2>1, <2>2
<1> QED
  BY <1>9, <1>10, <1>11

-----------------------------------------------------------------------------
(* What the callback makes of an undamaged packet.                         *)

LEMMA FrameReceived ==
    ASSUME NEW m \in Packable, Fits(m), NEW p, p = Frame(m)
    PROVE  recvCallback(p) = IF m.type \in DiscoveryTypes THEN onDiscoveryMessage(p) ELSE Content(m)
<1>1. decode(p) = Content(m) /\ Len(p) >= HEADER_BASE_SIZE
  BY DecodeFrame
<1>2. p \in Text /\ HasHeader(p, m)
  BY FrameHolds
<1>3. ReadsHeader(p, m)
  BY <1>2, HeaderRead
<1>4. /\ Get(At(p, 0, 2)) = EMBEDMQ_MAGIC /\ Get(At(p, 2, 1)) = EMBEDMQ_VERSION
      /\ Get(At(p, 3, 1)) = m.type
  BY <1>3 DEF ReadsHeader
<1>5. ~(Len(p) < HEADER_BASE_SIZE)
  <2>1. Len(p) \in Nat
    BY <1>2 DEF Text
  <2> QED
    BY <1>1, <2>1 DEF HEADER_BASE_SIZE
<1> QED
  BY <1>1, <1>4, <1>5 DEF recvCallback, onReceived

LEMMA ContentFields ==
    ASSUME NEW m
    PROVE  /\ Content(m) # Refused /\ Content(m).source = m.source /\ Content(m).type = m.type
           /\ Content(m).payload = m.payload /\ Content(m).kind = "message"
  BY DEF Content, Refused

\* A message, or a sign of life.
LEMMA MessageReceived ==
    ASSUME NEW m \in MessageRecords, Fits(m), NEW p, p = Frame(m)
    PROVE  recvCallback(p) =
             IF m.type \notin DiscoveryTypes THEN Content(m)
             ELSE IF m.source = NodeId THEN Refused
             ELSE [kind |-> "sign", type |-> m.type, id |-> m.source]
<1>1. m \in Packable /\ (m.type \in DiscoveryTypes => m.type \in {HEARTBEAT, FAREWELL})
  BY DEF MessageRecords, Packable
<1>2. decode(p) = Content(m)
  BY <1>1, DecodeFrame
<1>3. recvCallback(p) = IF m.type \in DiscoveryTypes THEN onDiscoveryMessage(p) ELSE Content(m)
  BY <1>1, FrameReceived
<1>4. ASSUME m.type \in {HEARTBEAT, FAREWELL}
      PROVE  onDiscoveryMessage(p) = IF m.source = NodeId THEN Refused
                                     ELSE [kind |-> "sign", type |-> m.type, id |-> m.source]
  <2>1. m.type # ANNOUNCE
    BY <1>4, WireAssumption
  <2> DEFINE c == Content(m)
  <2>2. c # Refused /\ c.source = m.source /\ c.type = m.type
    BY ContentFields
  <2> HIDE DEF c
  <2> QED
    BY <1>2, <1>4, <2>1, <2>2 DEF onDiscoveryMessage, c
<1> QED
  BY <1>1, <1>3, <1>4

\* An announcement.
LEMMA AnnouncementReceived ==
    ASSUME NEW a \in AnnounceRecords, AnnounceMessage(a) \in Packable, Fits(AnnounceMessage(a)),
           NEW p, p = Frame(AnnounceMessage(a))
    PROVE  recvCallback(p) = IF a.id = NodeId \/ a.domain # DomainId THEN Refused ELSE Known(a)
<1> DEFINE m == AnnounceMessage(a)
           c == Content(m)
<1>1. m.type = ANNOUNCE /\ m.source = a.id /\ m.payload = buildAnnouncePayload(a)
  BY DEF AnnounceMessage
<1>2. ANNOUNCE \in DiscoveryTypes
  BY WireAssumption
<1>3. Len(m.payload) \in UInt(4)
  BY SizesFit
<1>4. decode(p) = c
  BY DecodeFrame
<1>5. recvCallback(p) = onDiscoveryMessage(p)
  BY <1>1, <1>2, FrameReceived
<1>6. c # Refused /\ c.source = a.id /\ c.type = ANNOUNCE /\ c.payload = buildAnnouncePayload(a)
  BY <1>1, ContentFields
<1> HIDE DEF m, c
<1>7. parseAnnouncePayload(c.payload) = IF a.domain # DomainId THEN Refused ELSE PeerOf(a)
  BY <1>1, <1>3, <1>6, ParseAnnounced
<1>8. PeerOf(a) # Refused
  BY DEF PeerOf, Refused
<1> DEFINE peer == parseAnnouncePayload(c.payload)
<1>9. onDiscoveryMessage(p) =
        IF a.id = NodeId THEN Refused
        ELSE IF peer = Refused THEN Refused ELSE [peer EXCEPT !.endpoints = Resolve(@)]
  <2> DEFINE result == decode(p)
             read == parseAnnouncePayload(result.payload)
             known == [read EXCEPT !.endpoints = Resolve(@)]
             sign == [kind |-> "sign", type |-> result.type, id |-> result.source]
  <2>1. onDiscoveryMessage(p) =
          IF result = Refused \/ result.source = NodeId THEN Refused
          ELSE CASE result.type = ANNOUNCE -> IF read = Refused THEN Refused ELSE known
                 [] result.type \in {HEARTBEAT, FAREWELL} -> sign
                 [] OTHER -> Refused
    BY DEF onDiscoveryMessage
  <2>2. ANNOUNCE \notin {HEARTBEAT, FAREWELL}
    BY WireAssumption
  <2>3. read = peer
    BY <1>4
  <2> HIDE DEF result, read, known, sign, peer
  <2>4. result.type = ANNOUNCE /\ result # Refused /\ result.source = a.id
    BY <1>4, <1>6 DEF result
  <2>5. onDiscoveryMessage(p) =
          IF a.id = NodeId THEN Refused ELSE IF read = Refused THEN Refused ELSE known
    BY <2>1, <2>2, <2>4
  <2> QED
    BY <2>3, <2>5 DEF known
<1> HIDE DEF peer
<1>10. CASE a.domain # DomainId
  BY <1>5, <1>7, <1>9, <1>10 DEF peer
<1>11. CASE a.domain = DomainId
  <2>1. peer = PeerOf(a)
    BY <1>7, <1>11 DEF peer
  <2> QED
    BY <1>5, <1>8, <1>9, <1>11, <2>1 DEF Known
<1> QED
  BY <1>10, <1>11

LEMMA MessageKnown ==
    ASSUME NEW m \in MessageRecords, got = Content(m)
    PROVE  SameMessage(m)
<1>1. /\ got.kind = "message" /\ got.topic = m.topic /\ got.payload = m.payload
      /\ got.type = m.type /\ got.qos = m.qos /\ got.flags = m.flags /\ got.source = m.source
      /\ got.serializer = m.serializer /\ got.dest = m.dest /\ got.seq = m.seq /\ got.corr = m.corr
  BY DEF Content
<1>2. \A f \in {"type", "qos", "flags", "serializer", "source", "dest", "seq", "corr"} : got[f] = m[f]
  BY <1>1
<1>3. m.type \in DataTypes => Get(got.time) = m.time
  <2>1. m.time \in UInt(8)
    BY DEF MessageRecords
  <2>2. m.type \in DataTypes => got.time = Put(m.time, 8)
    BY DEF Content
  <2>3. 8 \in 1 .. 8
    OBVIOUS
  <2>4. Get(Put(m.time, 8)) = m.time
    BY <2>1, <2>3, GetPut
  <2> QED
    BY <2>2, <2>4
<1> QED
  BY <1>1, <1>2, <1>3 DEF SameMessage

-----------------------------------------------------------------------------
(* What can happen to a packet.                                            *)

\* p is what is left of o, after the damage h.
Damaged(p, o, h) ==
    /\ p \in Text /\ o \in Text /\ Len(p) <= Len(o)
    /\ (-1 \notin h => Len(p) = Len(o)) /\ (-1 \in h => Len(p) < Len(o))
    /\ \A k \in h : k \in Int /\ -1 <= k /\ k < Len(o)
    /\ \A i \in 1 .. Len(p) : /\ i - 1 \notin h => p[i] = o[i]
                              /\ i - 1 \in h => p[i] \in Bytes /\ p[i] # o[i]

LEMMA DamagedNot == ASSUME NEW o \in Text PROVE Damaged(o, o, {})
<1>1. Len(o) \in Nat
  BY DEF Text
<1> QED
  BY <1>1 DEF Damaged

LEMMA Undamaged == ASSUME NEW p, NEW o, Damaged(p, o, {}) PROVE p = o
<1>1. p \in Seq(Cells) /\ o \in Seq(Cells) /\ Len(p) = Len(o) /\ \A i \in 1 .. Len(p) : p[i] = o[i]
  BY DEF Damaged, Text
<1> QED
  BY <1>1, SeqEqual

LEMMA DamagedMore ==
    ASSUME NEW p, NEW o, NEW h, Damaged(p, o, h), NEW off \in 0 .. Len(p) - 1, off \notin h,
           NEW b \in Bytes, p[off + 1] # b
    PROVE  Damaged([p EXCEPT ![off + 1] = b], o, h \cup {off})
<1> DEFINE q == [p EXCEPT ![off + 1] = b]
           g == h \cup {off}
<1>1. p \in Seq(Cells) /\ o \in Text /\ Len(p) \in Nat /\ Len(o) \in Nat /\ Len(p) <= Len(o)
  BY DEF Damaged, Text
<1>2. off + 1 \in 1 .. Len(p) /\ off \in Nat /\ off < Len(p)
  BY <1>1
<1>3. b \in Cells
  BY DEF Cells
<1>4. q \in Seq(Cells) /\ Len(q) = Len(p)
  BY <1>1, <1>2, <1>3, ExceptSeq
<1>5. \A i \in 1 .. Len(p) : q[i] = IF i = off + 1 THEN b ELSE p[i]
  BY <1>1, <1>2
<1> HIDE DEF q
<1>6. ASSUME NEW i \in 1 .. Len(p)
      PROVE  (i - 1 \notin g => q[i] = o[i]) /\ (i - 1 \in g => q[i] \in Bytes /\ q[i] # o[i])
  <2>1. CASE i = off + 1
    <3>1. i - 1 = off /\ p[i] = o[i]
      BY <1>1, <1>2, <2>1 DEF Damaged
    <3>2. q[i] = b /\ b # o[i]
      BY <1>5, <2>1, <3>1
    <3> QED
      BY <3>1, <3>2
  <2>2. CASE i # off + 1
    <3>1. i - 1 # off /\ q[i] = p[i]
      BY <1>1, <1>2, <1>5, <2>2
    <3>2. (i - 1 \notin h => p[i] = o[i]) /\ (i - 1 \in h => p[i] \in Bytes /\ p[i] # o[i])
      BY DEF Damaged
    <3> QED
      BY <3>1, <3>2
  <2> QED
    BY <2>1, <2>2
<1>7. (-1 \in g <=> -1 \in h) /\ \A k \in g : k \in Int /\ -1 <= k /\ k < Len(o)
  BY <1>1, <1>2 DEF Damaged
<1> HIDE DEF g
<1>8. Damaged(q, o, g)
  BY <1>1, <1>4, <1>6, <1>7 DEF Damaged, Text
<1> QED
  BY <1>8 DEF q, g

LEMMA DamagedShorter ==
    ASSUME NEW p, NEW o, NEW h, Damaged(p, o, h), NEW size \in 0 .. Len(p) - 1
    PROVE  Damaged(SubSeq(p, 1, size), o, h \cup {-1})
<1> DEFINE q == SubSeq(p, 1, size)
           g == h \cup {-1}
<1>1. p \in Seq(Cells) /\ o \in Text /\ Len(p) \in Nat /\ Len(o) \in Nat /\ Len(p) <= Len(o)
  BY DEF Damaged, Text
<1>2. q \in Seq(Cells) /\ Len(q) = size /\ \A i \in 1 .. size : q[i] = p[i]
  BY <1>1
<1> HIDE DEF q
<1>3. ASSUME NEW i \in 1 .. size
      PROVE  (i - 1 \notin g => q[i] = o[i]) /\ (i - 1 \in g => q[i] \in Bytes /\ q[i] # o[i])
  <2>1. i \in 1 .. Len(p) /\ i - 1 # -1 /\ q[i] = p[i]
    BY <1>1, <1>2
  <2>2. (i - 1 \notin h => p[i] = o[i]) /\ (i - 1 \in h => p[i] \in Bytes /\ p[i] # o[i])
    BY <2>1 DEF Damaged
  <2> QED
    BY <2>1, <2>2
<1>4. size < Len(o) /\ size <= Len(o) /\ -1 \in g /\ \A k \in g : k \in Int /\ -1 <= k /\ k < Len(o)
  BY <1>1 DEF Damaged
<1> HIDE DEF g
<1>5. Damaged(q, o, g)
  BY <1>1, <1>2, <1>3, <1>4 DEF Damaged, Text
<1> QED
  BY <1>5 DEF q, g

\* What is on its way, and what happened to it: of a message the limits admit, what is
\* left of its packet, and of another one nothing, or what the gathered send left bare.
SentInv ==
    \/ sent = None
    \/ \E m \in Messages : sent = [kind |-> "message", m |-> m]
    \/ \E a \in Announcements : sent = [kind |-> "peer", m |-> AnnounceMessage(a), a |-> a]
DamageInv == sent # None /\ Fits(sent.m) => Damaged(packet, Frame(sent.m), hurt)
BareInv ==
    sent # None /\ ~Fits(sent.m) /\ hurt = {} =>
       \/ packet = <<>>
       \/ sent.kind = "message" /\ sent.m \in Messages /\ packet = sent.m.topic \o sent.m.payload
WireInv == PacketInv /\ ResultInv /\ SentInv /\ DamageInv /\ BareInv

LEMMA SentMessage ==
    ASSUME NEW m \in Packable
    PROVE  /\ Fits(m) => /\ encode(m) = Frame(m) /\ encodeHeader(m) \o m.topic \o m.payload = Frame(m)
                         /\ Damaged(Frame(m), Frame(m), {})
           /\ ~Fits(m) => /\ encode(m) = <<>>
                          /\ encodeHeader(m) \o m.topic \o m.payload = m.topic \o m.payload
<1>1. ASSUME Fits(m)
      PROVE  /\ encode(m) = Frame(m) /\ encodeHeader(m) \o m.topic \o m.payload = Frame(m)
             /\ Damaged(Frame(m), Frame(m), {})
  BY <1>1, Encoded, Gathered, FrameType, DamagedNot
<1>2. ASSUME ~Fits(m)
      PROVE  /\ encode(m) = <<>>
             /\ encodeHeader(m) \o m.topic \o m.payload = m.topic \o m.payload
  <2>1. encode(m) = <<>> /\ encodeHeader(m) = <<>>
    BY <1>2 DEF encode, encodeHeader
  <2>2. m.topic \in Seq(Bytes)
    BY PackableType
  <2>3. <<>> \o m.topic = m.topic
    BY <2>2, ConcatEmptySeq
  <2> QED
    BY <2>1, <2>3
<1> QED
  BY <1>1, <1>2

LEMMA WireStep ==
    ASSUME WireInv, [Next]_vars
    PROVE  WireInv'
<1>1. PacketInv' /\ ResultInv'
  BY InvStep DEF WireInv
<1> SUFFICES SentInv' /\ DamageInv' /\ BareInv'
  BY <1>1 DEF WireInv
<1> USE DEF SentInv, DamageInv, BareInv
<1>2. ASSUME NEW m \in Messages, Send(m) \/ SendGathered(m) PROVE SentInv' /\ DamageInv' /\ BareInv'
  <2>1. m \in Packable
    BY SentType
  <2>2. sent' = [kind |-> "message", m |-> m] /\ hurt' = {}
    BY <1>2 DEF Send, SendGathered, Carry
  <2>3. sent'.m = m /\ sent'.kind = "message"
    BY <2>2
  <2>4. packet' = encode(m) \/ packet' = encodeHeader(m) \o m.topic \o m.payload
    BY <1>2 DEF Send, SendGathered, Carry
  <2>5. SentInv'
    BY <2>2
  <2>6. DamageInv'
    BY <2>1, <2>2, <2>3, <2>4, SentMessage
  <2>7. BareInv'
    BY <2>1, <2>2, <2>3, <2>4, SentMessage
  <2> QED
    BY <2>5, <2>6, <2>7
<1>3. ASSUME NEW a \in Announcements, SendAnnounce(a) PROVE SentInv' /\ DamageInv' /\ BareInv'
  <2> DEFINE m == AnnounceMessage(a)
  <2>1. m \in Packable
    BY SentType
  <2>2. sent' = [kind |-> "peer", m |-> m, a |-> a] /\ hurt' = {} /\ packet' = encode(m)
    BY <1>3 DEF SendAnnounce, Carry
  <2> HIDE DEF m
  <2>3. sent'.m = m
    BY <2>2
  <2>4. SentInv'
    BY <2>2 DEF m
  <2>5. DamageInv' /\ BareInv'
    BY <2>1, <2>2, <2>3, SentMessage
  <2> QED
    BY <2>4, <2>5
<1>4. ASSUME NEW a \in Announcements, Stray(a) PROVE SentInv' /\ DamageInv' /\ BareInv'
  BY <1>4 DEF Stray, Carry
<1>5. ASSUME NEW off \in 0 .. Len(packet) - 1, NEW n \in Noise, Overwrite(off, n)
      PROVE  SentInv' /\ DamageInv' /\ BareInv'
  <2>1. /\ sent' = sent /\ packet' = [packet EXCEPT ![off + 1] = Byte(n)] /\ hurt' = hurt \cup {off}
        /\ packet[off + 1] # Byte(n) /\ off \notin hurt
    BY <1>5 DEF Overwrite
  <2>2. Byte(n) \in Bytes
    BY NoiseType
  <2>3. DamageInv'
    BY <2>1, <2>2, DamagedMore DEF WireInv
  <2> QED
    BY <2>1, <2>3 DEF WireInv
<1>6. ASSUME NEW size \in 0 .. Len(packet) - 1, Cut(size) PROVE SentInv' /\ DamageInv' /\ BareInv'
  <2>1. sent' = sent /\ packet' = SubSeq(packet, 1, size) /\ hurt' = hurt \cup {-1}
    BY <1>6 DEF Cut
  <2>2. DamageInv'
    BY <2>1, DamagedShorter DEF WireInv
  <2> QED
    BY <2>1, <2>2 DEF WireInv
<1>7. CASE Receive
  BY <1>7 DEF Receive, WireInv
<1>8. CASE UNCHANGED vars
  BY <1>8 DEF vars, WireInv
<1> QED
  BY <1>2, <1>3, <1>4, <1>5, <1>6, <1>7, <1>8 DEF Next

LEMMA WireInvariant == Spec => []WireInv
<1>1. Init => WireInv
  BY ShortRefused, EmptySeq DEF Init, WireInv, PacketInv, ResultInv, Text, SentInv, DamageInv, BareInv
<1>2. WireInv /\ [Next]_vars => WireInv'
  BY WireStep
<1> QED
  BY <1>1, <1>2, PTL DEF Spec

\* A packet that nothing happened to is read as what was sent, by either encoder: a
\* message field for field, an announcement as far as its counts go, with endpoints by
\* which the bus reaches the peer.  A gathered send does not look at the result of its
\* encoder (message_bus.cpp:372), so that of a message beyond the limits the topic and
\* payload go out bare; the theorem asks that those are no packet by themselves.
THEOREM RoundTrips ==
    ASSUME \A m \in Messages : Fits(m) \/ recvCallback(m.topic \o m.payload) = Refused
    PROVE  Spec => []RoundTrip
<1>1. WireInv => RoundTrip
  <2> SUFFICES ASSUME WireInv, hurt = {}, sent # None, got # Waiting
               PROVE  RoundTrip
    BY DEF RoundTrip
  <2>1. got = recvCallback(packet)
    BY DEF WireInv, ResultInv
  <2>2. CASE ~Fits(sent.m)
    <3>1. packet = <<>> \/ (sent.m \in Messages /\ packet = sent.m.topic \o sent.m.payload)
      BY <2>2 DEF WireInv, BareInv
    <3>2. got = Refused
      BY <2>1, <2>2, <3>1, ShortRefused
    <3> QED
      BY <2>2, <3>2 DEF RoundTrip
  <2>3. CASE Fits(sent.m)
    <3>1. packet = Frame(sent.m)
      BY <2>3, Undamaged DEF WireInv, DamageInv
    <3>2. ASSUME NEW m \in Messages, sent = [kind |-> "message", m |-> m] PROVE RoundTrip
      <4>1. m \in MessageRecords /\ sent.m = m /\ sent.kind = "message"
        BY <3>2, WireAssumption
      <4>2. got = IF m.type \notin DiscoveryTypes THEN Content(m)
                  ELSE IF m.source = NodeId THEN Refused
                  ELSE [kind |-> "sign", type |-> m.type, id |-> m.source]
        BY <2>1, <2>3, <3>1, <4>1, MessageReceived
      <4>3. m.type \in {HEARTBEAT, FAREWELL} <=> m.type \in DiscoveryTypes
        BY <4>1, WireAssumption DEF MessageRecords
      <4>4. m.type \notin DiscoveryTypes => SameMessage(m)
        BY <4>1, <4>2, MessageKnown
      <4> QED
        BY <2>3, <4>1, <4>2, <4>3, <4>4 DEF RoundTrip
    <3>3. ASSUME NEW a \in Announcements,
                 sent = [kind |-> "peer", m |-> AnnounceMessage(a), a |-> a]
          PROVE  RoundTrip
      <4> DEFINE m == AnnounceMessage(a)
      <4>1. a \in AnnounceRecords /\ m \in Packable
        BY SentType
      <4>2. m.type = ANNOUNCE /\ m.source = a.id /\ ANNOUNCE \in DiscoveryTypes
        BY WireAssumption DEF AnnounceMessage
      <4>3. sent.m = m /\ sent.kind = "peer" /\ sent.a = a
        BY <3>3
      <4>4. got = IF a.id = NodeId \/ a.domain # DomainId THEN Refused ELSE Known(a)
        BY <2>1, <2>3, <3>1, <4>1, <4>3, AnnouncementReceived
      <4>5. got = Known(a) => SamePeer(a) /\ WellRouted(a)
        BY <4>1, PeerKnown, PeerRouted
      <4> HIDE DEF m
      <4> QED
        BY <2>3, <4>2, <4>3, <4>4, <4>5 DEF RoundTrip
    <3> QED
      BY <3>2, <3>3 DEF WireInv, SentInv
  <2> QED
    BY <2>2, <2>3
<1> QED
  BY <1>1, WireInvariant, PTL

-----------------------------------------------------------------------------
(* A damaged packet.                                                       *)

LEMMA NoByte == ASSUME NEW k, NEW c PROVE <<k, c>> \notin Bytes
<1> SUFFICES ASSUME NEW n, <<k, c>> = <<n>> PROVE FALSE
  BY DEF Bytes, Byte
<1>1. Len(<<k, c>>) = 2 /\ Len(<<n>>) = 1
  OBVIOUS
<1> QED
  BY <1>1

\* In a packet with a checksum, its four cells are the only ones that are no bytes.
LEMMA FrameCells ==
    ASSUME NEW m \in Packable, m.crc, NEW o, o = Frame(m), NEW pos, pos = HeaderSize(m)
    PROVE  /\ o \in Text /\ pos \in {26, 34} /\ Len(o) = (pos + 4) + Len(Rest(m)) /\ Len(Rest(m)) \in Nat
           /\ \A k \in 1 .. 4 : o[pos + k] = <<k, Covered(m)>>
           /\ \A i \in 1 .. Len(o) : o[i] \in Bytes \/ \E k \in 1 .. 4 : i = pos + k
<1> DEFINE w == writeHeader(m)
           c == Check(m)
           r == Rest(m)
           wc == w \o c
<1>1. /\ w \in Seq(Bytes) /\ Len(w) = pos /\ r \in Seq(Bytes) /\ Len(c) = 4 /\ c \in Text /\ o \in Text
      /\ w \in Seq(Cells) /\ r \in Seq(Cells) /\ c \in Seq(Cells) /\ pos \in {26, 34}
  BY FrameType DEF Text
<1>2. o = wc \o r
  BY DEF Frame, Head2
<1>3. c = Crc(Covered(m))
  BY DEF Check
<1>4. \A k \in 1 .. 4 : c[k] = <<k, Covered(m)>>
  BY <1>3 DEF Crc
<1> HIDE DEF w, c, r
<1>5. /\ wc \in Seq(Cells) /\ Len(wc) = pos + 4
      /\ \A i \in 1 .. pos : wc[i] = w[i]
      /\ \A i \in 1 .. 4 : wc[pos + i] = c[i]
  <2>1. /\ w \o c \in Seq(Cells) /\ Len(w \o c) = Len(w) + Len(c)
        /\ \A i \in 1 .. Len(w) : (w \o c)[i] = w[i]
        /\ \A i \in 1 .. Len(c) : (w \o c)[Len(w) + i] = c[i]
    <3>1. w \in Seq(Cells) /\ c \in Seq(Cells)
      BY <1>1
    <3> QED
      BY <3>1
  <2> QED
    BY <1>1, <2>1
<1> HIDE DEF wc
<1>6. /\ Len(o) = (pos + 4) + Len(r) /\ Len(r) \in Nat
      /\ \A i \in 1 .. pos + 4 : o[i] = wc[i]
      /\ \A i \in 1 .. Len(r) : o[(pos + 4) + i] = r[i]
  <2>1. /\ Len(wc \o r) = Len(wc) + Len(r)
        /\ \A i \in 1 .. Len(wc) : (wc \o r)[i] = wc[i]
        /\ \A i \in 1 .. Len(r) : (wc \o r)[Len(wc) + i] = r[i]
    <3>1. wc \in Seq(Cells) /\ r \in Seq(Cells)
      BY <1>1, <1>5
    <3> QED
      BY <3>1
  <2>2. Len(r) \in Nat
    BY <1>1, LenProperties
  <2> QED
    BY <1>2, <1>5, <2>1, <2>2
<1>7. ASSUME NEW k \in 1 .. 4 PROVE o[pos + k] = <<k, Covered(m)>>
  <2>1. pos + k \in 1 .. pos + 4
    BY <1>1
  <2> QED
    BY <1>4, <1>5, <1>6, <2>1
<1>8. ASSUME NEW i \in 1 .. Len(o) PROVE o[i] \in Bytes \/ \E k \in 1 .. 4 : i = pos + k
  <2>1. CASE i <= pos
    <3>1. i \in 1 .. pos /\ i \in 1 .. pos + 4
      BY <1>1, <2>1
    <3>2. o[i] = w[i] /\ w[i] \in Bytes
      BY <1>1, <1>5, <1>6, <3>1
    <3> QED
      BY <3>2
  <2>2. CASE i > pos /\ i <= pos + 4
    <3>1. i - pos \in 1 .. 4 /\ i = pos + (i - pos)
      BY <1>1, <2>2
    <3> QED
      BY <3>1
  <2>3. CASE i > pos + 4
    <3> DEFINE j == i - (pos + 4)
    <3>1. j \in 1 .. Len(r) /\ i = (pos + 4) + j
      BY <1>1, <1>6, <2>3
    <3> HIDE DEF j
    <3>2. o[i] = r[j] /\ r[j] \in Bytes
      BY <1>1, <1>6, <3>1
    <3> QED
      BY <3>2
  <2> QED
    BY <1>1, <2>1, <2>2, <2>3
<1> QED
  BY <1>1, <1>6, <1>7, <1>8 DEF r

\* A packet with the checksum flag is decoded only when four cells are the checksum of
\* the cells around them.
SumMatches(p, pos, n) ==
    /\ pos \in {26, 34} /\ n \in Nat /\ pos + 4 <= n /\ n <= Len(p)
    /\ At(p, pos, 4) = computeCrcContiguous(At(p, 0, n), pos)
LEMMA AcceptedSum ==
    ASSUME NEW p \in Text, decode(p) # Refused, (Get(At(p, 4, 1)) \div 2) % 2 = 1
    PROVE  /\ Len(p) \in Nat /\ Len(p) >= 26
           /\ Get(At(p, 0, 2)) = EMBEDMQ_MAGIC /\ Get(At(p, 2, 1)) = EMBEDMQ_VERSION
           /\ \E pos, n : SumMatches(p, pos, n)
<1> DEFINE U(off, width) == Get(At(p, off, width))
           hasTs == U(4, 1) % 2 = 1
           hasCrc == (U(4, 1) \div 2) % 2 = 1
           checksumPos == HEADER_BASE_SIZE + IF hasTs THEN 8 ELSE 0
           headerSize == checksumPos + IF hasCrc THEN 4 ELSE 0
           topicLen == U(12, 2)
           payloadLen == U(22, 4)
           expected == headerSize + topicLen + payloadLen
<1>1. ~(\/ Len(p) < HEADER_BASE_SIZE
        \/ U(0, 2) # EMBEDMQ_MAGIC \/ U(2, 1) # EMBEDMQ_VERSION
        \/ Len(p) < headerSize
        \/ Len(p) < expected
        \/ hasCrc /\ At(p, checksumPos, 4) # computeCrcContiguous(At(p, 0, expected), checksumPos))
  BY DEF decode
<1>2. hasCrc
  OBVIOUS
<1>3. Len(p) \in Nat
  BY DEF Text
<1>4. Len(p) >= 26
  BY <1>1, <1>3 DEF HEADER_BASE_SIZE
<1>5. U(0, 2) = EMBEDMQ_MAGIC /\ U(2, 1) = EMBEDMQ_VERSION
  BY <1>1
<1>6. topicLen \in Nat /\ payloadLen \in Nat
  <2>1. At(p, 12, 2) \in Seq(Cells) /\ At(p, 22, 4) \in Seq(Cells)
    BY <1>4, AtType DEF Text
  <2> QED
    BY <2>1, GetType
<1> HIDE DEF U, hasTs, hasCrc, topicLen, payloadLen
<1>7. checksumPos \in {26, 34} /\ headerSize = checksumPos + 4
  BY <1>2 DEF HEADER_BASE_SIZE
<1>8. At(p, checksumPos, 4) = computeCrcContiguous(At(p, 0, expected), checksumPos)
  BY <1>1, <1>2
<1>9. ~(Len(p) < expected)
  BY <1>1
<1> HIDE DEF checksumPos, headerSize
<1>10. expected \in Nat /\ checksumPos + 4 <= expected /\ expected <= Len(p)
  BY <1>3, <1>6, <1>7, <1>9
<1> HIDE DEF expected
<1>11. SumMatches(p, checksumPos, expected)
  BY <1>7, <1>8, <1>10 DEF SumMatches
<1> QED
  BY <1>3, <1>4, <1>5, <1>11 DEF U

\* The cells that the checksum at pos covers.
Around(x, pos) == SubSeq(x, 5, pos) \o SubSeq(x, pos + 5, Len(x))
LEMMA AroundCells ==
    ASSUME NEW x \in Text, NEW pos \in {26, 34}, pos + 4 <= Len(x)
    PROVE  /\ Len(Around(x, pos)) = Len(x) - 8
           /\ \A i \in 5 .. pos : Around(x, pos)[i - 4] = x[i]
           /\ \A i \in pos + 5 .. Len(x) : Around(x, pos)[i - 8] = x[i]
<1> DEFINE n == Len(x)
           s == SubSeq(x, 5, pos)
           t == SubSeq(x, pos + 5, n)
           lo == pos + 5
<1>1. x \in Seq(Cells) /\ n \in Nat /\ pos \in Nat /\ pos >= 26 /\ pos + 4 <= n
  BY DEF Text
<1>2. s \in Seq(Cells) /\ Len(s) = (pos + 1) - 5 /\ \A i \in 1 .. (pos + 1) - 5 : s[i] = x[5 + (i - 1)]
  <2>1. 5 \in Nat /\ 5 >= 1 /\ pos <= Len(x) /\ 5 <= pos + 1
    BY <1>1
  <2> QED
    BY <1>1, <2>1, Slice
<1>3. t \in Seq(Cells) /\ Len(t) = (n + 1) - lo /\ \A i \in 1 .. (n + 1) - lo : t[i] = x[lo + (i - 1)]
  <2>1. lo \in Nat /\ lo >= 1 /\ n <= Len(x) /\ lo <= n + 1
    BY <1>1
  <2> HIDE DEF lo
  <2>2. /\ SubSeq(x, lo, n) \in Seq(Cells) /\ Len(SubSeq(x, lo, n)) = (n + 1) - lo
        /\ \A i \in 1 .. (n + 1) - lo : SubSeq(x, lo, n)[i] = x[lo + (i - 1)]
    BY <1>1, <2>1, Slice
  <2> QED
    BY <2>2 DEF lo
<1>4. Around(x, pos) = s \o t
  BY DEF Around
<1> HIDE DEF n, s, t
<1>5. /\ Len(s \o t) = Len(s) + Len(t)
      /\ \A i \in 1 .. Len(s) : (s \o t)[i] = s[i]
      /\ \A i \in 1 .. Len(t) : (s \o t)[Len(s) + i] = t[i]
  <2>1. s \in Seq(Cells) /\ t \in Seq(Cells)
    BY <1>2, <1>3
  <2> QED
    BY <2>1
<1>6. Len(s \o t) = n - 8
  BY <1>1, <1>2, <1>3, <1>5
<1>7. ASSUME NEW i \in 5 .. pos PROVE (s \o t)[i - 4] = x[i]
  <2>1. i - 4 \in 1 .. (pos + 1) - 5 /\ 5 + ((i - 4) - 1) = i
    BY <1>1
  <2> QED
    BY <1>2, <1>5, <2>1
<1>8. ASSUME NEW i \in pos + 5 .. n PROVE (s \o t)[i - 8] = x[i]
  <2> DEFINE j == i - (pos + 4)
  <2>1. j \in 1 .. (n + 1) - lo /\ lo + (j - 1) = i /\ i - 8 = Len(s) + j
    BY <1>1, <1>2
  <2> HIDE DEF j, lo
  <2> QED
    BY <1>3, <1>5, <2>1
<1> QED
  BY <1>4, <1>6, <1>7, <1>8 DEF n

\* A matching checksum leaves only the first four bytes to the damage.
LEMMA DamageFound ==
    ASSUME NEW m \in Packable, m.crc, NEW p, NEW h, Damaged(p, Frame(m), h),
           NEW pos, NEW n, SumMatches(p, pos, n)
    PROVE  h \subseteq 0 .. 3
<1> DEFINE o == Frame(m)
           hs == HeaderSize(m)
           q == At(p, 0, n)
           cov == Around(q, pos)
           orig == Around(o, hs)
<1>1. /\ o \in Text /\ hs \in {26, 34} /\ hs \in Nat /\ Len(o) \in Nat /\ hs + 4 <= Len(o)
      /\ \A k \in 1 .. 4 : o[hs + k] = <<k, Covered(m)>>
      /\ \A i \in 1 .. Len(o) : o[i] \in Bytes \/ \E k \in 1 .. 4 : i = hs + k
  <2>1. /\ o \in Text /\ hs \in {26, 34} /\ Len(o) = (hs + 4) + Len(Rest(m)) /\ Len(Rest(m)) \in Nat
        /\ \A k \in 1 .. 4 : o[hs + k] = <<k, Covered(m)>>
        /\ \A i \in 1 .. Len(o) : o[i] \in Bytes \/ \E k \in 1 .. 4 : i = hs + k
    <3>1. o = Frame(m) /\ hs = HeaderSize(m)
      OBVIOUS
    <3> HIDE DEF o, hs
    <3> QED
      BY <3>1, FrameCells, SMTT(30)
  <2> HIDE DEF o, hs
  <2> QED
    BY <2>1
<1>2. At(o, hs, 4) = Crc(orig)
  BY SumRight DEF computeCrcContiguous, Around
<1>3. /\ p \in Text /\ Len(p) \in Nat /\ Len(p) <= Len(o) /\ (-1 \in h => Len(p) < Len(o))
      /\ \A k \in h : k \in Int /\ -1 <= k /\ k < Len(o)
      /\ \A i \in 1 .. Len(p) : /\ i - 1 \notin h => p[i] = o[i]
                                /\ i - 1 \in h => p[i] \in Bytes /\ p[i] # o[i]
  BY SMTT(30) DEF Damaged, Text
<1>4. pos \in {26, 34} /\ pos \in Nat /\ n \in Nat /\ pos + 4 <= n /\ n <= Len(p)
  BY DEF SumMatches
<1>5. At(p, pos, 4) = Crc(cov)
  BY DEF SumMatches, computeCrcContiguous, Around
<1> HIDE DEF o, hs
<1>6. q \in Text /\ Len(q) = n /\ \A i \in 1 .. n : q[i] = p[i]
  <2>1. 0 \in Nat /\ 0 + n <= Len(p) /\ p \in Seq(Cells)
    BY <1>3, <1>4 DEF Text
  <2>2. /\ At(p, 0, n) \in Seq(Cells) /\ Len(At(p, 0, n)) = n
        /\ \A i \in 1 .. n : At(p, 0, n)[i] = p[0 + i]
    BY <1>4, <2>1, AtType
  <2> QED
    BY <1>4, <2>2 DEF Text
<1> HIDE DEF q, cov, orig
<1>7. ASSUME NEW k \in 1 .. 4 PROVE p[pos + k] = <<k, cov>>
  <2>1. At(p, pos, 4)[k] = p[pos + k]
    BY <1>3, <1>4 DEF At
  <2>2. Crc(cov)[k] = <<k, cov>>
    BY DEF Crc
  <2> QED
    BY <1>5, <2>1, <2>2
<1>8. ASSUME NEW k \in 1 .. 4 PROVE o[hs + k] = <<k, orig>>
  <2>1. At(o, hs, 4)[k] = o[hs + k]
    BY <1>1 DEF At
  <2>2. Crc(orig)[k] = <<k, orig>>
    BY DEF Crc
  <2> QED
    BY <1>2, <2>1, <2>2
<1>9. ASSUME NEW k \in 1 .. 4 PROVE (pos + k) - 1 \notin h /\ o[pos + k] = <<k, cov>>
  <2>1. pos + k \in 1 .. Len(p)
    BY <1>3, <1>4
  <2>2. p[pos + k] \notin Bytes
    BY <1>7, NoByte
  <2> QED
    BY <1>3, <1>7, <2>1, <2>2
<1>10. pos = hs /\ cov = orig
  <2>1. 1 \in 1 .. 4 /\ pos + 1 \in 1 .. Len(o)
    BY <1>1, <1>3, <1>4
  <2>2. o[pos + 1] = <<1, cov>> /\ o[pos + 1] \notin Bytes
    BY <1>9, <2>1, NoByte
  <2>3. PICK k \in 1 .. 4 : pos + 1 = hs + k
    BY <1>1, <2>1, <2>2
  <2>4. <<k, orig>> = <<1, cov>>
    BY <1>8, <2>2, <2>3
  <2>5. k = 1 /\ orig = cov
    BY <2>4
  <2> QED
    BY <1>1, <1>4, <2>3, <2>5
<1>11. /\ Len(cov) = n - 8 /\ Len(orig) = Len(o) - 8
       /\ \A i \in 5 .. pos : cov[i - 4] = q[i] /\ orig[i - 4] = o[i]
       /\ \A i \in pos + 5 .. n : cov[i - 8] = q[i]
       /\ \A i \in pos + 5 .. Len(o) : orig[i - 8] = o[i]
  <2>1. /\ Len(cov) = Len(q) - 8
        /\ \A i \in 5 .. pos : cov[i - 4] = q[i]
        /\ \A i \in pos + 5 .. Len(q) : cov[i - 8] = q[i]
    BY <1>4, <1>6, AroundCells DEF cov
  <2>2. /\ Len(orig) = Len(o) - 8
        /\ \A i \in 5 .. hs : orig[i - 4] = o[i]
        /\ \A i \in hs + 5 .. Len(o) : orig[i - 8] = o[i]
    BY <1>1, AroundCells DEF orig
  <2> QED
    BY <1>6, <1>10, <2>1, <2>2
<1>12. n = Len(o) /\ Len(p) = Len(o) /\ -1 \notin h
  BY <1>1, <1>3, <1>4, <1>10, <1>11
<1>13. ASSUME NEW i \in 5 .. Len(o) PROVE i - 1 \notin h
  <2>1. i \in 1 .. Len(p) /\ i \in 1 .. n /\ q[i] = p[i]
    BY <1>1, <1>6, <1>12
  <2>2. CASE i \in 5 .. pos
    <3>1. p[i] = o[i]
      BY <1>10, <1>11, <2>1, <2>2
    <3> QED
      BY <1>3, <2>1, <3>1
  <2>3. CASE i \in pos + 5 .. n
    <3>1. p[i] = o[i]
      BY <1>10, <1>11, <1>12, <2>1, <2>3
    <3> QED
      BY <1>3, <2>1, <3>1
  <2>4. CASE i \in pos + 1 .. pos + 4
    <3>1. i - pos \in 1 .. 4 /\ i = pos + (i - pos)
      BY <1>4, <2>4
    <3> QED
      BY <1>9, <3>1
  <2> QED
    BY <1>1, <1>4, <1>12, <2>2, <2>3, <2>4
<1>14. ASSUME NEW k \in h PROVE k \in 0 .. 3
  <2>1. k \in Int /\ -1 <= k /\ k < Len(o) /\ k # -1
    BY <1>3, <1>12
  <2>2. CASE k > 3
    <3>1. k + 1 \in 5 .. Len(o) /\ (k + 1) - 1 = k
      BY <1>1, <2>1, <2>2
    <3> QED
      BY <1>13, <3>1
  <2> QED
    BY <2>1, <2>2
<1> QED
  BY <1>14

\* Short numbers, and the bytes they are read from.
LEMMA ByteNumber ==
    /\ \A b \in Bytes : b[1] \in 0 .. ByteBase - 1
    /\ \A b, c \in Bytes : b[1] = c[1] => b = c
<1>1. \A b \in Bytes : \E n \in 0 .. ByteBase - 1 : b = <<n>>
  BY ByteRange DEF Bytes, Byte
<1> QED
  BY <1>1

LEMMA GetOne == ASSUME NEW s \in Seq(Cells), Len(s) = 1 PROVE Get(s) = s[1][1]
<1>1. s[1][1] \in Nat
  BY CellType
<1>2. Power[0] = 1
  BY Powers
<1>3. Get(s) = s[1][1] * Power[0] + 0 + 0 + 0 + 0 + 0 + 0 + 0
  BY DEF Get
<1> QED
  BY <1>1, <1>2, <1>3

LEMMA GetTwo ==
    ASSUME NEW s \in Seq(Cells), Len(s) = 2
    PROVE  Get(s) = ByteBase * s[2][1] + s[1][1]
<1>1. s[1][1] \in Nat /\ s[2][1] \in Nat
  BY CellType
<1>2. Power[0] = 1 /\ Power[1] = ByteBase /\ ByteBase \in Nat
  BY Powers, Base
<1>3. Get(s) = s[1][1] * Power[0] + s[2][1] * Power[1] + 0 + 0 + 0 + 0 + 0 + 0
  BY DEF Get
<1> DEFINE x == s[1][1]
           y == s[2][1]
<1>4. Get(s) = x * 1 + y * ByteBase + 0 + 0 + 0 + 0 + 0 + 0
  BY <1>2, <1>3
<1> HIDE DEF x, y
<1>5. x \in Nat /\ y \in Nat
  BY <1>1 DEF x, y
<1>6. Get(s) = ByteBase * y + x
  BY <1>2, <1>4, <1>5
<1> QED
  BY <1>6 DEF x, y

\* A packet that is let in has the magic number and the version it was sent with.
LEMMA StartKept ==
    ASSUME NEW m \in Packable, NEW p, NEW h, Damaged(p, Frame(m), h), Len(p) >= 26,
           Get(At(p, 0, 2)) = EMBEDMQ_MAGIC, Get(At(p, 2, 1)) = EMBEDMQ_VERSION
    PROVE  0 \notin h /\ 1 \notin h /\ 2 \notin h
<1> DEFINE o == Frame(m)
<1>1. p \in Seq(Cells) /\ o \in Seq(Cells) /\ Len(p) \in Nat /\ Len(o) \in Nat /\ Len(p) <= Len(o)
  BY DEF Damaged, Text
<1>2. Holds(o, 0, Put(EMBEDMQ_MAGIC, 2)) /\ Holds(o, 2, Put(EMBEDMQ_VERSION, 1))
  BY FrameHolds DEF HasHeader
<1>3. \A i \in 1 .. Len(p) : (i - 1 \notin h => p[i] = o[i]) /\ (i - 1 \in h => p[i] \in Bytes /\ p[i] # o[i])
  BY DEF Damaged
<1> HIDE DEF o
<1>4. EMBEDMQ_MAGIC \in UInt(2) /\ EMBEDMQ_VERSION \in UInt(1) /\ EMBEDMQ_MAGIC \in Nat /\ EMBEDMQ_VERSION \in Nat
  BY WireAssumption, UIntType
<1> DEFINE a == Put(EMBEDMQ_MAGIC, 2)
           b == Put(EMBEDMQ_VERSION, 1)
<1>5. /\ a \in Seq(Bytes) /\ Len(a) = 2 /\ b \in Seq(Bytes) /\ Len(b) = 1
      /\ Get(a) = EMBEDMQ_MAGIC /\ Get(b) = EMBEDMQ_VERSION
  <2>1. 2 \in 0 .. 8 /\ 1 \in 0 .. 8 /\ 2 \in 1 .. 8 /\ 1 \in 1 .. 8
    OBVIOUS
  <2> QED
    BY <1>4, <2>1, PutType, GetPut
<1> HIDE DEF a, b
<1>6. o[1] = a[1] /\ o[2] = a[2] /\ o[3] = b[1]
  <2>1. 0 + 1 = 1 /\ 0 + 2 = 2 /\ 2 + 1 = 3 /\ 1 \in 1 .. Len(a) /\ 2 \in 1 .. Len(a) /\ 1 \in 1 .. Len(b)
    BY <1>5
  <2> QED
    BY <1>2, <2>1 DEF Holds, a, b
<1>7. o[1] \in Bytes /\ o[2] \in Bytes /\ o[3] \in Bytes
  <2>1. /\ a \in Seq(Bytes) /\ 1 \in 1 .. Len(a) /\ 2 \in 1 .. Len(a)
        /\ b \in Seq(Bytes) /\ 1 \in 1 .. Len(b)
    BY <1>5
  <2>2. a[1] \in Bytes /\ a[2] \in Bytes /\ b[1] \in Bytes
    BY <2>1, ElementOfSeq
  <2> QED
    BY <1>6, <2>2
<1>8. 1 \in 1 .. Len(p) /\ 2 \in 1 .. Len(p) /\ 3 \in 1 .. Len(p) /\ 1 - 1 = 0 /\ 2 - 1 = 1 /\ 3 - 1 = 2
  BY <1>1
<1>9. p[1] \in Bytes /\ p[2] \in Bytes /\ p[3] \in Bytes
  BY <1>3, <1>7, <1>8
<1> DEFINE s == At(p, 0, 2)
           t == At(p, 2, 1)
<1>10. /\ s \in Seq(Cells) /\ Len(s) = 2 /\ s[1] = p[1] /\ s[2] = p[2]
       /\ t \in Seq(Cells) /\ Len(t) = 1 /\ t[1] = p[3]
  <2>1. \A i \in 1 .. Len(p) : p[i] \in Cells
    BY <1>1
  <2>2. s = <<p[1], p[2]>>
    BY <1>1 DEF At
  <2>3. t = <<p[3]>>
    BY <1>1 DEF At
  <2> HIDE DEF s, t
  <2> QED
    BY <1>8, <2>1, <2>2, <2>3
<1>11. Get(s) = Get(a) /\ Get(t) = Get(b)
  BY <1>5
<1> HIDE DEF s, t
<1>12. a \in Seq(Cells) /\ b \in Seq(Cells)
  BY <1>5, SeqMonotonic DEF Cells
<1>13. /\ ByteBase * p[2][1] + p[1][1] = ByteBase * o[2][1] + o[1][1]
       /\ p[3][1] = o[3][1]
  BY <1>5, <1>6, <1>10, <1>11, <1>12, GetOne, GetTwo
<1>14. p[2][1] = o[2][1] /\ p[1][1] = o[1][1]
  <2>1. /\ p[2][1] \in Nat /\ o[2][1] \in Nat
        /\ p[1][1] \in 0 .. ByteBase - 1 /\ o[1][1] \in 0 .. ByteBase - 1
    BY <1>7, <1>9, ByteNumber
  <2> DEFINE x == p[2][1]
             y == o[2][1]
             c == p[1][1]
             d == o[1][1]
  <2>2. x \in Nat /\ y \in Nat /\ c \in 0 .. ByteBase - 1 /\ d \in 0 .. ByteBase - 1
    BY <2>1
  <2>3. ByteBase * x + c = ByteBase * y + d
    BY <1>13
  <2> HIDE DEF x, y, c, d
  <2>4. x = y /\ c = d
    BY <2>2, <2>3, Unique
  <2> QED
    BY <2>4 DEF x, y, c, d
<1>15. p[1] = o[1] /\ p[2] = o[2] /\ p[3] = o[3]
  BY <1>7, <1>9, <1>13, <1>14, ByteNumber
<1> QED
  BY <1>3, <1>8, <1>15

\* However often and wherever a packet with a checksum is cut or overwritten, it is
\* refused; what gets through is damage to the type alone, or a cleared checksum flag.
THEOREM DamageIsRefused == Spec => []DamageRefused
<1>1. WireInv => DamageRefused
  <2> SUFFICES ASSUME WireInv, sent # None, hurt # {}, got \notin {Waiting, Refused}, sent.m.crc,
                      Fits(sent.m), ~(4 \in hurt /\ (Get(At(packet, 4, 1)) \div 2) % 2 = 0)
               PROVE  hurt = {3}
    BY DEF DamageRefused
  <2> DEFINE m == sent.m
  <2>1. m \in Packable
    <3>1. ASSUME NEW k \in Messages, sent = [kind |-> "message", m |-> k] PROVE m \in Packable
      <4>1. sent.m = k
        BY <3>1
      <4> QED
        BY <4>1, SentType
    <3>2. ASSUME NEW a \in Announcements,
                 sent = [kind |-> "peer", m |-> AnnounceMessage(a), a |-> a]
          PROVE  m \in Packable
      <4>1. sent.m = AnnounceMessage(a)
        BY <3>2
      <4> QED
        BY <4>1, SentType
    <3> QED
      BY <3>1, <3>2 DEF WireInv, SentInv
  <2>2. packet \in Text /\ recvCallback(packet) # Refused
    BY DEF WireInv, ResultInv, PacketInv
  <2>3. decode(packet) # Refused
    BY <2>2 DEF recvCallback, onReceived, onDiscoveryMessage
  <2>4. Damaged(packet, Frame(m), hurt)
    BY DEF WireInv, DamageInv
  <2> HIDE DEF m
  <2>5. (Get(At(packet, 4, 1)) \div 2) % 2 = 1
    <3> DEFINE u == Get(At(packet, 4, 1))
               o == Frame(m)
    <3>1. Len(packet) \in Nat /\ Len(packet) >= 26 /\ packet \in Seq(Cells)
      BY <2>2, <2>3 DEF decode, HEADER_BASE_SIZE, Text
    <3>2. u \in Nat
      BY <3>1, FieldType
    <3>3. (u \div 2) % 2 \in {0, 1}
      <4> HIDE DEF u
      <4> QED
        BY <3>2
    <3>4. CASE 4 \in hurt
      BY <3>3, <3>4
    <3>5. CASE 4 \notin hurt
      <4>1. packet[5] = o[5] /\ Len(packet) <= Len(o) /\ Len(o) \in Nat
        <5>1. 5 \in 1 .. Len(packet) /\ 5 - 1 = 4
          BY <3>1
        <5> QED
          BY <2>4, <3>5, <5>1 DEF Damaged, Text
      <4> HIDE DEF o
      <4>2. At(packet, 4, 1) = At(o, 4, 1)
        BY <3>1, <4>1 DEF At
      <4>3. ReadsHeader(o, m)
        BY <2>1, FrameHolds, HeaderRead DEF o, m
      <4>4. u = FlagByte(m)
        BY <4>2, <4>3 DEF ReadsHeader
      <4> QED
        BY <2>1, <4>4, FlagBits DEF m
    <3> QED
      BY <3>4, <3>5
  <2>6. /\ Len(packet) >= 26
        /\ Get(At(packet, 0, 2)) = EMBEDMQ_MAGIC /\ Get(At(packet, 2, 1)) = EMBEDMQ_VERSION
        /\ \E pos, n : SumMatches(packet, pos, n)
    BY <2>2, <2>3, <2>5, AcceptedSum
  <2>7. PICK pos, n : SumMatches(packet, pos, n)
    BY <2>6
  <2>8. m.crc
    BY DEF m
  <2>9. hurt \subseteq 0 .. 3
    BY <2>1, <2>4, <2>7, <2>8, DamageFound
  <2>10. 0 \notin hurt /\ 1 \notin hurt /\ 2 \notin hurt
    BY <2>1, <2>4, <2>6, StartKept
  <2>11. \A k \in hurt : k = 3
    BY <2>9, <2>10
  <2> QED
    BY <2>11
<1> QED
  BY <1>1, WireInvariant, PTL
=============================================================================
