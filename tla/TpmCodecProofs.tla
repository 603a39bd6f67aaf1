--------------------------- MODULE TpmCodecProofs ----------------------------
(***************************************************************************)
(* Every type that TpmCodec's assumption admits is read back as it is      *)
(* written, in whatever way its parts nest: first for integers, arrays and *)
(* Tpm2bs, then level by level.                                            *)
(***************************************************************************)
EXTENDS TpmCodec, TpmFlattenProofs

-----------------------------------------------------------------------------
(* Integers.                                                               *)

LEMMA OctetIs == \A b : b \in Octet <=> b \in Nat /\ b <= 255
BY DEF Octet

LEMMA U16MaxIs == U16Max \in Nat /\ U16Max <= 65535 /\ U16Max >= 65535
BY DEF U16Max

\* Two bytes and the number they are.
LEMMA TwoBytes ==
  ASSUME NEW a \in Octet, NEW b \in Octet
  PROVE  BE2(256 * a + b) = <<a, b>>
<1>1. a \in Nat /\ b \in Nat /\ a <= 255 /\ b <= 255
  BY OctetIs
<1>2. (256 * a + b) \div 256 = a /\ (256 * a + b) % 256 = b
  BY <1>1
<1>3. QED BY <1>2 DEF BE2

LEMMA NumberOfTwo ==
  ASSUME NEW v \in 0 .. U16Max
  PROVE  /\ v \div 256 \in Octet /\ v % 256 \in Octet
         /\ 256 * (v \div 256) + (v % 256) = v
<1>1. v \in Nat /\ v <= 65535
  BY U16MaxIs
<1>2. v \div 256 \in Nat /\ v \div 256 <= 255 /\ v % 256 \in Nat /\ v % 256 <= 255
  BY <1>1
<1>3. 256 * (v \div 256) + (v % 256) = v
  BY <1>1
<1>4. QED BY <1>2, <1>3, OctetIs

\* Four bytes and the number they are.
LEMMA FourBytes ==
  ASSUME NEW a \in Octet, NEW b \in Octet, NEW c \in Octet, NEW d \in Octet
  PROVE  BE4(16777216 * a + 65536 * b + 256 * c + d) = <<a, b, c, d>>
<1> DEFINE v == 16777216 * a + 65536 * b + 256 * c + d
<1>1. /\ a \in Nat /\ b \in Nat /\ c \in Nat /\ d \in Nat
      /\ a <= 255 /\ b <= 255 /\ c <= 255 /\ d <= 255
  BY OctetIs
<1>2. v \div 16777216 = a
  BY <1>1
<1>3. (v \div 65536) % 256 = b
  <2>1. v \div 65536 = 256 * a + b
    BY <1>1
  <2>2. (256 * a + b) % 256 = b
    BY <1>1
  <2>3. QED BY <2>1, <2>2
<1>4. (v \div 256) % 256 = c
  <2> DEFINE q == 256 * a + b
  <2>1. v \div 256 = 256 * q + c /\ q \in Nat
    BY <1>1
  <2> HIDE DEF q
  <2>2. (256 * q + c) % 256 = c
    BY <1>1, <2>1
  <2>3. QED BY <2>1, <2>2
<1>5. v % 256 = d
  <2> DEFINE q == 65536 * a + 256 * b + c
  <2>1. v = 256 * q + d /\ q \in Nat
    BY <1>1
  <2> HIDE DEF q, v
  <2>2. QED BY <1>1, <2>1
<1> HIDE DEF v
<1>6. BE4(v) = <<a, b, c, d>>
  BY <1>2, <1>3, <1>4, <1>5 DEF BE4
<1>7. QED BY <1>6 DEF v

LEMMA NumberOfFour ==
  ASSUME NEW v, IsU32(v)
  PROVE  /\ BE4(v) \in Seq(Octet) /\ Len(BE4(v)) = 4
         /\ BigEndian4(BE4(v)) = v
<1> DEFINE a == v \div 16777216
           b == (v \div 65536) % 256
           c == (v \div 256) % 256
           d == v % 256
<1>1. v \in Nat /\ a \in Nat /\ a <= 255
  BY OctetIs DEF IsU32
<1>2. /\ b \in Nat /\ b <= 255 /\ c \in Nat /\ c <= 255
      /\ d \in Nat /\ d <= 255
  BY <1>1
<1>3. 16777216 * a + 65536 * b + 256 * c + d = v
  <2> DEFINE q == v \div 256
             p == q \div 256
  <2>1. v = 256 * q + d /\ q \in Nat
    BY <1>1
  <2>2. q = 256 * p + c /\ p \in Nat
    BY <2>1
  <2>3. p = v \div 65536
    BY <1>1
  <2>4. p = 256 * (p \div 256) + b
    BY <2>2, <2>3
  <2>5. p \div 256 = a
    BY <1>1, <2>3
  <2> HIDE DEF a, b, c, d, p, q
  <2>6. QED BY <1>1, <1>2, <2>1, <2>2, <2>4, <2>5
<1> HIDE DEF a, b, c, d
<1>4. BE4(v) = <<a, b, c, d>>
  BY DEF BE4, a, b, c, d
<1>5. a \in Octet /\ b \in Octet /\ c \in Octet /\ d \in Octet
  BY <1>1, <1>2, OctetIs
<1>6. <<a, b, c, d>> \in Seq(Octet) /\ Len(<<a, b, c, d>>) = 4
  BY <1>5
<1>7. BigEndian4(<<a, b, c, d>>) = v
  BY <1>3 DEF BigEndian4
<1>8. QED BY <1>4, <1>6, <1>7
-----------------------------------------------------------------------------
(* The front of a buffer.                                                  *)

LEMMA StartOfBuffer ==
  ASSUME NEW b \in Seq(Octet), NEW more \in Seq(Octet)
  PROVE  /\ CanGet(b \o more, Len(b))
         /\ Got(b \o more, Len(b)) = b
         /\ After(b \o more, Len(b)) = more
         /\ \A i \in 1 .. Len(b) : (b \o more)[i] = b[i]
         /\ b \o more \in Seq(Octet) /\ Len(b \o more) = Len(b) + Len(more)
<1> DEFINE all == b \o more
           n == Len(b)
<1>1. all \in Seq(Octet) /\ Len(all) = n + Len(more)
  BY ConcatParts
<1>2. n \in Nat /\ Len(more) \in Nat
  BY ConcatParts
<1>3. \A i \in 1 .. n : all[i] = b[i]
  BY ConcatParts
<1>4. \A i \in 1 .. Len(more) : all[n + i] = more[i]
  BY ConcatParts
<1> HIDE DEF all
<1>5. CanGet(all, n)
  BY <1>1, <1>2 DEF CanGet
<1>6. SubSeq(all, 1, n) = b
  BY <1>1, <1>2, <1>3
<1>7. SubSeq(all, n + 1, Len(all)) = more
  BY <1>1, <1>2, <1>4
<1>8. Got(all, n) = b
  BY <1>5, <1>6 DEF Got
<1>9. After(all, n) = more
  BY <1>7 DEF After
<1>10. QED BY <1>1, <1>3, <1>5, <1>8, <1>9 DEF all

LEMMA Halves ==
  ASSUME NEW buf \in Seq(Octet), NEW n \in Nat, CanGet(buf, n)
  PROVE  /\ Got(buf, n) \in Seq(Octet) /\ Len(Got(buf, n)) = n
         /\ After(buf, n) \in Seq(Octet)
         /\ buf = Got(buf, n) \o After(buf, n)
<1>1. n \in 0 .. Len(buf)
  BY DEF CanGet
<1>2. Got(buf, n) = SubSeq(buf, 1, n) /\ After(buf, n) = SubSeq(buf, n + 1, Len(buf))
  BY DEF Got, After
<1>3. Len(SubSeq(buf, 1, n)) = n
  BY <1>1
<1>4. QED BY <1>1, <1>2, <1>3, CutInTwo

LEMMA ShortBuffer ==
  ASSUME NEW b \in Seq(Octet), NEW n \in 0 .. Len(b) - 1
  PROVE  /\ SubSeq(b, 1, n) \in Seq(Octet) /\ Len(SubSeq(b, 1, n)) = n
         /\ \A i \in 1 .. n : SubSeq(b, 1, n)[i] = b[i]
         /\ ~CanGet(SubSeq(b, 1, n), Len(b))
<1>1. Len(b) \in Nat /\ n \in Nat /\ n < Len(b)
  OBVIOUS
<1>2. SubSeq(b, 1, n) \in Seq(Octet) /\ Len(SubSeq(b, 1, n)) = n
  BY <1>1
<1>3. \A i \in 1 .. n : SubSeq(b, 1, n)[i] = b[i]
  BY <1>1
<1>4. QED BY <1>1, <1>2, <1>3 DEF CanGet
-----------------------------------------------------------------------------
(* Integers of every width.                                                *)

Widths == {1, 2, 4, 8}

LEMMA WidthsDiffer ==
  /\ 1 # 2 /\ 1 # 4 /\ 1 # 8 /\ 2 # 4 /\ 2 # 8 /\ 4 # 8
  /\ 2 # 1 /\ 4 # 1 /\ 8 # 1 /\ 4 # 2 /\ 8 # 2 /\ 8 # 4
OBVIOUS

\* The definitions by width, width by width.
LEMMA WordOfIs ==
  \A s : /\ WordOf(1, s) = s[1] /\ WordOf(2, s) = U16(s)
         /\ WordOf(4, s) = BigEndian4(s)
         /\ WordOf(8, s) = <<BigEndian4(s), BigEndian4(After(s, 4))>>
BY WidthsDiffer, Zenon DEF WordOf

LEMMA WordBytesIs ==
  \A v : /\ WordBytes(1, v) = <<v>> /\ WordBytes(2, v) = BE2(v)
         /\ WordBytes(4, v) = BE4(v)
         /\ WordBytes(8, v) = BE4(v[1]) \o BE4(v[2])
BY WidthsDiffer, Zenon DEF WordBytes

LEMMA IsWordIs ==
  \A v : /\ IsWord(1, v) <=> v \in Octet
         /\ IsWord(2, v) <=> v \in 0 .. U16Max
         /\ IsWord(4, v) <=> IsU32(v)
         /\ IsWord(8, v) <=> v = <<v[1], v[2]>> /\ IsU32(v[1]) /\ IsU32(v[2])
BY WidthsDiffer, Zenon DEF IsWord

\* Four elements, and eight.
LEMMA FourElements ==
  ASSUME NEW S, NEW s \in Seq(S), Len(s) = 4
  PROVE  /\ s[1] \in S /\ s[2] \in S /\ s[3] \in S /\ s[4] \in S
         /\ s = <<s[1], s[2], s[3], s[4]>>
<1>1. s[1] \in S /\ s[2] \in S /\ s[3] \in S /\ s[4] \in S
  BY SMTT(60)
<1>2. s = <<s[1], s[2], s[3], s[4]>>
  OBVIOUS
<1>3. QED BY <1>1, <1>2

LEMMA EightElements ==
  ASSUME NEW S, NEW s \in Seq(S), NEW t \in Seq(S), Len(s) = 4, Len(t) = 4
  PROVE  /\ s \o t \in Seq(S) /\ Len(s \o t) = 8
         /\ (s \o t)[1] = s[1] /\ (s \o t)[2] = s[2]
         /\ (s \o t)[3] = s[3] /\ (s \o t)[4] = s[4]
<1>1. s \o t \in Seq(S) /\ Len(s \o t) = Len(s) + Len(t)
  BY ConcatParts
<1>2. \A i \in 1 .. Len(s) : (s \o t)[i] = s[i]
  BY ConcatParts
<1>3. \A i \in 1 .. 4 : (s \o t)[i] = s[i]
  BY <1>2
<1> DEFINE u == s \o t
<1> HIDE DEF u
<1>3a. \A i \in 1 .. 4 : u[i] = s[i]
  BY <1>3 DEF u
<1>4. u[1] = s[1] /\ u[2] = s[2] /\ u[3] = s[3] /\ u[4] = s[4]
  BY ONLY <1>3a
<1>5. Len(u) = 8
  BY <1>1 DEF u
<1>6. QED BY <1>1, <1>4, <1>5 DEF u

LEMMA LastFour ==
  ASSUME NEW S, NEW s \in Seq(S), Len(s) = 8
  PROVE  /\ SubSeq(s, 5, 8) \in Seq(S) /\ Len(SubSeq(s, 5, 8)) = 4
         /\ SubSeq(s, 1, 4) \in Seq(S) /\ Len(SubSeq(s, 1, 4)) = 4
         /\ s = SubSeq(s, 1, 4) \o SubSeq(s, 5, 8)
<1>1. 4 \in 0 .. Len(s)
  OBVIOUS
<1>2. /\ SubSeq(s, 1, 4) \in Seq(S) /\ SubSeq(s, 4 + 1, Len(s)) \in Seq(S)
      /\ Len(SubSeq(s, 4 + 1, Len(s))) = Len(s) - 4
      /\ s = SubSeq(s, 1, 4) \o SubSeq(s, 4 + 1, Len(s))
  BY <1>1, CutInTwo
<1>3. Len(SubSeq(s, 1, 4)) = 4
  OBVIOUS
<1>4. QED BY <1>2, <1>3

LEMMA IsFourBytes ==
  ASSUME NEW a \in Octet, NEW b \in Octet, NEW c \in Octet, NEW d \in Octet
  PROVE  IsU32(16777216 * a + 65536 * b + 256 * c + d)
<1> DEFINE v == 16777216 * a + 65536 * b + 256 * c + d
<1>1. /\ a \in Nat /\ b \in Nat /\ c \in Nat /\ d \in Nat
      /\ a <= 255 /\ b <= 255 /\ c <= 255 /\ d <= 255
  BY OctetIs
<1>2. v \div 16777216 = a /\ v \in Nat
  BY <1>1
<1>3. QED BY <1>2 DEF IsU32

LEMMA FourBytesOf ==
  ASSUME NEW s, s[1] \in Octet, s[2] \in Octet, s[3] \in Octet, s[4] \in Octet
  PROVE  IsU32(BigEndian4(s)) /\ BE4(BigEndian4(s)) = <<s[1], s[2], s[3], s[4]>>
<1>1. ASSUME NEW a, NEW b, NEW c, NEW d, a = s[1], b = s[2], c = s[3], d = s[4]
      PROVE  IsU32(BigEndian4(s)) /\ BE4(BigEndian4(s)) = <<a, b, c, d>>
  <2>1. a \in Octet /\ b \in Octet /\ c \in Octet /\ d \in Octet
    BY <1>1
  <2>2. BigEndian4(s) = 16777216 * a + 65536 * b + 256 * c + d
    BY <1>1, SMT DEF BigEndian4
  <2> DEFINE n == 16777216 * a + 65536 * b + 256 * c + d
  <2>3. IsU32(n)
    BY ONLY <2>1, IsFourBytes, SMT
  <2>4. BE4(n) = <<a, b, c, d>>
    BY ONLY <2>1, FourBytes, SMT
  <2> HIDE DEF n
  <2>5. QED BY <2>2, <2>3, <2>4 DEF n
<1>2. QED BY <1>1, Zenon

\* Only the bytes of an integer say what it is.
LEMMA WordOfAgrees ==
  ASSUME NEW width \in Widths, NEW s \in Seq(Octet), NEW t \in Seq(Octet),
         width <= Len(s), width <= Len(t), \A i \in 1 .. width : s[i] = t[i]
  PROVE  WordOf(width, s) = WordOf(width, t)
<1>1. CASE width = 1
  <2>1. s[1] = t[1]
    BY <1>1
  <2>2. QED BY <1>1, <2>1, WordOfIs
<1>2. CASE width = 2
  <2>1. s[1] = t[1] /\ s[2] = t[2]
    BY <1>2
  <2>2. QED BY <1>2, <2>1, WordOfIs DEF U16
<1>3. CASE width = 4
  <2>1. s[1] = t[1] /\ s[2] = t[2] /\ s[3] = t[3] /\ s[4] = t[4]
    BY <1>3
  <2>2. QED BY <1>3, <2>1, WordOfIs, SMT DEF BigEndian4
<1>4. CASE width = 8
  <2>1. s[1] = t[1] /\ s[2] = t[2] /\ s[3] = t[3] /\ s[4] = t[4]
    BY <1>4
  <2>2. \A i \in 1 .. 4 : After(s, 4)[i] = s[4 + i] /\ After(t, 4)[i] = t[4 + i]
    BY <1>4 DEF After
  <2>3. s[5] = t[5] /\ s[6] = t[6] /\ s[7] = t[7] /\ s[8] = t[8]
    BY <1>4
  <2>4. /\ After(s, 4)[1] = After(t, 4)[1] /\ After(s, 4)[2] = After(t, 4)[2]
        /\ After(s, 4)[3] = After(t, 4)[3] /\ After(s, 4)[4] = After(t, 4)[4]
    BY <2>2, <2>3
  <2>5. BigEndian4(s) = BigEndian4(t)
    BY <2>1, SMT DEF BigEndian4
  <2>6. BigEndian4(After(s, 4)) = BigEndian4(After(t, 4))
    BY <2>4, SMT DEF BigEndian4
  <2>7. QED BY <1>4, <2>5, <2>6, WordOfIs
<1>5. QED BY <1>1, <1>2, <1>3, <1>4 DEF Widths

\* Bytes are the bytes of the integer that they are.
LEMMA WordOfBytes ==
  ASSUME NEW width \in Widths, NEW b \in Seq(Octet), Len(b) = width
  PROVE  IsWord(width, WordOf(width, b)) /\ WordBytes(width, WordOf(width, b)) = b
<1>e. \A i \in 1 .. width : b[i] \in Octet
  OBVIOUS
<1>1. CASE width = 1
  <2>1. b[1] \in Octet /\ b = <<b[1]>>
    BY <1>e, <1>1
  <2>2. QED BY <1>1, <2>1, WordOfIs, IsWordIs, WordBytesIs
<1>2. CASE width = 2
  <2>1. b[1] \in Octet /\ b[2] \in Octet
    BY <1>e, <1>2
  <2>2. b = <<b[1], b[2]>>
    BY <1>2
  <2>3. BE2(256 * b[1] + b[2]) = b
    BY <2>1, <2>2, TwoBytes
  <2>4. 256 * b[1] + b[2] \in 0 .. U16Max
    BY <2>1, OctetIs, U16MaxIs
  <2>5. WordOf(width, b) = 256 * b[1] + b[2]
    BY <1>2, WordOfIs DEF U16
  <2>6. QED BY <1>2, <2>3, <2>4, <2>5, IsWordIs, WordBytesIs
<1>3. CASE width = 4
  <2>1. b[1] \in Octet /\ b[2] \in Octet /\ b[3] \in Octet /\ b[4] \in Octet
    BY <1>e, <1>3
  <2>2. b = <<b[1], b[2], b[3], b[4]>>
    BY <1>3
  <2>3. IsU32(BigEndian4(b)) /\ BE4(BigEndian4(b)) = <<b[1], b[2], b[3], b[4]>>
    BY <2>1, FourBytesOf
  <2>4. WordOf(width, b) = BigEndian4(b)
    BY <1>3, WordOfIs
  <2>5. QED BY <1>3, <2>2, <2>3, <2>4, IsWordIs, WordBytesIs
<1>4. CASE width = 8
  <2> DEFINE a == SubSeq(b, 1, 4)
             c == SubSeq(b, 5, 8)
             hi == BigEndian4(a)
             lo == BigEndian4(c)
  <2>1. Len(b) = 8
    BY <1>4
  <2>2. a \in Seq(Octet) /\ Len(a) = 4 /\ c \in Seq(Octet) /\ Len(c) = 4 /\ b = a \o c
    BY <2>1, LastFour
  <2>3. After(b, 4) = c
    BY <2>1 DEF After
  <2> HIDE DEF a, c
  <2>4. /\ a[1] \in Octet /\ a[2] \in Octet /\ a[3] \in Octet /\ a[4] \in Octet
        /\ a = <<a[1], a[2], a[3], a[4]>>
    BY ONLY <2>2, FourElements
  <2>5. /\ c[1] \in Octet /\ c[2] \in Octet /\ c[3] \in Octet /\ c[4] \in Octet
        /\ c = <<c[1], c[2], c[3], c[4]>>
    BY ONLY <2>2, FourElements
  <2>6. IsU32(hi) /\ BE4(hi) = a
    BY <2>4, FourBytesOf
  <2>7. IsU32(lo) /\ BE4(lo) = c
    BY <2>5, FourBytesOf
  <2>8. BigEndian4(b) = hi
    <3>1. b[1] = a[1] /\ b[2] = a[2] /\ b[3] = a[3] /\ b[4] = a[4]
      BY ONLY <2>2, EightElements
    <3>2. QED BY <3>1, SMT DEF BigEndian4
  <2>9. WordOf(width, b) = <<hi, lo>>
    BY <1>4, <2>3, <2>8, WordOfIs
  <2> HIDE DEF hi, lo
  <2>10. <<hi, lo>>[1] = hi /\ <<hi, lo>>[2] = lo
    OBVIOUS
  <2>11. IsWord(8, <<hi, lo>>)
    BY <2>6, <2>7, <2>10, IsWordIs, Zenon
  <2>12. WordBytes(8, <<hi, lo>>) = BE4(hi) \o BE4(lo)
    BY <2>10, WordBytesIs, Zenon
  <2>13. QED BY <1>4, <2>2, <2>6, <2>7, <2>9, <2>11, <2>12
<1>5. QED BY <1>1, <1>2, <1>3, <1>4 DEF Widths

\* An integer is the one that its bytes are.
LEMMA BytesOfWord ==
  ASSUME NEW width \in Widths, NEW v, IsWord(width, v)
  PROVE  /\ WordBytes(width, v) \in Seq(Octet)
         /\ Len(WordBytes(width, v)) = width
         /\ WordOf(width, WordBytes(width, v)) = v
<1>1. CASE width = 1
  <2>1. v \in Octet
    BY <1>1, IsWordIs
  <2>2. WordBytes(width, v) = <<v>>
    BY <1>1, WordBytesIs
  <2>3. QED BY <1>1, <2>1, <2>2, WordOfIs
<1>2. CASE width = 2
  <2>1. v \in 0 .. U16Max
    BY <1>2, IsWordIs
  <2>2. /\ v \div 256 \in Octet /\ v % 256 \in Octet
        /\ 256 * (v \div 256) + (v % 256) = v
    BY <2>1, NumberOfTwo
  <2>3. WordBytes(width, v) = <<v \div 256, v % 256>>
    BY <1>2, WordBytesIs DEF BE2
  <2> DEFINE a == v \div 256
             b == v % 256
  <2>4. <<a, b>>[1] = a /\ <<a, b>>[2] = b
    OBVIOUS
  <2> HIDE DEF a, b
  <2>5. U16(<<a, b>>) = 256 * a + b
    BY <2>4 DEF U16
  <2>6. <<a, b>> \in Seq(Octet) /\ Len(<<a, b>>) = 2
    BY <2>2 DEF a, b
  <2>7. WordOf(width, <<a, b>>) = v
    BY <1>2, <2>2, <2>5, WordOfIs DEF a, b
  <2>8. QED BY <1>2, <2>3, <2>6, <2>7 DEF a, b
<1>3. CASE width = 4
  <2>1. IsU32(v) /\ WordBytes(width, v) = BE4(v)
    BY <1>3, IsWordIs, WordBytesIs
  <2>2. BE4(v) \in Seq(Octet) /\ Len(BE4(v)) = 4 /\ BigEndian4(BE4(v)) = v
    BY <2>1, NumberOfFour
  <2>3. WordOf(width, BE4(v)) = BigEndian4(BE4(v))
    BY <1>3, WordOfIs
  <2>4. QED BY <1>3, <2>1, <2>2, <2>3
<1>4. CASE width = 8
  <2> DEFINE s == BE4(v[1])
             t == BE4(v[2])
  <2>1. v = <<v[1], v[2]>> /\ IsU32(v[1]) /\ IsU32(v[2])
    BY <1>4, IsWordIs
  <2>2. WordBytes(width, v) = s \o t
    BY <1>4, WordBytesIs
  <2>3. s \in Seq(Octet) /\ Len(s) = 4 /\ BigEndian4(s) = v[1]
    BY <2>1, NumberOfFour
  <2>4. t \in Seq(Octet) /\ Len(t) = 4 /\ BigEndian4(t) = v[2]
    BY <2>1, NumberOfFour
  <2> HIDE DEF s, t
  <2>5. s \o t \in Seq(Octet) /\ Len(s \o t) = 8
    BY ONLY <2>3, <2>4, EightElements
  <2>6. After(s \o t, 4) = t
    BY ONLY <2>3, <2>4, StartOfBuffer, ZenonT(60)
  <2>7. /\ (s \o t)[1] = s[1] /\ (s \o t)[2] = s[2]
        /\ (s \o t)[3] = s[3] /\ (s \o t)[4] = s[4]
    BY ONLY <2>3, <2>4, EightElements
  <2>8. BigEndian4(s \o t) = v[1]
    <3> DEFINE u == s \o t
    <3>1. u[1] = s[1] /\ u[2] = s[2] /\ u[3] = s[3] /\ u[4] = s[4]
      BY <2>7
    <3> HIDE DEF u
    <3>2. BigEndian4(u) = BigEndian4(s)
      BY ONLY <3>1, SMT DEF BigEndian4
    <3>3. QED BY <2>3, <3>2 DEF u
  <2>9. WordOf(width, s \o t) = <<BigEndian4(s \o t), BigEndian4(After(s \o t, 4))>>
    BY <1>4, WordOfIs
  <2>10. WordOf(width, s \o t) = v
    BY <2>1, <2>4, <2>6, <2>8, <2>9
  <2>11. QED BY <1>4, <2>2, <2>5, <2>10
<1>5. QED BY <1>1, <1>2, <1>3, <1>4 DEF Widths
-----------------------------------------------------------------------------
(* Integers, arrays and Tpm2bs.                                            *)

\* b is what v is on the wire, as in TpmDeriveProofs.
LeafCode(T, v, b) ==
  /\ b \in Seq(Octet)
  /\ \A more \in Seq(Octet) : LeafUnmarshal(T, b \o more) = Took(v, more)
  /\ \A n \in 0 .. Len(b) - 1 : LeafUnmarshal(T, SubSeq(b, 1, n)).res = "memory"
  /\ \A room \in Nat : Len(b) <= room => LeafMarshal(T, v, room) = Wrote(b)

\* v is written as b wherever there is room for b, and nowhere else.
LeafFits(T, v, b) ==
  \A room \in Nat : IF Len(b) <= room THEN LeafMarshal(T, v, room) = Wrote(b)
                                      ELSE LeafMarshal(T, v, room).res # "ok"

LEMMA LeafTookParts ==
  \A v, r : /\ Took(v, r).res = "ok" /\ Took(v, r).value = v /\ Took(v, r).rest = r
BY DEF Took

LEMMA Refused == \A r : NotTaken(r).res = r /\ NotWritten(r).res = r
BY DEF NotTaken, NotWritten

LEMMA WordIs ==
  ASSUME NEW T, T.kind = "word"
  PROVE  /\ \A buf : LeafUnmarshal(T, buf) = TakeWord(T.width, buf)
         /\ \A v, room : LeafMarshal(T, v, room) = Put(WordBytes(T.width, v), room)
         /\ \A v : LeafIsValue(T, v) <=> IsWord(T.width, v)
         /\ LeafIsType(T) <=> T.width \in Widths /\ T.size = T.width
<1>1. \A buf : LeafUnmarshal(T, buf) = TakeWord(T.width, buf)
  BY DEF LeafUnmarshal
<1>2. \A v, room : LeafMarshal(T, v, room) = Put(WordBytes(T.width, v), room)
  BY DEF LeafMarshal
<1>3. \A v : LeafIsValue(T, v) <=> IsWord(T.width, v)
  BY DEF LeafIsValue
<1>4. LeafIsType(T) <=> T.width \in Widths /\ T.size = T.width
  BY DEF LeafIsType, Widths
<1>5. QED BY <1>1, <1>2, <1>3, <1>4

LEMMA BytesIs ==
  ASSUME NEW T, T.kind = "bytes"
  PROVE  /\ \A buf : LeafUnmarshal(T, buf) = Take(buf, T.length)
         /\ \A v, room : LeafMarshal(T, v, room) = Put(v, room)
         /\ \A v : LeafIsValue(T, v) <=> v \in Seq(Octet) /\ Len(v) = T.length
         /\ LeafIsType(T) <=> T.length \in Nat /\ T.size = T.length
<1>1. \A buf : LeafUnmarshal(T, buf) = Take(buf, T.length)
  BY DEF LeafUnmarshal
<1>2. \A v, room : LeafMarshal(T, v, room) = Put(v, room)
  BY DEF LeafMarshal
<1>3. \A v : LeafIsValue(T, v) <=> v \in Seq(Octet) /\ Len(v) = T.length
  BY DEF LeafIsValue
<1>4. LeafIsType(T) <=> T.length \in Nat /\ T.size = T.length
  BY DEF LeafIsType
<1>5. QED BY <1>1, <1>2, <1>3, <1>4

LEMMA BlobIs ==
  ASSUME NEW T, T.kind = "blob"
  PROVE  /\ \A buf : LeafUnmarshal(T, buf) = TakeBlob(T.max, buf)
         /\ \A v, room : LeafMarshal(T, v, room) = PutBlob(T.max, v, room)
         /\ \A v : LeafIsValue(T, v) <=> v \in Seq(Octet) /\ Len(v) <= T.max
         /\ LeafIsType(T) <=> T.max \in 0 .. U16Max /\ T.size \in Nat /\ T.max + 2 <= T.size
<1>1. \A buf : LeafUnmarshal(T, buf) = TakeBlob(T.max, buf)
  BY DEF LeafUnmarshal
<1>2. \A v, room : LeafMarshal(T, v, room) = PutBlob(T.max, v, room)
  BY DEF LeafMarshal
<1>3. \A v : LeafIsValue(T, v) <=> v \in Seq(Octet) /\ Len(v) <= T.max
  BY DEF LeafIsValue
<1>4. LeafIsType(T) <=> T.max \in 0 .. U16Max /\ T.size \in Nat /\ T.max + 2 <= T.size
  BY DEF LeafIsType
<1>5. QED BY <1>1, <1>2, <1>3, <1>4

LEMMA LeafKinds ==
  \A T : LeafIsType(T) => T.kind = "word" \/ T.kind = "bytes" \/ T.kind = "blob"
BY DEF LeafIsType

\* What fits is put, and what does not is refused.
LEMMA PutFits ==
  ASSUME NEW b \in Seq(Octet), NEW room \in Nat
  PROVE  IF Len(b) <= room THEN Put(b, room) = Wrote(b) ELSE Put(b, room).res # "ok"
BY Refused DEF Put

LEMMA WordCode ==
  ASSUME NEW T, T.kind = "word", LeafIsType(T), NEW v, IsWord(T.width, v)
  PROVE  /\ LeafCode(T, v, WordBytes(T.width, v))
         /\ LeafFits(T, v, WordBytes(T.width, v))
         /\ Len(WordBytes(T.width, v)) = T.width
<1> DEFINE b == WordBytes(T.width, v)
<1>1. T.width \in Widths
  BY WordIs
<1>2. b \in Seq(Octet) /\ Len(b) = T.width /\ WordOf(T.width, b) = v
  BY <1>1, BytesOfWord
<1>3. \A room : LeafMarshal(T, v, room) = Put(b, room)
  BY WordIs
<1> HIDE DEF b
<1>4. LeafFits(T, v, b)
  BY <1>2, <1>3, PutFits DEF LeafFits
<1>5. ASSUME NEW more \in Seq(Octet)
      PROVE  LeafUnmarshal(T, b \o more) = Took(v, more)
  <2>1. /\ CanGet(b \o more, T.width) /\ After(b \o more, T.width) = more
        /\ b \o more \in Seq(Octet) /\ T.width <= Len(b \o more)
        /\ \A i \in 1 .. T.width : (b \o more)[i] = b[i]
    <3>1. CanGet(b \o more, Len(b)) /\ After(b \o more, Len(b)) = more
      BY <1>2, StartOfBuffer
    <3>2. b \o more \in Seq(Octet)
      BY <1>2, StartOfBuffer
    <3>3. \A i \in 1 .. Len(b) : (b \o more)[i] = b[i]
      BY <1>2, StartOfBuffer
    <3>4. Len(b) <= Len(b \o more)
      BY <3>1 DEF CanGet
    <3>5. QED BY <1>2, <3>1, <3>2, <3>3, <3>4
  <2> DEFINE all == b \o more
  <2> HIDE DEF all
  <2>2. WordOf(T.width, all) = v
    <3>1. T.width <= Len(b) /\ T.width <= Len(all)
      BY <1>1, <1>2, <2>1 DEF all, Widths
    <3>2. all \in Seq(Octet) /\ \A i \in 1 .. T.width : all[i] = b[i]
      BY <2>1 DEF all
    <3>3. WordOf(T.width, all) = WordOf(T.width, b)
      BY <1>1, <1>2, <3>1, <3>2, WordOfAgrees
    <3>4. QED BY <1>2, <3>3
  <2>3. TakeWord(T.width, all) = Took(v, more)
    BY <2>1, <2>2 DEF TakeWord, all
  <2>4. QED BY <2>3, WordIs DEF all
<1>6. ASSUME NEW n \in 0 .. Len(b) - 1
      PROVE  LeafUnmarshal(T, SubSeq(b, 1, n)).res = "memory"
  <2>1. ~CanGet(SubSeq(b, 1, n), T.width)
    BY <1>2, ShortBuffer
  <2>2. TakeWord(T.width, SubSeq(b, 1, n)) = NotTaken("memory")
    BY <2>1 DEF TakeWord
  <2>3. QED BY <2>2, WordIs, Refused
<1>7. LeafCode(T, v, b)
  BY <1>2, <1>4, <1>5, <1>6 DEF LeafCode, LeafFits
<1>8. QED BY <1>2, <1>4, <1>7 DEF b

LEMMA BytesCode ==
  ASSUME NEW T, T.kind = "bytes", LeafIsType(T), NEW v \in Seq(Octet), Len(v) = T.length
  PROVE  LeafCode(T, v, v) /\ LeafFits(T, v, v)
<1>1. \A room : LeafMarshal(T, v, room) = Put(v, room)
  BY BytesIs
<1>2. LeafFits(T, v, v)
  BY <1>1, PutFits DEF LeafFits
<1>3. ASSUME NEW more \in Seq(Octet)
      PROVE  LeafUnmarshal(T, v \o more) = Took(v, more)
  <2>1. CanGet(v \o more, Len(v)) /\ After(v \o more, Len(v)) = more /\ Got(v \o more, Len(v)) = v
    BY StartOfBuffer
  <2>2. Take(v \o more, T.length) = Took(v, more)
    BY <2>1 DEF Take
  <2>3. QED BY <2>2, BytesIs
<1>4. ASSUME NEW n \in 0 .. Len(v) - 1
      PROVE  LeafUnmarshal(T, SubSeq(v, 1, n)).res = "memory"
  <2>1. ~CanGet(SubSeq(v, 1, n), T.length)
    BY ShortBuffer
  <2>2. Take(SubSeq(v, 1, n), T.length) = NotTaken("memory")
    BY <2>1 DEF Take
  <2>3. QED BY <2>2, BytesIs, Refused
<1>5. LeafCode(T, v, v)
  BY <1>2, <1>3, <1>4 DEF LeafCode, LeafFits
<1>6. QED BY <1>2, <1>5

\* The size in front of a Tpm2b.
LEMMA SizeBytes ==
  ASSUME NEW n \in 0 .. U16Max
  PROVE  BE2(n) \in Seq(Octet) /\ Len(BE2(n)) = 2 /\ U16(BE2(n)) = n
<1>1. 2 \in Widths /\ IsWord(2, n)
  BY IsWordIs DEF Widths
<1>2. /\ WordBytes(2, n) \in Seq(Octet) /\ Len(WordBytes(2, n)) = 2
      /\ WordOf(2, WordBytes(2, n)) = n
  BY <1>1, BytesOfWord
<1>3. QED BY <1>2, WordBytesIs, WordOfIs

LEMMA SizeIs ==
  ASSUME NEW s \in Seq(Octet), NEW t \in Seq(Octet), 2 <= Len(s), 2 <= Len(t),
         \A i \in 1 .. 2 : s[i] = t[i]
  PROVE  U16(s) = U16(t)
<1>1. 2 \in Widths
  BY DEF Widths
<1>2. WordOf(2, s) = WordOf(2, t)
  BY <1>1, WordOfAgrees
<1>3. QED BY <1>2, WordOfIs

LEMMA TwoElements ==
  ASSUME NEW S, NEW s \in Seq(S), Len(s) = 2
  PROVE  s[1] \in S /\ s[2] \in S /\ s = <<s[1], s[2]>>
<1>1. s[1] \in S /\ s[2] \in S
  <2>1. s[1] \in S
    BY ElementOfSeq, SMTT(60)
  <2>2. s[2] \in S
    BY ElementOfSeq
  <2>3. QED BY <2>1, <2>2
<1>2. s = <<s[1], s[2]>>
  OBVIOUS
<1>3. QED BY <1>1, <1>2

LEMMA BehindTwo ==
  ASSUME NEW S, NEW h \in Seq(S), NEW v \in Seq(S), Len(h) = 2
  PROVE  /\ h \o v \in Seq(S) /\ Len(h \o v) = 2 + Len(v)
         /\ \A i \in 1 .. 2 : (h \o v)[i] = h[i]
         /\ \A i \in 1 .. Len(v) : (h \o v)[2 + i] = v[i]
<1>1. h \o v \in Seq(S) /\ Len(h \o v) = Len(h) + Len(v)
  BY ConcatParts
<1>2. \A i \in 1 .. Len(h) : (h \o v)[i] = h[i]
  BY ConcatParts
<1>3. \A i \in 1 .. Len(v) : (h \o v)[Len(h) + i] = v[i]
  BY ONLY h \in Seq(S), v \in Seq(S), ConcatParts
<1>4. QED BY <1>1, <1>2, <1>3

\* The contents behind it.
LEMMA Behind ==
  ASSUME NEW S, NEW h \in Seq(S), NEW v \in Seq(S), NEW more \in Seq(S), Len(h) = 2
  PROVE  /\ SubSeq((h \o v) \o more, 3, 2 + Len(v)) = v
         /\ \A i \in 1 .. 2 : ((h \o v) \o more)[i] = h[i]
<1> DEFINE b == h \o v
           all == b \o more
           n == Len(v)
<1>1. b \in Seq(S) /\ Len(b) = 2 + n /\ n \in Nat
  BY BehindTwo
<1>2. \A i \in 1 .. 2 : b[i] = h[i]
  BY BehindTwo
<1>3. \A i \in 1 .. n : b[2 + i] = v[i]
  BY BehindTwo
<1> HIDE DEF b
<1>4. all \in Seq(S) /\ Len(all) = (2 + n) + Len(more) /\ Len(more) \in Nat
  <2>1. all \in Seq(S) /\ Len(all) = Len(b) + Len(more)
    BY <1>1, ConcatParts
  <2>2. QED BY <1>1, <2>1
<1>5. \A i \in 1 .. 2 + n : all[i] = b[i]
  <2>1. \A i \in 1 .. Len(b) : all[i] = b[i]
    BY <1>1, ConcatParts
  <2>2. QED BY <1>1, <2>1
<1> HIDE DEF all
<1>6. \A i \in 1 .. 2 : all[i] = h[i]
  <2>1. \A i \in 1 .. 2 : i \in 1 .. 2 + n
    BY <1>1
  <2>2. QED BY <1>2, <1>5, <2>1
<1>7. \A i \in 1 .. n : all[2 + i] = v[i]
  <2>1. \A i \in 1 .. n : 2 + i \in 1 .. 2 + n
    BY <1>1
  <2>2. QED BY <1>3, <1>5, <2>1
<1>8. SubSeq(all, 3, 2 + n) = v
  BY <1>1, <1>4, <1>7
<1>9. QED BY <1>6, <1>8 DEF all, b

LEMMA BlobCode ==
  ASSUME NEW T, T.kind = "blob", LeafIsType(T), NEW v \in Seq(Octet), Len(v) <= T.max
  PROVE  /\ LeafCode(T, v, BE2(Len(v)) \o v)
         /\ LeafFits(T, v, BE2(Len(v)) \o v)
         /\ Len(BE2(Len(v)) \o v) <= T.size
<1> DEFINE n == Len(v)
           h == BE2(n)
           b == h \o v
<1>1. n \in 0 .. U16Max /\ n \in Nat /\ T.max \in Nat /\ T.size \in Nat /\ T.max + 2 <= T.size
  BY BlobIs, U16MaxIs
<1>2. h \in Seq(Octet) /\ Len(h) = 2 /\ U16(h) = n
  BY <1>1, SizeBytes
<1> HIDE DEF h
<1>3. b \in Seq(Octet) /\ Len(b) = 2 + n
  BY <1>2, BehindTwo
<1>4. Len(b) <= T.size
  BY <1>1, <1>3
<1>5. \A i \in 1 .. 2 : b[i] = h[i]
  BY <1>2, BehindTwo
<1>6. \A room : LeafMarshal(T, v, room) = PutBlob(T.max, v, room)
  BY BlobIs
<1>7. LeafFits(T, v, b)
  <2> SUFFICES ASSUME NEW room \in Nat
               PROVE  IF Len(b) <= room THEN PutBlob(T.max, v, room) = Wrote(b)
                                        ELSE PutBlob(T.max, v, room).res # "ok"
    BY <1>6 DEF LeafFits
  <2>1. CASE Len(b) <= room
    <3>1. ~(room < 2) /\ ~(n > room - 2)
      BY <1>1, <1>3, <2>1
    <3>2. PutBlob(T.max, v, room) = Wrote(b)
      BY <3>1 DEF PutBlob, b, h
    <3>3. QED BY <2>1, <3>2
  <2>2. CASE ~(Len(b) <= room)
    <3>1. room < 2 \/ n > room - 2
      BY <1>1, <1>3, <2>2
    <3>2. PutBlob(T.max, v, room) \in {NotWritten("memory"), NotWritten("panic")}
      BY <3>1 DEF PutBlob
    <3>3. QED BY <2>2, <3>2, Refused
  <2>3. QED BY <2>1, <2>2
<1> HIDE DEF b
<1>8. ASSUME NEW more \in Seq(Octet)
      PROVE  LeafUnmarshal(T, b \o more) = Took(v, more)
  <2> DEFINE all == b \o more
  <2>1. /\ CanGet(all, Len(b)) /\ After(all, Len(b)) = more
    BY <1>3, StartOfBuffer
  <2>2. all \in Seq(Octet)
    BY <1>3, StartOfBuffer
  <2>3. SubSeq(all, 3, 2 + n) = v /\ \A i \in 1 .. 2 : all[i] = h[i]
    <3>1. SubSeq(all, 3, 2 + n) = v
      BY <1>2, Behind DEF b
    <3>2. \A i \in 1 .. 2 : all[i] = h[i]
      BY <1>2, Behind DEF b
    <3>3. QED BY <3>1, <3>2
  <2> HIDE DEF all
  <2>4. 2 + n <= Len(all) /\ CanGet(all, 2) /\ 2 <= Len(all)
    BY <1>1, <1>3, <2>1, <2>2 DEF CanGet
  <2>5. U16(all) = n
    BY <1>2, <2>2, <2>3, <2>4, SizeIs, SMTT(60)
  <2>6. Tpm2bLen(all) = 2 + n
    BY <2>4, <2>5 DEF Tpm2bLen
  <2>7. CanGet(all, 2 + n) /\ ~((2 + n) - 2 > T.max)
    BY <1>1, <2>4 DEF CanGet
  <2>8. TakeBlob(T.max, all) = Took(v, more)
    BY <1>3, <2>1, <2>3, <2>6, <2>7 DEF TakeBlob
  <2>9. QED BY <2>8, BlobIs DEF all
<1>9. ASSUME NEW k \in 0 .. Len(b) - 1
      PROVE  LeafUnmarshal(T, SubSeq(b, 1, k)).res = "memory"
  <2> DEFINE all == SubSeq(b, 1, k)
  <2>1. all \in Seq(Octet) /\ Len(all) = k
    BY <1>3, ShortBuffer
  <2>2. \A i \in 1 .. k : all[i] = b[i]
    BY <1>3, ShortBuffer
  <2> HIDE DEF all
  <2>3. ~CanGet(all, Tpm2bLen(all))
    <3>1. CASE k < 2
      BY <2>1, <3>1 DEF CanGet, Tpm2bLen
    <3>2. CASE ~(k < 2)
      <4>1. k \in Nat /\ 2 <= k /\ k < 2 + n
        BY <1>1, <1>3, <3>2
      <4>2. \A i \in 1 .. 2 : i \in 1 .. k
        BY <4>1
      <4>3. \A i \in 1 .. 2 : all[i] = h[i]
        BY <1>5, <2>2, <4>2
      <4>4. U16(all) = n
        BY <1>2, <2>1, <4>1, <4>3, SizeIs
      <4>5. Tpm2bLen(all) = 2 + n
        BY <2>1, <4>1, <4>4 DEF CanGet, Tpm2bLen
      <4>6. QED BY <1>1, <2>1, <4>1, <4>5 DEF CanGet
    <3>3. QED BY <3>1, <3>2
  <2>4. TakeBlob(T.max, all) = NotTaken("memory")
    BY <2>3 DEF TakeBlob
  <2>5. QED BY <2>4, BlobIs, Refused DEF all
<1>10. LeafCode(T, v, b)
  BY <1>3, <1>7, <1>8, <1>9 DEF LeafCode, LeafFits
<1>11. QED BY <1>4, <1>7, <1>10 DEF b, h

\* What is read is what the bytes read are.
LeafReads ==
  \A T, buf :
    LeafIsType(T) /\ buf \in Seq(Octet) /\ LeafUnmarshal(T, buf).res = "ok" =>
      \E b \in Seq(Octet), rest \in Seq(Octet) :
        buf = b \o rest /\ LeafCode(T, LeafUnmarshal(T, buf).value, b)

\* A value is written as what it is on the wire.
LeafWrites ==
  \A T, v :
    LeafIsType(T) /\ LeafIsValue(T, v) =>
      \E w, b :
        /\ LeafCode(T, w, b) /\ Len(b) <= T.size
        /\ LeafSeen(T, w) = LeafSeen(T, v)
        /\ LeafFits(T, v, b)

LEMMA LeafIsRead == LeafReads
<1> SUFFICES ASSUME NEW T, NEW buf \in Seq(Octet), LeafIsType(T),
                    LeafUnmarshal(T, buf).res = "ok"
             PROVE  \E b \in Seq(Octet), rest \in Seq(Octet) :
                      buf = b \o rest /\ LeafCode(T, LeafUnmarshal(T, buf).value, b)
  BY DEF LeafReads
<1>0. "memory" # "ok"
  OBVIOUS
<1>1. CASE T.kind = "word"
  <2> DEFINE w == T.width
             b == Got(buf, w)
             rest == After(buf, w)
  <2>1. w \in Widths /\ w \in Nat /\ LeafUnmarshal(T, buf) = TakeWord(w, buf)
    BY <1>1, WordIs DEF Widths
  <2>2. CanGet(buf, w)
    <3>1. ~CanGet(buf, w) => TakeWord(w, buf) = NotTaken("memory")
      BY DEF TakeWord
    <3>2. QED BY <1>0, <2>1, <3>1, Refused
  <2>3. TakeWord(w, buf) = Took(WordOf(w, buf), rest)
    BY <2>2 DEF TakeWord
  <2>4. b \in Seq(Octet) /\ Len(b) = w /\ rest \in Seq(Octet) /\ buf = b \o rest
    BY <2>1, <2>2, Halves
  <2> HIDE DEF w, b, rest
  <2>5. WordOf(w, buf) = WordOf(w, b)
    <3>1. \A i \in 1 .. Len(b) : (b \o rest)[i] = b[i]
      BY <2>4, StartOfBuffer
    <3>2. \A i \in 1 .. w : buf[i] = b[i]
      BY <2>4, <3>1
    <3>3. w <= Len(buf) /\ w <= Len(b)
      BY <2>1, <2>2, <2>4 DEF CanGet
    <3>4. QED BY <2>1, <2>4, <3>2, <3>3, WordOfAgrees
  <2>6. IsWord(w, WordOf(w, b)) /\ WordBytes(w, WordOf(w, b)) = b
    BY <2>1, <2>4, WordOfBytes
  <2>7. LeafCode(T, WordOf(w, b), b)
    <3>1. LeafCode(T, WordOf(w, b), WordBytes(w, WordOf(w, b)))
      BY <1>1, <2>6, WordCode DEF w
    <3>2. QED BY <2>6, <3>1
  <2>8. LeafUnmarshal(T, buf).value = WordOf(w, b)
    BY <2>1, <2>3, <2>5, LeafTookParts
  <2>9. QED BY <2>4, <2>7, <2>8
<1>2. CASE T.kind = "bytes"
  <2> DEFINE n == T.length
             b == Got(buf, n)
             rest == After(buf, n)
  <2>1. n \in Nat /\ LeafUnmarshal(T, buf) = Take(buf, n)
    BY <1>2, BytesIs
  <2>2. CanGet(buf, n)
    <3>1. ~CanGet(buf, n) => Take(buf, n) = NotTaken("memory")
      BY DEF Take
    <3>2. QED BY <1>0, <2>1, <3>1, Refused
  <2>3. Take(buf, n) = Took(b, rest)
    BY <2>2 DEF Take
  <2>4. b \in Seq(Octet) /\ Len(b) = n /\ rest \in Seq(Octet) /\ buf = b \o rest
    BY <2>1, <2>2, Halves
  <2>5. LeafCode(T, b, b)
    BY <1>2, <2>4, BytesCode
  <2> HIDE DEF b, rest, n
  <2>6. LeafUnmarshal(T, buf).value = b
    BY <2>1, <2>3, LeafTookParts
  <2>7. QED BY <2>4, <2>5, <2>6
<1>3. CASE T.kind = "blob"
  <2> DEFINE n == Tpm2bLen(buf)
             m == n - 2
             h == Got(buf, 2)
             v == SubSeq(buf, 3, n)
             rest == After(buf, n)
  <2>1. LeafUnmarshal(T, buf) = TakeBlob(T.max, buf) /\ T.max \in Nat
    BY <1>3, BlobIs, U16MaxIs
  <2>2. CanGet(buf, n) /\ ~(n - 2 > T.max)
    <3>1. ~CanGet(buf, n) \/ n - 2 > T.max => TakeBlob(T.max, buf) = NotTaken("memory")
      BY DEF TakeBlob
    <3>2. QED BY <1>0, <2>1, <3>1, Refused
  <2>3. TakeBlob(T.max, buf) = Took(v, rest)
    BY <2>2 DEF TakeBlob
  <2>4. CanGet(buf, 2) /\ n = 2 + U16(buf)
    BY <2>2 DEF Tpm2bLen
  <2> HIDE DEF n
  <2>5. h \in Seq(Octet) /\ Len(h) = 2 /\ \A i \in 1 .. 2 : buf[i] = h[i]
    <3>1. h \in Seq(Octet) /\ Len(h) = 2
      BY <2>4, Halves
    <3>2. h = SubSeq(buf, 1, 2) /\ 2 <= Len(buf)
      BY <2>4 DEF Got, CanGet
    <3>3. \A i \in 1 .. 2 : SubSeq(buf, 1, 2)[i] = buf[i]
      BY <3>2
    <3>4. QED BY <3>1, <3>2, <3>3
  <2>6. h[1] \in Octet /\ h[2] \in Octet /\ h = <<h[1], h[2]>>
    BY ONLY <2>5, TwoElements
  <2>7. U16(buf) = 256 * h[1] + h[2]
    BY <2>5 DEF U16
  <2>8. BE2(U16(buf)) = h /\ U16(buf) \in Nat
    <3>1. BE2(256 * h[1] + h[2]) = <<h[1], h[2]>>
      BY <2>6, TwoBytes
    <3>2. 256 * h[1] + h[2] \in Nat
      BY <2>6, OctetIs
    <3>3. QED BY <2>6, <2>7, <3>1, <3>2
  <2>9. m \in Nat /\ m = U16(buf) /\ n = 2 + m /\ m <= T.max /\ n \in Nat
    BY <2>1, <2>2, <2>4, <2>8
  <2> HIDE DEF m, h
  <2>10. n <= Len(buf)
    BY <2>2 DEF CanGet
  <2>11. v \in Seq(Octet) /\ Len(v) = m
    BY <2>9, <2>10
  <2>12. rest \in Seq(Octet)
    BY <2>2, <2>9, Halves
  <2>13. buf = (h \o v) \o rest
    <3>1. SubSeq(buf, 1, n) = h \o v
      <4>1. SubSeq(buf, 1, n) \in Seq(Octet) /\ Len(SubSeq(buf, 1, n)) = 2 + m
        BY <2>9, <2>10
      <4>2. \A i \in 1 .. 2 : SubSeq(buf, 1, n)[i] = h[i]
        BY <2>5, <2>9, <2>10
      <4>3. \A i \in 1 .. m : SubSeq(buf, 1, n)[2 + i] = v[i]
        BY <2>9, <2>10
      <4> HIDE DEF v
      <4> DEFINE c == SubSeq(buf, 1, n)
      <4> HIDE DEF c
      <4>4. c \in Seq(Octet) /\ Len(c) = Len(h) + Len(v)
        BY <2>5, <2>11, <4>1 DEF c
      <4>5. \A i \in 1 .. Len(h) : c[i] = h[i]
        BY <2>5, <4>2 DEF c
      <4>6. \A i \in 1 .. Len(v) : c[Len(h) + i] = v[i]
        BY <2>5, <2>11, <4>3 DEF c
      <4>7. c = h \o v
        <5>1. h \in Seq(Octet) /\ v \in Seq(Octet)
          BY <2>5, <2>11
        <5>2. QED BY ONLY <5>1, <4>4, <4>5, <4>6, ConcatIs
      <4>8. QED BY <4>7 DEF c
    <3>2. buf = Got(buf, n) \o rest
      BY <2>2, <2>9, Halves
    <3>3. Got(buf, n) = SubSeq(buf, 1, n)
      BY <2>2 DEF Got
    <3>4. QED BY <3>1, <3>2, <3>3
  <2> HIDE DEF v, rest
  <2>14. LeafCode(T, v, h \o v)
    <3>1. LeafCode(T, v, BE2(Len(v)) \o v)
      BY <1>3, <2>9, <2>11, BlobCode
    <3>2. BE2(Len(v)) = h
      BY <2>8, <2>9, <2>11
    <3>3. QED BY <3>1, <3>2
  <2>15. LeafUnmarshal(T, buf).value = v
    BY <2>1, <2>3, LeafTookParts
  <2>16. h \o v \in Seq(Octet)
    BY <2>14 DEF LeafCode
  <2>17. QED BY <2>12, <2>13, <2>14, <2>15, <2>16
<1>4. QED BY <1>1, <1>2, <1>3, LeafKinds

LEMMA LeafIsWritten == LeafWrites
<1> SUFFICES ASSUME NEW T, NEW v, LeafIsType(T), LeafIsValue(T, v)
             PROVE  \E w, b :
                      /\ LeafCode(T, w, b) /\ Len(b) <= T.size
                      /\ LeafSeen(T, w) = LeafSeen(T, v)
                      /\ LeafFits(T, v, b)
  BY DEF LeafWrites
<1>1. CASE T.kind = "word"
  <2> DEFINE b == WordBytes(T.width, v)
  <2>1. IsWord(T.width, v) /\ T.size = T.width /\ T.width \in Nat
    BY <1>1, WordIs DEF Widths
  <2>2. LeafCode(T, v, b) /\ LeafFits(T, v, b) /\ Len(b) = T.width
    BY <1>1, <2>1, WordCode
  <2> HIDE DEF b
  <2>3. Len(b) <= T.size
    BY <2>1, <2>2
  <2>4. QED BY <2>2, <2>3
<1>2. CASE T.kind = "bytes"
  <2>1. v \in Seq(Octet) /\ Len(v) = T.length /\ T.length \in Nat /\ T.size = T.length
    BY <1>2, BytesIs
  <2>2. LeafCode(T, v, v) /\ LeafFits(T, v, v)
    BY <1>2, <2>1, BytesCode
  <2>3. Len(v) <= T.size
    BY <2>1
  <2>4. QED BY <2>2, <2>3
<1>3. CASE T.kind = "blob"
  <2> DEFINE b == BE2(Len(v)) \o v
  <2>1. v \in Seq(Octet) /\ Len(v) <= T.max
    BY <1>3, BlobIs
  <2>2. LeafCode(T, v, b) /\ LeafFits(T, v, b) /\ Len(b) <= T.size
    BY <1>3, <2>1, BlobCode
  <2> HIDE DEF b
  <2>3. QED BY <2>2
<1>4. QED BY <1>1, <1>2, <1>3, LeafKinds
-----------------------------------------------------------------------------
(* Level by level.                                                         *)

P1 == INSTANCE TpmDeriveProofs WITH
  InnerMarshal <- LeafMarshal, InnerUnmarshal <- LeafUnmarshal,
  InnerIsType <- LeafIsType, InnerIsValue <- LeafIsValue,
  InnerSeen <- LeafSeen, InnerOvercounted <- LeafOvercounted
P2 == INSTANCE TpmDeriveProofs WITH
  InnerMarshal <- L1!Marshal, InnerUnmarshal <- L1!Unmarshal,
  InnerIsType <- K1!IsType, InnerIsValue <- K1!IsValue,
  InnerSeen <- K1!Seen, InnerOvercounted <- K1!Overcounted
P3 == INSTANCE TpmDeriveProofs WITH
  InnerMarshal <- L2!Marshal, InnerUnmarshal <- L2!Unmarshal,
  InnerIsType <- K2!IsType, InnerIsValue <- K2!IsValue,
  InnerSeen <- K2!Seen, InnerOvercounted <- K2!Overcounted
P4 == INSTANCE TpmDeriveProofs WITH
  InnerMarshal <- L3!Marshal, InnerUnmarshal <- L3!Unmarshal,
  InnerIsType <- K3!IsType, InnerIsValue <- K3!IsValue,
  InnerSeen <- K3!Seen, InnerOvercounted <- K3!Overcounted
P5 == INSTANCE TpmDeriveProofs WITH
  InnerMarshal <- L4!Marshal, InnerUnmarshal <- L4!Unmarshal,
  InnerIsType <- K4!IsType, InnerIsValue <- K4!IsValue,
  InnerSeen <- K4!Seen, InnerOvercounted <- K4!Overcounted
P6 == INSTANCE TpmDeriveProofs WITH
  InnerMarshal <- L5!Marshal, InnerUnmarshal <- L5!Unmarshal,
  InnerIsType <- K5!IsType, InnerIsValue <- K5!IsValue,
  InnerSeen <- K5!Seen, InnerOvercounted <- K5!Overcounted
P7 == INSTANCE TpmDeriveProofs WITH
  InnerMarshal <- L6!Marshal, InnerUnmarshal <- L6!Unmarshal,
  InnerIsType <- K6!IsType, InnerIsValue <- K6!IsValue,
  InnerSeen <- K6!Seen, InnerOvercounted <- K6!Overcounted
P8 == INSTANCE TpmDeriveProofs WITH
  InnerMarshal <- L7!Marshal, InnerUnmarshal <- L7!Unmarshal,
  InnerIsType <- K7!IsType, InnerIsValue <- K7!IsValue,
  InnerSeen <- K7!Seen, InnerOvercounted <- K7!Overcounted

\* Level 1, as TpmCodec and as TpmDeriveProofs have it.
LEMMA Same1 ==
  /\ \A T : P1!IsType(T) = K1!IsType(T)
  /\ \A T, v : P1!IsValue(T, v) = K1!IsValue(T, v)
  /\ \A T, v : P1!Seen(T, v) = K1!Seen(T, v)
  /\ \A T, v : P1!Overcounted(T, v) = K1!Overcounted(T, v)
  /\ \A T, v, room : P1!Marshal(T, v, room) = L1!Marshal(T, v, room)
  /\ \A T, buf : P1!Unmarshal(T, buf) = L1!Unmarshal(T, buf)
<1>1. \A T : P1!IsType(T) = K1!IsType(T)
  BY DEF
     P1!IsType, K1!IsType, P1!Composite, K1!Composite, P1!Fields, K1!Fields,
     P1!AreFields, K1!AreFields, P1!IsField, K1!IsField, P1!Entries,
     K1!Entries, P1!Room, K1!Room
<1>2. \A T, v : P1!IsValue(T, v) = K1!IsValue(T, v)
  BY DEF
     P1!IsValue, K1!IsValue, P1!Composite, K1!Composite, P1!Fields, K1!Fields,
     P1!Refusal, K1!Refusal, P1!Overruns, K1!Overruns, P1!Resolve, K1!Resolve,
     P1!Entries, K1!Entries
<1>3. \A T, v : P1!Seen(T, v) = K1!Seen(T, v)
  BY DEF
     P1!Seen, K1!Seen, P1!Composite, K1!Composite, P1!Fields, K1!Fields,
     P1!Overruns, K1!Overruns, P1!Resolve, K1!Resolve, P1!Entries, K1!Entries
<1>4. \A T, v, room : P1!Marshal(T, v, room) = L1!Marshal(T, v, room)
  BY DEF
     P1!Marshal, L1!Marshal, P1!Writes, L1!Writes, P1!Write, L1!Write,
     P1!Wrote, L1!Wrote, P1!NotWritten, L1!NotWritten, P1!Composite,
     L1!Composite, P1!Fields, L1!Fields, P1!Overruns, L1!Overruns, P1!Resolve,
     L1!Resolve, P1!Entries, L1!Entries
<1>5. \A T, buf : P1!Unmarshal(T, buf) = L1!Unmarshal(T, buf)
  <2>1. \A F, v : P1!Overruns(F, v) = L1!Overruns(F, v)
    BY DEF P1!Overruns, L1!Overruns
  <2>2. \A F, v : P1!Resolve(F, v) = L1!Resolve(F, v)
    BY <2>1
       DEF P1!Resolve, L1!Resolve, P1!Entries, L1!Entries
  <2>3. \A F, v : P1!Refusal(F, v) = L1!Refusal(F, v)
    BY <2>1 DEF P1!Refusal, L1!Refusal
  <2>4. \A sofar, F : P1!Read(sofar, F) = L1!Read(sofar, F)
    BY <2>2, <2>3, ZenonT(30)
       DEF P1!Read, L1!Read, P1!Took, L1!Took, P1!NotTaken,
           L1!NotTaken
  <2>5. \A fields, buf : P1!Reads(fields, buf) = L1!Reads(fields, buf)
    BY <2>4 DEF P1!Reads, L1!Reads, P1!Took, L1!Took
  <2>6. \A T : P1!Fields(T) = L1!Fields(T)
    BY DEF P1!Fields, L1!Fields
  <2>7. \A T : P1!Uncounted(T) = L1!Uncounted(T)
    BY DEF P1!Uncounted, L1!Uncounted
  <2>8. QED
    BY <2>5, <2>6, <2>7, ZenonT(30)
       DEF P1!Unmarshal, L1!Unmarshal, P1!Took, L1!Took,
           P1!Composite, L1!Composite
<1>6. \A T, v : P1!Overcounted(T, v) = K1!Overcounted(T, v)
  BY DEF
     P1!Overcounted, K1!Overcounted, P1!Composite, K1!Composite, P1!Fields,
     K1!Fields, P1!Refusal, K1!Refusal, P1!Overruns, K1!Overruns,
     P1!Resolve, K1!Resolve, P1!Entries, K1!Entries
<1>7. QED BY <1>1, <1>2, <1>3, <1>4, <1>5, <1>6

LEMMA Level1 ==
  P1!ReadsCode /\ P1!WritesCode /\ P1!Words /\ P1!Refuses
<1>1. P1!InnerReads
  BY LeafIsRead
     DEF LeafReads, LeafCode, Octet, Took, Wrote, P1!InnerReads, P1!InnerCode,
         P1!Octet, P1!Took, P1!Wrote
<1>2. P1!InnerWrites
  BY LeafIsWritten
     DEF LeafWrites, LeafFits, LeafCode, Octet, Took, Wrote, P1!InnerWrites,
         P1!InnerCode, P1!Octet, P1!Took, P1!Wrote
<1>3. P1!InnerWords
  BY DEF P1!InnerWords, LeafSeen
<1>4. P1!InnerRefuses
  BY DEF P1!InnerRefuses, LeafOvercounted
<1>5. QED
  BY <1>1, <1>2, <1>3, <1>4, P1!ReadingNests, P1!WritingNests, P1!WordsNest,
     P1!RefusingNests

\* Level 2, as TpmCodec and as TpmDeriveProofs have it.
LEMMA Same2 ==
  /\ \A T : P2!IsType(T) = K2!IsType(T)
  /\ \A T, v : P2!IsValue(T, v) = K2!IsValue(T, v)
  /\ \A T, v : P2!Seen(T, v) = K2!Seen(T, v)
  /\ \A T, v : P2!Overcounted(T, v) = K2!Overcounted(T, v)
  /\ \A T, v, room : P2!Marshal(T, v, room) = L2!Marshal(T, v, room)
  /\ \A T, buf : P2!Unmarshal(T, buf) = L2!Unmarshal(T, buf)
<1>1. \A T : P2!IsType(T) = K2!IsType(T)
  BY DEF
     P2!IsType, K2!IsType, P2!Composite, K2!Composite, P2!Fields, K2!Fields,
     P2!AreFields, K2!AreFields, P2!IsField, K2!IsField, P2!Entries,
     K2!Entries, P2!Room, K2!Room
<1>2. \A T, v : P2!IsValue(T, v) = K2!IsValue(T, v)
  BY DEF
     P2!IsValue, K2!IsValue, P2!Composite, K2!Composite, P2!Fields, K2!Fields,
     P2!Refusal, K2!Refusal, P2!Overruns, K2!Overruns, P2!Resolve, K2!Resolve,
     P2!Entries, K2!Entries
<1>3. \A T, v : P2!Seen(T, v) = K2!Seen(T, v)
  BY DEF
     P2!Seen, K2!Seen, P2!Composite, K2!Composite, P2!Fields, K2!Fields,
     P2!Overruns, K2!Overruns, P2!Resolve, K2!Resolve, P2!Entries, K2!Entries
<1>4. \A T, v, room : P2!Marshal(T, v, room) = L2!Marshal(T, v, room)
  BY DEF
     P2!Marshal, L2!Marshal, P2!Writes, L2!Writes, P2!Write, L2!Write,
     P2!Wrote, L2!Wrote, P2!NotWritten, L2!NotWritten, P2!Composite,
     L2!Composite, P2!Fields, L2!Fields, P2!Overruns, L2!Overruns, P2!Resolve,
     L2!Resolve, P2!Entries, L2!Entries
<1>5. \A T, buf : P2!Unmarshal(T, buf) = L2!Unmarshal(T, buf)
  <2>1. \A F, v : P2!Overruns(F, v) = L2!Overruns(F, v)
    BY DEF P2!Overruns, L2!Overruns
  <2>2. \A F, v : P2!Resolve(F, v) = L2!Resolve(F, v)
    BY <2>1
       DEF P2!Resolve, L2!Resolve, P2!Entries, L2!Entries
  <2>3. \A F, v : P2!Refusal(F, v) = L2!Refusal(F, v)
    BY <2>1 DEF P2!Refusal, L2!Refusal
  <2>4. \A sofar, F : P2!Read(sofar, F) = L2!Read(sofar, F)
    BY <2>2, <2>3, ZenonT(30)
       DEF P2!Read, L2!Read, P2!Took, L2!Took, P2!NotTaken,
           L2!NotTaken
  <2>5. \A fields, buf : P2!Reads(fields, buf) = L2!Reads(fields, buf)
    BY <2>4 DEF P2!Reads, L2!Reads, P2!Took, L2!Took
  <2>6. \A T : P2!Fields(T) = L2!Fields(T)
    BY DEF P2!Fields, L2!Fields
  <2>7. \A T : P2!Uncounted(T) = L2!Uncounted(T)
    BY DEF P2!Uncounted, L2!Uncounted
  <2>8. QED
    BY <2>5, <2>6, <2>7, ZenonT(30)
       DEF P2!Unmarshal, L2!Unmarshal, P2!Took, L2!Took,
           P2!Composite, L2!Composite
<1>6. \A T, v : P2!Overcounted(T, v) = K2!Overcounted(T, v)
  BY DEF
     P2!Overcounted, K2!Overcounted, P2!Composite, K2!Composite, P2!Fields,
     K2!Fields, P2!Refusal, K2!Refusal, P2!Overruns, K2!Overruns,
     P2!Resolve, K2!Resolve, P2!Entries, K2!Entries
<1>7. QED BY <1>1, <1>2, <1>3, <1>4, <1>5, <1>6

LEMMA Level2 ==
  P2!ReadsCode /\ P2!WritesCode /\ P2!Words /\ P2!Refuses
<1>1. P2!InnerReads
  <2> SUFFICES ASSUME NEW T, NEW buf, K1!IsType(T), buf \in Seq(P2!Octet),
                      L1!Unmarshal(T, buf).res = "ok"
               PROVE  \E b \in Seq(P2!Octet), rest \in Seq(P2!Octet) :
                        /\ buf = b \o rest
                        /\ P2!InnerCode(T, L1!Unmarshal(T, buf).value, b)
    BY DEF P2!InnerReads
  <2>1. P1!Octet = P2!Octet
    BY DEF P1!Octet, P2!Octet
  <2>2. P1!Unmarshal(T, buf) = L1!Unmarshal(T, buf) /\ P1!IsType(T)
    BY Same1
  <2>3. PICK b \in Seq(P1!Octet), rest \in Seq(P1!Octet) :
          buf = b \o rest /\ P1!Code(T, P1!Unmarshal(T, buf).value, b)
    BY Level1, <2>1, <2>2 DEF P1!ReadsCode
  <2>4. P2!InnerCode(T, P1!Unmarshal(T, buf).value, b)
    BY <2>3, Same1
       DEF P1!Code, P1!Octet, P1!Took, P1!Wrote,
           P2!InnerCode, P2!Octet, P2!Took, P2!Wrote
  <2>5. QED BY <2>1, <2>2, <2>3, <2>4
<1>2. P2!InnerWrites
  BY Level1, Same1
     DEF P1!WritesCode, P1!Code, P1!Octet, P1!Took, P1!Wrote,
         P2!InnerWrites, P2!InnerCode, P2!Octet, P2!Took, P2!Wrote
<1>3. P2!InnerWords
  BY Level1, Same1 DEF P1!Words, P2!InnerWords
<1>4. P2!InnerRefuses
  BY Level1, Same1 DEF P1!Refuses, P2!InnerRefuses
<1>5. QED
  BY <1>1, <1>2, <1>3, <1>4, P2!ReadingNests, P2!WritingNests, P2!WordsNest,
     P2!RefusingNests

\* Level 3, as TpmCodec and as TpmDeriveProofs have it.
LEMMA Same3 ==
  /\ \A T : P3!IsType(T) = K3!IsType(T)
  /\ \A T, v : P3!IsValue(T, v) = K3!IsValue(T, v)
  /\ \A T, v : P3!Seen(T, v) = K3!Seen(T, v)
  /\ \A T, v : P3!Overcounted(T, v) = K3!Overcounted(T, v)
  /\ \A T, v, room : P3!Marshal(T, v, room) = L3!Marshal(T, v, room)
  /\ \A T, buf : P3!Unmarshal(T, buf) = L3!Unmarshal(T, buf)
<1>1. \A T : P3!IsType(T) = K3!IsType(T)
  BY DEF
     P3!IsType, K3!IsType, P3!Composite, K3!Composite, P3!Fields, K3!Fields,
     P3!AreFields, K3!AreFields, P3!IsField, K3!IsField, P3!Entries,
     K3!Entries, P3!Room, K3!Room
<1>2. \A T, v : P3!IsValue(T, v) = K3!IsValue(T, v)
  BY DEF
     P3!IsValue, K3!IsValue, P3!Composite, K3!Composite, P3!Fields, K3!Fields,
     P3!Refusal, K3!Refusal, P3!Overruns, K3!Overruns, P3!Resolve, K3!Resolve,
     P3!Entries, K3!Entries
<1>3. \A T, v : P3!Seen(T, v) = K3!Seen(T, v)
  BY DEF
     P3!Seen, K3!Seen, P3!Composite, K3!Composite, P3!Fields, K3!Fields,
     P3!Overruns, K3!Overruns, P3!Resolve, K3!Resolve, P3!Entries, K3!Entries
<1>4. \A T, v, room : P3!Marshal(T, v, room) = L3!Marshal(T, v, room)
  BY DEF
     P3!Marshal, L3!Marshal, P3!Writes, L3!Writes, P3!Write, L3!Write,
     P3!Wrote, L3!Wrote, P3!NotWritten, L3!NotWritten, P3!Composite,
     L3!Composite, P3!Fields, L3!Fields, P3!Overruns, L3!Overruns, P3!Resolve,
     L3!Resolve, P3!Entries, L3!Entries
<1>5. \A T, buf : P3!Unmarshal(T, buf) = L3!Unmarshal(T, buf)
  <2>1. \A F, v : P3!Overruns(F, v) = L3!Overruns(F, v)
    BY DEF P3!Overruns, L3!Overruns
  <2>2. \A F, v : P3!Resolve(F, v) = L3!Resolve(F, v)
    BY <2>1
       DEF P3!Resolve, L3!Resolve, P3!Entries, L3!Entries
  <2>3. \A F, v : P3!Refusal(F, v) = L3!Refusal(F, v)
    BY <2>1 DEF P3!Refusal, L3!Refusal
  <2>4. \A sofar, F : P3!Read(sofar, F) = L3!Read(sofar, F)
    BY <2>2, <2>3, ZenonT(30)
       DEF P3!Read, L3!Read, P3!Took, L3!Took, P3!NotTaken,
           L3!NotTaken
  <2>5. \A fields, buf : P3!Reads(fields, buf) = L3!Reads(fields, buf)
    BY <2>4 DEF P3!Reads, L3!Reads, P3!Took, L3!Took
  <2>6. \A T : P3!Fields(T) = L3!Fields(T)
    BY DEF P3!Fields, L3!Fields
  <2>7. \A T : P3!Uncounted(T) = L3!Uncounted(T)
    BY DEF P3!Uncounted, L3!Uncounted
  <2>8. QED
    BY <2>5, <2>6, <2>7, ZenonT(30)
       DEF P3!Unmarshal, L3!Unmarshal, P3!Took, L3!Took,
           P3!Composite, L3!Composite
<1>6. \A T, v : P3!Overcounted(T, v) = K3!Overcounted(T, v)
  BY DEF
     P3!Overcounted, K3!Overcounted, P3!Composite, K3!Composite, P3!Fields,
     K3!Fields, P3!Refusal, K3!Refusal, P3!Overruns, K3!Overruns,
     P3!Resolve, K3!Resolve, P3!Entries, K3!Entries
<1>7. QED BY <1>1, <1>2, <1>3, <1>4, <1>5, <1>6

LEMMA Level3 ==
  P3!ReadsCode /\ P3!WritesCode /\ P3!Words /\ P3!Refuses
<1>1. P3!InnerReads
  <2> SUFFICES ASSUME NEW T, NEW buf, K2!IsType(T), buf \in Seq(P3!Octet),
                      L2!Unmarshal(T, buf).res = "ok"
               PROVE  \E b \in Seq(P3!Octet), rest \in Seq(P3!Octet) :
                        /\ buf = b \o rest
                        /\ P3!InnerCode(T, L2!Unmarshal(T, buf).value, b)
    BY DEF P3!InnerReads
  <2>1. P2!Octet = P3!Octet
    BY DEF P2!Octet, P3!Octet
  <2>2. P2!Unmarshal(T, buf) = L2!Unmarshal(T, buf) /\ P2!IsType(T)
    BY Same2
  <2>3. PICK b \in Seq(P2!Octet), rest \in Seq(P2!Octet) :
          buf = b \o rest /\ P2!Code(T, P2!Unmarshal(T, buf).value, b)
    BY Level2, <2>1, <2>2 DEF P2!ReadsCode
  <2>4. P3!InnerCode(T, P2!Unmarshal(T, buf).value, b)
    BY <2>3, Same2
       DEF P2!Code, P2!Octet, P2!Took, P2!Wrote,
           P3!InnerCode, P3!Octet, P3!Took, P3!Wrote
  <2>5. QED BY <2>1, <2>2, <2>3, <2>4
<1>2. P3!InnerWrites
  BY Level2, Same2
     DEF P2!WritesCode, P2!Code, P2!Octet, P2!Took, P2!Wrote,
         P3!InnerWrites, P3!InnerCode, P3!Octet, P3!Took, P3!Wrote
<1>3. P3!InnerWords
  BY Level2, Same2 DEF P2!Words, P3!InnerWords
<1>4. P3!InnerRefuses
  BY Level2, Same2 DEF P2!Refuses, P3!InnerRefuses
<1>5. QED
  BY <1>1, <1>2, <1>3, <1>4, P3!ReadingNests, P3!WritingNests, P3!WordsNest,
     P3!RefusingNests

\* Level 4, as TpmCodec and as TpmDeriveProofs have it.
LEMMA Same4 ==
  /\ \A T : P4!IsType(T) = K4!IsType(T)
  /\ \A T, v : P4!IsValue(T, v) = K4!IsValue(T, v)
  /\ \A T, v : P4!Seen(T, v) = K4!Seen(T, v)
  /\ \A T, v : P4!Overcounted(T, v) = K4!Overcounted(T, v)
  /\ \A T, v, room : P4!Marshal(T, v, room) = L4!Marshal(T, v, room)
  /\ \A T, buf : P4!Unmarshal(T, buf) = L4!Unmarshal(T, buf)
<1>1. \A T : P4!IsType(T) = K4!IsType(T)
  BY DEF
     P4!IsType, K4!IsType, P4!Composite, K4!Composite, P4!Fields, K4!Fields,
     P4!AreFields, K4!AreFields, P4!IsField, K4!IsField, P4!Entries,
     K4!Entries, P4!Room, K4!Room
<1>2. \A T, v : P4!IsValue(T, v) = K4!IsValue(T, v)
  BY DEF
     P4!IsValue, K4!IsValue, P4!Composite, K4!Composite, P4!Fields, K4!Fields,
     P4!Refusal, K4!Refusal, P4!Overruns, K4!Overruns, P4!Resolve, K4!Resolve,
     P4!Entries, K4!Entries
<1>3. \A T, v : P4!Seen(T, v) = K4!Seen(T, v)
  BY DEF
     P4!Seen, K4!Seen, P4!Composite, K4!Composite, P4!Fields, K4!Fields,
     P4!Overruns, K4!Overruns, P4!Resolve, K4!Resolve, P4!Entries, K4!Entries
<1>4. \A T, v, room : P4!Marshal(T, v, room) = L4!Marshal(T, v, room)
  BY DEF
     P4!Marshal, L4!Marshal, P4!Writes, L4!Writes, P4!Write, L4!Write,
     P4!Wrote, L4!Wrote, P4!NotWritten, L4!NotWritten, P4!Composite,
     L4!Composite, P4!Fields, L4!Fields, P4!Overruns, L4!Overruns, P4!Resolve,
     L4!Resolve, P4!Entries, L4!Entries
<1>5. \A T, buf : P4!Unmarshal(T, buf) = L4!Unmarshal(T, buf)
  <2>1. \A F, v : P4!Overruns(F, v) = L4!Overruns(F, v)
    BY DEF P4!Overruns, L4!Overruns
  <2>2. \A F, v : P4!Resolve(F, v) = L4!Resolve(F, v)
    BY <2>1
       DEF P4!Resolve, L4!Resolve, P4!Entries, L4!Entries
  <2>3. \A F, v : P4!Refusal(F, v) = L4!Refusal(F, v)
    BY <2>1 DEF P4!Refusal, L4!Refusal
  <2>4. \A sofar, F : P4!Read(sofar, F) = L4!Read(sofar, F)
    BY <2>2, <2>3, ZenonT(30)
       DEF P4!Read, L4!Read, P4!Took, L4!Took, P4!NotTaken,
           L4!NotTaken
  <2>5. \A fields, buf : P4!Reads(fields, buf) = L4!Reads(fields, buf)
    BY <2>4 DEF P4!Reads, L4!Reads, P4!Took, L4!Took
  <2>6. \A T : P4!Fields(T) = L4!Fields(T)
    BY DEF P4!Fields, L4!Fields
  <2>7. \A T : P4!Uncounted(T) = L4!Uncounted(T)
    BY DEF P4!Uncounted, L4!Uncounted
  <2>8. QED
    BY <2>5, <2>6, <2>7, ZenonT(30)
       DEF P4!Unmarshal, L4!Unmarshal, P4!Took, L4!Took,
           P4!Composite, L4!Composite
<1>6. \A T, v : P4!Overcounted(T, v) = K4!Overcounted(T, v)
  BY DEF
     P4!Overcounted, K4!Overcounted, P4!Composite, K4!Composite, P4!Fields,
     K4!Fields, P4!Refusal, K4!Refusal, P4!Overruns, K4!Overruns,
     P4!Resolve, K4!Resolve, P4!Entries, K4!Entries
<1>7. QED BY <1>1, <1>2, <1>3, <1>4, <1>5, <1>6

LEMMA Level4 ==
  P4!ReadsCode /\ P4!WritesCode /\ P4!Words /\ P4!Refuses
<1>1. P4!InnerReads
  <2> SUFFICES ASSUME NEW T, NEW buf, K3!IsType(T), buf \in Seq(P4!Octet),
                      L3!Unmarshal(T, buf).res = "ok"
               PROVE  \E b \in Seq(P4!Octet), rest \in Seq(P4!Octet) :
                        /\ buf = b \o rest
                        /\ P4!InnerCode(T, L3!Unmarshal(T, buf).value, b)
    BY DEF P4!InnerReads
  <2>1. P3!Octet = P4!Octet
    BY DEF P3!Octet, P4!Octet
  <2>2. P3!Unmarshal(T, buf) = L3!Unmarshal(T, buf) /\ P3!IsType(T)
    BY Same3
  <2>3. PICK b \in Seq(P3!Octet), rest \in Seq(P3!Octet) :
          buf = b \o rest /\ P3!Code(T, P3!Unmarshal(T, buf).value, b)
    BY Level3, <2>1, <2>2 DEF P3!ReadsCode
  <2>4. P4!InnerCode(T, P3!Unmarshal(T, buf).value, b)
    BY <2>3, Same3
       DEF P3!Code, P3!Octet, P3!Took, P3!Wrote,
           P4!InnerCode, P4!Octet, P4!Took, P4!Wrote
  <2>5. QED BY <2>1, <2>2, <2>3, <2>4
<1>2. P4!InnerWrites
  BY Level3, Same3
     DEF P3!WritesCode, P3!Code, P3!Octet, P3!Took, P3!Wrote,
         P4!InnerWrites, P4!InnerCode, P4!Octet, P4!Took, P4!Wrote
<1>3. P4!InnerWords
  BY Level3, Same3 DEF P3!Words, P4!InnerWords
<1>4. P4!InnerRefuses
  BY Level3, Same3 DEF P3!Refuses, P4!InnerRefuses
<1>5. QED
  BY <1>1, <1>2, <1>3, <1>4, P4!ReadingNests, P4!WritingNests, P4!WordsNest,
     P4!RefusingNests

\* Level 5, as TpmCodec and as TpmDeriveProofs have it.
LEMMA Same5 ==
  /\ \A T : P5!IsType(T) = K5!IsType(T)
  /\ \A T, v : P5!IsValue(T, v) = K5!IsValue(T, v)
  /\ \A T, v : P5!Seen(T, v) = K5!Seen(T, v)
  /\ \A T, v : P5!Overcounted(T, v) = K5!Overcounted(T, v)
  /\ \A T, v, room : P5!Marshal(T, v, room) = L5!Marshal(T, v, room)
  /\ \A T, buf : P5!Unmarshal(T, buf) = L5!Unmarshal(T, buf)
<1>1. \A T : P5!IsType(T) = K5!IsType(T)
  BY DEF
     P5!IsType, K5!IsType, P5!Composite, K5!Composite, P5!Fields, K5!Fields,
     P5!AreFields, K5!AreFields, P5!IsField, K5!IsField, P5!Entries,
     K5!Entries, P5!Room, K5!Room
<1>2. \A T, v : P5!IsValue(T, v) = K5!IsValue(T, v)
  BY DEF
     P5!IsValue, K5!IsValue, P5!Composite, K5!Composite, P5!Fields, K5!Fields,
     P5!Refusal, K5!Refusal, P5!Overruns, K5!Overruns, P5!Resolve, K5!Resolve,
     P5!Entries, K5!Entries
<1>3. \A T, v : P5!Seen(T, v) = K5!Seen(T, v)
  BY DEF
     P5!Seen, K5!Seen, P5!Composite, K5!Composite, P5!Fields, K5!Fields,
     P5!Overruns, K5!Overruns, P5!Resolve, K5!Resolve, P5!Entries, K5!Entries
<1>4. \A T, v, room : P5!Marshal(T, v, room) = L5!Marshal(T, v, room)
  BY DEF
     P5!Marshal, L5!Marshal, P5!Writes, L5!Writes, P5!Write, L5!Write,
     P5!Wrote, L5!Wrote, P5!NotWritten, L5!NotWritten, P5!Composite,
     L5!Composite, P5!Fields, L5!Fields, P5!Overruns, L5!Overruns, P5!Resolve,
     L5!Resolve, P5!Entries, L5!Entries
<1>5. \A T, buf : P5!Unmarshal(T, buf) = L5!Unmarshal(T, buf)
  <2>1. \A F, v : P5!Overruns(F, v) = L5!Overruns(F, v)
    BY DEF P5!Overruns, L5!Overruns
  <2>2. \A F, v : P5!Resolve(F, v) = L5!Resolve(F, v)
    BY <2>1
       DEF P5!Resolve, L5!Resolve, P5!Entries, L5!Entries
  <2>3. \A F, v : P5!Refusal(F, v) = L5!Refusal(F, v)
    BY <2>1 DEF P5!Refusal, L5!Refusal
  <2>4. \A sofar, F : P5!Read(sofar, F) = L5!Read(sofar, F)
    BY <2>2, <2>3, ZenonT(30)
       DEF P5!Read, L5!Read, P5!Took, L5!Took, P5!NotTaken,
           L5!NotTaken
  <2>5. \A fields, buf : P5!Reads(fields, buf) = L5!Reads(fields, buf)
    BY <2>4 DEF P5!Reads, L5!Reads, P5!Took, L5!Took
  <2>6. \A T : P5!Fields(T) = L5!Fields(T)
    BY DEF P5!Fields, L5!Fields
  <2>7. \A T : P5!Uncounted(T) = L5!Uncounted(T)
    BY DEF P5!Uncounted, L5!Uncounted
  <2>8. QED
    BY <2>5, <2>6, <2>7, ZenonT(30)
       DEF P5!Unmarshal, L5!Unmarshal, P5!Took, L5!Took,
           P5!Composite, L5!Composite
<1>6. \A T, v : P5!Overcounted(T, v) = K5!Overcounted(T, v)
  BY DEF
     P5!Overcounted, K5!Overcounted, P5!Composite, K5!Composite, P5!Fields,
     K5!Fields, P5!Refusal, K5!Refusal, P5!Overruns, K5!Overruns,
     P5!Resolve, K5!Resolve, P5!Entries, K5!Entries
<1>7. QED BY <1>1, <1>2, <1>3, <1>4, <1>5, <1>6

LEMMA Level5 ==
  P5!ReadsCode /\ P5!WritesCode /\ P5!Words /\ P5!Refuses
<1>1. P5!InnerReads
  <2> SUFFICES ASSUME NEW T, NEW buf, K4!IsType(T), buf \in Seq(P5!Octet),
                      L4!Unmarshal(T, buf).res = "ok"
               PROVE  \E b \in Seq(P5!Octet), rest \in Seq(P5!Octet) :
                        /\ buf = b \o rest
                        /\ P5!InnerCode(T, L4!Unmarshal(T, buf).value, b)
    BY DEF P5!InnerReads
  <2>1. P4!Octet = P5!Octet
    BY DEF P4!Octet, P5!Octet
  <2>2. P4!Unmarshal(T, buf) = L4!Unmarshal(T, buf) /\ P4!IsType(T)
    BY Same4
  <2>3. PICK b \in Seq(P4!Octet), rest \in Seq(P4!Octet) :
          buf = b \o rest /\ P4!Code(T, P4!Unmarshal(T, buf).value, b)
    BY Level4, <2>1, <2>2 DEF P4!ReadsCode
  <2>4. P5!InnerCode(T, P4!Unmarshal(T, buf).value, b)
    BY <2>3, Same4
       DEF P4!Code, P4!Octet, P4!Took, P4!Wrote,
           P5!InnerCode, P5!Octet, P5!Took, P5!Wrote
  <2>5. QED BY <2>1, <2>2, <2>3, <2>4
<1>2. P5!InnerWrites
  BY Level4, Same4
     DEF P4!WritesCode, P4!Code, P4!Octet, P4!Took, P4!Wrote,
         P5!InnerWrites, P5!InnerCode, P5!Octet, P5!Took, P5!Wrote
<1>3. P5!InnerWords
  BY Level4, Same4 DEF P4!Words, P5!InnerWords
<1>4. P5!InnerRefuses
  BY Level4, Same4 DEF P4!Refuses, P5!InnerRefuses
<1>5. QED
  BY <1>1, <1>2, <1>3, <1>4, P5!ReadingNests, P5!WritingNests, P5!WordsNest,
     P5!RefusingNests

\* Level 6, as TpmCodec and as TpmDeriveProofs have it.
LEMMA Same6 ==
  /\ \A T : P6!IsType(T) = K6!IsType(T)
  /\ \A T, v : P6!IsValue(T, v) = K6!IsValue(T, v)
  /\ \A T, v : P6!Seen(T, v) = K6!Seen(T, v)
  /\ \A T, v : P6!Overcounted(T, v) = K6!Overcounted(T, v)
  /\ \A T, v, room : P6!Marshal(T, v, room) = L6!Marshal(T, v, room)
  /\ \A T, buf : P6!Unmarshal(T, buf) = L6!Unmarshal(T, buf)
<1>1. \A T : P6!IsType(T) = K6!IsType(T)
  BY DEF
     P6!IsType, K6!IsType, P6!Composite, K6!Composite, P6!Fields, K6!Fields,
     P6!AreFields, K6!AreFields, P6!IsField, K6!IsField, P6!Entries,
     K6!Entries, P6!Room, K6!Room
<1>2. \A T, v : P6!IsValue(T, v) = K6!IsValue(T, v)
  BY DEF
     P6!IsValue, K6!IsValue, P6!Composite, K6!Composite, P6!Fields, K6!Fields,
     P6!Refusal, K6!Refusal, P6!Overruns, K6!Overruns, P6!Resolve, K6!Resolve,
     P6!Entries, K6!Entries
<1>3. \A T, v : P6!Seen(T, v) = K6!Seen(T, v)
  BY DEF
     P6!Seen, K6!Seen, P6!Composite, K6!Composite, P6!Fields, K6!Fields,
     P6!Overruns, K6!Overruns, P6!Resolve, K6!Resolve, P6!Entries, K6!Entries
<1>4. \A T, v, room : P6!Marshal(T, v, room) = L6!Marshal(T, v, room)
  BY DEF
     P6!Marshal, L6!Marshal, P6!Writes, L6!Writes, P6!Write, L6!Write,
     P6!Wrote, L6!Wrote, P6!NotWritten, L6!NotWritten, P6!Composite,
     L6!Composite, P6!Fields, L6!Fields, P6!Overruns, L6!Overruns, P6!Resolve,
     L6!Resolve, P6!Entries, L6!Entries
<1>5. \A T, buf : P6!Unmarshal(T, buf) = L6!Unmarshal(T, buf)
  <2>1. \A F, v : P6!Overruns(F, v) = L6!Overruns(F, v)
    BY DEF P6!Overruns, L6!Overruns
  <2>2. \A F, v : P6!Resolve(F, v) = L6!Resolve(F, v)
    BY <2>1
       DEF P6!Resolve, L6!Resolve, P6!Entries, L6!Entries
  <2>3. \A F, v : P6!Refusal(F, v) = L6!Refusal(F, v)
    BY <2>1 DEF P6!Refusal, L6!Refusal
  <2>4. \A sofar, F : P6!Read(sofar, F) = L6!Read(sofar, F)
    BY <2>2, <2>3, ZenonT(30)
       DEF P6!Read, L6!Read, P6!Took, L6!Took, P6!NotTaken,
           L6!NotTaken
  <2>5. \A fields, buf : P6!Reads(fields, buf) = L6!Reads(fields, buf)
    BY <2>4 DEF P6!Reads, L6!Reads, P6!Took, L6!Took
  <2>6. \A T : P6!Fields(T) = L6!Fields(T)
    BY DEF P6!Fields, L6!Fields
  <2>7. \A T : P6!Uncounted(T) = L6!Uncounted(T)
    BY DEF P6!Uncounted, L6!Uncounted
  <2>8. QED
    BY <2>5, <2>6, <2>7, ZenonT(30)
       DEF P6!Unmarshal, L6!Unmarshal, P6!Took, L6!Took,
           P6!Composite, L6!Composite
<1>6. \A T, v : P6!Overcounted(T, v) = K6!Overcounted(T, v)
  BY DEF
     P6!Overcounted, K6!Overcounted, P6!Composite, K6!Composite, P6!Fields,
     K6!Fields, P6!Refusal, K6!Refusal, P6!Overruns, K6!Overruns,
     P6!Resolve, K6!Resolve, P6!Entries, K6!Entries
<1>7. QED BY <1>1, <1>2, <1>3, <1>4, <1>5, <1>6

LEMMA Level6 ==
  P6!ReadsCode /\ P6!WritesCode /\ P6!Words /\ P6!Refuses
<1>1. P6!InnerReads
  <2> SUFFICES ASSUME NEW T, NEW buf, K5!IsType(T), buf \in Seq(P6!Octet),
                      L5!Unmarshal(T, buf).res = "ok"
               PROVE  \E b \in Seq(P6!Octet), rest \in Seq(P6!Octet) :
                        /\ buf = b \o rest
                        /\ P6!InnerCode(T, L5!Unmarshal(T, buf).value, b)
    BY DEF P6!InnerReads
  <2>1. P5!Octet = P6!Octet
    BY DEF P5!Octet, P6!Octet
  <2>2. P5!Unmarshal(T, buf) = L5!Unmarshal(T, buf) /\ P5!IsType(T)
    BY Same5
  <2>3. PICK b \in Seq(P5!Octet), rest \in Seq(P5!Octet) :
          buf = b \o rest /\ P5!Code(T, P5!Unmarshal(T, buf).value, b)
    BY Level5, <2>1, <2>2 DEF P5!ReadsCode
  <2>4. P6!InnerCode(T, P5!Unmarshal(T, buf).value, b)
    BY <2>3, Same5
       DEF P5!Code, P5!Octet, P5!Took, P5!Wrote,
           P6!InnerCode, P6!Octet, P6!Took, P6!Wrote
  <2>5. QED BY <2>1, <2>2, <2>3, <2>4
<1>2. P6!InnerWrites
  BY Level5, Same5
     DEF P5!WritesCode, P5!Code, P5!Octet, P5!Took, P5!Wrote,
         P6!InnerWrites, P6!InnerCode, P6!Octet, P6!Took, P6!Wrote
<1>3. P6!InnerWords
  BY Level5, Same5 DEF P5!Words, P6!InnerWords
<1>4. P6!InnerRefuses
  BY Level5, Same5 DEF P5!Refuses, P6!InnerRefuses
<1>5. QED
  BY <1>1, <1>2, <1>3, <1>4, P6!ReadingNests, P6!WritingNests, P6!WordsNest,
     P6!RefusingNests

\* Level 7, as TpmCodec and as TpmDeriveProofs have it.
LEMMA Same7 ==
  /\ \A T : P7!IsType(T) = K7!IsType(T)
  /\ \A T, v : P7!IsValue(T, v) = K7!IsValue(T, v)
  /\ \A T, v : P7!Seen(T, v) = K7!Seen(T, v)
  /\ \A T, v : P7!Overcounted(T, v) = K7!Overcounted(T, v)
  /\ \A T, v, room : P7!Marshal(T, v, room) = L7!Marshal(T, v, room)
  /\ \A T, buf : P7!Unmarshal(T, buf) = L7!Unmarshal(T, buf)
<1>1. \A T : P7!IsType(T) = K7!IsType(T)
  BY DEF
     P7!IsType, K7!IsType, P7!Composite, K7!Composite, P7!Fields, K7!Fields,
     P7!AreFields, K7!AreFields, P7!IsField, K7!IsField, P7!Entries,
     K7!Entries, P7!Room, K7!Room
<1>2. \A T, v : P7!IsValue(T, v) = K7!IsValue(T, v)
  BY DEF
     P7!IsValue, K7!IsValue, P7!Composite, K7!Composite, P7!Fields, K7!Fields,
     P7!Refusal, K7!Refusal, P7!Overruns, K7!Overruns, P7!Resolve, K7!Resolve,
     P7!Entries, K7!Entries
<1>3. \A T, v : P7!Seen(T, v) = K7!Seen(T, v)
  BY DEF
     P7!Seen, K7!Seen, P7!Composite, K7!Composite, P7!Fields, K7!Fields,
     P7!Overruns, K7!Overruns, P7!Resolve, K7!Resolve, P7!Entries, K7!Entries
<1>4. \A T, v, room : P7!Marshal(T, v, room) = L7!Marshal(T, v, room)
  BY DEF
     P7!Marshal, L7!Marshal, P7!Writes, L7!Writes, P7!Write, L7!Write,
     P7!Wrote, L7!Wrote, P7!NotWritten, L7!NotWritten, P7!Composite,
     L7!Composite, P7!Fields, L7!Fields, P7!Overruns, L7!Overruns, P7!Resolve,
     L7!Resolve, P7!Entries, L7!Entries
<1>5. \A T, buf : P7!Unmarshal(T, buf) = L7!Unmarshal(T, buf)
  <2>1. \A F, v : P7!Overruns(F, v) = L7!Overruns(F, v)
    BY DEF P7!Overruns, L7!Overruns
  <2>2. \A F, v : P7!Resolve(F, v) = L7!Resolve(F, v)
    BY <2>1
       DEF P7!Resolve, L7!Resolve, P7!Entries, L7!Entries
  <2>3. \A F, v : P7!Refusal(F, v) = L7!Refusal(F, v)
    BY <2>1 DEF P7!Refusal, L7!Refusal
  <2>4. \A sofar, F : P7!Read(sofar, F) = L7!Read(sofar, F)
    BY <2>2, <2>3, ZenonT(30)
       DEF P7!Read, L7!Read, P7!Took, L7!Took, P7!NotTaken,
           L7!NotTaken
  <2>5. \A fields, buf : P7!Reads(fields, buf) = L7!Reads(fields, buf)
    BY <2>4 DEF P7!Reads, L7!Reads, P7!Took, L7!Took
  <2>6. \A T : P7!Fields(T) = L7!Fields(T)
    BY DEF P7!Fields, L7!Fields
  <2>7. \A T : P7!Uncounted(T) = L7!Uncounted(T)
    BY DEF P7!Uncounted, L7!Uncounted
  <2>8. QED
    BY <2>5, <2>6, <2>7, ZenonT(30)
       DEF P7!Unmarshal, L7!Unmarshal, P7!Took, L7!Took,
           P7!Composite, L7!Composite
<1>6. \A T, v : P7!Overcounted(T, v) = K7!Overcounted(T, v)
  BY DEF
     P7!Overcounted, K7!Overcounted, P7!Composite, K7!Composite, P7!Fields,
     K7!Fields, P7!Refusal, K7!Refusal, P7!Overruns, K7!Overruns,
     P7!Resolve, K7!Resolve, P7!Entries, K7!Entries
<1>7. QED BY <1>1, <1>2, <1>3, <1>4, <1>5, <1>6

LEMMA Level7 ==
  P7!ReadsCode /\ P7!WritesCode /\ P7!Words /\ P7!Refuses
<1>1. P7!InnerReads
  <2> SUFFICES ASSUME NEW T, NEW buf, K6!IsType(T), buf \in Seq(P7!Octet),
                      L6!Unmarshal(T, buf).res = "ok"
               PROVE  \E b \in Seq(P7!Octet), rest \in Seq(P7!Octet) :
                        /\ buf = b \o rest
                        /\ P7!InnerCode(T, L6!Unmarshal(T, buf).value, b)
    BY DEF P7!InnerReads
  <2>1. P6!Octet = P7!Octet
    BY DEF P6!Octet, P7!Octet
  <2>2. P6!Unmarshal(T, buf) = L6!Unmarshal(T, buf) /\ P6!IsType(T)
    BY Same6
  <2>3. PICK b \in Seq(P6!Octet), rest \in Seq(P6!Octet) :
          buf = b \o rest /\ P6!Code(T, P6!Unmarshal(T, buf).value, b)
    BY Level6, <2>1, <2>2 DEF P6!ReadsCode
  <2>4. P7!InnerCode(T, P6!Unmarshal(T, buf).value, b)
    BY <2>3, Same6
       DEF P6!Code, P6!Octet, P6!Took, P6!Wrote,
           P7!InnerCode, P7!Octet, P7!Took, P7!Wrote
  <2>5. QED BY <2>1, <2>2, <2>3, <2>4
<1>2. P7!InnerWrites
  BY Level6, Same6
     DEF P6!WritesCode, P6!Code, P6!Octet, P6!Took, P6!Wrote,
         P7!InnerWrites, P7!InnerCode, P7!Octet, P7!Took, P7!Wrote
<1>3. P7!InnerWords
  BY Level6, Same6 DEF P6!Words, P7!InnerWords
<1>4. P7!InnerRefuses
  BY Level6, Same6 DEF P6!Refuses, P7!InnerRefuses
<1>5. QED
  BY <1>1, <1>2, <1>3, <1>4, P7!ReadingNests, P7!WritingNests, P7!WordsNest,
     P7!RefusingNests

\* Level 8, as TpmCodec and as TpmDeriveProofs have it.
LEMMA Same8 ==
  /\ \A T : P8!IsType(T) = K8!IsType(T)
  /\ \A T, v : P8!IsValue(T, v) = K8!IsValue(T, v)
  /\ \A T, v : P8!Seen(T, v) = K8!Seen(T, v)
  /\ \A T, v : P8!Overcounted(T, v) = K8!Overcounted(T, v)
  /\ \A T, v, room : P8!Marshal(T, v, room) = L8!Marshal(T, v, room)
  /\ \A T, buf : P8!Unmarshal(T, buf) = L8!Unmarshal(T, buf)
<1>1. \A T : P8!IsType(T) = K8!IsType(T)
  BY DEF
     P8!IsType, K8!IsType, P8!Composite, K8!Composite, P8!Fields, K8!Fields,
     P8!AreFields, K8!AreFields, P8!IsField, K8!IsField, P8!Entries,
     K8!Entries, P8!Room, K8!Room
<1>2. \A T, v : P8!IsValue(T, v) = K8!IsValue(T, v)
  BY DEF
     P8!IsValue, K8!IsValue, P8!Composite, K8!Composite, P8!Fields, K8!Fields,
     P8!Refusal, K8!Refusal, P8!Overruns, K8!Overruns, P8!Resolve, K8!Resolve,
     P8!Entries, K8!Entries
<1>3. \A T, v : P8!Seen(T, v) = K8!Seen(T, v)
  BY DEF
     P8!Seen, K8!Seen, P8!Composite, K8!Composite, P8!Fields, K8!Fields,
     P8!Overruns, K8!Overruns, P8!Resolve, K8!Resolve, P8!Entries, K8!Entries
<1>4. \A T, v, room : P8!Marshal(T, v, room) = L8!Marshal(T, v, room)
  BY DEF
     P8!Marshal, L8!Marshal, P8!Writes, L8!Writes, P8!Write, L8!Write,
     P8!Wrote, L8!Wrote, P8!NotWritten, L8!NotWritten, P8!Composite,
     L8!Composite, P8!Fields, L8!Fields, P8!Overruns, L8!Overruns, P8!Resolve,
     L8!Resolve, P8!Entries, L8!Entries
<1>5. \A T, buf : P8!Unmarshal(T, buf) = L8!Unmarshal(T, buf)
  <2>1. \A F, v : P8!Overruns(F, v) = L8!Overruns(F, v)
    BY DEF P8!Overruns, L8!Overruns
  <2>2. \A F, v : P8!Resolve(F, v) = L8!Resolve(F, v)
    BY <2>1
       DEF P8!Resolve, L8!Resolve, P8!Entries, L8!Entries
  <2>3. \A F, v : P8!Refusal(F, v) = L8!Refusal(F, v)
    BY <2>1 DEF P8!Refusal, L8!Refusal
  <2>4. \A sofar, F : P8!Read(sofar, F) = L8!Read(sofar, F)
    BY <2>2, <2>3, ZenonT(30)
       DEF P8!Read, L8!Read, P8!Took, L8!Took, P8!NotTaken,
           L8!NotTaken
  <2>5. \A fields, buf : P8!Reads(fields, buf) = L8!Reads(fields, buf)
    BY <2>4 DEF P8!Reads, L8!Reads, P8!Took, L8!Took
  <2>6. \A T : P8!Fields(T) = L8!Fields(T)
    BY DEF P8!Fields, L8!Fields
  <2>7. \A T : P8!Uncounted(T) = L8!Uncounted(T)
    BY DEF P8!Uncounted, L8!Uncounted
  <2>8. QED
    BY <2>5, <2>6, <2>7, ZenonT(30)
       DEF P8!Unmarshal, L8!Unmarshal, P8!Took, L8!Took,
           P8!Composite, L8!Composite
<1>6. \A T, v : P8!Overcounted(T, v) = K8!Overcounted(T, v)
  BY DEF
     P8!Overcounted, K8!Overcounted, P8!Composite, K8!Composite, P8!Fields,
     K8!Fields, P8!Refusal, K8!Refusal, P8!Overruns, K8!Overruns,
     P8!Resolve, K8!Resolve, P8!Entries, K8!Entries
<1>7. QED BY <1>1, <1>2, <1>3, <1>4, <1>5, <1>6

LEMMA Level8 ==
  P8!ReadsCode /\ P8!WritesCode /\ P8!Words /\ P8!Refuses
<1>1. P8!InnerReads
  <2> SUFFICES ASSUME NEW T, NEW buf, K7!IsType(T), buf \in Seq(P8!Octet),
                      L7!Unmarshal(T, buf).res = "ok"
               PROVE  \E b \in Seq(P8!Octet), rest \in Seq(P8!Octet) :
                        /\ buf = b \o rest
                        /\ P8!InnerCode(T, L7!Unmarshal(T, buf).value, b)
    BY DEF P8!InnerReads
  <2>1. P7!Octet = P8!Octet
    BY DEF P7!Octet, P8!Octet
  <2>2. P7!Unmarshal(T, buf) = L7!Unmarshal(T, buf) /\ P7!IsType(T)
    BY Same7
  <2>3. PICK b \in Seq(P7!Octet), rest \in Seq(P7!Octet) :
          buf = b \o rest /\ P7!Code(T, P7!Unmarshal(T, buf).value, b)
    BY Level7, <2>1, <2>2 DEF P7!ReadsCode
  <2>4. P8!InnerCode(T, P7!Unmarshal(T, buf).value, b)
    BY <2>3, Same7
       DEF P7!Code, P7!Octet, P7!Took, P7!Wrote,
           P8!InnerCode, P8!Octet, P8!Took, P8!Wrote
  <2>5. QED BY <2>1, <2>2, <2>3, <2>4
<1>2. P8!InnerWrites
  BY Level7, Same7
     DEF P7!WritesCode, P7!Code, P7!Octet, P7!Took, P7!Wrote,
         P8!InnerWrites, P8!InnerCode, P8!Octet, P8!Took, P8!Wrote
<1>3. P8!InnerWords
  BY Level7, Same7 DEF P7!Words, P8!InnerWords
<1>4. P8!InnerRefuses
  BY Level7, Same7 DEF P7!Refuses, P8!InnerRefuses
<1>5. QED
  BY <1>1, <1>2, <1>3, <1>4, P8!ReadingNests, P8!WritingNests, P8!WordsNest,
     P8!RefusingNests
-----------------------------------------------------------------------------
(* The types of the protocol, which are among those of level 8.            *)

\* b is what v is on the wire.
IsCode(T, v, b) ==
  /\ b \in Seq(Octet)
  /\ \A more \in Seq(Octet) : Unmarshal(T, b \o more) = Took(v, more)
  /\ \A n \in 0 .. Len(b) - 1 : Unmarshal(T, SubSeq(b, 1, n)).res = "memory"
  /\ \A room \in Nat : Len(b) <= room => Marshal(T, v, room) = Wrote(b)

\* v is marshaled to b wherever b fits.
Fits(T, v, b) ==
  \A room \in Nat : IF Len(b) <= room THEN Marshal(T, v, room) = Wrote(b)
                                      ELSE Marshal(T, v, room).res # "ok"

LEMMA TopCode ==
  ASSUME NEW T, NEW v, NEW b
  PROVE  P8!Code(T, v, b) <=> IsCode(T, v, b)
BY Same8
   DEF P8!Code, P8!Octet, P8!Took, P8!Wrote, IsCode, Octet, Took, Wrote,
       Marshal, Unmarshal

\* The bytes that try_unmarshal accepts are those of the value that it returns:
\* what is read determines what was read, and no more of the buffer is taken.
THEOREM WhatIsReadIsWritten ==
  \A T, buf :
    K8!IsType(T) /\ buf \in Seq(Octet) /\ Unmarshal(T, buf).res = "ok" =>
      \E b \in Seq(Octet), rest \in Seq(Octet) :
        buf = b \o rest /\ IsCode(T, Unmarshal(T, buf).value, b)
<1> SUFFICES ASSUME NEW T, NEW buf \in Seq(Octet), K8!IsType(T),
                    Unmarshal(T, buf).res = "ok"
             PROVE  \E b \in Seq(Octet), rest \in Seq(Octet) :
                      buf = b \o rest /\ IsCode(T, Unmarshal(T, buf).value, b)
  OBVIOUS
<1>1. P8!Octet = Octet
  BY DEF P8!Octet, Octet
<1>2. P8!Unmarshal(T, buf) = Unmarshal(T, buf) /\ P8!IsType(T)
  BY Same8 DEF Unmarshal
<1>3. PICK b \in Seq(P8!Octet), rest \in Seq(P8!Octet) :
        buf = b \o rest /\ P8!Code(T, P8!Unmarshal(T, buf).value, b)
  BY Level8, <1>1, <1>2 DEF P8!ReadsCode
<1>4. IsCode(T, Unmarshal(T, buf).value, b)
  BY <1>2, <1>3, TopCode
<1>5. QED BY <1>1, <1>3, <1>4

\* A value whose counts stay within their arrays, wherever in it they are, has one
\* form on the wire, which is no longer than the value is in memory; try_marshal
\* writes it wherever it fits, and what is read from it shows no other entries
\* than the value did.
THEOREM WhatIsWrittenIsRead ==
  \A T, v :
    K8!IsType(T) /\ K8!IsValue(T, v) =>
      \E w, b : /\ IsCode(T, w, b) /\ Len(b) <= T.size
                /\ K8!Seen(T, w) = K8!Seen(T, v)
                /\ Fits(T, v, b)
<1> SUFFICES ASSUME NEW T, NEW v, K8!IsType(T), K8!IsValue(T, v)
             PROVE  \E w, b : /\ IsCode(T, w, b) /\ Len(b) <= T.size
                              /\ K8!Seen(T, w) = K8!Seen(T, v)
                              /\ Fits(T, v, b)
  OBVIOUS
<1>1. P8!IsType(T) /\ P8!IsValue(T, v)
  BY Same8
<1>2. PICK w, b :
        /\ P8!Code(T, w, b) /\ Len(b) <= T.size
        /\ P8!Seen(T, w) = P8!Seen(T, v)
        /\ \A room \in Nat :
             IF Len(b) <= room THEN P8!Marshal(T, v, room) = P8!Wrote(b)
                               ELSE P8!Marshal(T, v, room).res # "ok"
  BY Level8, <1>1 DEF P8!WritesCode
<1>3. IsCode(T, w, b)
  BY <1>2, TopCode
<1>4. K8!Seen(T, w) = K8!Seen(T, v)
  BY <1>2, Same8
<1>5. Fits(T, v, b)
  BY <1>2, Same8 DEF Fits, Marshal, Wrote, P8!Wrote
<1>6. QED BY <1>2, <1>3, <1>4, <1>5

\* The other values, that a count with a public field may make: try_marshal never
\* writes them, not even a part that it calls the whole, however long the buffer.
THEOREM WhatIsOvercountedIsRefused ==
  \A T, v, room :
    K8!IsType(T) /\ K8!Overcounted(T, v) => Marshal(T, v, room).res # "ok"
BY Level8, Same8 DEF P8!Refuses, Marshal

\* What a value takes up in memory is a number.
LEMMA TopSize == \A T : K8!IsType(T) => T.size \in Nat
<1>0. \A T : LeafIsType(T) => T.size \in Nat
  BY DEF LeafIsType
<1>1. \A T : K1!IsType(T) => T.size \in Nat
  BY <1>0 DEF K1!IsType
<1>2. \A T : K2!IsType(T) => T.size \in Nat
  BY <1>1 DEF K2!IsType
<1>3. \A T : K3!IsType(T) => T.size \in Nat
  BY <1>2 DEF K3!IsType
<1>4. \A T : K4!IsType(T) => T.size \in Nat
  BY <1>3 DEF K4!IsType
<1>5. \A T : K5!IsType(T) => T.size \in Nat
  BY <1>4 DEF K5!IsType
<1>6. \A T : K6!IsType(T) => T.size \in Nat
  BY <1>5 DEF K6!IsType
<1>7. \A T : K7!IsType(T) => T.size \in Nat
  BY <1>6 DEF K7!IsType
<1>8. \A T : K8!IsType(T) => T.size \in Nat
  BY <1>7 DEF K8!IsType
<1>9. QED BY <1>8
-----------------------------------------------------------------------------
(* The protocol.                                                           *)

\* b is on the wire for the value that is sent.
Sent(w, b) ==
  /\ IsCode(Types[name], w, b) /\ Len(b) <= Types[name].size
  /\ Same(w, value) /\ Fits(Types[name], value, b)

\* What is known of the wire before it is read.
WireInv ==
  /\ name \in DOMAIN Types /\ value \in Values[name]
  /\ step = "start" => damage = "none"
  /\ step \in {"sent", "read", "written"} => ~K8!Overcounted(Types[name], value)
  /\ step = "refused" => K8!Overcounted(Types[name], value)
  /\ step = "sent" =>
       /\ wire \in Seq(Octet)
       /\ \E w, b : /\ Sent(w, b)
                    /\ damage = "none" => wire = b
                    /\ damage = "cut" =>
                         \E n \in 0 .. Len(b) - 1 : wire = SubSeq(b, 1, n)
\* What is read is what the wire has.
ReadInv ==
  step = "read" => wire \in Seq(Octet) /\ got = Unmarshal(Types[name], wire)

CodecInv ==
  /\ WireInv /\ ReadInv
  /\ ArrivesIntact /\ CutIsNoticed /\ HolderHolds /\ ReadsBackTheSame

\* Steps differ.
LEMMA Steps ==
  /\ "start" # "sent" /\ "start" # "read" /\ "start" # "held" /\ "start" # "written"
  /\ "start" # "refused" /\ "sent" # "refused" /\ "read" # "refused"
  /\ "held" # "refused" /\ "written" # "refused"
  /\ "sent" # "read" /\ "sent" # "held" /\ "sent" # "written"
  /\ "read" # "held" /\ "read" # "written" /\ "held" # "written"
  /\ "none" # "cut" /\ "none" # "changed" /\ "cut" # "changed"
OBVIOUS

\* What the protocol is given, and what try_marshal comes to in a buffer as long
\* as the value is in memory.
LEMMA OfTypes ==
  ASSUME name \in DOMAIN Types, value \in Values[name]
  PROVE  /\ K8!IsType(Types[name])
         /\ IF K8!Overcounted(Types[name], value)
            THEN Marshal(Types[name], value, Types[name].size).res # "ok"
            ELSE \E w, b : /\ Sent(w, b)
                           /\ Marshal(Types[name], value, Types[name].size) = Wrote(b)
<1> DEFINE T == Types[name]
<1>1. /\ K8!IsType(T) /\ T.size \in Nat
      /\ K8!IsValue(T, value) \/ K8!Overcounted(T, value)
  BY TypesAssumption, TopSize
<1>2. CASE K8!Overcounted(T, value)
  BY <1>1, <1>2, WhatIsOvercountedIsRefused
<1>3. CASE ~K8!Overcounted(T, value)
  <2>1. PICK w, b : Sent(w, b)
    BY <1>1, <1>3, WhatIsWrittenIsRead DEF Sent, Same
  <2>2. Marshal(T, value, T.size) = Wrote(b)
    BY <1>1, <2>1 DEF Sent, Fits
  <2>3. QED BY <1>1, <1>3, <2>1, <2>2
<1>4. QED BY <1>2, <1>3

LEMMA WroteParts == \A b : Wrote(b).res = "ok" /\ Wrote(b).bytes = b
BY DEF Wrote

LEMMA CodecInit == Init => CodecInv
BY Steps DEF Init, CodecInv, WireInv, ReadInv, ArrivesIntact, CutIsNoticed,
             HolderHolds, ReadsBackTheSame

LEMMA MarshalValueStep == CodecInv /\ MarshalValue => CodecInv'
<1> SUFFICES ASSUME CodecInv, MarshalValue
             PROVE  CodecInv'
  OBVIOUS
<1> DEFINE out == Marshal(Types[name], value, Types[name].size)
<1>1. /\ step = "start" /\ damage = "none" /\ damage' = "none"
      /\ UNCHANGED <<name, value>>
      /\ name \in DOMAIN Types /\ value \in Values[name]
  BY DEF CodecInv, WireInv, MarshalValue
<1>2. wire' = out.bytes /\ step' = IF out.res = "ok" THEN "sent" ELSE "refused"
  BY DEF MarshalValue
<1> HIDE DEF out
<1>3. CASE K8!Overcounted(Types[name], value)
  <2>1. step' = "refused"
    BY <1>1, <1>2, <1>3, OfTypes DEF out
  <2>2. WireInv'
    BY <1>1, <1>3, <2>1, Steps DEF WireInv
  <2>3. QED BY <1>3, <1>1, <2>1, <2>2, Steps
            DEF CodecInv, ReadInv, ArrivesIntact, CutIsNoticed, HolderHolds,
                ReadsBackTheSame
<1>4. CASE ~K8!Overcounted(Types[name], value)
  <2>1. PICK w, b : Sent(w, b) /\ out = Wrote(b)
    BY <1>1, <1>4, OfTypes DEF out
  <2>2. wire' = b /\ step' = "sent" /\ b \in Seq(Octet)
    BY <1>2, <2>1, WroteParts DEF Sent, IsCode
  <2>3. Sent(w, b)'
    BY <1>1, <2>1 DEF Sent, Same
  <2>4. WireInv'
    BY <1>1, <1>4, <2>2, <2>3, Steps DEF WireInv
  <2>5. QED BY <1>1, <2>2, <2>4, Steps
            DEF CodecInv, ReadInv, ArrivesIntact, CutIsNoticed, HolderHolds,
                ReadsBackTheSame
<1>5. QED BY <1>3, <1>4

LEMMA CutStep == CodecInv /\ Cut => CodecInv'
<1> SUFFICES ASSUME CodecInv, Cut
             PROVE  CodecInv'
  OBVIOUS
<1>1. /\ step = "sent" /\ damage = "none" /\ damage' = "cut"
      /\ UNCHANGED <<step, name, value>>
      /\ name \in DOMAIN Types /\ value \in Values[name]
      /\ ~K8!Overcounted(Types[name], value)
  BY DEF CodecInv, WireInv, Cut
<1>2. PICK w, b : Sent(w, b) /\ wire = b
  BY <1>1 DEF CodecInv, WireInv
<1>3. PICK n \in 0 .. Len(b) - 1 : wire' = SubSeq(b, 1, n)
  BY <1>2 DEF Cut
<1>4. wire' \in Seq(Octet)
  <2>1. b \in Seq(Octet)
    BY <1>2 DEF Sent, IsCode
  <2>2. QED BY <1>3, <2>1, ShortBuffer
<1>5. Sent(w, b)'
  BY <1>1, <1>2 DEF Sent, Same
<1>6. WireInv'
  BY <1>1, <1>3, <1>4, <1>5, Steps DEF WireInv
<1>7. QED BY <1>1, <1>6, Steps
          DEF CodecInv, ReadInv, ArrivesIntact, CutIsNoticed, HolderHolds,
              ReadsBackTheSame

LEMMA ChangeStep == CodecInv /\ Change => CodecInv'
<1> SUFFICES ASSUME CodecInv, Change
             PROVE  CodecInv'
  OBVIOUS
<1>1. /\ step = "sent" /\ damage' = "changed"
      /\ UNCHANGED <<step, name, value>>
      /\ name \in DOMAIN Types /\ value \in Values[name]
      /\ ~K8!Overcounted(Types[name], value)
  BY DEF CodecInv, WireInv, Change
<1>2. wire \in Seq(Octet) /\ \E w, b : Sent(w, b)
  BY <1>1 DEF CodecInv, WireInv
<1>3. PICK i \in DOMAIN wire, c \in NewBytes : wire' = [wire EXCEPT ![i] = c]
  BY DEF Change
<1>4. wire' \in Seq(Octet)
  <2>1. c \in Octet
    BY NewBytesAssumption
  <2>2. QED BY <1>2, <1>3, <2>1
<1>5. \E w, b : Sent(w, b)'
  BY <1>1, <1>2 DEF Sent, Same
<1>6. WireInv'
  BY <1>1, <1>4, <1>5, Steps DEF WireInv
<1>7. QED BY <1>1, <1>6, Steps
          DEF CodecInv, ReadInv, ArrivesIntact, CutIsNoticed, HolderHolds,
              ReadsBackTheSame

LEMMA JunkIs == <<>> \in Seq(Octet) /\ Junk \in Seq(Octet)
<1>1. 0 \in Octet /\ 1 \in Octet
  BY DEF Octet
<1>2. <<0, 1>> \in Seq(Octet)
  BY <1>1
<1>3. QED BY <1>2 DEF Junk

LEMMA UnmarshalWireStep == CodecInv /\ UnmarshalWire => CodecInv'
<1> SUFFICES ASSUME CodecInv, UnmarshalWire
             PROVE  CodecInv'
  OBVIOUS
<1>1. /\ step = "sent" /\ step' = "read"
      /\ UNCHANGED <<name, value, damage>>
      /\ name \in DOMAIN Types /\ value \in Values[name]
      /\ ~K8!Overcounted(Types[name], value)
  BY DEF CodecInv, WireInv, UnmarshalWire
<1>2. PICK w, b : /\ Sent(w, b)
                  /\ damage = "none" => wire = b
                  /\ damage = "cut" =>
                       \E n \in 0 .. Len(b) - 1 : wire = SubSeq(b, 1, n)
  BY <1>1 DEF CodecInv, WireInv
<1>3. wire \in Seq(Octet)
  BY <1>1 DEF CodecInv, WireInv
<1>4. PICK junk \in (IF damage = "cut" THEN {<<>>} ELSE {<<>>, Junk}) :
        wire' = wire \o junk /\ got' = Unmarshal(Types[name], wire')
  BY DEF UnmarshalWire
<1>5. junk \in Seq(Octet) /\ wire' \in Seq(Octet)
  <2>1. junk \in Seq(Octet)
    BY <1>4, JunkIs
  <2>2. QED BY <1>3, <1>4, <2>1, ConcatParts
<1>6. ReadInv'
  BY <1>1, <1>4, <1>5 DEF ReadInv
<1>7. ASSUME damage = "none"
      PROVE  /\ got'.res = "ok" /\ Same(got'.value, value)
             /\ got'.rest \in {<<>>, Junk}
  <2>1. wire' = b \o junk /\ junk \in {<<>>, Junk}
    BY <1>2, <1>4, <1>7, Steps
  <2>2. got' = Took(w, junk)
    BY <1>2, <1>4, <1>5, <2>1 DEF Sent, IsCode
  <2>3. got'.res = "ok" /\ got'.value = w /\ got'.rest = junk
    BY <2>2, LeafTookParts
  <2>4. QED BY <1>2, <2>1, <2>3 DEF Sent
<1>8. ASSUME damage = "cut"
      PROVE  got'.res = "memory"
  <2>1. PICK n \in 0 .. Len(b) - 1 : wire = SubSeq(b, 1, n)
    BY <1>2, <1>8
  <2>2. wire' = wire
    <3>1. junk = <<>>
      BY <1>4, <1>8
    <3>2. QED BY <1>3, <1>4, <3>1
  <2>3. Unmarshal(Types[name], SubSeq(b, 1, n)).res = "memory"
    BY <1>2 DEF Sent, IsCode
  <2>4. QED BY <1>4, <2>1, <2>2, <2>3
<1>9. ArrivesIntact'
  BY <1>1, <1>7 DEF ArrivesIntact, Same
<1>10. CutIsNoticed'
  BY <1>1, <1>8 DEF CutIsNoticed
<1>11. WireInv'
  BY <1>1, Steps DEF WireInv
<1>12. QED BY <1>1, <1>6, <1>9, <1>10, <1>11, Steps
           DEF CodecInv, HolderHolds, ReadsBackTheSame

LEMMA ThroughHolderStep == CodecInv /\ ThroughHolder => CodecInv'
<1> SUFFICES ASSUME CodecInv, ThroughHolder
             PROVE  CodecInv'
  OBVIOUS
<1> DEFINE T == Types[name]
           out == Marshal(T, value, T.size)
<1>1. /\ step = "start" /\ step' = "held"
      /\ UNCHANGED <<name, value>>
      /\ name \in DOMAIN Types /\ value \in Values[name]
  BY DEF CodecInv, WireInv, ThroughHolder
<1>2. got' = IF out.res = "ok" THEN Unmarshal(T, out.bytes) ELSE NotTaken(out.res)
  BY DEF ThroughHolder, FromStruct, ToStruct
<1>3. ASSUME K8!Overcounted(T, value)
      PROVE  got'.res # "ok"
  <2>1. out.res # "ok"
    BY <1>1, <1>3, OfTypes
  <2>2. QED BY <1>2, <2>1 DEF NotTaken
<1>4. ASSUME ~K8!Overcounted(T, value)
      PROVE  got'.res = "ok" /\ Same(got'.value, value) /\ got'.rest = <<>>
  <2>1. PICK w, b : Sent(w, b) /\ out = Wrote(b)
    BY <1>1, <1>4, OfTypes
  <2>2. got' = Unmarshal(T, b)
    BY <1>2, <2>1, WroteParts
  <2>3. Unmarshal(T, b) = Took(w, <<>>)
    <3>1. b \in Seq(Octet) /\ Unmarshal(T, b \o <<>>) = Took(w, <<>>)
      BY <2>1, JunkIs DEF Sent, IsCode
    <3>2. b \o <<>> = b
      BY <3>1
    <3>3. QED BY <3>1, <3>2
  <2>4. got'.res = "ok" /\ got'.value = w /\ got'.rest = <<>>
    BY <2>2, <2>3, LeafTookParts
  <2>5. QED BY <2>1, <2>4 DEF Sent
<1>5. HolderHolds'
  BY <1>1, <1>3, <1>4 DEF HolderHolds, Same
<1>6. WireInv'
  BY <1>1, Steps DEF WireInv
<1>7. QED BY <1>1, <1>5, <1>6, Steps
          DEF CodecInv, ReadInv, ArrivesIntact, CutIsNoticed, ReadsBackTheSame

LEMMA MarshalAgainStep == CodecInv /\ MarshalAgain => CodecInv'
<1> SUFFICES ASSUME CodecInv, MarshalAgain
             PROVE  CodecInv'
  OBVIOUS
<1> DEFINE T == Types[name]
<1>1. /\ step = "read" /\ step' = "written" /\ got.res = "ok"
      /\ UNCHANGED <<name, value, wire, damage, got>>
      /\ again' = Marshal(T, got.value, Len(wire) - Len(got.rest))
      /\ name \in DOMAIN Types /\ value \in Values[name]
      /\ ~K8!Overcounted(Types[name], value)
  BY DEF CodecInv, WireInv, MarshalAgain
<1>2. wire \in Seq(Octet) /\ got = Unmarshal(T, wire)
  BY <1>1 DEF CodecInv, ReadInv
<1>3. K8!IsType(T)
  BY <1>1, OfTypes
<1>4. PICK b \in Seq(Octet), rest \in Seq(Octet) :
        wire = b \o rest /\ IsCode(T, got.value, b)
  BY <1>1, <1>2, <1>3, WhatIsReadIsWritten
<1>5. got.rest = rest
  <2>1. got = Took(got.value, rest)
    BY <1>2, <1>4 DEF IsCode
  <2>2. QED BY <2>1, LeafTookParts
<1>6. Len(wire) - Len(got.rest) = Len(b) /\ Len(b) \in Nat
  <2>1. Len(wire) = Len(b) + Len(rest) /\ Len(b) \in Nat /\ Len(rest) \in Nat
    BY <1>4, ConcatParts
  <2>2. QED BY <1>5, <2>1
<1>7. SubSeq(wire, 1, Len(b)) = b
  <2>1. CanGet(wire, Len(b)) /\ Got(wire, Len(b)) = b
    BY <1>4, StartOfBuffer
  <2>2. QED BY <2>1 DEF Got
<1>8. Marshal(T, got.value, Len(b)) = Wrote(b)
  BY <1>4, <1>6 DEF IsCode
<1>9. ReadsBackTheSame'
  BY <1>1, <1>6, <1>7, <1>8 DEF ReadsBackTheSame
<1>10. WireInv'
  BY <1>1, Steps DEF WireInv
<1>11. QED BY <1>1, <1>9, <1>10, Steps
           DEF CodecInv, ReadInv, ArrivesIntact, CutIsNoticed, HolderHolds

LEMMA CodecStutter == CodecInv /\ UNCHANGED vars => CodecInv'
BY DEF CodecInv, WireInv, ReadInv, Sent, ArrivesIntact, CutIsNoticed, HolderHolds,
       ReadsBackTheSame, Same, vars

\* What is known of a value on its way, by induction over the steps.
THEOREM CodecInvariant == Spec => []CodecInv
<1>1. CodecInv /\ [Next]_vars => CodecInv'
  BY MarshalValueStep, CutStep, ChangeStep, UnmarshalWireStep, ThroughHolderStep,
     MarshalAgainStep, CodecStutter DEF Next
<1>2. QED BY CodecInit, <1>1, PTL DEF Spec

\* A value of any type that the derive macro accepts arrives as it was sent,
\* whatever follows it in the buffer.
THEOREM ValuesArriveIntact == Spec => []ArrivesIntact
<1>1. CodecInv => ArrivesIntact
  BY DEF CodecInv
<1>2. QED BY CodecInvariant, <1>1, PTL

\* A part of a message is never read as a message.
THEOREM CutsAreNoticed == Spec => []CutIsNoticed
<1>1. CodecInv => CutIsNoticed
  BY DEF CodecInv
<1>2. QED BY CodecInvariant, <1>1, PTL

\* The holder of a struct is long enough for it, and gives it back.
THEOREM HoldersHold == Spec => []HolderHolds
<1>1. CodecInv => HolderHolds
  BY DEF CodecInv
<1>2. QED BY CodecInvariant, <1>1, PTL

\* A value of any type that the derive macro accepts is marshaled if each count in
\* it stays within its array, and only then.
THEOREM MessagesHaveWhatTheyCount == Spec => []MarshalsWhatItCounts
<1>1. CodecInv => MarshalsWhatItCounts
  BY Steps DEF CodecInv, WireInv, MarshalsWhatItCounts
<1>2. QED BY CodecInvariant, <1>1, PTL

\* Whatever is accepted is marshaled back to the bytes it was read from.
THEOREM ReadingIsUndone == Spec => []ReadsBackTheSame
<1>1. CodecInv => ReadsBackTheSame
  BY DEF CodecInv
<1>2. QED BY CodecInvariant, <1>1, PTL
=============================================================================
