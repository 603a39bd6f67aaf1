--------------------------- MODULE TpmDeriveProofs ---------------------------
(***************************************************************************)
(* What the derive macro makes of the impls of the fields: if each of them *)
(* reads what it writes and nothing else, then so does the impl generated, *)
(* and if each refuses what counts more than it has, then so does it.      *)
(***************************************************************************)
EXTENDS TpmDerive, TpmDerivable, TpmFlattenProofs

-----------------------------------------------------------------------------
(* The outcomes after each field, out of the recursive functions.          *)

\* f has the outcome after each of the first n fields.
AreReads(f, fields, buf, n) ==
  f = [k \in 0 .. n |-> IF k = 0 THEN Took(<<>>, buf) ELSE Read(f[k - 1], fields[k])]

\* What Reads goes through, field by field.
LEMMA ReadsSteps ==
  ASSUME NEW fields, NEW buf, Len(fields) \in Nat
  PROVE  /\ Reads(fields, buf)[0] = Took(<<>>, buf)
         /\ \A k \in 1 .. Len(fields) :
              Reads(fields, buf)[k] =
                Read(Reads(fields, buf)[k - 1], fields[k])
<1> DEFINE P == {n \in Nat : \E f : AreReads(f, fields, buf, n)}
<1>1. 0 \in P
  <2>1. AreReads([k \in 0 .. 0 |-> Took(<<>>, buf)], fields, buf, 0)
    BY DEF AreReads
  <2>2. QED BY <2>1
<1>2. ASSUME NEW n \in P
      PROVE  n + 1 \in P
  <2>1. PICK f : AreReads(f, fields, buf, n)
    OBVIOUS
  <2> DEFINE g == [k \in 0 .. n + 1 |-> IF k = 0 THEN Took(<<>>, buf) ELSE Read(f[k - 1], fields[k])]
             h == [k \in 0 .. n + 1 |-> IF k = 0 THEN Took(<<>>, buf) ELSE Read(g[k - 1], fields[k])]
  <2>2. ASSUME NEW k \in 0 .. n
        PROVE  g[k] = f[k]
    <3>1. k \in 0 .. n + 1
      OBVIOUS
    <3>2. f[k] = IF k = 0 THEN Took(<<>>, buf) ELSE Read(f[k - 1], fields[k])
      BY <2>1 DEF AreReads
    <3>3. QED BY <3>1, <3>2
  <2>3. ASSUME NEW k \in 0 .. n + 1
        PROVE  g[k] = h[k]
    <3>1. CASE k = 0
      BY <3>1
    <3>2. CASE k # 0
      <4>1. k - 1 \in 0 .. n
        BY <3>2
      <4>2. g[k - 1] = f[k - 1]
        BY <2>2, <4>1
      <4>3. g[k] = Read(f[k - 1], fields[k])
        BY <3>2
      <4> HIDE DEF g
      <4>4. h[k] = Read(g[k - 1], fields[k])
        BY <3>2
      <4>5. QED BY <4>2, <4>3, <4>4
    <3>3. QED BY <3>1, <3>2
  <2>4. g = h
    BY <2>3
  <2> HIDE DEF g
  <2>5. AreReads(g, fields, buf, n + 1)
    BY <2>4 DEF AreReads
  <2>6. QED BY <2>5
<1> HIDE DEF P
<1>3. P = Nat
  BY <1>1, <1>2, SetInduction DEF P
<1>4. \E f : AreReads(f, fields, buf, Len(fields))
  BY <1>3 DEF P
<1>5. AreReads(Reads(fields, buf), fields, buf, Len(fields))
  BY <1>4 DEF AreReads, Reads
<1>6. QED BY <1>5 DEF AreReads

\* f has the outcome after each of the first n fields.
AreWrites(f, fields, v, room, n) ==
  f = [k \in 0 .. n |-> IF k = 0 THEN Wrote(<<>>) ELSE Write(f[k - 1], fields, k, v, room)]

\* What Writes goes through, field by field.
LEMMA WritesSteps ==
  ASSUME NEW fields, NEW v, NEW room, Len(fields) \in Nat
  PROVE  /\ Writes(fields, v, room)[0] = Wrote(<<>>)
         /\ \A k \in 1 .. Len(fields) :
              Writes(fields, v, room)[k] =
                Write(Writes(fields, v, room)[k - 1], fields, k, v, room)
<1> DEFINE P == {n \in Nat : \E f : AreWrites(f, fields, v, room, n)}
<1>1. 0 \in P
  <2>1. AreWrites([k \in 0 .. 0 |-> Wrote(<<>>)], fields, v, room, 0)
    BY DEF AreWrites
  <2>2. QED BY <2>1
<1>2. ASSUME NEW n \in P
      PROVE  n + 1 \in P
  <2>1. PICK f : AreWrites(f, fields, v, room, n)
    OBVIOUS
  <2> DEFINE g == [k \in 0 .. n + 1 |-> IF k = 0 THEN Wrote(<<>>) ELSE Write(f[k - 1], fields, k, v, room)]
             h == [k \in 0 .. n + 1 |-> IF k = 0 THEN Wrote(<<>>) ELSE Write(g[k - 1], fields, k, v, room)]
  <2>2. ASSUME NEW k \in 0 .. n
        PROVE  g[k] = f[k]
    <3>1. k \in 0 .. n + 1
      OBVIOUS
    <3>2. f[k] = IF k = 0 THEN Wrote(<<>>) ELSE Write(f[k - 1], fields, k, v, room)
      BY <2>1 DEF AreWrites
    <3>3. QED BY <3>1, <3>2
  <2>3. ASSUME NEW k \in 0 .. n + 1
        PROVE  g[k] = h[k]
    <3>1. CASE k = 0
      BY <3>1
    <3>2. CASE k # 0
      <4>1. k - 1 \in 0 .. n
        BY <3>2
      <4>2. g[k - 1] = f[k - 1]
        BY <2>2, <4>1
      <4>3. g[k] = Write(f[k - 1], fields, k, v, room)
        BY <3>2
      <4> HIDE DEF g
      <4>4. h[k] = Write(g[k - 1], fields, k, v, room)
        BY <3>2
      <4>5. QED BY <4>2, <4>3, <4>4
    <3>3. QED BY <3>1, <3>2
  <2>4. g = h
    BY <2>3
  <2> HIDE DEF g
  <2>5. AreWrites(g, fields, v, room, n + 1)
    BY <2>4 DEF AreWrites
  <2>6. QED BY <2>5
<1> HIDE DEF P
<1>3. P = Nat
  BY <1>1, <1>2, SetInduction DEF P
<1>4. \E f : AreWrites(f, fields, v, room, Len(fields))
  BY <1>3 DEF P
<1>5. AreWrites(Writes(fields, v, room), fields, v, room, Len(fields))
  BY <1>4 DEF AreWrites, Writes
<1>6. QED BY <1>5 DEF AreWrites

\* f has the outcome after each of the first n fields.
AreRoom(f, fields, n) ==
  f = [k \in 0 .. n |-> IF k = 0 THEN 0 ELSE f[k - 1] + fields[k].size]

\* What Room goes through, field by field.
LEMMA RoomSteps ==
  ASSUME NEW fields, Len(fields) \in Nat
  PROVE  /\ Room(fields)[0] = 0
         /\ \A k \in 1 .. Len(fields) :
              Room(fields)[k] =
                Room(fields)[k - 1] + fields[k].size
<1> DEFINE P == {n \in Nat : \E f : AreRoom(f, fields, n)}
<1>1. 0 \in P
  <2>1. AreRoom([k \in 0 .. 0 |-> 0], fields, 0)
    BY DEF AreRoom
  <2>2. QED BY <2>1
<1>2. ASSUME NEW n \in P
      PROVE  n + 1 \in P
  <2>1. PICK f : AreRoom(f, fields, n)
    OBVIOUS
  <2> DEFINE g == [k \in 0 .. n + 1 |-> IF k = 0 THEN 0 ELSE f[k - 1] + fields[k].size]
             h == [k \in 0 .. n + 1 |-> IF k = 0 THEN 0 ELSE g[k - 1] + fields[k].size]
  <2>2. ASSUME NEW k \in 0 .. n
        PROVE  g[k] = f[k]
    <3>1. k \in 0 .. n + 1
      OBVIOUS
    <3>2. f[k] = IF k = 0 THEN 0 ELSE f[k - 1] + fields[k].size
      BY <2>1 DEF AreRoom
    <3>3. QED BY <3>1, <3>2
  <2>3. ASSUME NEW k \in 0 .. n + 1
        PROVE  g[k] = h[k]
    <3>1. CASE k = 0
      BY <3>1
    <3>2. CASE k # 0
      <4>1. k - 1 \in 0 .. n
        BY <3>2
      <4>2. g[k - 1] = f[k - 1]
        BY <2>2, <4>1
      <4>3. g[k] = f[k - 1] + fields[k].size
        BY <3>2
      <4> HIDE DEF g
      <4>4. h[k] = g[k - 1] + fields[k].size
        BY <3>2
      <4>5. QED BY <4>2, <4>3, <4>4
    <3>3. QED BY <3>1, <3>2
  <2>4. g = h
    BY <2>3
  <2> HIDE DEF g
  <2>5. AreRoom(g, fields, n + 1)
    BY <2>4 DEF AreRoom
  <2>6. QED BY <2>5
<1> HIDE DEF P
<1>3. P = Nat
  BY <1>1, <1>2, SetInduction DEF P
<1>4. \E f : AreRoom(f, fields, Len(fields))
  BY <1>3 DEF P
<1>5. AreRoom(Room(fields), fields, Len(fields))
  BY <1>4 DEF AreRoom, Room
<1>6. QED BY <1>5 DEF AreRoom

-----------------------------------------------------------------------------
(* What an impl should be like.                                            *)

\* b is what v is on the wire: v is read off a buffer that starts with it,
\* whatever follows, is not read off a part of it, and is written as it.
InnerCode(T, v, b) ==
  /\ b \in Seq(Octet)
  /\ \A more \in Seq(Octet) : InnerUnmarshal(T, b \o more) = Took(v, more)
  /\ \A n \in 0 .. Len(b) - 1 : InnerUnmarshal(T, SubSeq(b, 1, n)).res = "memory"
  /\ \A room \in Nat : Len(b) <= room => InnerMarshal(T, v, room) = Wrote(b)
Code(T, v, b) ==
  /\ b \in Seq(Octet)
  /\ \A more \in Seq(Octet) : Unmarshal(T, b \o more) = Took(v, more)
  /\ \A n \in 0 .. Len(b) - 1 : Unmarshal(T, SubSeq(b, 1, n)).res = "memory"
  /\ \A room \in Nat : Len(b) <= room => Marshal(T, v, room) = Wrote(b)

\* What is read is what the bytes read are.
InnerReads ==
  \A T, buf :
    InnerIsType(T) /\ buf \in Seq(Octet) /\ InnerUnmarshal(T, buf).res = "ok" =>
      \E b \in Seq(Octet), rest \in Seq(Octet) :
        buf = b \o rest /\ InnerCode(T, InnerUnmarshal(T, buf).value, b)
ReadsCode ==
  \A T, buf :
    IsType(T) /\ buf \in Seq(Octet) /\ Unmarshal(T, buf).res = "ok" =>
      \E b \in Seq(Octet), rest \in Seq(Octet) :
        buf = b \o rest /\ Code(T, Unmarshal(T, buf).value, b)

\* A value is written wherever there is room for what it is on the wire, which
\* is no more than it takes up in memory, and what is read there is the same.
InnerWrites ==
  \A T, v :
    InnerIsType(T) /\ InnerIsValue(T, v) =>
      \E w, b :
        /\ InnerCode(T, w, b) /\ Len(b) <= T.size
        /\ InnerSeen(T, w) = InnerSeen(T, v)
        /\ \A room \in Nat :
             IF Len(b) <= room THEN InnerMarshal(T, v, room) = Wrote(b)
                               ELSE InnerMarshal(T, v, room).res # "ok"
WritesCode ==
  \A T, v :
    IsType(T) /\ IsValue(T, v) =>
      \E w, b :
        /\ Code(T, w, b) /\ Len(b) <= T.size
        /\ Seen(T, w) = Seen(T, v)
        /\ \A room \in Nat :
             IF Len(b) <= room THEN Marshal(T, v, room) = Wrote(b)
                               ELSE Marshal(T, v, room).res # "ok"

\* What counts more entries than it has is not written, however long the buffer.
InnerRefuses ==
  \A T, v, room :
    InnerIsType(T) /\ InnerOvercounted(T, v) => InnerMarshal(T, v, room).res # "ok"
Refuses ==
  \A T, v, room :
    IsType(T) /\ Overcounted(T, v) => Marshal(T, v, room).res # "ok"

\* Of an integer everything is shown.
InnerWords == \A T, v : T.kind = "word" => InnerSeen(T, v) = v
Words == \A T, v : T.kind = "word" => Seen(T, v) = v
-----------------------------------------------------------------------------
(* A field and those before it.                                            *)

\* Only the fields before say what a field is.
LEMMA ResolveAgrees ==
  ASSUME NEW fields, NEW k \in Nat, IsField(fields, k), NEW u, NEW v,
         \A i \in 1 .. k - 1 : u[i] = v[i]
  PROVE  /\ Resolve(fields[k], u) = Resolve(fields[k], v)
         /\ Refusal(fields[k], u) = Refusal(fields[k], v)
         /\ Overruns(fields[k], u) <=> Overruns(fields[k], v)
<1>1. CASE fields[k].kind \in {"counted", "chosen"}
  <2>1. u[fields[k].by] = v[fields[k].by]
    BY <1>1 DEF IsField
  <2>2. QED BY <2>1 DEF Resolve, Refusal, Overruns
<1>2. CASE fields[k].kind \notin {"counted", "chosen"}
  BY <1>2 DEF Resolve, Refusal, Overruns
<1>3. QED BY <1>1, <1>2

\* A field that is not refused is of a type there is.
LEMMA ResolveIsType ==
  ASSUME NEW fields, NEW k \in Nat, IsField(fields, k), NEW v,
         Refusal(fields[k], v) = "ok"
  PROVE  /\ InnerIsType(Resolve(fields[k], v))
         /\ Resolve(fields[k], v).size <= fields[k].size
         /\ Resolve(fields[k], v).size \in Int
         /\ ~Overruns(fields[k], v)
<1> DEFINE F == fields[k]
<1>1. ~Overruns(F, v)
  BY DEF Refusal
<1>2. CASE F.kind = "counted"
  <2>1. v[F.by] \in 0 .. F.max
    BY <1>1, <1>2 DEF Overruns
  <2>2. Resolve(F, v) = Entries(F, v[F.by])
    BY <1>1, <1>2 DEF Resolve
  <2>3. \A n \in 0 .. F.max : InnerIsType(Entries(F, n)) /\ Entries(F, n).size \in 0 .. F.size
    BY <1>2 DEF IsField
  <2>4. F.size \in Nat
    BY DEF IsField
  <2> HIDE DEF F
  <2>5. InnerIsType(Entries(F, v[F.by])) /\ Entries(F, v[F.by]).size \in 0 .. F.size
    BY <2>1, <2>3
  <2>6. QED BY <1>1, <2>2, <2>4, <2>5 DEF F
<1>3. CASE F.kind = "chosen"
  <2>1. v[F.by] \in DOMAIN F.variants
    BY <1>3 DEF Refusal, Overruns
  <2>2. Resolve(F, v) = F.variants[v[F.by]]
    BY <1>3 DEF Resolve
  <2>3. \A s \in DOMAIN F.variants :
          InnerIsType(F.variants[s]) /\ F.variants[s].size \in 0 .. F.size
    BY <1>3 DEF IsField
  <2>4. F.size \in Nat
    BY DEF IsField
  <2>5. QED BY <1>1, <2>1, <2>2, <2>3, <2>4
<1>4. CASE F.kind \notin {"counted", "chosen"}
  <2>1. Resolve(F, v) = F
    BY <1>4 DEF Resolve
  <2>2. InnerIsType(F) /\ F.size \in Nat
    BY <1>4 DEF IsField
  <2>3. QED BY <1>1, <2>1, <2>2
<1>5. QED BY <1>2, <1>3, <1>4

\* A value more behind some, whatever they are.
LEMMA Appended ==
  ASSUME NEW S, NEW s \in Seq(S), NEW e
  PROVE  /\ Append(s, e) \in Seq(S \cup {e})
         /\ Len(Append(s, e)) = Len(s) + 1
         /\ Append(s, e)[Len(s) + 1] = e
         /\ \A i \in 1 .. Len(s) : Append(s, e)[i] = s[i]
<1>1. s \in Seq(S \cup {e}) /\ e \in S \cup {e}
  OBVIOUS
<1>2. QED BY <1>1
-----------------------------------------------------------------------------
(* One field after the other.                                              *)

LEMMA TookParts ==
  ASSUME NEW v, NEW rest
  PROVE  Took(v, rest).res = "ok" /\ Took(v, rest).value = v /\ Took(v, rest).rest = rest
BY DEF Took

\* A field is read when the fields before it are, it is not refused, and its
\* type is read behind them.
LEMMA ReadIsOk ==
  ASSUME NEW got, NEW F
  PROVE  LET more == InnerUnmarshal(Resolve(F, got.value), got.rest)
         IN IF got.res = "ok" /\ Refusal(F, got.value) = "ok" /\ more.res = "ok"
            THEN Read(got, F) = Took(Append(got.value, more.value), more.rest)
            ELSE Read(got, F).res # "ok"
BY DEF Read, NotTaken

LEMMA WriteIsOk ==
  ASSUME NEW out, NEW fields, NEW k, NEW v, NEW room
  PROVE  LET more == InnerMarshal(Resolve(fields[k], v), v[k], room - Len(out.bytes))
         IN IF out.res = "ok" /\ ~Overruns(fields[k], v) /\ more.res = "ok"
            THEN Write(out, fields, k, v, room) = Wrote(out.bytes \o more.bytes)
            ELSE Write(out, fields, k, v, room).res # "ok"
BY DEF Write, NotWritten

\* b is what the first k fields are on the wire when they are vs.
FieldsCode(fields, k, vs, b) ==
  /\ b \in Seq(Octet)
  /\ Len(vs) = k /\ \E S : vs \in Seq(S)
  /\ \A more \in Seq(Octet) : Reads(fields, b \o more)[k] = Took(vs, more)
  /\ \A n \in 0 .. Len(b) - 1 : Reads(fields, SubSeq(b, 1, n))[k].res = "memory"
  /\ \A v : \A room \in Nat :
       Len(b) <= room /\ (\A i \in 1 .. k : v[i] = vs[i]) =>
         Writes(fields, v, room)[k] = Wrote(b)

\* Nothing is what no fields are.
LEMMA NoFieldsCode ==
  ASSUME NEW fields, Len(fields) \in Nat
  PROVE  FieldsCode(fields, 0, <<>>, <<>>)
<1>1. <<>> \in Seq(Octet) /\ Len(<<>>) = 0 /\ <<>> \in Seq({})
  OBVIOUS
<1>2. ASSUME NEW more \in Seq(Octet)
      PROVE  Reads(fields, <<>> \o more)[0] = Took(<<>>, more)
  <2>1. <<>> \o more = more
    OBVIOUS
  <2>2. QED BY <2>1, ReadsSteps
<1>3. \A n \in 0 .. Len(<<>>) - 1 : Reads(fields, SubSeq(<<>>, 1, n))[0].res = "memory"
  OBVIOUS
<1>4. \A v : \A room \in Nat : Writes(fields, v, room)[0] = Wrote(<<>>)
  BY WritesSteps
<1>5. QED BY <1>1, <1>2, <1>3, <1>4 DEF FieldsCode

\* What the next field is goes behind what those before it are.
LEMMA CodeGrows ==
  ASSUME NEW fields, AreFields(fields), NEW k \in 1 .. Len(fields),
         NEW vs, NEW b, FieldsCode(fields, k - 1, vs, b),
         Refusal(fields[k], vs) = "ok",
         NEW w, NEW c, InnerCode(Resolve(fields[k], vs), w, c)
  PROVE  FieldsCode(fields, k, Append(vs, w), b \o c)
<1> DEFINE F == fields[k]
           R == Resolve(fields[k], vs)
           ws == Append(vs, w)
           all == b \o c
<1>1. /\ Len(fields) \in Nat /\ k \in Nat /\ k - 1 \in 0 .. Len(fields)
      /\ IsField(fields, k)
  BY DEF AreFields
<1>2. b \in Seq(Octet) /\ c \in Seq(Octet) /\ all \in Seq(Octet)
      /\ Len(all) = Len(b) + Len(c) /\ Len(b) \in Nat /\ Len(c) \in Nat
  BY DEF FieldsCode, InnerCode
<1>3. /\ Len(ws) = k /\ \E S : ws \in Seq(S)
      /\ ws[k] = w
      /\ \A i \in 1 .. k - 1 : ws[i] = vs[i]
  <2>1. PICK S : vs \in Seq(S)
    BY DEF FieldsCode
  <2>2. Len(vs) = k - 1
    BY DEF FieldsCode
  <2>3. /\ ws \in Seq(S \cup {w}) /\ Len(ws) = Len(vs) + 1
        /\ ws[Len(vs) + 1] = w /\ \A i \in 1 .. Len(vs) : ws[i] = vs[i]
    BY <2>1, Appended
  <2> HIDE DEF ws
  <2>4. (k - 1) + 1 = k
    BY <1>1
  <2>5. QED BY <2>2, <2>3, <2>4
<1>4. ASSUME NEW more \in Seq(Octet)
      PROVE  Reads(fields, all \o more)[k] = Took(ws, more)
  <2>1. all \o more = b \o (c \o more) /\ c \o more \in Seq(Octet)
    <3>1. b \in Seq(Octet) /\ c \in Seq(Octet) /\ more \in Seq(Octet)
      BY <1>2
    <3>2. (b \o c) \o more = b \o (c \o more)
      BY ONLY <3>1, ConcatThree, SMTT(30)
    <3>3. c \o more \in Seq(Octet)
      BY <3>1
    <3>4. QED BY <3>2, <3>3
  <2>2. Reads(fields, all \o more)[k - 1] = Took(vs, c \o more)
    BY <2>1 DEF FieldsCode
  <2>3. InnerUnmarshal(R, c \o more) = Took(w, more)
    BY DEF InnerCode
  <2>4. Reads(fields, all \o more)[k] = Read(Took(vs, c \o more), F)
    BY <1>1, <2>2, ReadsSteps
  <2>5. Read(Took(vs, c \o more), F) = Took(ws, more)
    <3> DEFINE at == Took(vs, c \o more)
    <3>1. at.res = "ok" /\ at.value = vs /\ at.rest = c \o more
          /\ Took(w, more).res = "ok" /\ Took(w, more).value = w
          /\ Took(w, more).rest = more
      BY TookParts, ZenonT(30)
    <3> HIDE DEF at, ws
    <3>2. InnerUnmarshal(Resolve(F, at.value), at.rest) = Took(w, more)
      BY <2>3, <3>1
    <3>3. Read(at, F) = Took(Append(at.value, w), more)
      BY <3>1, <3>2, ReadIsOk
    <3>4. QED BY <3>1, <3>3 DEF at, ws
  <2>6. QED BY <2>4, <2>5
<1>5. ASSUME NEW n \in 0 .. Len(all) - 1
      PROVE  Reads(fields, SubSeq(all, 1, n))[k].res = "memory"
  <2> DEFINE cut == SubSeq(all, 1, n)
  <2>1. Reads(fields, cut)[k] = Read(Reads(fields, cut)[k - 1], F)
    BY <1>1, ReadsSteps
  <2>2. CASE n < Len(b)
    <3>1. cut = SubSeq(b, 1, n)
      BY <1>2, <2>2
    <3>2. n \in 0 .. Len(b) - 1
      BY <1>2, <2>2
    <3>3. Reads(fields, cut)[k - 1].res = "memory"
      BY <3>1, <3>2 DEF FieldsCode
    <3>4. QED BY <2>1, <3>3 DEF Read
  <2>3. CASE Len(b) <= n
    <3> DEFINE m == n - Len(b)
               tail == SubSeq(c, 1, m)
    <3>1. m \in 0 .. Len(c) - 1
      BY <1>2, <2>3
    <3>2. cut = b \o tail /\ tail \in Seq(Octet)
      BY <1>2, <2>3, <3>1, SMTT(30)
    <3>3. Reads(fields, cut)[k - 1] = Took(vs, tail)
      BY <3>2 DEF FieldsCode
    <3>4. InnerUnmarshal(R, tail).res = "memory"
      BY <3>1 DEF InnerCode
    <3>5. Read(Took(vs, tail), F).res = "memory"
      <4> DEFINE at == Took(vs, tail)
      <4>1. at.res = "ok" /\ at.value = vs /\ at.rest = tail
        BY TookParts
      <4> HIDE DEF at, tail
      <4>2. InnerUnmarshal(Resolve(F, at.value), at.rest).res = "memory"
        BY <3>4, <4>1
      <4>3. Read(at, F) = NotTaken("memory")
        BY <4>1, <4>2 DEF Read
      <4>4. QED BY <4>3 DEF at, NotTaken
    <3>6. QED BY <2>1, <3>3, <3>5
  <2>4. QED BY <1>2, <2>2, <2>3
<1>6. ASSUME NEW v, NEW room \in Nat, Len(all) <= room,
             \A i \in 1 .. k : v[i] = ws[i]
      PROVE  Writes(fields, v, room)[k] = Wrote(all)
  <2>1. \A i \in 1 .. k - 1 : v[i] = vs[i]
    BY <1>1, <1>3, <1>6
  <2>2. v[k] = w
    BY <1>1, <1>3, <1>6
  <2>3. Resolve(F, v) = R /\ ~Overruns(F, v)
    <3>1. Resolve(F, v) = R /\ Refusal(F, v) = "ok"
      BY <1>1, <2>1, ResolveAgrees
    <3>2. ~Overruns(F, v)
      BY <3>1 DEF Refusal
    <3>3. QED BY <3>1, <3>2
  <2>4. Writes(fields, v, room)[k - 1] = Wrote(b)
    <3>1. Len(b) <= room
      BY <1>2, <1>6
    <3>2. QED BY <2>1, <3>1 DEF FieldsCode
  <2>5. InnerMarshal(R, w, room - Len(b)) = Wrote(c)
    <3>1. room - Len(b) \in Nat /\ Len(c) <= room - Len(b)
      BY <1>2, <1>6
    <3>2. QED BY <3>1 DEF InnerCode
  <2>6. Writes(fields, v, room)[k] = Write(Wrote(b), fields, k, v, room)
    BY <1>1, <2>4, WritesSteps
  <2>7. Write(Wrote(b), fields, k, v, room) = Wrote(all)
    <3> HIDE DEF R, all
    <3>1. InnerMarshal(Resolve(F, v), v[k], room - Len(Wrote(b).bytes)) = Wrote(c)
      <4>1. Wrote(b).bytes = b
        BY DEF Wrote
      <4>2. QED BY <2>2, <2>3, <2>5, <4>1
    <3>2. Wrote(b).res = "ok" /\ Wrote(c).res = "ok"
          /\ Wrote(b).bytes \o Wrote(c).bytes = all
      BY DEF Wrote, all
    <3>3. QED BY <2>3, <3>1, <3>2, WriteIsOk
  <2>8. QED BY <2>6, <2>7
<1> HIDE DEF ws, all
<1>7. FieldsCode(fields, k, ws, all)
  BY <1>2, <1>3, <1>4, <1>5, <1>6 DEF FieldsCode
<1>8. QED BY <1>7 DEF ws, all
ReadSo(fields, buf, k) ==
  \E b \in Seq(Octet), rest \in Seq(Octet) :
    buf = b \o rest /\ FieldsCode(fields, k, Reads(fields, buf)[k].value, b)

\* What the first fields are read from is what they are.
LEMMA FieldsRead ==
  ASSUME InnerReads, NEW fields, AreFields(fields), NEW buf \in Seq(Octet),
         NEW k \in 0 .. Len(fields), Reads(fields, buf)[k].res = "ok"
  PROVE  ReadSo(fields, buf, k)
<1> DEFINE got(j) == Reads(fields, buf)[j]
           P == {j \in Nat : j <= Len(fields) /\ got(j).res = "ok" =>
                              ReadSo(fields, buf, j)}
<1>1. Len(fields) \in Nat /\ \A j \in 1 .. Len(fields) : IsField(fields, j)
  BY DEF AreFields
<1>2. 0 \in P
  <2>1. got(0) = Took(<<>>, buf)
    BY <1>1, ReadsSteps
  <2>2. got(0).value = <<>>
    BY <2>1, TookParts
  <2>3. FieldsCode(fields, 0, got(0).value, <<>>)
    BY <1>1, <2>2, NoFieldsCode
  <2>4. <<>> \in Seq(Octet) /\ buf = <<>> \o buf
    OBVIOUS
  <2>5. ReadSo(fields, buf, 0)
    BY <2>3, <2>4 DEF ReadSo
  <2>6. QED BY <2>5
<1>3. ASSUME NEW j \in P
      PROVE  j + 1 \in P
  <2> DEFINE n == j + 1
             F == fields[n]
  <2> SUFFICES ASSUME n <= Len(fields), got(n).res = "ok"
               PROVE  ReadSo(fields, buf, n)
    BY j \in Nat
  <2>1. j \in Nat /\ n \in 1 .. Len(fields) /\ n - 1 = j /\ j <= Len(fields)
    BY <1>1
  <2>2. got(n) = Read(got(j), F)
    BY <1>1, <2>1, ReadsSteps
  <2>3. got(j).res = "ok" => ReadSo(fields, buf, j)
    BY <2>1
  <2> HIDE DEF n, P
  <2> DEFINE R == Resolve(F, got(j).value)
             more == InnerUnmarshal(R, got(j).rest)
  <2>4. /\ got(j).res = "ok" /\ Refusal(F, got(j).value) = "ok" /\ more.res = "ok"
        /\ got(n) = Took(Append(got(j).value, more.value), more.rest)
    <3> HIDE DEF got, F
    <3>1. got(n).res = "ok"
      OBVIOUS
    <3>2. QED BY <2>2, <3>1, ReadIsOk
  <2>5. PICK b \in Seq(Octet), rest \in Seq(Octet) :
          buf = b \o rest /\ FieldsCode(fields, j, got(j).value, b)
    BY <2>3, <2>4 DEF ReadSo
  <2>6. got(j).rest = rest
    <3>1. got(j) = Took(got(j).value, rest)
      BY <2>5 DEF FieldsCode
    <3>2. QED BY <3>1, TookParts
  <2>7. InnerIsType(R)
    <3>1. IsField(fields, n) /\ n \in Nat
      BY <1>1, <2>1
    <3>2. QED BY <2>4, <3>1, ResolveIsType
  <2>8. PICK c \in Seq(Octet), left \in Seq(Octet) :
          rest = c \o left /\ InnerCode(R, more.value, c)
    <3> HIDE DEF got, R
    <3>1. InnerIsType(R) /\ rest \in Seq(Octet) /\ InnerUnmarshal(R, rest).res = "ok"
      BY <2>4, <2>6, <2>7
    <3>2. more = InnerUnmarshal(R, rest)
      BY <2>6
    <3> HIDE DEF more
    <3>3. QED BY <3>1, <3>2 DEF InnerReads
  <2>9. FieldsCode(fields, n, Append(got(j).value, more.value), b \o c)
    <3> HIDE DEF got, more
    <3>1. FieldsCode(fields, n - 1, got(j).value, b)
      BY <2>1, <2>5
    <3>2. InnerCode(Resolve(fields[n], got(j).value), more.value, c)
          /\ Refusal(fields[n], got(j).value) = "ok"
      BY <2>4, <2>8
    <3> HIDE DEF F, R
    <3>3. QED BY <2>1, <3>1, <3>2, CodeGrows
  <2>10. got(n).value = Append(got(j).value, more.value)
    <3> DEFINE vs == Append(got(j).value, more.value)
               others == more.rest
    <3>1. got(n) = Took(vs, others)
      BY <2>4
    <3> HIDE DEF vs, others, got
    <3>2. got(n).value = vs
      BY <3>1, TookParts
    <3>3. QED BY <3>2 DEF vs
  <2>11. buf = (b \o c) \o left /\ b \o c \in Seq(Octet)
    <3>1. (b \o c) \o left = b \o (c \o left)
      BY ONLY b \in Seq(Octet), c \in Seq(Octet), left \in Seq(Octet), ConcatThree, SMTT(60)
    <3>2. QED BY <2>5, <2>8, <3>1
  <2> HIDE DEF got, more
  <2>12. FieldsCode(fields, n, got(n).value, b \o c)
    BY <2>9, <2>10
  <2>13. QED BY <2>11, <2>12 DEF ReadSo, got
<1> HIDE DEF P
<1>4. P = Nat
  BY <1>2, <1>3, SetInduction DEF P
<1>5. k \in P /\ k <= Len(fields)
  BY <1>1, <1>4
<1>6. QED BY <1>5 DEF P

\* What the first fields take up is a number.
LEMMA RoomIsInt ==
  ASSUME NEW fields, AreFields(fields), NEW k \in 0 .. Len(fields)
  PROVE  Room(fields)[k] \in Int
<1> DEFINE P == {j \in Nat : j <= Len(fields) => Room(fields)[j] \in Int}
<1>1. Len(fields) \in Nat /\ \A j \in 1 .. Len(fields) : fields[j].size \in Nat
  BY DEF AreFields, IsField
<1>2. 0 \in P
  BY <1>1, RoomSteps
<1>3. ASSUME NEW j \in P
      PROVE  j + 1 \in P
  <2> DEFINE n == j + 1
  <2> SUFFICES ASSUME n <= Len(fields)
               PROVE  Room(fields)[n] \in Int
    BY j \in Nat
  <2>1. n \in 1 .. Len(fields) /\ n - 1 = j /\ Room(fields)[j] \in Int
    BY <1>1
  <2> HIDE DEF n
  <2>2. Room(fields)[n] = Room(fields)[j] + fields[n].size
    BY <1>1, <2>1, RoomSteps
  <2>3. QED BY <1>1, <2>1, <2>2
<1> HIDE DEF P
<1>4. P = Nat
  BY <1>2, <1>3, SetInduction DEF P
<1>5. k \in P /\ k <= Len(fields)
  BY <1>1, <1>4
<1>6. QED BY <1>5 DEF P

\* Values of the first fields are written as what they are on the wire, in no
\* more bytes than the fields take up.
WrittenSo(fields, v, k) ==
  \E ws, b :
    /\ FieldsCode(fields, k, ws, b) /\ Len(b) <= Room(fields)[k]
    /\ \A i \in 1 .. k : InnerSeen(Resolve(fields[i], v), ws[i])
                         = InnerSeen(Resolve(fields[i], v), v[i])
    /\ \A room \in Nat :
         IF Len(b) <= room THEN Writes(fields, v, room)[k] = Wrote(b)
                           ELSE Writes(fields, v, room)[k].res # "ok"

\* What was written of the fields before says of the next what they say.
LEMMA ResolvedAlike ==
  ASSUME InnerWords, NEW fields, AreFields(fields), NEW n \in 1 .. Len(fields),
         NEW v, NEW ws,
         \A i \in 1 .. n - 1 : InnerSeen(Resolve(fields[i], v), ws[i])
                               = InnerSeen(Resolve(fields[i], v), v[i])
  PROVE  /\ Resolve(fields[n], ws) = Resolve(fields[n], v)
         /\ Refusal(fields[n], ws) = Refusal(fields[n], v)
<1> DEFINE F == fields[n]
<1>1. IsField(fields, n)
  BY DEF AreFields
<1>2. CASE F.kind \in {"counted", "chosen"}
  <2>1. F.by \in 1 .. n - 1 /\ fields[F.by].kind = "word"
    BY <1>1, <1>2 DEF IsField
  <2>2. Resolve(fields[F.by], v) = fields[F.by]
    BY <2>1 DEF Resolve
  <2>3. ws[F.by] = v[F.by]
    <3> DEFINE i == F.by
    <3> HIDE DEF i
    <3>1. i \in 1 .. n - 1 /\ fields[i].kind = "word" /\ Resolve(fields[i], v) = fields[i]
      BY <2>1, <2>2 DEF i
    <3>2. InnerSeen(fields[i], ws[i]) = InnerSeen(fields[i], v[i])
      BY <3>1
    <3>3. InnerSeen(fields[i], ws[i]) = ws[i] /\ InnerSeen(fields[i], v[i]) = v[i]
      BY <3>1 DEF InnerWords
    <3>4. ws[i] = v[i]
      BY <3>2, <3>3
    <3>5. QED BY <3>4 DEF i
  <2>4. QED BY <2>3 DEF Resolve, Refusal, Overruns
<1>3. CASE F.kind \notin {"counted", "chosen"}
  BY <1>3 DEF Resolve, Refusal, Overruns
<1>4. QED BY <1>2, <1>3

\* And what they are on the wire is what they are written as.
LEMMA FieldsWritten ==
  ASSUME InnerWrites, InnerWords, NEW fields, AreFields(fields), NEW v,
         \A i \in 1 .. Len(fields) : /\ Refusal(fields[i], v) = "ok"
                                    /\ InnerIsValue(Resolve(fields[i], v), v[i]),
         NEW k \in 0 .. Len(fields)
  PROVE  WrittenSo(fields, v, k)
<1> DEFINE P == {j \in Nat : j <= Len(fields) => WrittenSo(fields, v, j)}
<1>1. Len(fields) \in Nat /\ \A j \in 1 .. Len(fields) : IsField(fields, j)
  BY DEF AreFields
<1>2. 0 \in P
  <2>1. FieldsCode(fields, 0, <<>>, <<>>)
    BY <1>1, NoFieldsCode
  <2>2. Len(<<>>) <= Room(fields)[0]
    BY <1>1, RoomSteps
  <2>3. ASSUME NEW room \in Nat
        PROVE  IF Len(<<>>) <= room THEN Writes(fields, v, room)[0] = Wrote(<<>>)
                                    ELSE Writes(fields, v, room)[0].res # "ok"
    <3>1. Writes(fields, v, room)[0] = Wrote(<<>>)
      BY <1>1, WritesSteps
    <3>2. Len(<<>>) <= room
      OBVIOUS
    <3>3. QED BY <3>1, <3>2
  <2>4. WrittenSo(fields, v, 0)
    BY <2>1, <2>2, <2>3 DEF WrittenSo
  <2>5. QED BY <2>4
<1>3. ASSUME NEW j \in P
      PROVE  j + 1 \in P
  <2> DEFINE n == j + 1
             F == fields[n]
             R == Resolve(F, v)
  <2> SUFFICES ASSUME n <= Len(fields)
               PROVE  WrittenSo(fields, v, n)
    BY j \in Nat
  <2>1. j \in Nat /\ n \in 1 .. Len(fields) /\ n - 1 = j /\ j <= Len(fields)
        /\ IsField(fields, n)
    BY <1>1
  <2>2. WrittenSo(fields, v, j)
    BY <2>1
  <2> HIDE DEF n, P
  <2>3. PICK ws, b :
          /\ FieldsCode(fields, j, ws, b) /\ Len(b) <= Room(fields)[j]
          /\ \A i \in 1 .. j : InnerSeen(Resolve(fields[i], v), ws[i])
                               = InnerSeen(Resolve(fields[i], v), v[i])
          /\ \A room \in Nat :
               IF Len(b) <= room THEN Writes(fields, v, room)[j] = Wrote(b)
                                 ELSE Writes(fields, v, room)[j].res # "ok"
    BY <2>2 DEF WrittenSo
  <2>4. InnerIsType(R) /\ R.size <= F.size /\ R.size \in Int /\ ~Overruns(F, v)
        /\ InnerIsValue(R, v[n]) /\ Refusal(F, v) = "ok"
    <3>1. Refusal(F, v) = "ok" /\ InnerIsValue(R, v[n])
      BY <2>1
    <3>2. n \in Nat
      BY <1>1, <2>1
    <3>3. QED BY <2>1, <3>1, <3>2, ResolveIsType
  <2>5. PICK w, c :
          /\ InnerCode(R, w, c) /\ Len(c) <= R.size
          /\ InnerSeen(R, w) = InnerSeen(R, v[n])
          /\ \A room \in Nat :
               IF Len(c) <= room THEN InnerMarshal(R, v[n], room) = Wrote(c)
                                 ELSE InnerMarshal(R, v[n], room).res # "ok"
    <3> HIDE DEF R
    <3>1. QED BY <2>4 DEF InnerWrites
  <2>6. Resolve(F, ws) = R /\ Refusal(F, ws) = "ok"
    <3>1. \A i \in 1 .. n - 1 : InnerSeen(Resolve(fields[i], v), ws[i])
                                = InnerSeen(Resolve(fields[i], v), v[i])
      BY <2>1, <2>3
    <3>2. n \in 1 .. Len(fields)
      BY <2>1
    <3> HIDE DEF F, R
    <3>3. Resolve(fields[n], ws) = Resolve(fields[n], v)
      BY <3>1, <3>2, ResolvedAlike
    <3>4. Refusal(fields[n], ws) = Refusal(fields[n], v)
      BY <3>1, <3>2, ResolvedAlike
    <3>5. QED BY <2>4, <3>3, <3>4 DEF F, R
  <2> DEFINE us == Append(ws, w)
             all == b \o c
  <2>7. FieldsCode(fields, n, us, all)
    <3>1. FieldsCode(fields, n - 1, ws, b)
      BY <2>1, <2>3
    <3>2. InnerCode(Resolve(fields[n], ws), w, c) /\ Refusal(fields[n], ws) = "ok"
      BY <2>5, <2>6
    <3> HIDE DEF F, R
    <3>3. QED BY <2>1, <3>1, <3>2, CodeGrows
  <2>8. b \in Seq(Octet) /\ c \in Seq(Octet) /\ Len(all) = Len(b) + Len(c)
        /\ Len(b) \in Nat /\ Len(c) \in Nat
    <3>1. b \in Seq(Octet) /\ c \in Seq(Octet)
      BY <2>3, <2>5 DEF FieldsCode, InnerCode
    <3>2. QED BY <3>1
  <2>9. Len(all) <= Room(fields)[n]
    <3>1. Room(fields)[n] = Room(fields)[j] + F.size
      BY <1>1, <2>1, RoomSteps
    <3>2. F.size \in Nat
      BY <2>1 DEF IsField
    <3>3. Room(fields)[j] \in Int
      BY <1>1, <2>1, RoomIsInt
    <3>4. Len(c) <= F.size
      <4> HIDE DEF F, R
      <4>1. QED BY <2>4, <2>5, <2>8, <3>2
    <3> HIDE DEF F, all
    <3>5. QED BY <2>3, <2>8, <3>1, <3>2, <3>3, <3>4
  <2>10. /\ us[n] = w
         /\ \A i \in 1 .. j : us[i] = ws[i]
    <3>1. PICK S : ws \in Seq(S)
      BY <2>3 DEF FieldsCode
    <3>2. Len(ws) = j
      BY <2>3 DEF FieldsCode
    <3>3. us[Len(ws) + 1] = w /\ \A i \in 1 .. Len(ws) : us[i] = ws[i]
      BY <3>1, Appended
    <3> HIDE DEF us
    <3>4. QED BY <3>2, <3>3 DEF n
  <2>11. ASSUME NEW i \in 1 .. n
         PROVE  InnerSeen(Resolve(fields[i], v), us[i])
                = InnerSeen(Resolve(fields[i], v), v[i])
    <3> HIDE DEF us
    <3>1. CASE i = n
      BY <2>5, <2>10, <3>1
    <3>2. CASE i # n
      <4>1. i \in 1 .. j
        BY <2>1, <3>2
      <4>2. QED BY <2>3, <2>10, <4>1
    <3>3. QED BY <3>1, <3>2
  <2>12. ASSUME NEW room \in Nat
         PROVE  IF Len(all) <= room THEN Writes(fields, v, room)[n] = Wrote(all)
                                    ELSE Writes(fields, v, room)[n].res # "ok"
    <3> DEFINE out == Writes(fields, v, room)[j]
               left == room - Len(out.bytes)
               more == InnerMarshal(R, v[n], left)
    <3>1. Writes(fields, v, room)[n] = Write(out, fields, n, v, room)
      BY <1>1, <2>1, WritesSteps
    <3>2. IF out.res = "ok" /\ ~Overruns(F, v) /\ more.res = "ok"
          THEN Write(out, fields, n, v, room) = Wrote(out.bytes \o more.bytes)
          ELSE Write(out, fields, n, v, room).res # "ok"
      <4> HIDE DEF out
      <4>1. QED BY WriteIsOk
    <3>3. CASE Len(b) <= room
      <4>1. out = Wrote(b)
        BY <2>3, <3>3
      <4>2. out.res = "ok" /\ out.bytes = b
        BY <4>1 DEF Wrote
      <4>3. left = room - Len(b) /\ left \in Nat /\ (Len(c) <= left <=> Len(all) <= room)
        <5> HIDE DEF out, all
        <5>1. left = room - Len(b)
          BY <4>2
        <5>2. QED BY <2>8, <3>3, <5>1
      <4>4. IF Len(c) <= left THEN more = Wrote(c) ELSE more.res # "ok"
        <5> HIDE DEF left, R
        <5>1. QED BY <2>5, <4>3
      <4>5. Wrote(c).res = "ok" /\ Wrote(c).bytes = c
        BY DEF Wrote
      <4> HIDE DEF out, left, more, all, F
      <4>6. CASE Len(all) <= room
        <5>1. more = Wrote(c)
          BY <4>3, <4>4, <4>6
        <5>2. Write(out, fields, n, v, room) = Wrote(b \o c)
          BY <2>4, <3>2, <4>2, <4>5, <5>1
        <5>3. QED BY <3>1, <4>6, <5>2 DEF all
      <4>7. CASE ~(Len(all) <= room)
        <5>1. more.res # "ok"
          BY <4>3, <4>4, <4>7
        <5>2. Write(out, fields, n, v, room).res # "ok"
          BY <3>2, <5>1
        <5>3. QED BY <3>1, <4>7, <5>2
      <4>8. QED BY <4>6, <4>7
    <3>4. CASE ~(Len(b) <= room)
      <4>1. out.res # "ok"
        BY <2>3, <3>4
      <4> HIDE DEF out, more, all
      <4>2. Write(out, fields, n, v, room).res # "ok"
        BY <3>2, <4>1
      <4>3. ~(Len(all) <= room)
        BY <2>8, <3>4
      <4>4. QED BY <3>1, <4>2, <4>3
    <3>5. QED BY <3>3, <3>4
  <2> HIDE DEF us, all
  <2>13. QED BY <2>7, <2>9, <2>11, <2>12 DEF WrittenSo
<1> HIDE DEF P
<1>4. P = Nat
  BY <1>2, <1>3, SetInduction DEF P
<1>5. k \in P /\ k <= Len(fields)
  BY <1>1, <1>4
<1>6. QED BY <1>5 DEF P
-----------------------------------------------------------------------------
(* The impl generated.                                                     *)

LEMMA CompositeType ==
  ASSUME NEW T, IsType(T), T.kind \in Composite
  PROVE  /\ AreFields(Fields(T)) /\ Len(Fields(T)) \in Nat
         /\ DOMAIN Fields(T) = 1 .. Len(Fields(T))
         /\ Room(Fields(T))[Len(Fields(T))] <= T.size
         /\ T.size \in Nat
         /\ T.kind = "array" => T.max - T.length \in Nat
<1>1. /\ T.kind = "array" => T.max \in Nat /\ T.length \in 0 .. T.max
      /\ AreFields(Fields(T))
      /\ T.size \in Nat /\ Room(Fields(T))[Len(Fields(T))] <= T.size
  BY DEF IsType
<1>2. Len(Fields(T)) \in Nat /\ DOMAIN Fields(T) = 1 .. Len(Fields(T))
  BY <1>1 DEF AreFields
<1>3. T.kind = "array" => T.max - T.length \in Nat
  BY <1>1
<1>4. QED BY <1>1, <1>2, <1>3

\* The defaults behind the entries read are behind them.
LEMMA Behind ==
  ASSUME NEW T, IsType(T), T.kind \in Composite, NEW S, NEW vs \in Seq(S)
  PROVE  \A i \in 1 .. Len(vs) : (vs \o Uncounted(T))[i] = vs[i]
<1> DEFINE d == T.of.default
           U == S \cup {d}
           rest == Uncounted(T)
<1>1. rest \in Seq(U)
  <2>1. CASE T.kind = "array"
    <3> DEFINE m == T.max - T.length
    <3>1. m \in Nat
      BY <2>1, CompositeType
    <3>2. rest = [i \in 1 .. m |-> d]
      BY <2>1 DEF Uncounted
    <3> HIDE DEF m, d, rest
    <3>3. QED BY <3>1, <3>2
  <2>2. CASE T.kind # "array"
    BY <2>2 DEF Uncounted
  <2>3. QED BY <2>1, <2>2
<1>2. vs \in Seq(U)
  OBVIOUS
<1> HIDE DEF U, rest
<1>3. \A i \in 1 .. Len(vs) : (vs \o rest)[i] = vs[i]
  BY <1>1, <1>2, ConcatParts
<1>4. QED BY <1>3 DEF rest

\* What all the fields are on the wire, the struct or array is.
LEMMA FieldsAreCode ==
  ASSUME NEW T, IsType(T), T.kind \in Composite, NEW vs, NEW b,
         FieldsCode(Fields(T), Len(Fields(T)), vs, b)
  PROVE  Code(T, vs \o Uncounted(T), b)
<1> DEFINE fields == Fields(T)
           n == Len(fields)
           w == vs \o Uncounted(T)
<1> HIDE DEF w
<1>1. b \in Seq(Octet) /\ Len(vs) = n /\ \E S : vs \in Seq(S)
  BY DEF FieldsCode
<1>2. ASSUME NEW more \in Seq(Octet)
      PROVE  Unmarshal(T, b \o more) = Took(w, more)
  <2> DEFINE got == Reads(fields, b \o more)[n]
  <2>1. got = Took(vs, more)
    BY DEF FieldsCode
  <2> HIDE DEF got
  <2>2. got.res = "ok" /\ got.value = vs /\ got.rest = more
    BY <2>1, TookParts
  <2>3. Unmarshal(T, b \o more) =
          IF got.res # "ok" THEN got ELSE Took(got.value \o Uncounted(T), got.rest)
    BY DEF Unmarshal, got
  <2>4. QED BY <2>2, <2>3 DEF w
<1>3. ASSUME NEW m \in 0 .. Len(b) - 1
      PROVE  Unmarshal(T, SubSeq(b, 1, m)).res = "memory"
  <2> DEFINE got == Reads(fields, SubSeq(b, 1, m))[n]
  <2>1. got.res = "memory"
    BY DEF FieldsCode
  <2> HIDE DEF got
  <2>2. Unmarshal(T, SubSeq(b, 1, m)) =
          IF got.res # "ok" THEN got ELSE Took(got.value \o Uncounted(T), got.rest)
    BY DEF Unmarshal, got
  <2>3. QED BY <2>1, <2>2
<1>4. ASSUME NEW room \in Nat, Len(b) <= room
      PROVE  Marshal(T, w, room) = Wrote(b)
  <2>1. \A i \in 1 .. n : w[i] = vs[i]
    <3>1. PICK S : vs \in Seq(S)
      BY <1>1
    <3>2. \A i \in 1 .. Len(vs) : (vs \o Uncounted(T))[i] = vs[i]
      BY <3>1, Behind
    <3>3. QED BY <1>1, <3>2 DEF w
  <2>2. Writes(fields, w, room)[n] = Wrote(b)
    BY <1>4, <2>1 DEF FieldsCode
  <2>3. Marshal(T, w, room) = Writes(fields, w, room)[n]
    BY DEF Marshal
  <2>4. QED BY <2>2, <2>3
<1>5. Code(T, w, b)
  BY <1>1, <1>2, <1>3, <1>4 DEF Code
<1>6. QED BY <1>5 DEF w

\* What is passed on to the level below is as it is there.
LEMMA CodeBelow ==
  ASSUME NEW T, T.kind \notin Composite
  PROVE  \A v, b : InnerCode(T, v, b) => Code(T, v, b)
BY DEF InnerCode, Code, Unmarshal, Marshal

\* What the impl generated reads is what the bytes read are, if it is so for
\* the types of the fields.
THEOREM ReadingNests == InnerReads => ReadsCode
<1> SUFFICES ASSUME InnerReads, NEW T, NEW buf, IsType(T), buf \in Seq(Octet),
                    Unmarshal(T, buf).res = "ok"
             PROVE  \E b \in Seq(Octet), rest \in Seq(Octet) :
                      buf = b \o rest /\ Code(T, Unmarshal(T, buf).value, b)
  BY DEF ReadsCode
<1>1. CASE T.kind \notin Composite
  <2>1. InnerIsType(T) /\ InnerUnmarshal(T, buf) = Unmarshal(T, buf)
    BY <1>1 DEF IsType, Unmarshal
  <2>2. PICK b \in Seq(Octet), rest \in Seq(Octet) :
          buf = b \o rest /\ InnerCode(T, InnerUnmarshal(T, buf).value, b)
    BY <2>1 DEF InnerReads
  <2>3. Code(T, Unmarshal(T, buf).value, b)
    BY <1>1, <2>1, <2>2, CodeBelow
  <2>4. QED BY <2>2, <2>3
<1>2. CASE T.kind \in Composite
  <2> DEFINE fields == Fields(T)
             n == Len(fields)
             got == Reads(fields, buf)[n]
  <2>1. AreFields(fields) /\ n \in Nat
    BY <1>2, CompositeType
  <2>2. Unmarshal(T, buf) =
          IF got.res # "ok" THEN got ELSE Took(got.value \o Uncounted(T), got.rest)
    BY <1>2 DEF Unmarshal
  <2>3. got.res = "ok"
    <3> HIDE DEF got
    <3>1. QED BY <2>2
  <2>4. ReadSo(fields, buf, n)
    <3> HIDE DEF fields
    <3>1. n \in 0 .. Len(fields)
      BY <2>1
    <3>2. QED BY <2>1, <2>3, <3>1, FieldsRead
  <2>5. PICK b \in Seq(Octet), rest \in Seq(Octet) :
          buf = b \o rest /\ FieldsCode(fields, n, got.value, b)
    BY <2>4 DEF ReadSo
  <2> HIDE DEF got
  <2>6. Unmarshal(T, buf).value = got.value \o Uncounted(T)
    <3> DEFINE w == got.value \o Uncounted(T)
    <3>1. Unmarshal(T, buf) = Took(w, got.rest)
      BY <2>2, <2>3
    <3> HIDE DEF w
    <3>2. Unmarshal(T, buf).value = w
      BY <3>1, TookParts
    <3>3. QED BY <3>2 DEF w
  <2>7. Code(T, got.value \o Uncounted(T), b)
    BY <1>2, <2>5, FieldsAreCode
  <2>8. Code(T, Unmarshal(T, buf).value, b)
    BY <2>6, <2>7
  <2>9. QED BY <2>5, <2>8
<1>3. QED BY <1>1, <1>2

\* And its values are written as what they are, and fit in their memory.
THEOREM WritingNests == InnerWrites /\ InnerWords => WritesCode
<1> SUFFICES ASSUME InnerWrites, InnerWords, NEW T, NEW v, IsType(T), IsValue(T, v)
             PROVE  \E w, b :
                      /\ Code(T, w, b) /\ Len(b) <= T.size
                      /\ Seen(T, w) = Seen(T, v)
                      /\ \A room \in Nat :
                           IF Len(b) <= room THEN Marshal(T, v, room) = Wrote(b)
                                             ELSE Marshal(T, v, room).res # "ok"
  BY DEF WritesCode
<1>1. CASE T.kind \notin Composite
  <2>1. InnerIsType(T) /\ InnerIsValue(T, v)
    BY <1>1 DEF IsType, IsValue
  <2>2. PICK w, b :
          /\ InnerCode(T, w, b) /\ Len(b) <= T.size
          /\ InnerSeen(T, w) = InnerSeen(T, v)
          /\ \A room \in Nat :
               IF Len(b) <= room THEN InnerMarshal(T, v, room) = Wrote(b)
                                 ELSE InnerMarshal(T, v, room).res # "ok"
    BY <2>1 DEF InnerWrites
  <2>3. Code(T, w, b)
    BY <1>1, <2>2, CodeBelow
  <2>4. Seen(T, w) = InnerSeen(T, w) /\ Seen(T, v) = InnerSeen(T, v)
    BY <1>1 DEF Seen
  <2>5. \A room : Marshal(T, v, room) = InnerMarshal(T, v, room)
    BY <1>1 DEF Marshal
  <2>6. QED BY <2>2, <2>3, <2>4, <2>5
<1>2. CASE T.kind \in Composite
  <2> DEFINE fields == Fields(T)
             n == Len(fields)
  <2>1. /\ AreFields(fields) /\ n \in Nat /\ DOMAIN fields = 1 .. n
        /\ Room(fields)[n] <= T.size /\ T.size \in Nat
    BY <1>2, CompositeType
  <2>2. \A i \in 1 .. n : /\ Refusal(fields[i], v) = "ok"
                          /\ InnerIsValue(Resolve(fields[i], v), v[i])
    BY <1>2, <2>1 DEF IsValue
  <2>3. WrittenSo(fields, v, n)
    <3> HIDE DEF fields
    <3>1. n \in 0 .. Len(fields)
      BY <2>1
    <3>2. QED BY <2>1, <2>2, <3>1, FieldsWritten
  <2>4. PICK ws, b :
          /\ FieldsCode(fields, n, ws, b) /\ Len(b) <= Room(fields)[n]
          /\ \A i \in 1 .. n : InnerSeen(Resolve(fields[i], v), ws[i])
                               = InnerSeen(Resolve(fields[i], v), v[i])
          /\ \A room \in Nat :
               IF Len(b) <= room THEN Writes(fields, v, room)[n] = Wrote(b)
                                 ELSE Writes(fields, v, room)[n].res # "ok"
    BY <2>3 DEF WrittenSo
  <2> DEFINE w == ws \o Uncounted(T)
  <2>5. Code(T, w, b)
    BY <1>2, <2>4, FieldsAreCode
  <2>6. Len(b) <= T.size
    <3>1. Room(fields)[n] \in Int
      <4> HIDE DEF fields
      <4>1. n \in 0 .. Len(fields)
        BY <2>1
      <4>2. QED BY <2>1, <4>1, RoomIsInt
    <3>2. Len(b) \in Nat
      BY <2>4 DEF FieldsCode
    <3> HIDE DEF fields, n
    <3>3. QED BY <2>1, <2>4, <3>1, <3>2
  <2>7. \A i \in 1 .. n : w[i] = ws[i]
    <3>1. PICK S : ws \in Seq(S)
      BY <2>4 DEF FieldsCode
    <3>2. Len(ws) = n
      BY <2>4 DEF FieldsCode
    <3>3. \A i \in 1 .. Len(ws) : (ws \o Uncounted(T))[i] = ws[i]
      BY <1>2, <3>1, Behind
    <3>4. QED BY <3>2, <3>3
  <2> HIDE DEF w
  <2>8. ASSUME NEW i \in 1 .. n
        PROVE  InnerSeen(Resolve(fields[i], w), w[i])
               = InnerSeen(Resolve(fields[i], v), v[i])
    <3> HIDE DEF fields
    <3>1. IsField(fields, i) /\ i \in Nat /\ i \in 1 .. Len(fields)
      BY <2>1 DEF AreFields
    <3>2. /\ \A j \in 1 .. i - 1 : w[j] = ws[j]
          /\ \A j \in 1 .. i - 1 : InnerSeen(Resolve(fields[j], v), ws[j])
                                   = InnerSeen(Resolve(fields[j], v), v[j])
      BY <2>1, <2>4, <2>7
    <3>3. Resolve(fields[i], w) = Resolve(fields[i], ws)
      <4>1. \A j \in 1 .. i - 1 : w[j] = ws[j]
        BY <3>2
      <4>2. QED BY <3>1, <4>1, ResolveAgrees
    <3>4. Resolve(fields[i], ws) = Resolve(fields[i], v)
      <4>1. \A j \in 1 .. i - 1 : InnerSeen(Resolve(fields[j], v), ws[j])
                                   = InnerSeen(Resolve(fields[j], v), v[j])
        BY <3>2
      <4>2. AreFields(fields) /\ i \in 1 .. Len(fields)
        BY <2>1, <3>1
      <4>3. QED BY <4>1, <4>2, ResolvedAlike
    <3>5. QED BY <2>4, <2>7, <3>3, <3>4
  <2>9. Seen(T, w) = Seen(T, v)
    <3>1. /\ Seen(T, w) = [i \in 1 .. n |-> InnerSeen(Resolve(fields[i], w), w[i])]
          /\ Seen(T, v) = [i \in 1 .. n |-> InnerSeen(Resolve(fields[i], v), v[i])]
      BY <1>2, <2>1 DEF Seen
    <3> HIDE DEF fields, n
    <3>2. QED BY <2>8, <3>1
  <2>10. \A room : Marshal(T, v, room) = Writes(fields, v, room)[n]
    BY <1>2 DEF Marshal
  <2> HIDE DEF fields, n
  <2>11. \A room \in Nat :
           IF Len(b) <= room THEN Marshal(T, v, room) = Wrote(b)
                             ELSE Marshal(T, v, room).res # "ok"
    BY <2>4, <2>10
  <2>12. QED BY <2>5, <2>6, <2>9, <2>11
<1>3. QED BY <1>1, <1>2

\* Of an integer the level above shows everything, too.
THEOREM WordsNest == InnerWords => Words
BY DEF InnerWords, Words, Seen, Composite

\* One field that is not written is enough for none of those behind it to be.
LEMMA FailuresLast ==
  ASSUME NEW fields, Len(fields) \in Nat, NEW v, NEW room,
         NEW k \in 1 .. Len(fields), Writes(fields, v, room)[k].res # "ok"
  PROVE  Writes(fields, v, room)[Len(fields)].res # "ok"
<1> DEFINE out == Writes(fields, v, room)
           P == {j \in Nat : k + j <= Len(fields) => out[k + j].res # "ok"}
<1>1. 0 \in P
  OBVIOUS
<1>2. ASSUME NEW j \in P
      PROVE  j + 1 \in P
  <2> DEFINE n == k + (j + 1)
  <2> SUFFICES ASSUME n <= Len(fields)
               PROVE  out[n].res # "ok"
    OBVIOUS
  <2>1. n \in 1 .. Len(fields) /\ n - 1 = k + j /\ k + j <= Len(fields)
    OBVIOUS
  <2>2. out[n - 1].res # "ok"
    BY <2>1
  <2> HIDE DEF n, P
  <2>3. out[n] = Write(out[n - 1], fields, n, v, room)
    BY <2>1, WritesSteps
  <2> HIDE DEF out
  <2>4. QED BY <2>2, <2>3, WriteIsOk
<1> HIDE DEF P
<1>3. P = Nat
  BY <1>1, <1>2, SetInduction DEF P
<1>4. Len(fields) - k \in P /\ k + (Len(fields) - k) = Len(fields)
  BY <1>3
<1>5. QED BY <1>4 DEF P

\* If the impls of the fields refuse what counts more than it has, then so does
\* the one that is generated, which indexes past its array at the latest.
THEOREM RefusingNests == InnerRefuses => Refuses
<1> SUFFICES ASSUME InnerRefuses, NEW T, NEW v, NEW room, IsType(T), Overcounted(T, v)
             PROVE  Marshal(T, v, room).res # "ok"
  BY DEF Refuses
<1>1. CASE T.kind \notin Composite
  BY <1>1 DEF InnerRefuses, IsType, Overcounted, Marshal
<1>2. CASE T.kind \in Composite
  <2> DEFINE fields == Fields(T)
             out == Writes(fields, v, room)
  <2>1. Len(fields) \in Nat /\ DOMAIN fields = 1 .. Len(fields)
        /\ \A k \in DOMAIN fields : IsField(fields, k)
    BY <1>2 DEF IsType, AreFields
  <2>2. PICK k \in DOMAIN fields :
          \/ Overruns(fields[k], v)
          \/ Refusal(fields[k], v) = "ok" /\ InnerOvercounted(Resolve(fields[k], v), v[k])
    BY <1>2 DEF Overcounted
  <2> HIDE DEF fields
  <2>3. k \in 1 .. Len(fields) /\ k \in Nat /\ IsField(fields, k)
    BY <2>1
  <2>4. out[k] = Write(out[k - 1], fields, k, v, room)
    BY <2>1, <2>3, WritesSteps
  <2> HIDE DEF out
  <2>5. out[k].res # "ok"
    <3>1. CASE Overruns(fields[k], v)
      BY <2>4, <3>1, WriteIsOk
    <3>2. CASE Refusal(fields[k], v) = "ok" /\ InnerOvercounted(Resolve(fields[k], v), v[k])
      <4>1. InnerIsType(Resolve(fields[k], v))
        BY <2>3, <3>2, ResolveIsType
      <4>2. InnerMarshal(Resolve(fields[k], v), v[k], room - Len(out[k - 1].bytes)).res # "ok"
        BY <3>2, <4>1 DEF InnerRefuses
      <4>3. QED BY <2>4, <4>2, WriteIsOk
    <3>3. QED BY <2>2, <3>1, <3>2
  <2>6. out[Len(fields)].res # "ok"
    BY <2>1, <2>3, <2>5, FailuresLast DEF out
  <2>7. QED BY <1>2, <2>6 DEF Marshal, out, fields
<1>3. QED BY <1>1, <1>2

-----------------------------------------------------------------------------
(* Memory.                                                                 *)

\* The alignments there are.
Aligns == {1, 2, 4, 8}

\* f is where each of the first n fields ends.
AreEnds(f, fields, n) ==
  f = [k \in 0 .. n |-> IF k = 0 THEN 0
                        ELSE RoundUp(f[k - 1], fields[k].align) + fields[k].size]

\* What Ends goes through, field by field.
LEMMA EndsSteps ==
  ASSUME NEW fields, Len(fields) \in Nat
  PROVE  /\ Ends(fields)[0] = 0
         /\ \A k \in 1 .. Len(fields) :
              Ends(fields)[k] =
                RoundUp(Ends(fields)[k - 1], fields[k].align) + fields[k].size
<1> DEFINE P == {n \in Nat : \E f : AreEnds(f, fields, n)}
<1>1. 0 \in P
  <2>1. AreEnds([k \in 0 .. 0 |-> 0], fields, 0)
    BY DEF AreEnds
  <2>2. QED BY <2>1
<1>2. ASSUME NEW n \in P
      PROVE  n + 1 \in P
  <2>1. PICK f : AreEnds(f, fields, n)
    OBVIOUS
  <2> DEFINE g == [k \in 0 .. n + 1 |-> IF k = 0 THEN 0 ELSE RoundUp(f[k - 1], fields[k].align) + fields[k].size]
             h == [k \in 0 .. n + 1 |-> IF k = 0 THEN 0 ELSE RoundUp(g[k - 1], fields[k].align) + fields[k].size]
  <2>2. ASSUME NEW k \in 0 .. n
        PROVE  g[k] = f[k]
    <3>1. k \in 0 .. n + 1
      OBVIOUS
    <3>2. f[k] = IF k = 0 THEN 0 ELSE RoundUp(f[k - 1], fields[k].align) + fields[k].size
      BY <2>1 DEF AreEnds
    <3>3. QED BY <3>1, <3>2
  <2>3. ASSUME NEW k \in 0 .. n + 1
        PROVE  g[k] = h[k]
    <3>1. CASE k = 0
      BY <3>1
    <3>2. CASE k # 0
      <4>1. k - 1 \in 0 .. n
        BY <3>2
      <4>2. g[k - 1] = f[k - 1]
        BY <2>2, <4>1
      <4>3. g[k] = RoundUp(f[k - 1], fields[k].align) + fields[k].size
        BY <3>2
      <4> HIDE DEF g
      <4>4. h[k] = RoundUp(g[k - 1], fields[k].align) + fields[k].size
        BY <3>2
      <4>5. QED BY <4>2, <4>3, <4>4
    <3>3. QED BY <3>1, <3>2
  <2>4. g = h
    BY <2>3
  <2> HIDE DEF g
  <2>5. AreEnds(g, fields, n + 1)
    BY <2>4 DEF AreEnds
  <2>6. QED BY <2>5
<1> HIDE DEF P
<1>3. P = Nat
  BY <1>1, <1>2, SetInduction DEF P
<1>4. \E f : AreEnds(f, fields, Len(fields))
  BY <1>3 DEF P
<1>5. AreEnds(Ends(fields), fields, Len(fields))
  BY <1>4 DEF AreEnds, Ends
<1>6. QED BY <1>5 DEF AreEnds

LEMMA RoundUpIsMore ==
  ASSUME NEW n \in Nat, NEW align \in Aligns
  PROVE  RoundUp(n, align) \in Nat /\ n <= RoundUp(n, align)
<1>1. CASE align = 1
  BY <1>1 DEF RoundUp
<1>2. CASE align = 2
  BY <1>2 DEF RoundUp
<1>3. CASE align = 4
  BY <1>3 DEF RoundUp
<1>4. CASE align = 8
  BY <1>4 DEF RoundUp
<1>5. QED BY <1>1, <1>2, <1>3, <1>4 DEF Aligns

LEMMA AlignOfIs ==
  ASSUME NEW types, \A k \in DOMAIN types : types[k].align \in Aligns
  PROVE  AlignOf(types) \in Aligns
<1> DEFINE all == {1} \cup {types[k].align : k \in DOMAIN types}
<1>1. all \subseteq Aligns /\ 1 \in all
  BY DEF Aligns
<1> HIDE DEF all
<1>2. \E m \in all : \A n \in all : m >= n
  <2>1. \A n \in all : n \in Nat /\ (n = 1 \/ n = 2 \/ n = 4 \/ n = 8)
    BY <1>1 DEF Aligns
  <2>2. CASE 8 \in all
    BY <2>1, <2>2
  <2>3. CASE 8 \notin all /\ 4 \in all
    BY <2>1, <2>3
  <2>4. CASE 8 \notin all /\ 4 \notin all /\ 2 \in all
    BY <2>1, <2>4
  <2>5. CASE 8 \notin all /\ 4 \notin all /\ 2 \notin all
    BY <1>1, <2>1, <2>5
  <2>6. QED BY <2>2, <2>3, <2>4, <2>5
<1>3. Max(all) \in all
  BY <1>2 DEF Max
<1>4. QED BY <1>1, <1>3 DEF AlignOf, all

\* In memory the fields take up at least what they do on the wire.
LEMMA EndsCover ==
  ASSUME NEW fields, Len(fields) \in Nat,
         \A k \in 1 .. Len(fields) : fields[k].size \in Nat /\ fields[k].align \in Aligns,
         NEW k \in 0 .. Len(fields)
  PROVE  /\ Room(fields)[k] \in Nat /\ Ends(fields)[k] \in Nat
         /\ Room(fields)[k] <= Ends(fields)[k]
<1> DEFINE P == {j \in Nat : j <= Len(fields) =>
                   /\ Room(fields)[j] \in Nat /\ Ends(fields)[j] \in Nat
                   /\ Room(fields)[j] <= Ends(fields)[j]}
<1>1. /\ Len(fields) \in Nat
      /\ \A j \in 1 .. Len(fields) : fields[j].size \in Nat /\ fields[j].align \in Aligns
  OBVIOUS
<1>2. 0 \in P
  BY <1>1, RoomSteps, EndsSteps
<1>3. ASSUME NEW j \in P
      PROVE  j + 1 \in P
  <2> DEFINE n == j + 1
             end == Ends(fields)[j]
  <2> SUFFICES ASSUME n <= Len(fields)
               PROVE  /\ Room(fields)[n] \in Nat /\ Ends(fields)[n] \in Nat
                      /\ Room(fields)[n] <= Ends(fields)[n]
    BY j \in Nat
  <2>1. /\ n \in 1 .. Len(fields) /\ n - 1 = j
        /\ Room(fields)[j] \in Nat /\ end \in Nat /\ Room(fields)[j] <= end
    BY <1>1
  <2> HIDE DEF n, end
  <2>2. Room(fields)[n] = Room(fields)[j] + fields[n].size
    BY <1>1, <2>1, RoomSteps
  <2>3. Ends(fields)[n] = RoundUp(end, fields[n].align) + fields[n].size
    BY <1>1, <2>1, EndsSteps DEF end
  <2> DEFINE start == RoundUp(end, fields[n].align)
  <2>4. fields[n].size \in Nat /\ fields[n].align \in Aligns
    BY <1>1, <2>1
  <2>5. start \in Nat /\ end <= start
    BY ONLY <2>1, <2>4, RoundUpIsMore
  <2>6. Ends(fields)[n] = start + fields[n].size
    BY <2>3
  <2> HIDE DEF start
  <2>7. QED BY ONLY <2>1, <2>2, <2>4, <2>5, <2>6, SMTT(30)
<1> HIDE DEF P
<1>4. P = Nat
  BY <1>2, <1>3, SetInduction DEF P
<1>5. k \in P /\ k <= Len(fields)
  BY <1>1, <1>4
<1>6. QED BY <1>5 DEF P

\* So its repr(C) size is at least what a struct takes up on the wire.
LEMMA PackedCovers ==
  ASSUME NEW fields, Len(fields) \in Nat, DOMAIN fields = 1 .. Len(fields),
         \A k \in 1 .. Len(fields) : fields[k].size \in Nat /\ fields[k].align \in Aligns
  PROVE  /\ Room(fields)[Len(fields)] \in Nat /\ Packed(fields) \in Nat
         /\ Room(fields)[Len(fields)] <= Packed(fields)
<1> DEFINE n == Len(fields)
           end == Ends(fields)[n]
<1>1. Room(fields)[n] \in Nat /\ end \in Nat /\ Room(fields)[n] <= end
  BY EndsCover, n \in 0 .. n
<1>2. AlignOf(fields) \in Aligns
  BY AlignOfIs
<1>3. Packed(fields) = RoundUp(end, AlignOf(fields))
  BY DEF Packed
<1> HIDE DEF end
<1>4. Packed(fields) \in Nat /\ end <= Packed(fields)
  BY <1>1, <1>2, <1>3, RoundUpIsMore
<1> HIDE DEF n
<1>5. Room(fields)[n] \in Nat /\ Packed(fields) \in Nat /\ Room(fields)[n] <= Packed(fields)
  BY <1>1, <1>4
<1>6. QED BY <1>5 DEF n

LEMMA RoomOfTwo ==
  ASSUME NEW first, NEW second, first.size \in Nat, second.size \in Nat
  PROVE  Room(<<first, second>>)[2] = first.size + second.size
<1> DEFINE two == <<first, second>>
<1>1. Len(two) = 2 /\ Len(two) \in Nat /\ two[1] = first /\ two[2] = second
  OBVIOUS
<1> HIDE DEF two
<1>2. /\ Room(two)[0] = 0
      /\ \A k \in 1 .. 2 : Room(two)[k] = Room(two)[k - 1] + two[k].size
  BY <1>1, RoomSteps
<1>3. Room(two)[1] = Room(two)[0] + first.size
  <2>1. 1 \in 1 .. 2 /\ 1 - 1 = 0
    OBVIOUS
  <2>2. QED BY <1>1, <1>2, <2>1
<1>4. Room(two)[2] = Room(two)[1] + second.size
  <2>1. 2 \in 1 .. 2 /\ 2 - 1 = 1
    OBVIOUS
  <2>2. QED BY <1>1, <1>2, <2>1
<1>5. Room(two)[2] = first.size + second.size
  BY <1>2, <1>3, <1>4
<1>6. QED BY <1>5 DEF two

\* The types that nothing is generated for are types: a Tpm2b has room for its
\* size and for all that it may hold.
THEOREM LeavesFit ==
  /\ \A width \in {1, 2, 4, 8} : LeafIsType(Word(width))
  /\ \A n \in Nat : LeafIsType(Bytes(n))
  /\ \A max \in 0 .. U16Max : LeafIsType(Blob(max))
<1>1. ASSUME NEW width \in {1, 2, 4, 8}
      PROVE  LeafIsType(Word(width))
  BY DEF LeafIsType, Word
<1>2. ASSUME NEW n \in Nat
      PROVE  LeafIsType(Bytes(n))
  BY DEF LeafIsType, Bytes
<1>3. ASSUME NEW max \in 0 .. U16Max
      PROVE  LeafIsType(Blob(max))
  <2> DEFINE size == Word(2)
             buffer == Bytes(max)
             fields == <<size, buffer>>
  <2>1. max \in Nat
    BY DEF U16Max
  <2>2. /\ size.size = 2 /\ size.align = 2
        /\ buffer.size = max /\ buffer.align = 1
    BY DEF Word, Bytes
  <2> HIDE DEF size, buffer
  <2>3. /\ Len(fields) = 2 /\ DOMAIN fields = 1 .. 2
        /\ fields[1] = size /\ fields[2] = buffer
    OBVIOUS
  <2>4. Room(fields)[2] = 2 + max
    BY <2>1, <2>2, RoomOfTwo
  <2> HIDE DEF fields
  <2>5. \A k \in 1 .. 2 : fields[k].size \in Nat /\ fields[k].align \in Aligns
    <3>1. \A k \in 1 .. 2 : k = 1 \/ k = 2
      OBVIOUS
    <3>2. QED BY <2>1, <2>2, <2>3, <3>1 DEF Aligns
  <2>6. Packed(fields) \in Nat /\ Room(fields)[2] <= Packed(fields)
    <3>1. Len(fields) \in Nat
      BY <2>3
    <3>2. QED BY <2>3, <2>5, <3>1, PackedCovers
  <2>7. Packed(fields) \in Nat /\ max + 2 <= Packed(fields)
    BY <2>1, <2>4, <2>6
  <2>8. /\ Blob(max).kind = "blob" /\ Blob(max).max = max
        /\ Blob(max).size = Packed(fields)
    BY DEF Blob, fields, size, buffer
  <2>9. QED BY <2>7, <2>8 DEF LeafIsType
<1>4. QED BY <1>1, <1>2, <1>3

\* A struct of fields that the macro accepts is a type it accepts: on the wire it
\* never takes more than its repr(C) size, so a holder's buffer is long enough.
THEOREM StructsFit ==
  \A fields :
    AreFields(fields) /\ (\A k \in DOMAIN fields : fields[k].align \in Aligns) =>
      IsType(Struct(fields))
<1> SUFFICES ASSUME NEW fields, AreFields(fields),
                    \A k \in DOMAIN fields : fields[k].align \in Aligns
             PROVE  IsType(Struct(fields))
  OBVIOUS
<1> DEFINE T == Struct(fields)
<1>1. T.kind = "struct" /\ T.fields = fields /\ T.size = Packed(fields)
  BY DEF Struct
<1>2. /\ Len(fields) \in Nat /\ DOMAIN fields = 1 .. Len(fields)
      /\ \A k \in 1 .. Len(fields) : fields[k].size \in Nat /\ fields[k].align \in Aligns
  BY DEF AreFields, IsField
<1>3. /\ Room(fields)[Len(fields)] \in Nat /\ Packed(fields) \in Nat
      /\ Room(fields)[Len(fields)] <= Packed(fields)
  BY <1>2, PackedCovers
<1> HIDE DEF T
<1>4. Fields(T) = fields
  BY <1>1 DEF Fields
<1>5. IsType(T)
  BY <1>1, <1>3, <1>4 DEF IsType, Composite
<1>6. QED BY <1>5 DEF T

\* Of finitely many numbers one is the largest.
LEMMA OneIsLargest ==
  ASSUME NEW n \in Nat, n # 0, NEW f, \A k \in 1 .. n : f[k] \in Nat
  PROVE  \E m \in 1 .. n : \A k \in 1 .. n : f[k] <= f[m]
<1> DEFINE P == {j \in Nat : j \in 1 .. n =>
                   \E m \in 1 .. j : \A k \in 1 .. j : f[k] <= f[m]}
<1>1. 0 \in P
  OBVIOUS
<1>2. ASSUME NEW j \in P
      PROVE  j + 1 \in P
  <2> SUFFICES ASSUME j + 1 \in 1 .. n
               PROVE  \E m \in 1 .. j + 1 : \A k \in 1 .. j + 1 : f[k] <= f[m]
    OBVIOUS
  <2>1. CASE j = 0
    <3>1. 1 .. j + 1 = {1}
      BY <2>1
    <3>2. f[1] \in Nat
      BY <2>1
    <3>3. QED BY <3>1, <3>2
  <2>2. CASE j # 0
    <3>1. PICK m \in 1 .. j : \A k \in 1 .. j : f[k] <= f[m]
      BY <2>2
    <3>2. \A k \in 1 .. j + 1 : f[k] \in Nat /\ (k \in 1 .. j \/ k = j + 1)
      OBVIOUS
    <3>3. CASE f[j + 1] <= f[m]
      BY <3>1, <3>2, <3>3
    <3>4. CASE f[m] < f[j + 1]
      BY <3>1, <3>2, <3>4
    <3>5. QED BY <3>2, <3>3, <3>4
  <2>3. QED BY <2>1, <2>2
<1> HIDE DEF P
<1>3. P = Nat
  BY <1>1, <1>2, SetInduction DEF P
<1>4. QED BY <1>3 DEF P

\* A union has room for each of its variants.
LEMMA UnionSizeCovers ==
  ASSUME NEW types, IsFiniteSet(DOMAIN types),
         \A s \in DOMAIN types : types[s].size \in Nat /\ types[s].align \in Aligns,
         NEW s \in DOMAIN types
  PROVE  UnionSize(types) \in Nat /\ types[s].size \in 0 .. UnionSize(types)
<1> DEFINE sizes == {types[k].size : k \in DOMAIN types}
           most == Max(sizes)
<1>1. PICK keys \in Seq(DOMAIN types) :
        \A k \in DOMAIN types : \E i \in 1 .. Len(keys) : keys[i] = k
  BY DEF IsFiniteSet
<1> DEFINE f == [i \in 1 .. Len(keys) |-> types[keys[i]].size]
<1>2. /\ Len(keys) \in Nat /\ Len(keys) # 0
      /\ \A i \in 1 .. Len(keys) : keys[i] \in DOMAIN types
  BY <1>1
<1>3. \A i \in 1 .. Len(keys) : f[i] \in Nat
  BY <1>2
<1>4. PICK m \in 1 .. Len(keys) : \A i \in 1 .. Len(keys) : f[i] <= f[m]
  <2> HIDE DEF f
  <2>1. QED BY <1>2, <1>3, OneIsLargest
<1>5. f[m] \in sizes /\ \A x \in sizes : x \in Nat /\ x <= f[m]
  <2>1. f[m] \in sizes
    BY <1>2, <1>4
  <2>2. ASSUME NEW k \in DOMAIN types
        PROVE  types[k].size \in Nat /\ types[k].size <= f[m]
    BY <1>1, <1>4
  <2>3. QED BY <2>1, <2>2
<1> HIDE DEF sizes, f
<1>6. most \in sizes /\ \A x \in sizes : x <= most
  <2>1. \E x \in sizes : \A y \in sizes : x >= y
    BY <1>5
  <2>2. QED BY <2>1, <1>5 DEF Max
<1>7. most \in Nat /\ types[s].size \in Nat /\ types[s].size <= most
  BY <1>5, <1>6 DEF sizes
<1>8. AlignOf(types) \in Aligns
  BY AlignOfIs
<1>9. UnionSize(types) = RoundUp(most, AlignOf(types))
  BY DEF UnionSize, sizes
<1> HIDE DEF most
<1>10. QED BY <1>7, <1>8, <1>9, RoundUpIsMore

\* The selector, the payloads and the size of each: an enum that the macro accepts.
IsEnum(width, default, variants) ==
  /\ width \in {1, 2, 4} /\ InnerIsType(Tag(width, default))
  /\ IsFiniteSet(DOMAIN variants) /\ DOMAIN variants # {}
  /\ \A s \in DOMAIN variants : /\ InnerIsType(Struct(variants[s]))
                                /\ Struct(variants[s]).size \in Nat
                                /\ Struct(variants[s]).align \in Aligns

\* A tag and a union.
LEMMA TaggedFields ==
  ASSUME NEW width, NEW default, NEW variants, IsEnum(width, default, variants),
         NEW tag, NEW union, <<tag, union>> = Tagged(width, default, variants)
  PROVE  /\ tag.kind = "word" /\ tag.width # 8 /\ InnerIsType(tag)
         /\ tag.size \in Nat /\ tag.align \in Aligns
         /\ union.kind = "chosen" /\ union.by = 1
         /\ union.size \in Nat /\ union.align \in Aligns
         /\ \A s \in DOMAIN union.variants :
              /\ InnerIsType(union.variants[s])
              /\ union.variants[s].size \in 0 .. union.size
<1> DEFINE types == [s \in DOMAIN variants |-> Struct(variants[s])]
<1>1. tag = Tag(width, default) /\ union = Chosen(1, default, types)
  BY DEF Tagged
<1>2. /\ tag.kind = "word" /\ tag.width = width
      /\ tag.size = width /\ tag.align = width
  BY <1>1 DEF Tag, Word
<1>3. /\ union.kind = "chosen" /\ union.by = 1 /\ union.variants = types
      /\ union.size = UnionSize(types) /\ union.align = AlignOf(types)
  BY <1>1 DEF Chosen
<1>4. /\ DOMAIN types # {} /\ IsFiniteSet(DOMAIN types)
      /\ \A s \in DOMAIN types : /\ InnerIsType(types[s])
                                 /\ types[s].size \in Nat /\ types[s].align \in Aligns
  BY DEF IsEnum
<1>5. width \in Nat /\ width # 8 /\ width \in Aligns /\ InnerIsType(tag)
  BY <1>1 DEF IsEnum, Aligns
<1> HIDE DEF types
<1>6. \A s \in DOMAIN types : types[s].size \in 0 .. UnionSize(types)
  BY <1>4, UnionSizeCovers
<1>7. UnionSize(types) \in Nat
  <2>1. PICK s : s \in DOMAIN types
    BY <1>4
  <2>2. QED BY <1>4, <2>1, UnionSizeCovers
<1>8. AlignOf(types) \in Aligns
  BY <1>4, AlignOfIs
<1>9. \A s \in DOMAIN union.variants :
        /\ InnerIsType(union.variants[s])
        /\ union.variants[s].size \in 0 .. union.size
  BY <1>3, <1>4, <1>6
<1>10. QED BY <1>2, <1>3, <1>5, <1>7, <1>8, <1>9

\* An enum of payloads that the macro accepts is a type it accepts: the union that
\* UNION_SIZE measures holds each variant.
THEOREM EnumsFit ==
  \A width, default, variants :
    IsEnum(width, default, variants) => IsType(Enum(width, default, variants))
<1> SUFFICES ASSUME NEW width, NEW default, NEW variants,
                    IsEnum(width, default, variants)
             PROVE  IsType(Enum(width, default, variants))
  OBVIOUS
<1> DEFINE fields == Tagged(width, default, variants)
<1>1. PICK tag, union : fields = <<tag, union>>
  BY DEF Tagged
<1>2. /\ fields[1] = tag /\ fields[2] = union
      /\ Len(fields) = 2 /\ DOMAIN fields = 1 .. 2
  BY <1>1
<1>3. /\ tag.kind = "word" /\ tag.width # 8 /\ InnerIsType(tag)
      /\ tag.size \in Nat /\ tag.align \in Aligns
      /\ union.kind = "chosen" /\ union.by = 1
      /\ union.size \in Nat /\ union.align \in Aligns
      /\ \A s \in DOMAIN union.variants :
           /\ InnerIsType(union.variants[s])
           /\ union.variants[s].size \in 0 .. union.size
  BY <1>1, TaggedFields
<1> HIDE DEF fields
<1>4. IsField(fields, 1)
  BY <1>2, <1>3 DEF IsField
<1>5. IsField(fields, 2)
  BY <1>2, <1>3 DEF IsField
<1>6. \A k \in DOMAIN fields : k = 1 \/ k = 2
  BY <1>2
<1>7. AreFields(fields) /\ \A k \in DOMAIN fields : fields[k].align \in Aligns
  BY <1>2, <1>3, <1>4, <1>5, <1>6 DEF AreFields
<1>8. QED BY <1>7, StructsFit DEF Enum, fields

\* The first n entries of an array of types that the macro accepts are a type it
\* accepts, no larger than the array: the step that a count may take.
THEOREM ArraysFit ==
  \A max, n \in Nat : \A by, of :
    /\ n <= max
    /\ InnerIsType(of) /\ of.size \in Nat /\ of.kind \notin {"counted", "chosen"}
    => /\ IsType(Entries(Counted(by, max, of), n))
       /\ Entries(Counted(by, max, of), n).size \in 0 .. Counted(by, max, of).size
<1> SUFFICES ASSUME NEW max \in Nat, NEW n \in Nat, NEW by, NEW of, n <= max,
                    InnerIsType(of), of.size \in Nat,
                    of.kind \notin {"counted", "chosen"}
             PROVE  /\ IsType(Entries(Counted(by, max, of), n))
                    /\ Entries(Counted(by, max, of), n).size
                         \in 0 .. Counted(by, max, of).size
  OBVIOUS
<1> DEFINE F == Counted(by, max, of)
           T == Entries(F, n)
           fields == [i \in 1 .. n |-> of]
<1>1. F.max = max /\ F.of = of /\ F.size = max * of.size
  BY DEF Counted
<1>2. /\ T.kind = "array" /\ T.length = n /\ T.max = max /\ T.of = of
      /\ T.size = n * of.size
  BY <1>1 DEF Entries
<1>3. /\ Len(fields) = n /\ DOMAIN fields = 1 .. n
      /\ \A k \in 1 .. n : fields[k] = of
  OBVIOUS
<1>4. n * of.size \in Nat /\ n * of.size <= max * of.size
  OBVIOUS
<1> HIDE DEF F, T, fields
<1>5. Fields(T) = fields
  BY <1>2 DEF Fields, fields
<1>6. AreFields(fields)
  <2>1. \A k \in 1 .. n : IsField(fields, k)
    BY <1>3 DEF IsField
  <2>2. QED BY <1>3, <2>1 DEF AreFields
<1>7. Room(fields)[n] = n * of.size
  <2> DEFINE P == {j \in Nat : j <= n => Room(fields)[j] = j * of.size}
  <2>1. 0 \in P
    BY <1>3, RoomSteps
  <2>2. ASSUME NEW j \in P
        PROVE  j + 1 \in P
    <3>1. CASE j + 1 <= n
      <4>1. j + 1 \in 1 .. n /\ Room(fields)[j] = j * of.size
        BY <3>1
      <4>2. Room(fields)[j + 1] = Room(fields)[j] + of.size
        <5>1. /\ Len(fields) \in Nat /\ j + 1 \in 1 .. Len(fields)
              /\ (j + 1) - 1 = j /\ fields[j + 1] = of
          BY <1>3, <4>1
        <5>2. Room(fields)[j + 1] = Room(fields)[(j + 1) - 1] + fields[j + 1].size
          BY <5>1, RoomSteps
        <5>3. QED BY <5>1, <5>2
      <4>3. j * of.size + of.size = (j + 1) * of.size
        OBVIOUS
      <4>4. QED BY <4>1, <4>2, <4>3
    <3>2. QED BY <3>1
  <2> HIDE DEF P
  <2>3. P = Nat
    BY <2>1, <2>2, SetInduction DEF P
  <2>4. QED BY <2>3 DEF P
<1>8. IsType(T)
  BY <1>2, <1>3, <1>4, <1>5, <1>6, <1>7 DEF IsType, Composite
<1>9. QED BY <1>1, <1>2, <1>4, <1>8 DEF F, T

\* An element behind a sequence.
LEMMA OneBehind ==
  ASSUME NEW S, NEW s \in Seq(S), NEW e \in S
  PROVE  /\ s \o <<e>> \in Seq(S) /\ Len(s \o <<e>>) = Len(s) + 1
         /\ Len(s) \in Nat
         /\ \A i \in 1 .. Len(s) : (s \o <<e>>)[i] = s[i]
         /\ (s \o <<e>>)[Len(s) + 1] = e
<1> DEFINE t == <<e>>
<1>1. t \in Seq(S) /\ Len(t) = 1 /\ t[1] = e
  OBVIOUS
<1> HIDE DEF t
<1>2. /\ s \o t \in Seq(S) /\ Len(s \o t) = Len(s) + Len(t)
      /\ Len(s) \in Nat
      /\ \A i \in 1 .. Len(s) : (s \o t)[i] = s[i]
      /\ \A i \in 1 .. Len(t) : (s \o t)[Len(s) + i] = t[i]
  <2>1. s \in Seq(S) /\ t \in Seq(S)
    BY <1>1
  <2>2. s \o t \in Seq(S) /\ Len(s) \in Nat
    BY ONLY <2>1, ConcatParts
  <2>3. Len(s \o t) = Len(s) + Len(t)
    BY ONLY <2>1, ConcatParts
  <2>4. \A i \in 1 .. Len(s) : (s \o t)[i] = s[i]
    BY ONLY <2>1, ConcatParts
  <2>5. \A i \in 1 .. Len(t) : (s \o t)[Len(s) + i] = t[i]
    BY ONLY <2>1, ConcatParts
  <2>6. QED BY <2>2, <2>3, <2>4, <2>5
<1>3. (s \o t)[Len(s) + 1] = e
  BY <1>1, <1>2
<1>4. Len(s \o t) = Len(s) + 1
  BY <1>1, <1>2
<1>5. QED BY <1>2, <1>3, <1>4 DEF t

\* The fields around a selector that is marshaled away from its variant.
IsApart(wire, fields, b, tag, union) ==
  /\ Len(wire) = Len(fields) + 2 /\ DOMAIN wire = 1 .. Len(fields) + 2
  /\ \A k \in 1 .. b : wire[k] = fields[k]
  /\ wire[b + 1] = tag
  /\ \A k \in b + 1 .. Len(fields) : wire[k + 1] = fields[k]
  /\ wire[Len(fields) + 2] = union

LEMMA Rearranged ==
  ASSUME NEW S, NEW fields \in Seq(S), NEW b \in 0 .. Len(fields),
         NEW tag \in S, NEW union \in S, NEW wire,
         wire = SubSeq(fields, 1, b) \o <<tag>> \o After(fields, b) \o <<union>>
  PROVE  IsApart(wire, fields, b, tag, union)
<1> DEFINE n == Len(fields)
           before == SubSeq(fields, 1, b)
           behind == After(fields, b)
<1>1. /\ before \in Seq(S) /\ Len(before) = b
      /\ \A k \in 1 .. b : before[k] = fields[k]
  OBVIOUS
<1>2. /\ behind \in Seq(S) /\ Len(behind) = n - b
      /\ \A k \in 1 .. n - b : behind[k] = fields[b + k]
  BY SMTT(30) DEF After
<1>3. <<tag>> \in Seq(S) /\ <<union>> \in Seq(S) /\ n \in Nat /\ b \in Nat /\ b <= n
  OBVIOUS
<1> HIDE DEF before, behind, n
<1> DEFINE upTo == before \o <<tag>>
           most == upTo \o behind
<1>4. /\ upTo \in Seq(S) /\ Len(upTo) = b + 1
      /\ \A k \in 1 .. b : upTo[k] = fields[k]
      /\ upTo[b + 1] = tag
  <2>1. /\ upTo \in Seq(S) /\ Len(upTo) = Len(before) + 1
        /\ \A i \in 1 .. Len(before) : upTo[i] = before[i]
        /\ upTo[Len(before) + 1] = tag
    BY ONLY <1>1, tag \in S, OneBehind
  <2> HIDE DEF upTo
  <2>2. QED BY <1>1, <2>1
<1> HIDE DEF upTo
<1>5. /\ most \in Seq(S) /\ Len(most) = n + 1
      /\ \A k \in 1 .. b + 1 : most[k] = upTo[k]
      /\ \A k \in 1 .. n - b : most[b + 1 + k] = behind[k]
  <2>1. /\ most \in Seq(S) /\ Len(most) = Len(upTo) + Len(behind)
        /\ \A i \in 1 .. Len(upTo) : most[i] = upTo[i]
        /\ \A i \in 1 .. Len(behind) : most[Len(upTo) + i] = behind[i]
    <3>1. upTo \in Seq(S) /\ behind \in Seq(S)
      BY <1>2, <1>4
    <3>2. most \in Seq(S)
      BY ONLY <3>1, ConcatParts
    <3>3. Len(most) = Len(upTo) + Len(behind)
      BY ONLY <3>1, ConcatParts
    <3>4. \A i \in 1 .. Len(upTo) : most[i] = upTo[i]
      BY ONLY <3>1, ConcatParts
    <3>5. \A i \in 1 .. Len(behind) : most[Len(upTo) + i] = behind[i]
      BY ONLY <3>1, ConcatParts
    <3>6. QED BY <3>2, <3>3, <3>4, <3>5
  <2> HIDE DEF most
  <2>2. Len(most) = n + 1
    BY <1>2, <1>3, <1>4, <2>1
  <2>3. QED BY <1>2, <1>4, <2>1, <2>2
<1> HIDE DEF most
<1>6. wire = most \o <<union>>
  BY DEF most, upTo, before, behind
<1>7. /\ Len(wire) = n + 2 /\ DOMAIN wire = 1 .. n + 2
      /\ \A k \in 1 .. n + 1 : wire[k] = most[k]
      /\ wire[n + 2] = union
  <2>1. /\ wire \in Seq(S) /\ Len(wire) = Len(most) + 1
        /\ \A i \in 1 .. Len(most) : wire[i] = most[i]
        /\ wire[Len(most) + 1] = union
    BY ONLY <1>5, <1>6, union \in S, OneBehind
  <2>2. Len(most) + 1 = n + 2
    BY <1>3, <1>5
  <2>3. DOMAIN wire = 1 .. Len(wire)
    BY <2>1
  <2>4. QED BY <1>5, <2>1, <2>2, <2>3
<1>8. ASSUME NEW k \in 1 .. b
      PROVE  wire[k] = fields[k]
  <2>1. k \in 1 .. b + 1 /\ k \in 1 .. n + 1
    BY <1>3
  <2>2. QED BY <1>4, <1>5, <1>7, <2>1
<1>9. wire[b + 1] = tag
  <2>1. b + 1 \in 1 .. b + 1 /\ b + 1 \in 1 .. n + 1
    BY <1>3
  <2>2. QED BY <1>4, <1>5, <1>7, <2>1
<1>10. ASSUME NEW k \in b + 1 .. n
       PROVE  wire[k + 1] = fields[k]
  <2> DEFINE i == k - b
  <2>1. i \in 1 .. n - b /\ b + i = k /\ b + 1 + i = k + 1 /\ k + 1 \in 1 .. n + 1
    BY <1>3
  <2> HIDE DEF i
  <2>2. most[b + 1 + i] = behind[i] /\ behind[i] = fields[b + i]
    BY <1>2, <1>5, <2>1
  <2>3. QED BY <1>7, <2>1, <2>2
<1>11. QED BY <1>7, <1>8, <1>9, <1>10 DEF n, IsApart

\* The fields as they are marshaled take no more than those of the struct, whose
\* last is the enum with its selector.
LEMMA RearrangedRoom ==
  ASSUME NEW n \in Nat, NEW b \in 0 .. n, NEW all, NEW wire,
         Len(all) = n + 1, Len(wire) = n + 2,
         \A k \in 1 .. n + 1 : all[k].size \in Nat,
         \A k \in 1 .. b : wire[k] = all[k],
         \A k \in b + 1 .. n : wire[k + 1] = all[k],
         wire[b + 1].size \in Nat, wire[n + 2].size \in Nat,
         wire[b + 1].size + wire[n + 2].size <= all[n + 1].size
  PROVE  /\ Room(wire)[n + 2] \in Nat /\ Room(all)[n + 1] \in Nat
         /\ Room(wire)[n + 2] <= Room(all)[n + 1]
<1> DEFINE P == {j \in Nat : j <= n =>
                   /\ Room(all)[j] \in Nat
                   /\ j <= b => Room(wire)[j] = Room(all)[j]
                   /\ b <= j => Room(wire)[j + 1] = Room(all)[j] + wire[b + 1].size}
<1>1. /\ Room(all)[0] = 0 /\ Room(wire)[0] = 0
      /\ \A k \in 1 .. n + 1 : Room(all)[k] = Room(all)[k - 1] + all[k].size
      /\ \A k \in 1 .. n + 2 : Room(wire)[k] = Room(wire)[k - 1] + wire[k].size
  <2>1. Len(all) \in Nat /\ Len(wire) \in Nat
    OBVIOUS
  <2>2. QED BY <2>1, RoomSteps
<1>2. 0 \in P
  <2>1. CASE b = 0
    BY <1>1, <2>1
  <2>2. QED BY <1>1, <2>1
<1>3. ASSUME NEW j \in P
      PROVE  j + 1 \in P
  <2> DEFINE k == j + 1
  <2> SUFFICES ASSUME k <= n
               PROVE  /\ Room(all)[k] \in Nat
                      /\ k <= b => Room(wire)[k] = Room(all)[k]
                      /\ b <= k => Room(wire)[k + 1] = Room(all)[k] + wire[b + 1].size
    OBVIOUS
  <2>1. /\ k \in 1 .. n /\ k - 1 = j /\ k + 1 \in 1 .. n + 2 /\ k + 1 - 1 = k
        /\ k \in 1 .. n + 1 /\ k \in 1 .. n + 2 /\ j \in Nat /\ j + 1 = k
    OBVIOUS
  <2>2. /\ Room(all)[j] \in Nat
        /\ j <= b => Room(wire)[j] = Room(all)[j]
        /\ b <= j => Room(wire)[k] = Room(all)[j] + wire[b + 1].size
    BY <2>1
  <2> HIDE DEF k, P
  <2>3. /\ Room(all)[k] = Room(all)[j] + all[k].size
        /\ Room(wire)[k] = Room(wire)[j] + wire[k].size
        /\ Room(wire)[k + 1] = Room(wire)[k] + wire[k + 1].size
    BY <1>1, <2>1
  <2>4. Room(all)[k] \in Nat
    BY <2>1, <2>2, <2>3
  <2>5. k <= b => Room(wire)[k] = Room(all)[k]
    BY <2>1, <2>2, <2>3
  <2>6. CASE b = k
    BY <2>3, <2>4, <2>5, <2>6
  <2>7. CASE b <= j
    <3>1. wire[k + 1] = all[k]
      BY <2>1, <2>7
    <3>2. QED BY <2>1, <2>2, <2>3, <2>4, <2>5, <2>7, <3>1, SMTT(30)
  <2>8. QED BY <2>1, <2>4, <2>5, <2>6, <2>7
<1>4. P = Nat
  <2> HIDE DEF P
  <2>1. QED BY <1>2, <1>3, SetInduction DEF P
<1>5. /\ Room(all)[n] \in Nat
      /\ Room(wire)[n + 1] = Room(all)[n] + wire[b + 1].size
  BY <1>4
<1>6. /\ Room(wire)[n + 2] = Room(wire)[n + 1] + wire[n + 2].size
      /\ Room(all)[n + 1] = Room(all)[n] + all[n + 1].size
  <2> DEFINE m == n + 2
             l == n + 1
  <2>1. /\ m \in 1 .. n + 2 /\ m - 1 = l /\ l \in 1 .. n + 1 /\ l - 1 = n
    OBVIOUS
  <2> HIDE DEF m, l
  <2>2. Room(wire)[m] = Room(wire)[l] + wire[m].size
    BY <1>1, <2>1
  <2>3. Room(all)[l] = Room(all)[n] + all[l].size
    BY <1>1, <2>1
  <2>4. QED BY <2>2, <2>3 DEF m, l
<1>7. all[n + 1].size \in Nat
  OBVIOUS
<1> DEFINE first == Room(all)[n]
           inner == wire[b + 1].size
           outer == wire[n + 2].size
           whole == all[n + 1].size
<1>8. /\ first \in Nat /\ inner \in Nat /\ outer \in Nat /\ whole \in Nat
      /\ inner + outer <= whole
      /\ Room(wire)[n + 2] = first + inner + outer
      /\ Room(all)[n + 1] = first + whole
  BY <1>5, <1>6, <1>7
<1> HIDE DEF first, inner, outer, whole
<1>9. /\ first + inner + outer \in Nat /\ first + whole \in Nat
      /\ first + inner + outer <= first + whole
  BY ONLY <1>8
<1>10. QED BY <1>8, <1>9

\* So the three types whose impls are written by hand are types as well: that their
\* selector is marshaled before other fields takes no more room than there is.
THEOREM ApartFit ==
  \A S, width, default, variants : \A fields \in Seq(S) : \A before \in 0 .. Len(fields) :
    /\ IsEnum(width, default, variants)
    /\ \A k \in 1 .. Len(fields) :
         /\ InnerIsType(fields[k]) /\ fields[k].kind \notin {"counted", "chosen"}
         /\ fields[k].size \in Nat /\ fields[k].align \in Aligns
    => IsType(Apart(before, fields, Enum(width, default, variants)))
<1> SUFFICES ASSUME NEW S, NEW width, NEW default, NEW variants,
                    NEW fields \in Seq(S), NEW b \in 0 .. Len(fields),
                    IsEnum(width, default, variants),
                    \A k \in 1 .. Len(fields) :
                      /\ InnerIsType(fields[k])
                      /\ fields[k].kind \notin {"counted", "chosen"}
                      /\ fields[k].size \in Nat /\ fields[k].align \in Aligns
             PROVE  IsType(Apart(b, fields, Enum(width, default, variants)))
  OBVIOUS
<1> DEFINE n == Len(fields)
           enum == Enum(width, default, variants)
           moved == [enum.fields[2] EXCEPT !.by = b + 1]
           all == Append(fields, enum)
           T == Apart(b, fields, enum)
<1>1. PICK tag, union : Tagged(width, default, variants) = <<tag, union>>
  BY DEF Tagged
<1>2. /\ tag.kind = "word" /\ tag.width # 8 /\ InnerIsType(tag)
      /\ tag.size \in Nat /\ tag.align \in Aligns
      /\ union.kind = "chosen" /\ union.by = 1
      /\ union.size \in Nat /\ union.align \in Aligns
      /\ \A s \in DOMAIN union.variants :
           /\ InnerIsType(union.variants[s])
           /\ union.variants[s].size \in 0 .. union.size
  BY <1>1, TaggedFields
<1>3. /\ enum.kind = "struct" /\ enum.fields = <<tag, union>>
      /\ enum.align = AlignOf(<<tag, union>>)
  BY <1>1 DEF Enum, Struct
<1>4. /\ moved.kind = "chosen" /\ moved.by = b + 1
      /\ moved.size = union.size /\ moved.variants = union.variants
  <2>1. moved = [Chosen(1, default, [s \in DOMAIN variants |-> Struct(variants[s])])
                   EXCEPT !.by = b + 1]
        /\ union = Chosen(1, default, [s \in DOMAIN variants |-> Struct(variants[s])])
    BY <1>1, <1>3 DEF Tagged
  <2>2. QED BY <2>1 DEF Chosen
<1> DEFINE wire == SubSeq(fields, 1, b) \o <<tag>> \o After(fields, b) \o <<moved>>
<1>5. T.kind = "struct" /\ T.fields = wire /\ T.size = Packed(all)
  <2>1. enum.fields[1] = tag
    BY <1>3
  <2> HIDE DEF enum
  <2>2. T = [Struct(wire) EXCEPT !.size = Packed(all), !.align = AlignOf(all)]
    BY <2>1 DEF Apart
  <2> HIDE DEF wire, all, T
  <2>3. QED BY <2>2 DEF Struct
<1>6. /\ enum.size \in Nat /\ enum.align \in Aligns
      /\ tag.size + union.size <= enum.size
  <2>1. IsType(enum)
    BY EnumsFit
  <2>2. enum.size \in Nat /\ Room(<<tag, union>>)[2] <= enum.size
    BY <1>3, <2>1 DEF IsType, Composite, Fields
  <2>3. Room(<<tag, union>>)[2] = tag.size + union.size
    BY <1>2, RoomOfTwo
  <2>4. enum.align \in Aligns
    <3>1. \A k \in DOMAIN <<tag, union>> : <<tag, union>>[k].align \in Aligns
      BY <1>2
    <3>2. QED BY <1>3, <3>1, AlignOfIs
  <2>5. QED BY <2>2, <2>3, <2>4
<1>7. /\ n \in Nat /\ b \in 0 .. n
      /\ \A k \in 1 .. n : /\ InnerIsType(fields[k])
                           /\ fields[k].kind \notin {"counted", "chosen"}
                           /\ fields[k].size \in Nat /\ fields[k].align \in Aligns
  OBVIOUS
<1> HIDE DEF enum, moved, T
<1>8. /\ Len(all) = n + 1 /\ DOMAIN all = 1 .. n + 1 /\ all[n + 1] = enum
      /\ \A k \in 1 .. n : all[k] = fields[k]
  <2> DEFINE U == S \cup {enum}
  <2>1. fields \in Seq(U) /\ enum \in U
    OBVIOUS
  <2> HIDE DEF U
  <2>2. QED BY <2>1
<1>9. /\ Len(wire) = n + 2 /\ DOMAIN wire = 1 .. n + 2
      /\ \A k \in 1 .. b : wire[k] = fields[k]
      /\ wire[b + 1] = tag
      /\ \A k \in b + 1 .. n : wire[k + 1] = fields[k]
      /\ wire[n + 2] = moved
  <2> DEFINE U == S \cup {tag, moved}
  <2>1. fields \in Seq(U) /\ tag \in U /\ moved \in U
    OBVIOUS
  <2>2. wire = SubSeq(fields, 1, b) \o <<tag>> \o After(fields, b) \o <<moved>>
    OBVIOUS
  <2> HIDE DEF U, wire
  <2>3. IsApart(wire, fields, b, tag, moved)
    BY <2>1, <2>2, Rearranged
  <2>4. QED BY <2>3 DEF IsApart
<1> HIDE DEF all, wire, n
<1>10. /\ \A k \in 1 .. n + 1 : all[k].size \in Nat /\ all[k].align \in Aligns
       /\ \A k \in 1 .. b : wire[k] = all[k]
       /\ \A k \in b + 1 .. n : wire[k + 1] = all[k]
  <2>1. ASSUME NEW k \in 1 .. n + 1
        PROVE  all[k].size \in Nat /\ all[k].align \in Aligns
    <3>1. CASE k = n + 1
      BY <1>6, <1>8, <3>1
    <3>2. CASE k \in 1 .. n
      BY <1>7, <1>8, <3>2
    <3>3. QED BY <1>7, <3>1, <3>2
  <2>2. ASSUME NEW k \in 1 .. b
        PROVE  wire[k] = all[k]
    BY <1>7, <1>8, <1>9
  <2>3. ASSUME NEW k \in b + 1 .. n
        PROVE  wire[k + 1] = all[k]
    <3>1. k \in 1 .. n
      BY <1>7
    <3>2. QED BY <1>8, <1>9, <3>1
  <2>4. QED BY <2>1, <2>2, <2>3
<1>11. /\ Room(wire)[n + 2] \in Nat /\ Room(all)[n + 1] \in Nat
       /\ Room(wire)[n + 2] <= Room(all)[n + 1]
  BY <1>2, <1>4, <1>6, <1>7, <1>8, <1>9, <1>10, RearrangedRoom
<1>12. Packed(all) \in Nat /\ Room(all)[n + 1] <= Packed(all)
  <2>1. Len(all) \in Nat /\ Len(all) = n + 1
    BY <1>7, <1>8
  <2>2. QED BY <1>8, <1>10, <2>1, PackedCovers
<1>13. AreFields(wire)
  <2>1. ASSUME NEW k \in 1 .. n + 2, k # n + 2
        PROVE  /\ wire[k].size \in Nat /\ InnerIsType(wire[k])
               /\ wire[k].kind \notin {"counted", "chosen"}
    <3>1. CASE k \in 1 .. b
      BY <1>7, <1>9, <3>1
    <3>2. CASE k = b + 1
      BY <1>2, <1>9, <3>2
    <3>3. CASE k \in b + 2 .. n + 1
      <4>1. k - 1 \in b + 1 .. n /\ k - 1 \in 1 .. n /\ k - 1 + 1 = k
        BY <1>7, <3>3
      <4>2. wire[k] = fields[k - 1]
        BY <1>9, <4>1
      <4>3. QED BY <1>7, <4>1, <4>2
    <3>4. QED BY <1>7, <2>1, <3>1, <3>2, <3>3
  <2>2. ASSUME NEW k \in 1 .. n + 2, k # n + 2
        PROVE  IsField(wire, k)
    BY <2>1, <2>2 DEF IsField
  <2>3. IsField(wire, n + 2)
    <3> DEFINE last == n + 2
    <3>1. last \in Nat /\ wire[last] = moved /\ b + 1 \in 1 .. last - 1
      BY <1>7, <1>9
    <3> HIDE DEF last
    <3>2. /\ wire[last].kind = "chosen" /\ wire[last].size \in Nat
          /\ wire[last].by \in 1 .. last - 1
          /\ wire[wire[last].by].kind = "word" /\ wire[wire[last].by].width # 8
      BY <1>2, <1>4, <1>9, <3>1
    <3>3. \A s \in DOMAIN wire[last].variants :
            /\ InnerIsType(wire[last].variants[s])
            /\ wire[last].variants[s].size \in 0 .. wire[last].size
      BY <1>2, <1>4, <3>1
    <3>4. IsField(wire, last)
      BY <3>2, <3>3 DEF IsField
    <3>5. QED BY <3>4 DEF last
  <2>4. n + 2 \in Nat
    BY <1>7
  <2>5. QED BY <1>9, <2>2, <2>3, <2>4 DEF AreFields
<1>14. Fields(T) = wire /\ Len(wire) = n + 2
  BY <1>5, <1>9 DEF Fields
<1>15. Room(wire)[n + 2] <= Packed(all)
  BY <1>11, <1>12
<1>16. IsType(T)
  BY <1>5, <1>12, <1>13, <1>14, <1>15 DEF IsType, Composite
<1>17. QED BY <1>16 DEF T, enum
=============================================================================
