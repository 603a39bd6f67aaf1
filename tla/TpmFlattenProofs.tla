--------------------------- MODULE TpmFlattenProofs ---------------------------
(***************************************************************************)
(* What FlattenSeq computes, for every sequence of sequences.  It is a     *)
(* recursive function, so what it computes is proved by induction: over a  *)
(* set of numbers, for the provers know sets and not predicates.           *)
(***************************************************************************)
EXTENDS Integers, SequencesExt, SequenceTheorems, WellFoundedInduction, TLAPS

\* A set of naturals has a least element: < is well-founded on Nat.
LEMMA LeastNatural ==
  ASSUME NEW T \in SUBSET Nat, T # {}
  PROVE  \E n \in T : \A k \in T : n <= k
<1> DEFINE R == OpToRel(<, Nat)
<1>1. \A x, y \in Nat : x < y => <<x, y>> \in R
  BY DEF OpToRel
<1>2. IsWellFoundedOn(R, Nat)
  BY NatLessThanWellFounded, Zenon
<1> HIDE DEF R
<1>3. PICK n \in T : \A y \in T : ~(<<y, n>> \in R)
  BY <1>2, WFMin, Zenon
<1>4. ASSUME NEW k \in T
      PROVE  n <= k
  <2>1. n \in Nat /\ k \in Nat
    OBVIOUS
  <2>2. ~(k < n)
    BY <1>1, <1>3, <2>1
  <2>3. QED BY <2>1, <2>2
<1>5. QED BY <1>4

\* Induction, for the set of the numbers that have a property.
LEMMA SetInduction ==
  ASSUME NEW P \in SUBSET Nat, 0 \in P, \A n \in P : n + 1 \in P
  PROVE  P = Nat
<1> DEFINE T == Nat \ P
<1> SUFFICES ASSUME T # {}
             PROVE  FALSE
  OBVIOUS
<1>1. PICK n \in T : \A k \in T : n <= k
  BY LeastNatural
<1>2. n # 0 /\ n \in Nat /\ n \notin P
  OBVIOUS
<1>3. n - 1 \in Nat
  BY <1>2
<1>4. n - 1 \in P
  BY <1>1, <1>3
<1>5. QED BY <1>2, <1>3, <1>4
-----------------------------------------------------------------------------
(* The function FlattenSeq takes its value from.                           *)

\* f[i] is the first i sequences of s in one, for all of the first n.
IsFlat(f, s, n) ==
  f = [i \in 1 .. n |-> IF i = 1 THEN s[i] ELSE f[i - 1] \o s[i]]

LEMMA FlatValues ==
  ASSUME NEW f, NEW s, NEW n \in Nat, IsFlat(f, s, n)
  PROVE  /\ n # 0 => f[1] = s[1]
         /\ \A i \in 1 .. n - 1 : f[i + 1] = f[i] \o s[i + 1]
<1>1. ASSUME NEW i \in 1 .. n
      PROVE  f[i] = IF i = 1 THEN s[i] ELSE f[i - 1] \o s[i]
  BY DEF IsFlat
<1>2. ASSUME n # 0
      PROVE  f[1] = s[1]
  <2>1. 1 \in 1 .. n
    BY <1>2
  <2>2. QED BY <1>1, <2>1
<1>3. ASSUME NEW i \in 1 .. n - 1
      PROVE  f[i + 1] = f[i] \o s[i + 1]
  <2>1. i + 1 \in 1 .. n /\ i + 1 # 1 /\ (i + 1) - 1 = i
    OBVIOUS
  <2>2. f[i + 1] = f[(i + 1) - 1] \o s[i + 1]
    BY <1>1, <2>1
  <2>3. QED BY <2>1, <2>2
<1>4. QED BY <1>2, <1>3

LEMMA FlatExists ==
  ASSUME NEW s, NEW n \in Nat
  PROVE  \E f : IsFlat(f, s, n)
<1> DEFINE P == {k \in Nat : \E f : IsFlat(f, s, k)}
<1>1. 0 \in P
  <2>1. IsFlat([i \in 1 .. 0 |-> <<>>], s, 0)
    BY DEF IsFlat
  <2>2. QED BY <2>1
<1>2. ASSUME NEW k \in P
      PROVE  k + 1 \in P
  <2>1. PICK f : IsFlat(f, s, k)
    OBVIOUS
  <2> DEFINE g == [i \in 1 .. k + 1 |->
                     IF i = 1 THEN s[1] ELSE f[i - 1] \o s[i]]
  <2>2. ASSUME NEW i \in 2 .. k + 1
        PROVE  g[i - 1] = f[i - 1]
    <3>1. i - 1 \in 1 .. k /\ i - 1 \in 1 .. k + 1 /\ k \in Nat
      OBVIOUS
    <3>2. f[i - 1] = IF i - 1 = 1 THEN s[i - 1] ELSE f[i - 1 - 1] \o s[i - 1]
      BY <2>1, <3>1 DEF IsFlat
    <3>3. g[i - 1] = IF i - 1 = 1 THEN s[1] ELSE f[i - 1 - 1] \o s[i - 1]
      BY <3>1
    <3>4. QED BY <3>2, <3>3
  <2>3. g = [i \in 1 .. k + 1 |-> IF i = 1 THEN s[i] ELSE g[i - 1] \o s[i]]
    <3> DEFINE h == [i \in 1 .. k + 1 |-> IF i = 1 THEN s[i] ELSE g[i - 1] \o s[i]]
    <3>1. ASSUME NEW i \in 1 .. k + 1
          PROVE  g[i] = h[i]
      <4>1. CASE i = 1
        BY <4>1
      <4>2. CASE i # 1
        <5>1. i \in 2 .. k + 1
          BY <4>2
        <5>2. g[i] = f[i - 1] \o s[i]
          BY <4>2
        <5> HIDE DEF g
        <5>3. h[i] = g[i - 1] \o s[i]
          BY <4>2
        <5>4. QED BY <2>2, <5>1, <5>2, <5>3
      <4>3. QED BY <4>1, <4>2
    <3>2. QED BY <3>1
  <2> HIDE DEF g
  <2>4. IsFlat(g, s, k + 1)
    BY <2>3 DEF IsFlat
  <2>5. QED BY <2>4
<1> HIDE DEF P
<1>3. P = Nat
  BY <1>1, <1>2, SetInduction DEF P
<1>4. QED BY <1>3 DEF P

\* Two of them agree where their sequences do.
LEMMA FlatAgree ==
  ASSUME NEW f, NEW g, NEW s, NEW t, NEW n \in Nat, NEW m \in Nat, n <= m,
         IsFlat(f, s, n), IsFlat(g, t, m), \A i \in 1 .. n : s[i] = t[i]
  PROVE  \A i \in 1 .. n : f[i] = g[i]
<1>f. /\ n # 0 => f[1] = s[1]
      /\ \A i \in 1 .. n - 1 : f[i + 1] = f[i] \o s[i + 1]
  BY ONLY n \in Nat, IsFlat(f, s, n), FlatValues, Zenon
<1>g. /\ m # 0 => g[1] = t[1]
      /\ \A i \in 1 .. m - 1 : g[i + 1] = g[i] \o t[i + 1]
  BY ONLY m \in Nat, IsFlat(g, t, m), FlatValues, Zenon
<1> DEFINE Same(k) == k \in 1 .. n => f[k] = g[k]
           P == {k \in Nat : Same(k)}
<1>1. 0 \in P
  <2>1. Same(0)
    BY ONLY n \in Nat
  <2> HIDE DEF Same
  <2>2. QED BY ONLY <2>1 DEF P
<1>2. ASSUME NEW k \in P
      PROVE  k + 1 \in P
  <2>k. k \in Nat /\ Same(k)
    BY Zenon
  <2> HIDE DEF P
  <2> SUFFICES ASSUME k + 1 \in 1 .. n
               PROVE  f[k + 1] = g[k + 1]
    <3>1. Same(k + 1) => k + 1 \in P
      <4> HIDE DEF Same
      <4>1. QED BY ONLY <2>k DEF P
    <3>2. QED BY <3>1, Zenon
  <2>1. CASE k = 0
    <3>1. n # 0 /\ m # 0 /\ 1 \in 1 .. n /\ k + 1 = 1
      BY <2>1
    <3>2. f[1] = s[1] /\ g[1] = t[1]
      BY <1>f, <1>g, <3>1, Zenon
    <3>3. s[1] = t[1]
      BY <3>1
    <3>4. QED BY <3>1, <3>2, <3>3
  <2>2. CASE k # 0
    <3>1. k \in 1 .. n /\ k \in 1 .. n - 1 /\ k \in 1 .. m - 1 /\ k + 1 \in 1 .. n
      BY <2>k, <2>2
    <3>2. f[k + 1] = f[k] \o s[k + 1] /\ g[k + 1] = g[k] \o t[k + 1]
      BY <1>f, <1>g, <3>1, Zenon
    <3>3. f[k] = g[k] /\ s[k + 1] = t[k + 1]
      BY <2>k, <3>1
    <3>4. QED BY <3>2, <3>3
  <2>3. QED BY <2>1, <2>2
<1> HIDE DEF P, Same
<1>3. P = Nat
  BY <1>1, <1>2, SetInduction DEF P
<1>4. QED BY <1>3 DEF P, Same

LEMMA FlatType ==
  ASSUME NEW S, NEW s \in Seq(Seq(S)), NEW f, IsFlat(f, s, Len(s))
  PROVE  \A i \in 1 .. Len(s) : f[i] \in Seq(S)
<1> DEFINE n == Len(s)
           P == {k \in Nat : k \in 1 .. n => f[k] \in Seq(S)}
<1>1. n \in Nat /\ \A i \in 1 .. n : s[i] \in Seq(S)
  BY ElementOfSeq
<1>f. /\ n # 0 => f[1] = s[1]
      /\ \A i \in 1 .. n - 1 : f[i + 1] = f[i] \o s[i + 1]
  BY <1>1, FlatValues, Zenon
<1>2. 0 \in P
  OBVIOUS
<1>3. ASSUME NEW k \in P
      PROVE  k + 1 \in P
  <2> SUFFICES ASSUME k + 1 \in 1 .. n
               PROVE  f[k + 1] \in Seq(S)
    OBVIOUS
  <2>1. CASE k = 0
    <3>1. n # 0 /\ 1 \in 1 .. n /\ k + 1 = 1
      BY <1>1, <2>1
    <3>2. QED BY <1>1, <1>f, <3>1
  <2>2. CASE k # 0
    <3>1. k \in 1 .. n /\ k \in 1 .. n - 1 /\ k + 1 \in 1 .. n
      BY <1>1, <2>2
    <3>2. f[k + 1] = f[k] \o s[k + 1]
      BY <1>f, <3>1, Zenon
    <3>3. f[k] \in Seq(S) /\ s[k + 1] \in Seq(S)
      BY <1>1, <3>1
    <3>4. QED BY <3>2, <3>3, ConcatProperties, Zenon
  <2>3. QED BY <2>1, <2>2
<1> HIDE DEF P
<1>4. P = Nat
  BY <1>2, <1>3, SetInduction DEF P
<1>5. \A k \in Nat : k \in 1 .. n => f[k] \in Seq(S)
  BY <1>4, Zenon DEF P
<1>6. QED BY <1>1, <1>5

\* FlattenSeq takes the last value of one.
LEMMA FlattenIsFlat ==
  ASSUME NEW s, Len(s) \in Nat, Len(s) # 0
  PROVE  \E f : IsFlat(f, s, Len(s)) /\ FlattenSeq(s) = f[Len(s)]
<1> DEFINE f == CHOOSE f : f = [i \in 1 .. Len(s) |->
                                  IF i = 1 THEN s[i] ELSE f[i - 1] \o s[i]]
<1>1. FlattenSeq(s) = f[Len(s)]
  BY Zenon DEF FlattenSeq
<1>2. \E g : IsFlat(g, s, Len(s))
  BY FlatExists
<1>3. f = CHOOSE g : IsFlat(g, s, Len(s))
  BY Zenon DEF IsFlat
<1> HIDE DEF f
<1>4. IsFlat(f, s, Len(s))
  BY <1>2, <1>3, Zenon
<1>5. QED BY <1>1, <1>4
-----------------------------------------------------------------------------
(* What FlattenSeq computes.                                               *)

LEMMA FlattenEmpty == FlattenSeq(<<>>) = <<>>
BY DEF FlattenSeq

LEMMA FlattenType ==
  ASSUME NEW S, NEW s \in Seq(Seq(S))
  PROVE  FlattenSeq(s) \in Seq(S)
<1>1. Len(s) \in Nat
  BY LenProperties
<1>2. CASE Len(s) = 0
  BY <1>2, EmptySeq, FlattenEmpty
<1>3. CASE Len(s) # 0
  <2>1. PICK f : IsFlat(f, s, Len(s)) /\ FlattenSeq(s) = f[Len(s)]
    BY <1>1, <1>3, FlattenIsFlat
  <2>2. Len(s) \in 1 .. Len(s)
    BY <1>1, <1>3
  <2>3. QED BY <2>1, <2>2, FlatType
<1>4. QED BY <1>2, <1>3

\* One more at the end: the value before is taken as it was.
LEMMA FlattenAppend ==
  ASSUME NEW S, NEW s \in Seq(Seq(S)), NEW e \in Seq(S)
  PROVE  FlattenSeq(Append(s, e)) = FlattenSeq(s) \o e
<1> DEFINE t == Append(s, e)
           n == Len(s)
<1>1. /\ t \in Seq(Seq(S)) /\ Len(t) = n + 1 /\ t[n + 1] = e
      /\ \A i \in 1 .. n : t[i] = s[i]
  BY AppendProperties
<1>2. n \in Nat /\ s \in Seq(Seq(S)) /\ n = Len(s)
  BY LenProperties
<1>3. PICK g : IsFlat(g, t, n + 1) /\ FlattenSeq(t) = g[n + 1]
  <2> HIDE DEF t, n
  <2>1. Len(t) \in Nat /\ Len(t) # 0
    BY <1>1, <1>2
  <2>2. \E g : IsFlat(g, t, Len(t)) /\ FlattenSeq(t) = g[Len(t)]
    BY <2>1, FlattenIsFlat, Zenon
  <2>3. QED BY <1>1, <2>2, Zenon
<1> HIDE DEF t, n
<1> DEFINE m == n + 1
<1>m. m \in Nat /\ m # 0 /\ n <= m /\ IsFlat(g, t, m)
  BY <1>2, <1>3
<1> HIDE DEF m
<1>4. /\ g[1] = t[1]
      /\ \A i \in 1 .. m - 1 : g[i + 1] = g[i] \o t[i + 1]
  BY <1>m, FlatValues, Zenon
<1>5. CASE n = 0
  <2>1. s = <<>>
    BY <1>2, <1>5, EmptySeq
  <2>2. FlattenSeq(s) \o e = e
    BY <2>1, FlattenEmpty, ConcatEmptySeq
  <2>3. FlattenSeq(t) = e
    BY <1>1, <1>3, <1>4, <1>5
  <2>4. QED BY <2>2, <2>3 DEF t
<1>6. CASE n # 0
  <2>1. PICK f : IsFlat(f, s, n) /\ FlattenSeq(s) = f[n]
    BY <1>2, <1>6, FlattenIsFlat
  <2>2. \A i \in 1 .. n : f[i] = g[i]
    <3>1. \A i \in 1 .. n : s[i] = t[i]
      BY <1>1, <1>2
    <3>2. QED BY <1>2, <1>m, <2>1, <3>1, FlatAgree, Zenon
  <2>3. n \in 1 .. n /\ n \in 1 .. m - 1
    BY <1>2, <1>6 DEF m
  <2>4. g[n + 1] = g[n] \o t[n + 1]
    BY <1>4, <2>3, Zenon
  <2>5. g[n + 1] = f[n] \o e
    BY <1>1, <2>2, <2>3, <2>4, Zenon
  <2>6. QED BY <1>3, <2>1, <2>5 DEF t
<1>7. QED BY <1>5, <1>6

LEMMA ConcatParts ==
  ASSUME NEW S, NEW s \in Seq(S), NEW t \in Seq(S)
  PROVE  /\ s \o t \in Seq(S) /\ Len(s \o t) = Len(s) + Len(t)
         /\ Len(s) \in Nat /\ Len(t) \in Nat
         /\ \A i \in 1 .. Len(s) : (s \o t)[i] = s[i]
         /\ \A i \in 1 .. Len(t) : (s \o t)[Len(s) + i] = t[i]
OBVIOUS

LEMMA ConcatIs ==
  ASSUME NEW S, NEW a \in Seq(S), NEW b \in Seq(S), NEW c \in Seq(S),
         Len(c) = Len(a) + Len(b),
         \A i \in 1 .. Len(a) : c[i] = a[i],
         \A i \in 1 .. Len(b) : c[Len(a) + i] = b[i]
  PROVE  c = a \o b
<1> DEFINE d == a \o b
<1>1. /\ d \in Seq(S) /\ Len(d) = Len(a) + Len(b)
      /\ Len(a) \in Nat /\ Len(b) \in Nat
      /\ \A i \in 1 .. Len(a) : d[i] = a[i]
      /\ \A i \in 1 .. Len(b) : d[Len(a) + i] = b[i]
  BY ConcatParts
<1> HIDE DEF d
<1>2. ASSUME NEW i \in 1 .. Len(c)
      PROVE  c[i] = d[i]
  <2>1. CASE i \in 1 .. Len(a)
    BY <1>1, <2>1
  <2>2. CASE i > Len(a)
    <3>1. i - Len(a) \in 1 .. Len(b) /\ Len(a) + (i - Len(a)) = i
      BY <1>1, <2>2
    <3>2. QED BY <1>1, <3>1
  <2>3. QED BY <1>1, <2>1, <2>2
<1>3. c = d
  BY <1>1, <1>2, SeqEqual
<1>4. QED BY <1>3 DEF d

LEMMA ConcatThree ==
  \A S : \A a, b, c \in Seq(S) : (a \o b) \o c = a \o (b \o c)
<1>1. ASSUME NEW S, NEW a \in Seq(S), NEW b \in Seq(S), NEW c \in Seq(S)
      PROVE  (a \o b) \o c = a \o (b \o c)
  BY ConcatAssociative, SMT
<1>2. QED BY <1>1

\* Two in one, by induction over the second.
LEMMA FlattenConcat ==
  ASSUME NEW S, NEW s \in Seq(Seq(S)), NEW t \in Seq(Seq(S))
  PROVE  FlattenSeq(s \o t) = FlattenSeq(s) \o FlattenSeq(t)
<1> DEFINE Holds(r) == FlattenSeq(s \o r) = FlattenSeq(s) \o FlattenSeq(r)
           P == {n \in Nat : \A r \in Seq(Seq(S)) : Len(r) = n => Holds(r)}
<1>1. FlattenSeq(s) \in Seq(S)
  BY FlattenType
<1>2. 0 \in P
  <2> SUFFICES ASSUME NEW r \in Seq(Seq(S)), Len(r) = 0
               PROVE  Holds(r)
    OBVIOUS
  <2>1. r = <<>>
    BY EmptySeq
  <2>2. s \o <<>> = s /\ FlattenSeq(s) \o <<>> = FlattenSeq(s)
    BY <1>1, ConcatEmptySeq
  <2>3. QED BY <2>1, <2>2, FlattenEmpty
<1>3. ASSUME NEW n \in P
      PROVE  n + 1 \in P
  <2>n. n \in Nat /\ \A r \in Seq(Seq(S)) : Len(r) = n => Holds(r)
    OBVIOUS
  <2> SUFFICES ASSUME NEW r \in Seq(Seq(S)), Len(r) = n + 1
               PROVE  Holds(r)
    <3> HIDE DEF Holds
    <3>1. QED BY <2>n
  <2>1. PICK q \in Seq(Seq(S)), x \in Seq(S) : r = Append(q, x)
    <3>1. r # <<>>
      BY <2>n
    <3>2. \E q \in Seq(Seq(S)), x \in Seq(S) : r = Append(q, x)
      BY <3>1, SequenceEmptyOrAppend, Zenon
    <3>3. QED BY <3>2, Zenon
  <2>2. Len(q) = n
    BY <2>1
  <2>3. FlattenSeq(s \o q) = FlattenSeq(s) \o FlattenSeq(q)
    BY <2>n, <2>2
  <2>4. s \o r = Append(s \o q, x) /\ s \o q \in Seq(Seq(S))
    BY <2>1
  <2>5. FlattenSeq(s \o r) = (FlattenSeq(s) \o FlattenSeq(q)) \o x
    <3>1. FlattenSeq(Append(s \o q, x)) = FlattenSeq(s \o q) \o x
      BY <2>4, FlattenAppend
    <3>2. QED BY <2>3, <2>4, <3>1
  <2>6. FlattenSeq(r) = FlattenSeq(q) \o x
    BY <2>1, FlattenAppend
  <2>7. FlattenSeq(q) \in Seq(S)
    BY FlattenType
  <2>8. (FlattenSeq(s) \o FlattenSeq(q)) \o x = FlattenSeq(s) \o (FlattenSeq(q) \o x)
    <3> DEFINE a == FlattenSeq(s)
               b == FlattenSeq(q)
    <3>1. a \in Seq(S) /\ b \in Seq(S) /\ x \in Seq(S)
      BY <1>1, <2>1, <2>7
    <3> HIDE DEF a, b, Holds, P
    <3>2. (a \o b) \o x = a \o (b \o x)
      BY ONLY <3>1, ConcatAssociative, SMTT(30)
    <3>3. QED BY <3>2 DEF a, b
  <2>9. QED BY <2>5, <2>6, <2>8
<1> HIDE DEF P, Holds
<1>4. P = Nat
  BY <1>2, <1>3, SetInduction DEF P
<1>5. Len(t) \in P
  BY <1>4, LenProperties
<1>6. Holds(t)
  BY <1>5 DEF P
<1>7. QED BY <1>6 DEF Holds

LEMMA FlattenOne ==
  ASSUME NEW S, NEW e \in Seq(S)
  PROVE  FlattenSeq(<<e>>) = e
<1>1. <<>> \in Seq(Seq(S)) /\ <<e>> = Append(<<>>, e)
  BY EmptySeq
<1>2. FlattenSeq(<<e>>) = <<>> \o e
  BY <1>1, FlattenAppend, FlattenEmpty
<1>3. QED BY <1>2, ConcatEmptySeq
-----------------------------------------------------------------------------
(* Cutting a sequence in two.                                              *)

LEMMA CutInTwo ==
  ASSUME NEW S, NEW word \in Seq(S), NEW n \in 0 .. Len(word)
  PROVE  /\ SubSeq(word, 1, n) \in Seq(S)
         /\ SubSeq(word, n + 1, Len(word)) \in Seq(S)
         /\ Len(SubSeq(word, n + 1, Len(word))) = Len(word) - n
         /\ word = SubSeq(word, 1, n) \o SubSeq(word, n + 1, Len(word))
<1>1. /\ SubSeq(word, 1, n) \in Seq(S) /\ Len(SubSeq(word, 1, n)) = n
      /\ SubSeq(word, n + 1, Len(word)) \in Seq(S)
      /\ Len(SubSeq(word, n + 1, Len(word))) = Len(word) - n
      /\ \A i \in 1 .. n : SubSeq(word, 1, n)[i] = word[i]
      /\ \A i \in 1 .. Len(word) - n :
           SubSeq(word, n + 1, Len(word))[i] = word[n + i]
  OBVIOUS
<1> DEFINE a == SubSeq(word, 1, n)
           b == SubSeq(word, n + 1, Len(word))
<1> HIDE DEF a, b
<1>2. a \o b \in Seq(S) /\ Len(a \o b) = Len(word)
      /\ \A i \in 1 .. Len(word) : (a \o b)[i] = word[i]
  <2>1. /\ a \in Seq(S) /\ b \in Seq(S) /\ Len(a) = n /\ Len(b) = Len(word) - n
        /\ \A i \in 1 .. n : a[i] = word[i]
        /\ \A i \in 1 .. Len(word) - n : b[i] = word[n + i]
    BY <1>1 DEF a, b
  <2>2. /\ a \o b \in Seq(S) /\ Len(a \o b) = Len(a) + Len(b)
        /\ \A i \in 1 .. Len(a) + Len(b) :
             (a \o b)[i] = IF i <= Len(a) THEN a[i] ELSE b[i - Len(a)]
    BY <2>1, ConcatProperties
  <2>3. ASSUME NEW i \in 1 .. Len(word)
        PROVE  (a \o b)[i] = word[i]
    <3>1. Len(word) \in Nat /\ i \in 1 .. Len(a) + Len(b)
      BY <2>1
    <3>2. CASE i <= n
      BY <2>1, <2>2, <3>1, <3>2
    <3>3. CASE i > n
      <4>1. i - n \in 1 .. Len(word) - n /\ n + (i - n) = i
        BY <3>1, <3>3
      <4>2. b[i - n] = word[i]
        BY <2>1, <4>1
      <4>3. QED BY <2>1, <2>2, <3>1, <3>3, <4>2
    <3>4. QED BY <3>1, <3>2, <3>3
  <2>4. QED BY <2>1, <2>2, <2>3
<1>3. word = a \o b
  BY <1>2, SeqEqual
<1>4. QED BY <1>1, <1>3 DEF a, b

LEMMA PrefixOfConcat ==
  ASSUME NEW S, NEW a \in Seq(S), NEW b \in Seq(S)
  PROVE  IsPrefix(a, a \o b) /\ Len(a \o b) - Len(a) = Len(b)
<1>1. a \o b \in Seq(S) /\ Len(a \o b) = Len(a) + Len(b) /\ Len(a) \in Nat /\ Len(b) \in Nat
  OBVIOUS
<1> DEFINE n == Len(a)
           c == a \o b
<1>2. \A i \in 1 .. n : c[i] = a[i]
  OBVIOUS
<1> HIDE DEF c
<1>3. SubSeq(c, 1, n) = a /\ SubSeq(a, 1, n) = a
  BY <1>1, <1>2, SubSeqFull DEF c
<1>4. QED BY <1>1, <1>3 DEF IsPrefix, c
=============================================================================
