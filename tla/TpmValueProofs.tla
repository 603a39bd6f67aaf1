---------------------------- MODULE TpmValueProofs ---------------------------
(***************************************************************************)
(* Proofs about the values of the base crate, and about the DRBG helpers.  *)
(* TpmLists, for lists of every capacity and kind of entry, whatever their *)
(* own impls come to: a list with private fields is its elements over a    *)
(* default array, and that, with its count within the array, is what each  *)
(* operation preserves and what makes add's index and marshal's loop safe, *)
(* as far as they are the list's own.  TpmAttributes, for every value a    *)
(* field is set to.  TpmDrbgHelpers, for every length of dest and every    *)
(* DRBG the helpers are used with: the additional input is used once.      *)
(***************************************************************************)
EXTENDS TpmLists, TpmAttributes, TpmDrbgHelpers, TpmFlattenProofs

Sound ==
  /\ ~This.public => count <= Capacity /\ entries = Filled(Slice)
  /\ PanicsOnlyInEntries
ListInv == ListTypeOK /\ Sound

\* The slice of an array a with count c.
Shown(c) == IF c < Capacity THEN c ELSE Capacity
Part(c, a) == [i \in 1 .. Shown(c) |-> a[i]]
-----------------------------------------------------------------------------
(* The array and the slice of it.                                          *)

\* The slice is a sequence of entries that fits; as long as the count does,
\* the count is its length.
LEMMA FrontFits ==
  ASSUME NEW c \in Nat, NEW a \in Array
  PROVE  /\ Part(c, a) \in Seq(Entries)
         /\ Len(Part(c, a)) = Shown(c)
         /\ Shown(c) \in Nat /\ Shown(c) <= Capacity
         /\ \A i \in 1 .. Shown(c) : Part(c, a)[i] = a[i]
<1>1. Shown(c) \in Nat /\ Shown(c) <= Capacity
  BY ListAssumption DEF Shown
<1>2. \A i \in 1 .. Shown(c) : a[i] \in Entries
  BY <1>1, ListAssumption DEF Array
<1>3. QED BY <1>1, <1>2 DEF Part

\* The default is one of the entries, like those that the list is made for.
LEMMA DefaultIsEntry ==
  ASSUME list \in DOMAIN Lists
  PROVE  This.default \in Entries /\ This.entries \subseteq Entries
BY ListAssumption DEF This, Entries

\* A sequence that fits makes an array, of which it is the slice.
LEMMA FilledFits ==
  ASSUME list \in DOMAIN Lists, NEW s \in Seq(Entries), Len(s) <= Capacity
  PROVE  Filled(s) \in Array /\ Part(Len(s), Filled(s)) = s
<1>1. This.default \in Entries /\ \A i \in 1 .. Len(s) : s[i] \in Entries
  BY DefaultIsEntry
<1>2. Filled(s) \in Array
  BY <1>1, ListAssumption DEF Filled, Array
<1>3. Shown(Len(s)) = Len(s)
  BY ListAssumption DEF Shown
<1>4. \A i \in 1 .. Len(s) : Filled(s)[i] = s[i]
  BY ListAssumption DEF Filled
<1>5. Part(Len(s), Filled(s)) = s
  BY <1>1, <1>3, <1>4 DEF Part
<1>6. QED BY <1>2, <1>5

\* One entry behind a slice that leaves room for it: the slice grows by it, and
\* nothing else changes in the array.
LEMMA OneMore ==
  ASSUME NEW c \in Nat, c < Capacity, NEW a \in Array, NEW x \in Entries,
         NEW b \in Array, \A i \in 1 .. Capacity : b[i] = IF i = c + 1 THEN x ELSE a[i]
  PROVE  /\ Part(c + 1, b) = Append(Part(c, a), x)
         /\ a = Filled(Part(c, a)) => b = Filled(Part(c + 1, b))
<1>1. c + 1 \in 1 .. Capacity
  BY ListAssumption
<1>2. b \in Array
  OBVIOUS
<1>3. \A i \in 1 .. Capacity : b[i] = IF i = c + 1 THEN x ELSE a[i]
  OBVIOUS
<1>4. Shown(c) = c /\ Shown(c + 1) = c + 1
  BY ListAssumption DEF Shown
<1>5. /\ Part(c, a) \in Seq(Entries) /\ Len(Part(c, a)) = c
      /\ \A i \in 1 .. c : Part(c, a)[i] = a[i]
  BY <1>4, FrontFits
<1>6. /\ Part(c + 1, b) \in Seq(Entries) /\ Len(Part(c + 1, b)) = c + 1
      /\ \A i \in 1 .. c + 1 : Part(c + 1, b)[i] = b[i]
  <2>1. c + 1 \in Nat
    OBVIOUS
  <2>2. QED BY <1>2, <1>4, <2>1, FrontFits
<1> DEFINE f == Part(c + 1, b)
           s == Part(c, a)
<1> HIDE DEF f, s
<1>7. f = Append(s, x)
  <2>1. s \in Seq(Entries) /\ Len(s) = c /\ f \in Seq(Entries) /\ Len(f) = c + 1
    BY <1>5, <1>6 DEF f, s
  <2>2. \A i \in 1 .. c : f[i] = s[i]
    <3>1. \A i \in 1 .. c : i \in 1 .. c + 1 /\ i \in 1 .. Capacity /\ i # c + 1
      BY ListAssumption
    <3>2. QED BY <1>3, <1>5, <1>6, <3>1 DEF f, s
  <2>3. f[c + 1] = x
    <3>1. c + 1 \in 1 .. c + 1
      OBVIOUS
    <3>2. QED BY <1>1, <1>3, <1>6, <3>1 DEF f
  <2>4. QED BY <2>1, <2>2, <2>3
<1>8. ASSUME a = Filled(s) PROVE b = Filled(f)
  <2>1. \A i \in 1 .. Capacity : i > c => a[i] = This.default
    <3>1. \A i \in 1 .. Capacity :
            Filled(s)[i] = IF i <= Len(s) THEN s[i] ELSE This.default
      BY DEF Filled
    <3>2. Len(s) = c
      BY <1>5 DEF s
    <3>3. \A i \in 1 .. Capacity : i > c => ~(i <= c)
      BY ListAssumption
    <3>4. QED BY <1>8, <3>1, <3>2, <3>3
  <2>2. \A i \in 1 .. Capacity : b[i] = IF i <= c + 1 THEN f[i] ELSE This.default
    <3> SUFFICES ASSUME NEW i \in 1 .. Capacity
                 PROVE  b[i] = IF i <= c + 1 THEN f[i] ELSE This.default
      OBVIOUS
    <3>1. CASE i <= c + 1
      <4>1. i \in 1 .. c + 1
        BY <3>1, ListAssumption
      <4>2. QED BY <1>6, <3>1, <4>1 DEF f
    <3>2. CASE ~(i <= c + 1)
      <4>1. i > c /\ i # c + 1
        BY <3>2, ListAssumption
      <4>2. QED BY <1>3, <2>1, <3>2, <4>1
    <3>3. QED BY <3>1, <3>2
  <2>3. b = [i \in 1 .. Capacity |-> IF i <= c + 1 THEN f[i] ELSE This.default]
    BY <1>2, <2>2 DEF Array
  <2>4. QED BY <1>6, <2>3 DEF Filled, f
<1>9. QED BY <1>2, <1>7, <1>8 DEF f, s
-----------------------------------------------------------------------------
(* Each operation, as a step of the list and as one of the sequence.       *)

\* What the invariant says of the slice.
LEMMA SliceNow ==
  ASSUME ListInv
  PROVE  /\ Slice = Part(count, entries)
         /\ Slice \in Seq(Entries)
         /\ Len(Slice) = Shown(count)
         /\ Shown(count) \in Nat /\ Shown(count) <= Capacity
<1>1. Slice = Part(count, entries)
  BY DEF Slice, Part, Shown
<1>2. QED BY <1>1, FrontFits DEF ListInv, ListTypeOK

\* A refused operation leaves the list as it is.
LEMMA RefuseStep ==
  ASSUME ListInv, NEW why \in {"size", "memory", "selector"}, Refuse(why),
         NEW whole \in BOOLEAN, NEW s \in Seq(Entries), Want(whole, s),
         whole => why = "size" /\ Len(s) > Capacity
  PROVE  ListInv' /\ (Sequence!Refuse \/ Sequence!Reject)
<1>1. UNCHANGED <<count, entries, list, This, Slice>> /\ returned' = why
  BY DEF Refuse, Slice, This
<1>2. wanted' = [whole |-> whole, elems |-> s]
  BY DEF Want
<1>3. ListTypeOK'
  BY <1>1, <1>2 DEF ListInv, ListTypeOK
<1>4. Sound'
  <2>1. Filled(Slice)' = Filled(Slice)
    BY <1>1 DEF Filled
  <2>2. returned' # "panic"
    BY <1>1
  <2>3. QED BY <1>1, <2>1, <2>2 DEF ListInv, Sound, PanicsOnlyInEntries
<1>5. CASE whole
  <2>1. Sequence!Refuse
    BY <1>1, <1>2, <1>5, ListAssumption DEF Sequence!Refuse, Sequence!Fits
  <2>2. QED BY <1>3, <1>4, <2>1 DEF ListInv
<1>6. CASE ~whole
  <2>1. Sequence!Reject
    BY <1>1, <1>2, <1>6 DEF Sequence!Reject
  <2>2. QED BY <1>3, <1>4, <2>1 DEF ListInv
<1>7. QED BY <1>5, <1>6

\* A list that is made of a sequence is that sequence.
LEMMA MakeStep ==
  ASSUME ListInv, NEW s \in Seq(Entries), Len(s) <= Capacity, Want(TRUE, s),
         count' = Len(s), entries' = Filled(s), returned' = "ok", UNCHANGED list
  PROVE  ListInv' /\ Sequence!Serve
<1>1. Filled(s) \in Array /\ Part(Len(s), Filled(s)) = s
  BY FilledFits DEF ListInv, ListTypeOK
<1>2. Slice' = s
  <2>1. Slice' = Part(count', entries')
    BY DEF Slice, Part, Shown
  <2>2. QED BY <1>1, <2>1
<1>3. wanted' = [whole |-> TRUE, elems |-> s]
  BY DEF Want
<1>4. ListTypeOK'
  BY <1>1, <1>3 DEF ListInv, ListTypeOK
<1>5. Filled(Slice)' = Filled(s)
  BY <1>2 DEF Filled, This
<1>6. ListInv'
  BY <1>4, <1>5 DEF ListInv, Sound, PanicsOnlyInEntries
<1>7. Sequence!Serve
  BY <1>2, <1>3 DEF Sequence!Serve, Sequence!Fits, This
<1>8. QED BY <1>6, <1>7

LEMMA NewStep ==
  ASSUME ListInv, NEW s \in Slices, New(s)
  PROVE  ListInv' /\ Sequence!Next
<1>1. s \in Seq(Entries) /\ Want(TRUE, s)
  BY ListAssumption DEF New, Slices
<1>2. CASE Len(s) > Capacity
  <2>1. Refuse("size")
    BY <1>2 DEF New
  <2>2. QED BY <1>1, <1>2, <2>1, RefuseStep DEF Sequence!Next
<1>3. CASE ~(Len(s) > Capacity)
  <2>1. /\ count' = Len(s) /\ entries' = Filled(s) /\ returned' = "ok"
        /\ UNCHANGED list
    BY <1>3 DEF New
  <2>2. Len(s) <= Capacity
    BY <1>1, <1>3, ListAssumption
  <2>3. QED BY <1>1, <2>1, <2>2, MakeStep DEF Sequence!Next
<1>4. QED BY <1>2, <1>3

LEMMA ReceiveStep ==
  ASSUME ListInv, NEW n \in Counts, NEW s \in Messages, NEW why \in This.refusals,
         Receive(n, s, why)
  PROVE  ListInv' /\ Sequence!Next
<1> DEFINE t == IF n <= Len(s) THEN SubSeq(s, 1, n) ELSE s
           whole == n <= Len(s)
<1>1. s \in Seq(Entries) /\ n \in Nat /\ Want(n <= Len(s), t)
  BY ListAssumption DEF Receive, Slices, Messages
<1>2. t \in Seq(Entries) /\ (n <= Len(s) => Len(t) = n)
  BY <1>1
<1>3. CASE n > Capacity
  <2>1. Refuse("size")
    BY <1>3 DEF Receive
  <2>2. whole \in BOOLEAN /\ (whole => Len(t) > Capacity) /\ Want(whole, t)
    BY <1>1, <1>2, <1>3
  <2>3. t \in Seq(Entries)
    BY <1>2
  <2> HIDE DEF t, whole
  <2>4. ListInv' /\ (Sequence!Refuse \/ Sequence!Reject)
    BY <2>1, <2>2, <2>3, RefuseStep
  <2>5. QED BY <2>4 DEF Sequence!Next
<1>4. CASE ~(n > Capacity) /\ n > Len(s)
  <2>1. Refuse(why) /\ why \in {"size", "memory", "selector"}
    BY <1>1, <1>4, ListAssumption DEF Receive, This, ListInv, ListTypeOK
  <2>2. whole \in BOOLEAN /\ ~whole /\ Want(whole, t)
    BY <1>1, <1>4
  <2>3. t \in Seq(Entries)
    BY <1>2
  <2> HIDE DEF t, whole
  <2>4. ListInv' /\ (Sequence!Refuse \/ Sequence!Reject)
    BY <2>1, <2>2, <2>3, RefuseStep
  <2>5. QED BY <2>4 DEF Sequence!Next
<1>5. CASE ~(n > Capacity) /\ ~(n > Len(s))
  <2>1. n <= Len(s) /\ n <= Capacity
    BY <1>1, <1>5, ListAssumption
  <2>2. /\ count' = n /\ entries' = Filled(SubSeq(s, 1, n)) /\ returned' = "ok"
        /\ UNCHANGED list
    BY <1>5 DEF Receive
  <2>3. t = SubSeq(s, 1, n) /\ Len(t) = n /\ (n <= Len(s)) = TRUE
    BY <1>2, <2>1
  <2>4. Want(TRUE, t) /\ count' = Len(t) /\ entries' = Filled(t)
    BY <1>1, <2>2, <2>3
  <2> HIDE DEF t
  <2>5. QED BY <1>2, <2>1, <2>2, <2>3, <2>4, MakeStep DEF Sequence!Next
<1>6. QED BY <1>3, <1>4, <1>5

LEMMA AddStep ==
  ASSUME ListInv, NEW x \in Entries, Add(x)
  PROVE  ListInv' /\ Sequence!Next
<1>1. /\ Slice \in Seq(Entries) /\ Len(Slice) = Shown(count)
      /\ Slice = Part(count, entries)
  BY SliceNow
<1>2. /\ Append(Slice, x) \in Seq(Entries)
      /\ Len(Append(Slice, x)) = Shown(count) + 1
      /\ Want(TRUE, Append(Slice, x))
  <2>1. Want(TRUE, Append(Slice, x))
    BY DEF Add
  <2>2. Append(Slice, x) \in Seq(Entries) /\ Len(Append(Slice, x)) = Len(Slice) + 1
    BY <1>1, AppendProperties, Zenon
  <2>3. QED BY <1>1, <2>1, <2>2, Zenon
<1>3. count \in Nat /\ entries \in Array
  BY DEF ListInv, ListTypeOK
<1>4. CASE count >= Capacity
  <2>1. Refuse("size")
    BY <1>4 DEF Add
  <2>2. Len(Append(Slice, x)) > Capacity
    BY <1>2, <1>3, <1>4, ListAssumption DEF Shown
  <2>3. QED BY <1>2, <2>1, <2>2, RefuseStep DEF Sequence!Next
<1>5. CASE ~(count >= Capacity)
  <2>1. count < Capacity
    BY <1>3, <1>5, ListAssumption
  <2>2. /\ entries' = [entries EXCEPT ![count + 1] = x] /\ count' = count + 1
        /\ returned' = "ok" /\ UNCHANGED list
    BY <1>5 DEF Add
  <2>3. /\ entries' \in Array
        /\ Part(count + 1, entries') = Append(Part(count, entries), x)
        /\ entries = Filled(Part(count, entries))
             => entries' = Filled(Part(count + 1, entries'))
    <3>1. count + 1 \in 1 .. Capacity
      BY <1>3, <2>1, ListAssumption
    <3>2. /\ entries' \in Array
          /\ \A i \in 1 .. Capacity :
               entries'[i] = IF i = count + 1 THEN x ELSE entries[i]
      BY <1>3, <2>2, <3>1 DEF Array
    <3>3. ASSUME NEW b \in Array,
                 \A i \in 1 .. Capacity : b[i] = IF i = count + 1 THEN x ELSE entries[i]
          PROVE  /\ Part(count + 1, b) = Append(Part(count, entries), x)
                 /\ entries = Filled(Part(count, entries))
                      => b = Filled(Part(count + 1, b))
      BY <1>3, <2>1, <3>3, OneMore
    <3>4. QED BY <3>2, <3>3
  <2>4. Slice' = Part(count + 1, entries')
    BY <2>2 DEF Slice, Part, Shown
  <2>5. Slice' = Append(Slice, x)
    BY <1>1, <2>3, <2>4
  <2>6. wanted' = [whole |-> TRUE, elems |-> Append(Slice, x)]
    BY <1>2 DEF Want
  <2>7. ListTypeOK'
    BY <1>2, <1>3, <2>2, <2>3, <2>6 DEF ListInv, ListTypeOK
  <2>8. Filled(Slice)' = Filled(Part(count + 1, entries'))
    BY <2>2, <2>4 DEF Filled, This
  <2>9. Filled(Slice) = Filled(Part(count, entries))
    BY <1>1
  <2>10. count + 1 <= Capacity
    BY <1>3, <2>1, ListAssumption
  <2>11. Sound'
    BY <2>2, <2>3, <2>8, <2>9, <2>10 DEF ListInv, Sound, PanicsOnlyInEntries, This
  <2>12. Sequence!Serve
    <3>1. Len(Append(Slice, x)) <= Capacity
      BY <1>2, <1>3, <2>1, ListAssumption DEF Shown
    <3>2. QED BY <2>2, <2>5, <2>6, <3>1 DEF Sequence!Serve, Sequence!Fits, This
  <2>13. QED BY <2>7, <2>11, <2>12 DEF ListInv, Sequence!Next
<1>6. QED BY <1>4, <1>5

\* What try_marshal may come to: the whole list is written, there is no room,
\* one of the entries shown panics, or the loop runs past the array.
LEMMA MarshalOutcomes ==
  ASSUME ListInv, Marshal
  PROVE  \/ returned' = "ok"
         \/ returned' = "memory"
         \/ returned' = "panic" /\ \E i \in 1 .. Len(Slice) : "panic" \in Outcomes[Slice[i]]
         \/ returned' = "panic" /\ count > Capacity
<1>1. CASE count <= Capacity /\ Writable(count) /\ returned' = "ok"
  BY <1>1
<1>2. CASE returned' = "memory"
  BY <1>2
<1>3. ASSUME NEW i \in 1 .. Len(Slice), returned' \in Outcomes[entries[i]] \ {"ok"}
      PROVE  \/ returned' = "memory"
             \/ returned' = "panic" /\ "panic" \in Outcomes[Slice[i]]
  <2>1. Slice[i] = entries[i] /\ Slice[i] \in Entries
    <3>1. Slice = Part(count, entries) /\ Len(Slice) = Shown(count)
      BY SliceNow
    <3>2. count \in Nat /\ entries \in Array
      BY DEF ListInv, ListTypeOK
    <3>3. \A j \in 1 .. Shown(count) : Part(count, entries)[j] = entries[j]
      BY <3>2, FrontFits
    <3>4. Slice[i] = entries[i]
      BY <3>1, <3>3
    <3>5. Slice \in Seq(Entries)
      BY SliceNow
    <3>6. QED BY <3>4, <3>5
  <2>2. Outcomes[Slice[i]] \subseteq {"ok", "memory", "panic"}
    BY <2>1, ListAssumption
  <2>3. QED BY <1>3, <2>1, <2>2
<1>4. CASE count > Capacity /\ Writable(Capacity) /\ returned' = "panic"
  BY <1>4
<1>5. QED BY <1>1, <1>2, <1>3, <1>4 DEF Marshal

LEMMA MarshalStep ==
  ASSUME ListInv, Marshal
  PROVE  ListInv' /\ Sequence!Next
<1>1. UNCHANGED <<count, entries, list, This, Slice>>
  BY DEF Marshal, Slice, This
<1>2. wanted' = [whole |-> TRUE, elems |-> Slice]
  BY DEF Marshal, Want
<1>3. Slice \in Seq(Entries) /\ Len(Slice) <= Capacity
  BY SliceNow
<1>4. Filled(Slice)' = Filled(Slice)
  BY <1>1 DEF Filled
<1>5. returned' \in {"ok", "memory", "panic"}
  BY MarshalOutcomes
<1>6. ListTypeOK'
  BY <1>1, <1>2, <1>3, <1>5 DEF ListInv, ListTypeOK
<1>7. ~This.public => count <= Capacity /\ entries = Filled(Slice)
  BY DEF ListInv, Sound
<1>8. CASE returned' = "ok"
  <2>1. PanicsOnlyInEntries'
    BY <1>8 DEF PanicsOnlyInEntries
  <2>2. Sequence!Serve
    BY <1>1, <1>2, <1>3, <1>8 DEF Sequence!Serve, Sequence!Fits
  <2>3. QED BY <1>1, <1>4, <1>6, <1>7, <2>1, <2>2 DEF ListInv, Sound, Sequence!Next
<1>9. CASE returned' = "memory"
  <2>1. PanicsOnlyInEntries'
    BY <1>9 DEF PanicsOnlyInEntries
  <2>2. Sequence!NoRoom
    BY <1>1, <1>2, <1>9 DEF Sequence!NoRoom
  <2>3. QED BY <1>1, <1>4, <1>6, <1>7, <2>1, <2>2 DEF ListInv, Sound, Sequence!Next
<1>10. ASSUME returned' = "panic", NEW i \in 1 .. Len(Slice), "panic" \in Outcomes[Slice[i]]
       PROVE  ListInv' /\ Sequence!Next
  <2>1. PanicsOnlyInEntries'
    BY <1>1, <1>10 DEF PanicsOnlyInEntries
  <2>2. Sequence!Break
    <3>1. Slice[i] \in {x \in Entries : "panic" \in Outcomes[x]}
      BY <1>3, <1>10
    <3>2. QED BY <1>1, <1>2, <1>10, <3>1 DEF Sequence!Break
  <2>3. QED BY <1>1, <1>4, <1>6, <1>7, <2>1, <2>2 DEF ListInv, Sound, Sequence!Next
<1>11. CASE returned' = "panic" /\ count > Capacity
  <2>1. This.public
    BY <1>7, <1>11, ListAssumption DEF ListInv, ListTypeOK
  <2>2. PanicsOnlyInEntries'
    BY <1>1, <2>1 DEF PanicsOnlyInEntries
  <2>3. Sequence!Break
    BY <1>1, <1>2, <1>11, <2>1 DEF Sequence!Break
  <2>4. QED BY <1>1, <1>4, <1>6, <1>7, <2>2, <2>3 DEF ListInv, Sound, Sequence!Next
<1>12. QED BY <1>8, <1>9, <1>10, <1>11, MarshalOutcomes

\* What the owner of public fields does to them.
LEMMA AssignStep ==
  ASSUME ListInv, This.public, UNCHANGED <<wanted, list>>, returned' = "ok",
         count' \in Nat, entries' \in Array
  PROVE  ListInv' /\ Sequence!Next
<1>1. ListTypeOK' /\ Sound'
  BY DEF ListInv, ListTypeOK, Sound, PanicsOnlyInEntries, This
<1>2. Slice' = Part(count', entries')
  BY DEF Slice, Part, Shown
<1>3. Slice' \in Seq(Entries) /\ Len(Slice') <= Capacity
  BY <1>2, FrontFits
<1>4. Sequence!Assign
  BY <1>3 DEF Sequence!Assign, Sequence!Fits, This
<1>5. QED BY <1>1, <1>4 DEF ListInv, Sequence!Next

LEMMA ListStep ==
  ASSUME ListInv, [ListNext]_listVars
  PROVE  ListInv' /\ [Sequence!Next]_(Sequence!vars)
<1>1. ASSUME NEW s \in Slices, New(s) PROVE ListInv' /\ Sequence!Next
  BY <1>1, NewStep
<1>2. ASSUME NEW x \in This.entries, Add(x) PROVE ListInv' /\ Sequence!Next
  <2>1. x \in Entries
    BY DefaultIsEntry DEF ListInv, ListTypeOK
  <2>2. QED BY <1>2, <2>1, AddStep
<1>3. ASSUME NEW n \in Counts, NEW s \in Messages, NEW why \in This.refusals,
             Receive(n, s, why)
      PROVE  ListInv' /\ Sequence!Next
  BY <1>3, ReceiveStep
<1>4. CASE Marshal
  BY <1>4, MarshalStep
<1>5. ASSUME NEW n \in Counts, SetCount(n) PROVE ListInv' /\ Sequence!Next
  <2>1. This.public /\ UNCHANGED <<wanted, list>> /\ returned' = "ok"
    BY <1>5 DEF SetCount
  <2>2. count' \in Nat /\ entries' \in Array
    BY <1>5, ListAssumption DEF SetCount, ListInv, ListTypeOK
  <2>3. QED BY <2>1, <2>2, AssignStep
<1>6. ASSUME NEW i \in 1 .. Capacity, NEW x \in This.entries, SetEntry(i, x)
      PROVE  ListInv' /\ Sequence!Next
  <2>1. This.public /\ UNCHANGED <<wanted, list>> /\ returned' = "ok"
    BY <1>6 DEF SetEntry
  <2>2. count' \in Nat /\ entries' \in Array
    BY <1>6, DefaultIsEntry DEF SetEntry, ListInv, ListTypeOK, Array
  <2>3. QED BY <2>1, <2>2, AssignStep
<1>7. CASE UNCHANGED listVars
  <2>1. UNCHANGED <<This, Slice, Filled(Slice)>>
    BY <1>7 DEF listVars, Slice, Filled, This
  <2>2. ListTypeOK'
    BY <1>7 DEF listVars, ListInv, ListTypeOK
  <2>3. Sound'
    BY <1>7, <2>1 DEF listVars, ListInv, Sound, PanicsOnlyInEntries
  <2>4. QED BY <1>7, <2>1, <2>2, <2>3 DEF listVars, ListInv, Sequence!vars
<1>8. QED BY <1>1, <1>2, <1>3, <1>4, <1>5, <1>6, <1>7 DEF ListNext

LEMMA ListStart == ListInit => ListInv /\ Sequence!Init
<1> SUFFICES ASSUME ListInit PROVE ListInv /\ Sequence!Init
  OBVIOUS
<1>1. count = 0 /\ entries = DefaultArray /\ returned = "none" /\ list \in DOMAIN Lists
      /\ wanted = [whole |-> TRUE, elems |-> <<>>]
  BY ListAssumption DEF ListInit
<1>2. Slice = <<>>
  BY <1>1, ListAssumption DEF Slice
<1>3. ListTypeOK
  BY <1>1, ListAssumption, DefaultIsEntry DEF ListTypeOK, DefaultArray, Array
<1>4. Filled(<<>>) = DefaultArray
  <2>1. \A i \in 1 .. Capacity : ~(i <= Len(<<>>))
    BY ListAssumption
  <2>2. QED BY <2>1 DEF Filled, DefaultArray
<1>5. Sound
  BY <1>1, <1>2, <1>4, ListAssumption DEF Sound, PanicsOnlyInEntries
<1>6. This.public \in BOOLEAN
  BY <1>1, ListAssumption DEF This
<1>7. QED BY <1>1, <1>2, <1>3, <1>5, <1>6 DEF ListInv, Sequence!Init
-----------------------------------------------------------------------------
(* Theorems.                                                               *)

\* A list of any capacity stays one, and of whatever it was made, its array is
\* its slice over a default array.
THEOREM ListInvariant == ListSpec => []ListInv
<1>1. ListInit => ListInv
  BY ListStart
<1>2. ListInv /\ [ListNext]_listVars => ListInv'
  BY ListStep
<1>3. QED BY <1>1, <1>2, PTL DEF ListSpec

\* Lists of private fields that show the same elements are equal, whatever new,
\* add and messages they come from.
THEOREM EqualListsHaveEqualElements == ListSpec => []EqualMeansSameElements
<1>1. ListInv => EqualMeansSameElements
  <2> SUFFICES ASSUME ListInv, ~This.public
               PROVE  Len(Slice) = count /\ entries = Filled(Slice)
    BY DEF EqualMeansSameElements
  <2>1. Len(Slice) = Shown(count)
    BY SliceNow
  <2>2. QED BY <2>1, ListAssumption DEF ListInv, ListTypeOK, Sound, Shown
<1>2. QED BY <1>1, ListInvariant, PTL

\* No sequence of new, add, messages and marshaling makes a list of private
\* fields index past its own array, whatever its entries' impls come to: what
\* panics is the try_marshal of an entry that the list shows.
THEOREM PrivateListsPanicOnlyInEntries == ListSpec => []PanicsOnlyInEntries
<1>1. ListInv => PanicsOnlyInEntries
  BY DEF ListInv, Sound
<1>2. QED BY <1>1, ListInvariant, PTL

\* impl_tpml and the derived Marshalable implement a bounded sequence.
THEOREM ListsAreBoundedSequences == ListSpec => ImplementsSequence
<1>1. ListInit => Sequence!Init
  BY ListStart
<1>2. ListInv /\ [ListNext]_listVars => [Sequence!Next]_(Sequence!vars)
  BY ListStep
<1>3. QED BY <1>1, <1>2, ListInvariant, PTL
          DEF ListSpec, ImplementsSequence, Sequence!Spec
-----------------------------------------------------------------------------
(* Attribute words.                                                        *)

\* A field whose mask and argument are within the word.
IsField(f) ==
  f.shift \in Nat /\ f.mask \subseteq Positions /\ f.argument \in 0 .. Width

\* The fields of a kind of word, apart from each other and from its flags.
Apart(k) ==
  /\ \A name \in DOMAIN FieldsOf[k] :
       /\ IsField(FieldsOf[k][name])
       /\ FieldsOf[k][name].mask \cap FlagsOf[k] = {}
  /\ \A one, other \in DOMAIN FieldsOf[k] :
       one # other => FieldsOf[k][one].mask \cap FieldsOf[k][other].mask = {}

\* The word is its flags and its fields, each in the place of its mask.
AttrInv ==
  /\ kind \in DOMAIN FieldsOf
  /\ DOMAIN fields = DOMAIN FieldsOf[kind]
  /\ \A name \in DOMAIN fields : fields[name] \subseteq Positions
  /\ attr \cap FlagsOf[kind] = flags
  /\ \A name \in DOMAIN fields :
       attr \cap FieldsOf[kind][name].mask =
         NewAttributeField(fields[name], FieldsOf[kind][name])

LEMMA NvApart == Apart("TpmaNv")
<1>1. /\ FieldsOf["TpmaNv"] = TpmaNvFields
      /\ FlagsOf["TpmaNv"] = TpmaNvFlags \cap FlagsUsed
  BY DEF FieldsOf, FlagsOf
<1>2. /\ DOMAIN TpmaNvFields = {"index_type"}
      /\ TpmaNvFields["index_type"] = Field(4, 4 .. 7, 8)
  BY DEF TpmaNvFields
<1>3. IsField(Field(4, 4 .. 7, 8))
  BY DEF IsField, Field, Positions, Width
<1>4. Field(4, 4 .. 7, 8).mask \cap TpmaNvFlags = {}
  BY DEF Field, TpmaNvFlags
<1>5. QED BY <1>1, <1>2, <1>3, <1>4 DEF Apart

LEMMA CcApart == Apart("TpmaCc")
<1>1. /\ FieldsOf["TpmaCc"] = TpmaCcFields
      /\ FlagsOf["TpmaCc"] = TpmaCcFlags \cap FlagsUsed
  BY DEF FieldsOf, FlagsOf
<1>2. /\ DOMAIN TpmaCcFields = {"command_index", "c_handles"}
      /\ TpmaCcFields["command_index"] = Field(0, 0 .. 15, 16)
      /\ TpmaCcFields["c_handles"] = Field(25, 25 .. 27, 32)
  BY DEF TpmaCcFields
<1>3. IsField(Field(0, 0 .. 15, 16)) /\ IsField(Field(25, 25 .. 27, 32))
  BY DEF IsField, Field, Positions, Width
<1>4. /\ Field(0, 0 .. 15, 16).mask \cap TpmaCcFlags = {}
      /\ Field(25, 25 .. 27, 32).mask \cap TpmaCcFlags = {}
      /\ Field(0, 0 .. 15, 16).mask \cap Field(25, 25 .. 27, 32).mask = {}
  BY DEF Field, TpmaCcFlags
<1>5. QED BY <1>1, <1>2, <1>3, <1>4 DEF Apart

LEMMA KindsApart ==
  ASSUME kind \in DOMAIN FieldsOf
  PROVE  Apart(kind)
BY NvApart, CcApart DEF FieldsOf

\* What is put into a field stays in it.
LEMMA FieldWithin ==
  ASSUME NEW f, NEW value
  PROVE  NewAttributeField(value, f) \subseteq f.mask
BY DEF NewAttributeField

\* What is put into a field is read back from it, cut to its mask.
LEMMA FieldReads ==
  ASSUME NEW f, IsField(f), NEW value \in SUBSET Positions, NEW word,
         word \cap f.mask = NewAttributeField(value, f)
  PROVE  GetAttributeField(word, f) = {i \in value : i + f.shift \in f.mask}
<1>1. f.shift \in Nat /\ f.mask \subseteq Positions
  BY DEF IsField
<1>2. word \cap f.mask = {i \in f.mask : i - f.shift \in value}
  BY <1>1 DEF NewAttributeField, Shl
<1>3. GetAttributeField(word, f) = {i \in Positions : i + f.shift \in word \cap f.mask}
  BY DEF GetAttributeField, Shr
<1>4. \A i \in Positions : (i + f.shift) - f.shift = i
  BY <1>1 DEF Positions, Width
<1>5. QED BY <1>1, <1>2, <1>3, <1>4

\* A setter's argument, from whatever word it is.
LEMMA ArgumentFits ==
  ASSUME NEW f, IsField(f), NEW value
  PROVE  Argument(value, f) \subseteq Positions
BY DEF IsField, Argument, Positions, Width

LEMMA NewAttributesStep ==
  ASSUME AttrInv, NEW flag \in FlagsOf[kind], NEW name \in DOMAIN fields, NEW value,
         NewAttributes({flag}, name, value)
  PROVE  AttrInv'
<1> DEFINE f == FieldsOf[kind][name]
           a == Argument(value, f)
           new == NewAttributeField(a, f)
<1>1. Apart(kind) /\ name \in DOMAIN FieldsOf[kind]
  BY KindsApart DEF AttrInv
<1>2. IsField(f) /\ a \subseteq Positions /\ new \subseteq f.mask
  BY <1>1, ArgumentFits, FieldWithin DEF Apart
<1>3. /\ attr' = {flag} \cup new /\ flags' = {flag} /\ kind' = kind
      /\ fields' = [other \in DOMAIN fields |-> IF other = name THEN a ELSE {}]
  BY DEF NewAttributes
<1>4. DOMAIN fields' = DOMAIN fields
  BY <1>3
<1> HIDE DEF a, new
<1>5. attr' \cap FlagsOf[kind] = flags'
  BY <1>1, <1>2, <1>3 DEF Apart
<1>6. ASSUME NEW other \in DOMAIN fields
      PROVE  /\ fields'[other] \subseteq Positions
             /\ attr' \cap FieldsOf[kind][other].mask =
                  NewAttributeField(fields'[other], FieldsOf[kind][other])
  <2>1. other \in DOMAIN FieldsOf[kind]
    BY DEF AttrInv
  <2>2. FieldsOf[kind][other].mask \cap FlagsOf[kind] = {}
    BY <1>1, <2>1 DEF Apart
  <2>3. CASE other = name
    <3>1. fields'[other] = a
      BY <1>3, <2>3
    <3>2. attr' \cap f.mask = new
      BY <1>2, <1>3, <2>2, <2>3
    <3>3. QED BY <1>2, <2>3, <3>1, <3>2 DEF new
  <2>4. CASE other # name
    <3>1. fields'[other] = {}
      BY <1>3, <2>4
    <3>2. f.mask \cap FieldsOf[kind][other].mask = {}
      BY <1>1, <2>1, <2>4 DEF Apart
    <3>3. attr' \cap FieldsOf[kind][other].mask = {}
      BY <1>2, <1>3, <2>2, <3>2
    <3>4. NewAttributeField({}, FieldsOf[kind][other]) = {}
      BY DEF NewAttributeField, Shl
    <3>5. QED BY <3>1, <3>3, <3>4
  <2>5. QED BY <2>3, <2>4
<1>7. QED BY <1>3, <1>4, <1>5, <1>6 DEF AttrInv

LEMMA SetFieldStep ==
  ASSUME AttrInv, NEW name \in DOMAIN fields, NEW value, SetField(name, value)
  PROVE  AttrInv'
<1> DEFINE f == FieldsOf[kind][name]
           a == Argument(value, f)
           new == NewAttributeField(a, f)
<1>1. Apart(kind) /\ name \in DOMAIN FieldsOf[kind]
  BY KindsApart DEF AttrInv
<1>2. IsField(f) /\ a \subseteq Positions /\ new \subseteq f.mask
  BY <1>1, ArgumentFits, FieldWithin DEF Apart
<1>3. /\ attr' = (attr \ f.mask) \cup new /\ UNCHANGED <<kind, flags>>
      /\ fields' = [fields EXCEPT ![name] = a]
  BY DEF SetField, SetAttributeField
<1>4. DOMAIN fields' = DOMAIN fields
  BY <1>3
<1> HIDE DEF a, new
<1>5. attr' \cap FlagsOf[kind] = flags'
  <2>1. f.mask \cap FlagsOf[kind] = {} /\ attr \cap FlagsOf[kind] = flags
    BY <1>1 DEF Apart, AttrInv
  <2>2. QED BY <1>2, <1>3, <2>1
<1>6. ASSUME NEW other \in DOMAIN fields
      PROVE  /\ fields'[other] \subseteq Positions
             /\ attr' \cap FieldsOf[kind][other].mask =
                  NewAttributeField(fields'[other], FieldsOf[kind][other])
  <2>1. other \in DOMAIN FieldsOf[kind]
    BY DEF AttrInv
  <2>2. CASE other = name
    <3>1. fields'[other] = a
      BY <1>3, <2>2
    <3>2. attr' \cap f.mask = new
      BY <1>2, <1>3
    <3>3. QED BY <1>2, <2>2, <3>1, <3>2 DEF new
  <2>3. CASE other # name
    <3>1. fields'[other] = fields[other]
      BY <1>3, <2>3
    <3>2. f.mask \cap FieldsOf[kind][other].mask = {}
      BY <1>1, <2>1, <2>3 DEF Apart
    <3>3. attr' \cap FieldsOf[kind][other].mask = attr \cap FieldsOf[kind][other].mask
      BY <1>2, <1>3, <3>2
    <3>4. QED BY <3>1, <3>3 DEF AttrInv
  <2>4. QED BY <2>2, <2>3
<1>7. QED BY <1>3, <1>4, <1>5, <1>6 DEF AttrInv

\* A flag is of no field.
LEMMA FlagStep ==
  ASSUME AttrInv, NEW flag \in FlagsOf[kind], InsertFlag(flag) \/ RemoveFlag(flag)
  PROVE  AttrInv'
<1>1. /\ attr' \ {flag} = attr \ {flag}
      /\ UNCHANGED <<kind, fields>>
      /\ \/ attr' = attr \cup {flag} /\ flags' = flags \cup {flag}
         \/ attr' = attr \ {flag} /\ flags' = flags \ {flag}
  BY DEF InsertFlag, RemoveFlag
<1>2. Apart(kind)
  BY KindsApart DEF AttrInv
<1>3. attr' \cap FlagsOf[kind] = flags'
  BY <1>1 DEF AttrInv
<1>4. ASSUME NEW name \in DOMAIN fields
      PROVE  attr' \cap FieldsOf[kind][name].mask = attr \cap FieldsOf[kind][name].mask
  <2>1. flag \notin FieldsOf[kind][name].mask
    BY <1>2 DEF Apart, AttrInv
  <2>2. QED BY <1>1, <2>1
<1>5. QED BY <1>1, <1>3, <1>4 DEF AttrInv

\* However TpmaNv and TpmaCc are made and set, in whatever order: the flags are
\* those that are set, and each field reads as the value it was last given, cut
\* to its width.
THEOREM FlagsAndFieldsApart == AttrSpec => []FieldsKeepApart
<1>1. AttrInit => AttrInv
  <2> SUFFICES ASSUME AttrInit PROVE AttrInv
    OBVIOUS
  <2>1. \A f : NewAttributeField({}, f) = {}
    BY DEF NewAttributeField, Shl
  <2>2. QED BY <2>1 DEF AttrInit, AttrInv
<1>2. AttrInv /\ [AttrNext]_attrVars => AttrInv'
  <2> SUFFICES ASSUME AttrInv, [AttrNext]_attrVars PROVE AttrInv'
    OBVIOUS
  <2>1. CASE AttrNext
    BY <2>1, NewAttributesStep, SetFieldStep, FlagStep DEF AttrNext
  <2>2. CASE UNCHANGED attrVars
    BY <2>2 DEF attrVars, AttrInv
  <2>3. QED BY <2>1, <2>2
<1>3. AttrInv => FieldsKeepApart
  <2> SUFFICES ASSUME AttrInv PROVE FieldsKeepApart
    OBVIOUS
  <2>1. ASSUME NEW name \in DOMAIN fields
        PROVE  GetAttributeField(attr, FieldsOf[kind][name]) =
                 {i \in fields[name] : i + FieldsOf[kind][name].shift
                                         \in FieldsOf[kind][name].mask}
    <3>1. IsField(FieldsOf[kind][name])
      BY KindsApart DEF AttrInv, Apart
    <3>2. /\ fields[name] \in SUBSET Positions
          /\ attr \cap FieldsOf[kind][name].mask =
               NewAttributeField(fields[name], FieldsOf[kind][name])
      BY DEF AttrInv
    <3>3. QED BY <3>1, <3>2, FieldReads
  <2>2. QED BY <2>1 DEF AttrInv, FieldsKeepApart
<1>4. QED BY <1>1, <1>2, <1>3, PTL DEF AttrSpec
-----------------------------------------------------------------------------
(* The DRBG helpers.                                                       *)

Bytes == [draw : Nat, at : Nat]
Notes == [width : Nat, input : BOOLEAN]

DrawsType ==
  /\ draws \in Seq(Notes)
  /\ left \in Nat
  /\ fresh \in BOOLEAN
  /\ low \in Seq(Bytes)

\* Until the first word is taken, the input is there to be used, and the only
\* draw there may have been is that of a low half, which stands alone: only
\* its high half can follow it.
InputKept ==
  /\ fresh /\ low = <<>> <=> draws = <<>>
  /\ low # <<>> => native = "u32" /\ Wide /\ fill # "idle"

DrbgIInv == DrawsType /\ InputKept /\ InputUsedOnce

\* A draw is noted behind the others; it may have the input if it is the first.
LEMMA OneMoreDraw ==
  ASSUME DrbgIInv, NEW width \in Nat, NEW input \in BOOLEAN,
         Note(width, input), input <=> draws = <<>>
  PROVE  draws' \in Seq(Notes) /\ draws' # <<>> /\ InputUsedOnce'
<1> DEFINE note == [width |-> width, input |-> input]
<1>1. draws \in Seq(Notes) /\ note \in Notes /\ note.input = input
  BY DEF DrbgIInv, DrawsType, Notes
<1> HIDE DEF note
<1>2. draws' = Append(draws, note)
  BY DEF Note, note
<1>3. /\ draws' \in Seq(Notes) /\ draws' # <<>>
      /\ Len(draws') = Len(draws) + 1 /\ Len(draws) \in Nat
      /\ \A k \in 1 .. Len(draws) : draws'[k] = draws[k]
      /\ draws'[Len(draws) + 1] = note
  BY <1>1, <1>2, AppendProperties, LenProperties
<1>4. /\ DOMAIN draws = 1 .. Len(draws) /\ DOMAIN draws' = 1 .. Len(draws) + 1
      /\ draws = <<>> <=> Len(draws) = 0
  BY <1>1, <1>3, LenProperties, EmptySeq
<1>5. ASSUME NEW k \in 1 .. Len(draws) + 1
      PROVE  draws'[k].input <=> k = 1
  <2>1. CASE k \in 1 .. Len(draws)
    BY <1>3, <1>4, <2>1 DEF DrbgIInv, InputUsedOnce
  <2>2. CASE k = Len(draws) + 1
    <3>1. draws'[k].input <=> draws = <<>>
      BY <1>1, <1>3, <2>2
    <3>2. draws = <<>> <=> k = 1
      BY <1>3, <1>4, <2>2
    <3>3. QED BY <3>1, <3>2
  <2>3. QED BY <1>3, <2>1, <2>2
<1>6. QED BY <1>3, <1>4, <1>5 DEF InputUsedOnce

\* What is left of dest stays a length, and a word taken uses up the input.
LEMMA TakeUses ==
  ASSUME DrbgIInv, NEW word, Len(word) \in Nat, Take(word)
  PROVE  left' \in Nat /\ fresh' = FALSE
BY DEF Take, DrbgIInv, DrawsType

\* A draw has the bytes that were asked for.
LEMMA DrawnLength ==
  ASSUME DrbgIInv, NEW width \in Nat
  PROVE  Drawn(width) \in Seq(Bytes) /\ Len(Drawn(width)) = width
<1> DEFINE byte(j) == [draw |-> Len(draws) + 1, at |-> j]
<1>1. \A j \in 1 .. width : byte(j) \in Bytes
  BY DEF DrbgIInv, DrawsType, Bytes
<1> HIDE DEF byte
<1>2. [j \in 1 .. width |-> byte(j)] \in Seq(Bytes)
      /\ Len([j \in 1 .. width |-> byte(j)]) = width
  BY <1>1
<1>3. QED BY <1>2 DEF Drawn, byte

LEMMA DrbgStep ==
  ASSUME DrbgIInv, [DrbgNext]_drbgVars
  PROVE  DrbgIInv'
<1>1. ASSUME NEW n \in 0 .. MaxDest, Draw(n)
      PROVE  DrbgIInv'
  <2>1. n \in Nat
    BY DestAssumption
  <2>2. UNCHANGED <<draws, low, fresh, native>> /\ left' = n /\ low = <<>>
    BY <1>1 DEF Draw, DrbgIInv, InputKept
  <2>3. QED BY <2>1, <2>2 DEF DrbgIInv, DrawsType, InputKept, InputUsedOnce
<1>2. CASE DrawWord
  <2>1. low = <<>> /\ UNCHANGED <<low, native>>
    BY <1>2 DEF DrawWord, DrbgIInv, InputKept
  <2> DEFINE width == IF Wide THEN 8 ELSE 4
  <2>2. width \in Nat /\ Take(Drawn(width)) /\ Note(width, fresh)
    BY <1>2 DEF DrawWord
  <2>3. fresh <=> draws = <<>>
    BY <2>1 DEF DrbgIInv, InputKept
  <2> HIDE DEF width
  <2>4. left' \in Nat /\ fresh' = FALSE
    BY <2>2, DrawnLength, TakeUses
  <2>5. draws' \in Seq(Notes) /\ draws' # <<>> /\ InputUsedOnce'
    BY <2>2, <2>3, OneMoreDraw DEF DrbgIInv, DrawsType
  <2>6. QED BY <2>1, <2>4, <2>5 DEF DrbgIInv, DrawsType, InputKept
<1>3. CASE DrawLow
  <2>1. /\ low = <<>> /\ low' = Drawn(4) /\ Note(4, fresh)
        /\ fill = "drawing" /\ native = "u32" /\ Wide
        /\ UNCHANGED <<fill, native, left, fresh>>
    BY <1>3 DEF DrawLow
  <2>2. low' # <<>>
    BY <2>1, DrawnLength
  <2>3. fresh <=> draws = <<>>
    BY <2>1 DEF DrbgIInv, InputKept
  <2>4. draws' \in Seq(Notes) /\ draws' # <<>> /\ InputUsedOnce'
    BY <2>1, <2>3, OneMoreDraw DEF DrbgIInv, DrawsType
  <2>5. low' \in Seq(Bytes)
    BY <2>1, DrawnLength
  <2>6. Wide' /\ native' = "u32" /\ fill' # "idle"
    BY <2>1 DEF Wide
  <2>7. DrawsType'
    BY <2>1, <2>4, <2>5 DEF DrbgIInv, DrawsType
  <2>8. QED BY <2>2, <2>4, <2>6, <2>7 DEF DrbgIInv, InputKept
<1>4. CASE DrawHigh
  <2>1. low # <<>> /\ low' = <<>> /\ Take(low \o Drawn(4)) /\ Note(4, FALSE)
    BY <1>4 DEF DrawHigh
  <2>2. draws # <<>>
    BY <2>1 DEF DrbgIInv, InputKept
  <2>3. Len(low \o Drawn(4)) \in Nat
    <3>1. low \in Seq(Bytes) /\ Drawn(4) \in Seq(Bytes)
      BY DrawnLength DEF DrbgIInv, DrawsType
    <3>2. QED BY <3>1
  <2>4. left' \in Nat /\ fresh' = FALSE
    BY <2>1, <2>3, TakeUses
  <2>5. draws' \in Seq(Notes) /\ draws' # <<>> /\ InputUsedOnce'
    BY <2>1, <2>2, OneMoreDraw
  <2>6. DrawsType'
    BY <2>1, <2>4, <2>5, EmptySeq DEF DrawsType
  <2>7. QED BY <2>1, <2>4, <2>5, <2>6 DEF DrbgIInv, InputKept
<1>5. CASE DrawBytes
  <2>1. /\ native = "bytes" /\ Take(Drawn(left)) /\ Note(left, fresh)
        /\ UNCHANGED <<native, low>>
    BY <1>5 DEF DrawBytes
  <2>2. low = <<>> /\ left \in Nat
    BY <2>1 DEF DrbgIInv, DrawsType, InputKept
  <2>3. fresh <=> draws = <<>>
    BY <2>2 DEF DrbgIInv, InputKept
  <2>4. left' \in Nat /\ fresh' = FALSE
    BY <2>1, <2>2, DrawnLength, TakeUses
  <2>5. draws' \in Seq(Notes) /\ draws' # <<>> /\ InputUsedOnce'
    BY <2>1, <2>2, <2>3, OneMoreDraw DEF DrbgIInv, DrawsType
  <2>6. QED BY <2>1, <2>2, <2>4, <2>5 DEF DrbgIInv, DrawsType, InputKept
<1>6. CASE DrawFails \/ Full \/ UNCHANGED drbgVars
  <2>1. /\ UNCHANGED <<draws, low, fresh, left, native>>
        /\ fill' = fill \/ fill' # "idle"
    BY <1>6 DEF DrawFails, Full, drbgVars
  <2>2. QED BY <2>1 DEF DrbgIInv, DrawsType, InputKept, InputUsedOnce, Wide
<1>7. QED BY <1>1, <1>2, <1>3, <1>4, <1>5, <1>6 DEF DrbgNext

LEMMA DrbgStart == DrbgInit => DrbgIInv
<1> HAVE DrbgInit
<1>1. draws = <<>> /\ low = <<>> /\ fresh = TRUE /\ left = 0
  BY DEF DrbgInit
<1>2. QED
  BY <1>1, EmptySeq DEF DrbgIInv, DrawsType, InputKept, InputUsedOnce

\* The additional input goes into the first draw and into no other, whatever
\* the DRBG draws itself and however much is asked of it.
THEOREM InputGoesIn == DrbgSpec => []InputUsedOnce
<1>1. DrbgInit => DrbgIInv
  BY DrbgStart
<1>2. DrbgIInv /\ [DrbgNext]_drbgVars => DrbgIInv'
  BY DrbgStep
<1>3. DrbgIInv => InputUsedOnce
  BY DEF DrbgIInv
<1>4. QED BY <1>1, <1>2, <1>3, PTL DEF DrbgSpec
-----------------------------------------------------------------------------
(* Full and in order.                                                      *)

Pieces ==
  [k \in DOMAIN draws |-> [j \in 1 .. draws[k].width |-> [draw |-> k, at |-> j]]]

\* What was drawn is what dest has got, and then what it did not take: the low
\* half of a word that waits for its high half, or less than four bytes of the
\* last word, and none while there is room.
Pieced ==
  /\ dest \in Seq(Bytes)
  /\ fill = "ok" => left = 0
  /\ \E rest \in Seq(Bytes) :
       /\ Stream = dest \o rest
       /\ low # <<>> => rest = low /\ Len(low) = 4
       /\ low = <<>> => Len(rest) < 4
       /\ low = <<>> /\ (left > 0 \/ fill = "idle") => rest = <<>>

LEMMA PiecesType ==
  ASSUME draws \in Seq(Notes)
  PROVE  Pieces \in Seq(Seq(Bytes)) /\ Len(Pieces) = Len(draws)
<1> DEFINE piece(k) == [j \in 1 .. draws[k].width |-> [draw |-> k, at |-> j]]
<1>1. DOMAIN draws = 1 .. Len(draws) /\ Len(draws) \in Nat
  BY LenProperties
<1>2. ASSUME NEW k \in 1 .. Len(draws)
      PROVE  piece(k) \in Seq(Bytes)
  <2>1. draws[k].width \in Nat
    <3>1. draws[k] \in Notes
      BY <1>1, ElementOfSeq
    <3>2. QED BY <3>1 DEF Notes
  <2>2. \A j \in 1 .. draws[k].width : [draw |-> k, at |-> j] \in Bytes
    BY <1>1, <2>1 DEF Bytes
  <2>3. QED BY <2>1, <2>2
<1> HIDE DEF piece
<1>3. [k \in 1 .. Len(draws) |-> piece(k)] \in Seq(Seq(Bytes))
      /\ Len([k \in 1 .. Len(draws) |-> piece(k)]) = Len(draws)
  BY <1>1, <1>2
<1>4. Pieces = [k \in 1 .. Len(draws) |-> piece(k)]
  BY <1>1, Zenon DEF Pieces, piece
<1>5. QED BY <1>3, <1>4

LEMMA StreamType ==
  ASSUME DrbgIInv
  PROVE  Stream \in Seq(Bytes)
<1>1. Stream = FlattenSeq(Pieces)
  BY Zenon DEF Stream, Pieces
<1>2. Pieces \in Seq(Seq(Bytes))
  BY PiecesType DEF DrbgIInv, DrawsType
<1>3. QED BY <1>1, <1>2, FlattenType, Zenon

\* A draw puts its bytes behind those before it.
LEMMA StreamGrows ==
  ASSUME DrbgIInv, NEW width \in Nat, NEW input \in BOOLEAN, Note(width, input)
  PROVE  Stream' = Stream \o Drawn(width)
<1> DEFINE note == [width |-> width, input |-> input]
           n == Len(draws)
<1>1. draws \in Seq(Notes) /\ note \in Notes /\ note.width = width
  BY DEF DrbgIInv, DrawsType, Notes
<1>n. draws' = Append(draws, note)
  BY DEF Note
<1> HIDE DEF note
<1>2. /\ draws' \in Seq(Notes) /\ Len(draws') = n + 1 /\ n \in Nat
      /\ \A k \in 1 .. n : draws'[k] = draws[k]
      /\ draws'[n + 1] = note
  BY <1>1, <1>n, AppendProperties, LenProperties
<1>3. /\ DOMAIN draws = 1 .. n /\ DOMAIN draws' = 1 .. n + 1
  BY <1>1, <1>2, LenProperties
<1>4. Pieces \in Seq(Seq(Bytes)) /\ Len(Pieces) = n
  BY <1>1, PiecesType
<1>5. Drawn(width) \in Seq(Bytes)
  BY DrawnLength
<1>6. Pieces' \in Seq(Seq(Bytes)) /\ Len(Pieces') = n + 1
  <2>1. draws' \in Seq(Notes)
    BY <1>2
  <2>2. (draws \in Seq(Notes) => Pieces \in Seq(Seq(Bytes)) /\ Len(Pieces) = Len(draws))'
    BY PiecesType, PTL
  <2>3. QED BY <1>2, <2>1, <2>2
<1>7. \A k \in 1 .. n : Pieces'[k] = Pieces[k]
  <2> SUFFICES ASSUME NEW k \in 1 .. n
               PROVE  Pieces'[k] = Pieces[k]
    OBVIOUS
  <2>1. k \in DOMAIN draws /\ k \in DOMAIN draws' /\ draws'[k] = draws[k]
    BY <1>2, <1>3
  <2>2. /\ Pieces[k] = [j \in 1 .. draws[k].width |-> [draw |-> k, at |-> j]]
        /\ Pieces'[k] = [j \in 1 .. draws'[k].width |-> [draw |-> k, at |-> j]]
    BY <2>1, Zenon DEF Pieces
  <2>3. QED BY <2>1, <2>2
<1>8. Pieces'[n + 1] = Drawn(width)
  <2>1. n + 1 \in DOMAIN draws' /\ draws'[n + 1].width = width
    BY <1>1, <1>2, <1>3
  <2>2. Pieces'[n + 1] =
          [j \in 1 .. draws'[n + 1].width |-> [draw |-> n + 1, at |-> j]]
    BY <2>1 DEF Pieces
  <2>3. QED BY <2>1, <2>2 DEF Drawn
<1> DEFINE drawn == Drawn(width)
           before == Pieces
           now == Pieces'
<1> HIDE DEF drawn, before, now, n
<1>9. now = Append(before, drawn)
  <2>1. /\ before \in Seq(Seq(Bytes)) /\ Len(before) = n /\ n \in Nat
        /\ now \in Seq(Seq(Bytes)) /\ Len(now) = n + 1
        /\ drawn \in Seq(Bytes)
        /\ \A k \in 1 .. n : now[k] = before[k]
        /\ now[n + 1] = drawn
    BY <1>2, <1>4, <1>5, <1>6, <1>7, <1>8 DEF before, now, drawn
  <2>2. /\ Append(before, drawn) \in Seq(Seq(Bytes))
        /\ Len(Append(before, drawn)) = n + 1
        /\ \A k \in 1 .. n : Append(before, drawn)[k] = before[k]
        /\ Append(before, drawn)[n + 1] = drawn
    BY <2>1, AppendProperties
  <2>3. ASSUME NEW k \in 1 .. n + 1
        PROVE  now[k] = Append(before, drawn)[k]
    BY <2>1, <2>2
  <2>4. QED BY <2>1, <2>2, <2>3, SeqEqual
<1>10. before \in Seq(Seq(Bytes)) /\ drawn \in Seq(Bytes)
  BY <1>4, <1>5 DEF before, drawn
<1>11. FlattenSeq(now) = FlattenSeq(before) \o drawn
  BY <1>9, <1>10, FlattenAppend, Zenon
<1>12. Stream = FlattenSeq(before) /\ Stream' = FlattenSeq(now)
  BY Zenon DEF Stream, before, now, Pieces
<1>13. QED BY <1>11, <1>12 DEF drawn

\* dest takes the bytes behind the ones it has.
LEMMA TakeInOrder ==
  ASSUME DrbgIInv, dest \in Seq(Bytes), NEW word \in Seq(Bytes), Take(word),
         Stream' = dest \o word, Len(word) - left < 4,
         fill = "drawing", fill' = fill, low' = <<>>
  PROVE  Pieced'
<1> DEFINE n == IF Len(word) < left THEN Len(word) ELSE left
           a == SubSeq(word, 1, n)
           rest == SubSeq(word, n + 1, Len(word))
<1>1. left \in Nat /\ Len(word) \in Nat
  BY DEF DrbgIInv, DrawsType
<1>2. n \in 0 .. Len(word) /\ Len(word) - n < 4
  BY <1>1
<1>3. dest' = dest \o a /\ left' = left - n
  BY DEF Take
<1>4. left' > 0 => n = Len(word)
  <2>1. left - n > 0 => n = Len(word)
    BY ONLY <1>1
  <2>2. QED BY <1>3, <2>1
<1> HIDE DEF n
<1>5. /\ a \in Seq(Bytes) /\ rest \in Seq(Bytes)
      /\ Len(rest) = Len(word) - n /\ word = a \o rest
  <2>1. word \in Seq(Bytes) /\ n \in 0 .. Len(word)
    BY <1>2
  <2>2. QED BY ONLY <2>1, CutInTwo, Zenon
<1> HIDE DEF a, rest
<1>6. (dest \o a) \o rest = dest \o (a \o rest)
  <2>1. dest \in Seq(Bytes) /\ a \in Seq(Bytes) /\ rest \in Seq(Bytes)
    BY <1>5
  <2>2. QED BY ONLY <2>1, ConcatThree, SMTT(30)
<1>7. Stream' = dest' \o rest
  BY <1>3, <1>5, <1>6
<1>8. dest' \in Seq(Bytes) /\ Len(rest) < 4
  BY <1>2, <1>3, <1>5
<1>9. left' > 0 => rest = <<>>
  BY <1>1, <1>4, <1>5, EmptySeq
<1>10. QED BY <1>5, <1>7, <1>8, <1>9 DEF Pieced

LEMMA PiecedStep ==
  ASSUME DrbgIInv, Pieced, [DrbgNext]_drbgVars
  PROVE  Pieced'
<1>0. /\ dest \in Seq(Bytes) /\ left \in Nat /\ low \in Seq(Bytes)
      /\ low # <<>> => native = "u32" /\ Wide
  BY DEF DrbgIInv, DrawsType, InputKept, Pieced
<1>1. ASSUME NEW n \in 0 .. MaxDest, Draw(n)
      PROVE  Pieced'
  <2>1. low = <<>> /\ fill = "idle" /\ fill' = "drawing"
        /\ UNCHANGED <<dest, low, draws>>
    BY <1>1 DEF Draw, DrbgIInv, InputKept
  <2>2. Stream' = Stream
    BY <2>1, Zenon DEF Stream
  <2>3. Stream = dest \o <<>> /\ <<>> \in Seq(Bytes)
    BY <2>1, EmptySeq DEF Pieced
  <2>4. QED BY <1>0, <2>1, <2>2, <2>3, EmptySeq DEF Pieced
<1>2. CASE DrawWord
  <2> DEFINE width == IF Wide THEN 8 ELSE 4
  <2>1. /\ low = <<>> /\ low' = low /\ fill = "drawing" /\ fill' = fill /\ left > 0
        /\ width \in Nat /\ width - left < 4
        /\ Take(Drawn(width)) /\ Note(width, fresh)
    BY <1>0, <1>2 DEF DrawWord, DrbgIInv, InputKept, Wide
  <2>2. fresh \in BOOLEAN
    BY DEF DrbgIInv, DrawsType
  <2> HIDE DEF width
  <2>3. Drawn(width) \in Seq(Bytes) /\ Len(Drawn(width)) = width
    BY <2>1, DrawnLength
  <2>4. Stream = dest
    <3>1. Stream = dest \o <<>>
      BY <2>1 DEF Pieced
    <3>2. QED BY <1>0, <3>1, ConcatEmptySeq
  <2>5. Stream' = dest \o Drawn(width)
    BY <2>1, <2>2, <2>4, StreamGrows
  <2>6. QED BY <1>0, <2>1, <2>3, <2>5, TakeInOrder
<1>3. CASE DrawLow
  <2>1. /\ low = <<>> /\ low' = Drawn(4) /\ Note(4, fresh) /\ Wide
        /\ fill = "drawing" /\ UNCHANGED <<fill, left, dest>>
    BY <1>3 DEF DrawLow
  <2>2. Drawn(4) \in Seq(Bytes) /\ Len(Drawn(4)) = 4
    BY DrawnLength
  <2>3. Stream = dest
    <3>1. Stream = dest \o <<>>
      BY <1>0, <2>1 DEF Pieced, Wide
    <3>2. QED BY <1>0, <3>1, ConcatEmptySeq
  <2>4. Stream' = dest \o Drawn(4)
    BY <2>1, <2>3, StreamGrows DEF DrbgIInv, DrawsType
  <2>5. low' # <<>>
    BY <2>1, <2>2
  <2> DEFINE drawn == Drawn(4)
  <2> HIDE DEF drawn
  <2>6. drawn \in Seq(Bytes) /\ low' = drawn /\ Stream' = dest' \o drawn
    BY <2>1, <2>2, <2>4 DEF drawn
  <2>7. Len(low') = 4
    BY <2>1, <2>2
  <2>8. QED BY <1>0, <2>1, <2>5, <2>6, <2>7 DEF Pieced
<1>4. CASE DrawHigh
  <2>1. /\ low # <<>> /\ low' = <<>> /\ fill = "drawing" /\ fill' = fill
        /\ Take(low \o Drawn(4)) /\ Note(4, FALSE)
    BY <1>4 DEF DrawHigh
  <2>2. Drawn(4) \in Seq(Bytes) /\ Len(Drawn(4)) = 4
    BY DrawnLength
  <2>3. Stream' = Stream \o Drawn(4)
    BY <2>1, StreamGrows
  <2>4. Stream = dest \o low
    BY <2>1 DEF Pieced
  <2> DEFINE drawn == Drawn(4)
             word == low \o drawn
  <2>5. drawn \in Seq(Bytes) /\ Len(drawn) = 4
    BY <2>2
  <2> HIDE DEF drawn
  <2>6. (dest \o low) \o drawn = dest \o (low \o drawn)
    <3>1. dest \in Seq(Bytes) /\ low \in Seq(Bytes)
      BY <1>0
    <3>2. QED BY ONLY <2>5, <3>1, ConcatThree, SMTT(30)
  <2>7. QED
    <3>1. word \in Seq(Bytes) /\ Len(word) = Len(low) + 4
      <4>1. low \in Seq(Bytes)
        BY <1>0
      <4>2. low \o drawn \in Seq(Bytes) /\ Len(low \o drawn) = Len(low) + Len(drawn)
        BY <2>5, <4>1, ConcatProperties, Zenon
      <4>3. QED BY <2>5, <4>2
    <3>2. Len(low) = 4
      BY <2>1 DEF Pieced
    <3>3. Len(word) - left < 4
      BY <1>0, <2>1, <3>1, <3>2 DEF Wide
    <3>4. Take(word) /\ Stream' = dest \o word
      BY <2>1, <2>3, <2>4, <2>6 DEF drawn
    <3> HIDE DEF word
    <3>5. QED BY <1>0, <2>1, <3>1, <3>3, <3>4, TakeInOrder
<1>5. CASE DrawBytes
  <2>1. /\ low = <<>> /\ low' = low /\ fill = "drawing" /\ fill' = fill /\ left > 0
        /\ Take(Drawn(left)) /\ Note(left, fresh)
    BY <1>0, <1>5 DEF DrawBytes
  <2>2. fresh \in BOOLEAN
    BY DEF DrbgIInv, DrawsType
  <2>3. Drawn(left) \in Seq(Bytes) /\ Len(Drawn(left)) = left
    BY <1>0, DrawnLength
  <2>4. Stream = dest
    <3>1. Stream = dest \o <<>>
      BY <2>1 DEF Pieced
    <3>2. QED BY <1>0, <3>1, ConcatEmptySeq
  <2>5. Stream' = dest \o Drawn(left)
    BY <1>0, <2>1, <2>2, <2>4, StreamGrows
  <2>6. Len(Drawn(left)) - left < 4
    BY <1>0, <2>3
  <2>7. QED BY <1>0, <2>1, <2>3, <2>5, <2>6, TakeInOrder
<1>6. CASE DrawFails \/ Full \/ UNCHANGED drbgVars
  <2>1. /\ UNCHANGED <<draws, low, dest, left>>
        /\ fill' = fill \/ fill' = "error" \/ (fill' = "ok" /\ left = 0)
    BY <1>6 DEF DrawFails, Full, drbgVars
  <2>2. Stream' = Stream
    BY <2>1, Zenon DEF Stream
  <2>3. QED BY <2>1, <2>2 DEF Pieced
<1>7. QED BY <1>1, <1>2, <1>3, <1>4, <1>5, <1>6 DEF DrbgNext

\* Ok means that dest is full, with the bytes of the draws in their order and
\* none of them left out but fewer than four at the end, for every length of
\* dest and every DRBG.
THEOREM DestFilledInOrder == DrbgSpec => []FilledInOrder
<1>1. DrbgInit => DrbgIInv
  BY DrbgStart
<1>2. DrbgInit => Pieced
  <2> HAVE DrbgInit
  <2>1. draws = <<>> /\ dest = <<>> /\ low = <<>> /\ left = 0 /\ fill = "idle"
    BY DEF DrbgInit
  <2>2. Stream = <<>>
    <3>1. DOMAIN draws = 1 .. 0
      BY <2>1
    <3>2. Pieces = <<>>
      BY <3>1 DEF Pieces
    <3>3. QED BY <3>2, FlattenEmpty, Zenon DEF Stream, Pieces
  <2>3. <<>> \in Seq(Bytes) /\ <<>> \o <<>> = <<>>
    BY EmptySeq, ConcatEmptySeq
  <2>4. Len(<<>>) = 0
    BY EmptySeq
  <2>5. Stream = dest \o <<>>
    BY <2>1, <2>2, <2>3
  <2> HIDE DEF DrbgInit
  <2>6. \E rest \in Seq(Bytes) :
          /\ Stream = dest \o rest
          /\ low # <<>> => rest = low /\ Len(low) = 4
          /\ low = <<>> => Len(rest) < 4
          /\ low = <<>> /\ (left > 0 \/ fill = "idle") => rest = <<>>
    <3> WITNESS <<>> \in Seq(Bytes)
    <3>1. QED BY <2>1, <2>4, <2>5
  <2>7. QED BY <2>1, <2>3, <2>6, Zenon DEF Pieced
<1>3. DrbgIInv /\ Pieced /\ [DrbgNext]_drbgVars => (DrbgIInv /\ Pieced)'
  BY DrbgStep, PiecedStep
<1>4. DrbgIInv /\ Pieced => FilledInOrder
  <2> SUFFICES ASSUME DrbgIInv, Pieced, fill = "ok"
               PROVE  left = 0 /\ IsPrefix(dest, Stream) /\ Len(Stream) - Len(dest) < 4
    BY DEF FilledInOrder
  <2>1. left = 0 /\ low = <<>> /\ dest \in Seq(Bytes)
    BY DEF DrbgIInv, DrawsType, InputKept, Pieced, Wide
  <2>2. PICK rest \in Seq(Bytes) : Stream = dest \o rest /\ Len(rest) < 4
    BY <2>1 DEF Pieced
  <2>3. QED BY <2>1, <2>2, PrefixOfConcat
<1>5. QED BY <1>1, <1>2, <1>3, <1>4, PTL DEF DrbgSpec
=============================================================================
