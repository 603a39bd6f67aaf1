------------------------------ MODULE TpmLists ------------------------------
(***************************************************************************)
(* A TPML list, as impl_tpml and the derived Marshalable make it: a count  *)
(* and an array of fixed length.  Entries behind the count are in the      *)
(* array too, and the derived PartialEq compares them.                     *)
(***************************************************************************)
EXTENDS Integers, Sequences

CONSTANTS
  Capacity,   \* $ListCapacity
  Lists,      \* of each list that impl_tpml is for: the entries, which are the
              \* values of its $ListType, their default, the refusals of their
              \* try_unmarshal, and whether count and array are public
  Outcomes,   \* of each entry: what its try_marshal comes to in some buffer
  Inputs,     \* the slices new is given, and the entries of a message
  Counts      \* what a public count is set to, or a message announces

Entries == UNION {Lists[l].entries : l \in DOMAIN Lists}

ASSUME ListAssumption ==
  /\ Capacity \in Nat
  /\ \A l \in DOMAIN Lists :
       /\ Lists[l].default \in Lists[l].entries
       /\ Lists[l].refusals \subseteq {"size", "memory", "selector"}
       /\ Lists[l].public \in BOOLEAN
  /\ Outcomes \in [Entries -> SUBSET {"ok", "memory", "panic"}]
  /\ Inputs \subseteq Seq(Entries)
  /\ Counts \subseteq Nat

VARIABLES
  count,     \* the field
  entries,   \* the array, $ListField
  wanted,    \* what the last operation was to make of the list (a record)
  returned,  \* what it returned: Ok, an error, or a panic
  list       \* which list it is

listVars == <<count, entries, wanted, returned, list>>

This == Lists[list]

Array == [1 .. Capacity -> Entries]
DefaultArray == [i \in 1 .. Capacity |-> This.default]

\* s at the front of a default array.
Filled(s) ==
  [i \in 1 .. Capacity |-> IF i <= Len(s) THEN s[i] ELSE This.default]

\* The slice $ListField() returns.
Slice ==
  [i \in 1 .. (IF count < Capacity THEN count ELSE Capacity) |-> entries[i]]

\* The list that new, add or a message asks for, and whether it is all there.
Want(whole, s) == wanted' = [whole |-> whole, elems |-> s]

Refuse(why) == returned' = why /\ UNCHANGED <<count, entries, list>>

ListInit ==
  /\ list \in DOMAIN Lists
  /\ count = 0 /\ entries = DefaultArray
  /\ wanted = [whole |-> TRUE, elems |-> <<>>] /\ returned = "none"

\* Faulty New: the array of the list before is kept behind the elements.
NewOver(s) ==
  /\ Want(TRUE, s)
  /\ IF Len(s) > Capacity THEN Refuse("size")
     ELSE /\ count' = Len(s)
          /\ entries' = [i \in 1 .. Capacity |->
                           IF i <= Len(s) THEN s[i] ELSE entries[i]]
          /\ returned' = "ok"
          /\ UNCHANGED list

\* new, the elements over a default; Default is new of nothing.
New(s) ==
  /\ Want(TRUE, s)
  /\ IF Len(s) > Capacity THEN Refuse("size")
     ELSE /\ count' = Len(s)
          /\ entries' = Filled(s)
          /\ returned' = "ok"
          /\ UNCHANGED list

\* Faulty Add: a full list is noticed one entry late.
AddBeyond(x) ==
  /\ Want(TRUE, Append(Slice, x))
  /\ IF count > Capacity THEN Refuse("size")
     ELSE IF count = Capacity THEN Refuse("panic")
     ELSE /\ entries' = [entries EXCEPT ![count + 1] = x]
          /\ count' = count + 1
          /\ returned' = "ok"
          /\ UNCHANGED list

\* Faulty Add: the list is full when one entry is still free.
AddButLast(x) ==
  /\ Want(TRUE, Append(Slice, x))
  /\ IF count + 1 >= Capacity THEN Refuse("size")
     ELSE /\ entries' = [entries EXCEPT ![count + 1] = x]
          /\ count' = count + 1
          /\ returned' = "ok"
          /\ UNCHANGED list

Add(x) ==
  /\ Want(TRUE, Append(Slice, x))
  /\ IF count >= Capacity THEN Refuse("size")
     ELSE /\ entries' = [entries EXCEPT ![count + 1] = x]
          /\ count' = count + 1
          /\ returned' = "ok"
          /\ UNCHANGED list

\* try_unmarshal of a message that announces n entries and has those of s, and
\* where the next should be nothing, or what its try_unmarshal refuses.
Receive(n, s, why) ==
  /\ Want(n <= Len(s), IF n <= Len(s) THEN SubSeq(s, 1, n) ELSE s)
  /\ IF n > Capacity THEN Refuse("size")
     ELSE IF n > Len(s) THEN Refuse(why)
     ELSE /\ count' = n
          /\ entries' = Filled(SubSeq(s, 1, n))
          /\ returned' = "ok"
          /\ UNCHANGED list

\* Whether some buffer has room for each of the first n entries.
Writable(n) == \A i \in 1 .. n : "ok" \in Outcomes[entries[i]]

\* try_marshal into a buffer of any length: the count, and the entries up to
\* it, until there is no room for the count, one of the entries fails, for
\* whatever reason of its own, or the index is past the array.
Marshal ==
  /\ \/ count <= Capacity /\ Writable(count) /\ returned' = "ok"
     \/ returned' = "memory"
     \/ \E i \in 1 .. Len(Slice) :
          Writable(i - 1) /\ returned' \in Outcomes[entries[i]] \ {"ok"}
     \/ count > Capacity /\ Writable(Capacity) /\ returned' = "panic"
  /\ Want(TRUE, Slice)
  /\ UNCHANGED <<count, entries, list>>

\* The owner of a list with public fields writes to one of them.
SetCount(n) ==
  /\ This.public
  /\ count' = n /\ returned' = "ok"
  /\ UNCHANGED <<entries, wanted, list>>

SetEntry(i, x) ==
  /\ This.public
  /\ entries' = [entries EXCEPT ![i] = x] /\ returned' = "ok"
  /\ UNCHANGED <<count, wanted, list>>

\* Slices of this list's entries, and those that messages have: a type reads
\* no entry that it cannot write.
Slices == {s \in Inputs : \A i \in 1 .. Len(s) : s[i] \in This.entries}
Messages == {s \in Slices : \A i \in 1 .. Len(s) : "ok" \in Outcomes[s[i]]}

ListNext ==
  \/ \E s \in Slices : New(s)
  \/ \E x \in This.entries : Add(x)
  \/ \E n \in Counts, s \in Messages, why \in This.refusals : Receive(n, s, why)
  \/ Marshal
  \/ \E n \in Counts : SetCount(n)
  \/ \E i \in 1 .. Capacity, x \in This.entries : SetEntry(i, x)

ListSpec == ListInit /\ [][ListNext]_listVars
-----------------------------------------------------------------------------
(* Properties.                                                             *)

ListTypeOK ==
  /\ count \in Nat
  /\ entries \in Array
  /\ wanted \in [whole : BOOLEAN, elems : Seq(Entries)]
  /\ returned \in {"none", "ok", "size", "memory", "selector", "panic"}
  /\ list \in DOMAIN Lists

\* However a list came to be, through new, add or a message, it is equal, in
\* the derived PartialEq, to the one new makes of its elements: nothing stale
\* is left behind the count, on which the comparison of lists rests.
EqualMeansSameElements ==
  ~This.public => Len(Slice) = count /\ entries = Filled(Slice)

\* A list with private fields never indexes past its array: if it panics, then
\* in marshaling, and in the try_marshal of an entry that it shows, which may be
\* a Tpm2b in a short buffer or have a public count of its own.
PanicsOnlyInEntries ==
  ~This.public /\ returned = "panic" =>
    \E i \in 1 .. Len(Slice) : "panic" \in Outcomes[Slice[i]]

\* A list is a bounded sequence: new, add and a message make it what they are
\* given to make of it if that fits, and a refused one changes nothing, nor does
\* marshaling; test_impl_tpml_new and test_impl_tpml_default_add, in every order.
Sequence == INSTANCE TpmSequence
  WITH elems <- Slice, asked <- wanted, answer <- returned, public <- This.public,
       Fragile <- {x \in Entries : "panic" \in Outcomes[x]}
ImplementsSequence == Sequence!Spec
=============================================================================
