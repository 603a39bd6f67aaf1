----------------------------- MODULE TpmSequence -----------------------------
(***************************************************************************)
(* What a TPML list promises: it is a sequence of at most Capacity entries *)
(* that grows at its end, and what does not fit is refused and changes     *)
(* nothing.  Writing it changes nothing either, and fails for want of room *)
(* or, at worst, where an entry is fragile.  Where count and entries are   *)
(* public fields, their owner may also make it any such sequence.          *)
(***************************************************************************)
EXTENDS Integers, Sequences

CONSTANTS
  Capacity,
  Entries,
  Fragile    \* the entries whose own writing may panic

VARIABLES
  elems,   \* the entries
  asked,   \* what the last operation asked for, and whether all of it is there
  answer,  \* what that operation answered
  public   \* whether the fields are public

vars == <<elems, asked, answer, public>>

Fits(s) == Len(s) <= Capacity

Init ==
  /\ elems = <<>> /\ answer = "none" /\ public \in BOOLEAN
  /\ asked = [whole |-> TRUE, elems |-> <<>>]

\* An operation that asks for a sequence makes it the list, if it fits.
Serve ==
  /\ asked'.whole /\ Fits(asked'.elems)
  /\ elems' = asked'.elems /\ answer' = "ok"
  /\ UNCHANGED public

Refuse ==
  /\ asked'.whole /\ ~Fits(asked'.elems)
  /\ answer' = "size"
  /\ UNCHANGED <<elems, public>>

\* Part of a message is no list.
Reject ==
  /\ ~asked'.whole
  /\ answer' \in {"size", "memory", "selector"}
  /\ UNCHANGED <<elems, public>>

\* The owner of public fields writes to them, and may be punished for it.
Assign ==
  /\ public
  /\ elems' \in Seq(Entries) /\ Fits(elems')
  /\ answer' = "ok"
  /\ UNCHANGED <<asked, public>>

\* Written into a buffer too short for it.
NoRoom ==
  /\ asked'.elems = elems
  /\ answer' = "memory"
  /\ UNCHANGED <<elems, public>>

Break ==
  /\ public \/ \E i \in 1 .. Len(elems) : elems[i] \in Fragile
  /\ asked'.elems = elems
  /\ answer' = "panic"
  /\ UNCHANGED <<elems, public>>

Next == Serve \/ Refuse \/ Reject \/ Assign \/ NoRoom \/ Break

Spec == Init /\ [][Next]_vars
=============================================================================
