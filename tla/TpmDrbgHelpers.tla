--------------------------- MODULE TpmDrbgHelpers ---------------------------
(***************************************************************************)
(* The helpers a DRBG uses to make the draws it does not have out of one   *)
(* it has: bytes out of words, a u64 out of two u32, words out of bytes.   *)
(* A word is its bytes, the least significant first, which is how          *)
(* to_le_bytes, from_le_bytes and (y << 32) | x treat it.  A byte knows the *)
(* draw it is of and its place there.                                      *)
(***************************************************************************)
EXTENDS Integers, Sequences, SequencesExt

CONSTANT MaxDest   \* the longest dest

ASSUME DestAssumption == MaxDest \in Nat

VARIABLES
  fill,    \* "idle", "drawing", and then "ok" or "error", as returned
  native,  \* what the DRBG draws itself: "u64" and "u32", only "u32", "bytes"
  left,    \* dest.len(), of what of dest is still to be filled
  dest,    \* what of it has been filled
  low,     \* x of next_u64_via_u32, once it is drawn
  fresh,   \* additional_input has not been used yet
  draws    \* the draws of the DRBG: how wide, and whether with the input

drbgVars == <<fill, native, left, dest, low, fresh, draws>>

DrbgInit ==
  /\ fill = "idle" /\ native \in {"u64", "u32", "bytes"}
  /\ left = 0 /\ dest = <<>> /\ low = <<>> /\ fresh = TRUE /\ draws = <<>>

\* fill_bytes for n bytes, or next_u64 and next_u32 for 8 and 4.
Draw(n) ==
  /\ fill = "idle"
  /\ fill' = "drawing" /\ left' = n
  /\ UNCHANGED <<native, dest, low, fresh, draws>>

\* The bytes of the next draw, of this width.
Drawn(width) == [j \in 1 .. width |-> [draw |-> Len(draws) + 1, at |-> j]]
Note(width, input) ==
  draws' = Append(draws, [width |-> width, input |-> input])

\* Faulty Take: the input is passed to every draw.
TakeAndKeepInput(word) ==
  LET n == IF Len(word) < left THEN Len(word) ELSE left
  IN /\ dest' = dest \o SubSeq(word, 1, n)
     /\ left' = left - n
     /\ UNCHANGED fresh

\* dest takes of a word what it has room for.
Take(word) ==
  LET n == IF Len(word) < left THEN Len(word) ELSE left
  IN /\ dest' = dest \o SubSeq(word, 1, n)
     /\ left' = left - n
     /\ fresh' = FALSE

\* More than four bytes are left: next_u64, and otherwise next_u32.
Wide == left > 4

\* The DRBG's own next_u64, or its next_u32.
DrawWord ==
  /\ fill = "drawing" /\ left > 0
  /\ native = "u64" \/ (native = "u32" /\ ~Wide)
  /\ LET width == IF Wide THEN 8 ELSE 4
     IN Take(Drawn(width)) /\ Note(width, fresh)
  /\ UNCHANGED <<fill, native, low>>

\* next_u64_via_u32, its first half.
DrawLow ==
  /\ fill = "drawing" /\ native = "u32" /\ Wide /\ low = <<>>
  /\ low' = Drawn(4) /\ Note(4, fresh)
  /\ UNCHANGED <<fill, native, left, dest, fresh>>

\* Faulty DrawHigh: the halves are swapped.
DrawHighFirst ==
  /\ low # <<>> /\ fill = "drawing"
  /\ Take(Drawn(4) \o low) /\ Note(4, FALSE)
  /\ low' = <<>>
  /\ UNCHANGED <<fill, native>>

\* Its second half, drawn without the input.
DrawHigh ==
  /\ low # <<>> /\ fill = "drawing"
  /\ Take(low \o Drawn(4)) /\ Note(4, FALSE)
  /\ low' = <<>>
  /\ UNCHANGED <<fill, native>>

\* The DRBG's own fill_bytes, of an array of four or eight for a word.
DrawBytes ==
  /\ fill = "drawing" /\ native = "bytes" /\ left > 0
  /\ Take(Drawn(left)) /\ Note(left, fresh)
  /\ UNCHANGED <<fill, native, low>>

\* A draw returns an error, and so does the helper, as it stands.
DrawFails ==
  /\ fill = "drawing" /\ left > 0
  /\ fill' = "error"
  /\ UNCHANGED <<native, left, dest, low, fresh, draws>>

Full ==
  /\ fill = "drawing" /\ left = 0
  /\ fill' = "ok"
  /\ UNCHANGED <<native, left, dest, low, fresh, draws>>

DrbgNext ==
  \/ \E n \in 0 .. MaxDest : Draw(n)
  \/ DrawWord \/ DrawLow \/ DrawHigh \/ DrawBytes
  \/ DrawFails \/ Full

DrbgSpec == DrbgInit /\ [][DrbgNext]_drbgVars
-----------------------------------------------------------------------------
(* Properties.                                                             *)

\* What the DRBG has produced so far, byte by byte.
Stream ==
  FlattenSeq([k \in DOMAIN draws |->
                [j \in 1 .. draws[k].width |-> [draw |-> k, at |-> j]]])

\* "This method should guarantee that dest is entirely filled with new data":
\* Ok means that dest is full, with the bytes of the draws in their order, none
\* of them twice and none left out but fewer than four at the end.
FilledInOrder ==
  fill = "ok" =>
    /\ left = 0
    /\ IsPrefix(dest, Stream)
    /\ Len(Stream) - Len(dest) < 4

\* The additional input goes into the first draw and into no other, through
\* whichever helpers the draw is made.
InputUsedOnce == \A k \in DOMAIN draws : draws[k].input <=> k = 1
=============================================================================
