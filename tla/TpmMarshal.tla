----------------------------- MODULE TpmMarshal -----------------------------
(***************************************************************************)
(* The types that the Marshalable derive macro accepts, what they take up  *)
(* in memory, and the impls that it does not generate out of others: those *)
(* of integers, of byte arrays and of Tpm2bs.  TpmDerive has the rest.     *)
(*                                                                         *)
(* A value of a struct is the sequence of its fields, in the order of the  *)
(* wire; one of an enum its selector and the value of the variant; and one *)
(* of an array with a length attribute the whole array: what lies behind   *)
(* the counted entries is there, and must not matter.                      *)
(***************************************************************************)
EXTENDS TpmBytes, FiniteSets, FiniteSetsExt

-----------------------------------------------------------------------------
(* Memory: repr(C), and the union that unionify makes of an enum.          *)

RoundUp(n, align) == align * ((n + align - 1) \div align)

\* The largest alignment in a family of types.
AlignOf(types) == Max({1} \cup {types[k].align : k \in DOMAIN types})

\* Where the fields of a struct end, each at its alignment.
Ends(fields) ==
  LET end[k \in 0 .. Len(fields)] ==
        IF k = 0 THEN 0
        ELSE RoundUp(end[k - 1], fields[k].align) + fields[k].size
  IN end
Packed(fields) == RoundUp(Ends(fields)[Len(fields)], AlignOf(fields))

\* UNION_SIZE of an enum whose variants have these payloads.
UnionSize(payloads) ==
  RoundUp(Max({payloads[k].size : k \in DOMAIN payloads}), AlignOf(payloads))
-----------------------------------------------------------------------------
(* Types.                                                                  *)

\* An integer of so many bytes, a newtype of one, an open enum or bitflags.
Word(width) ==
  [kind |-> "word", width |-> width, size |-> width, align |-> width,
   default |-> IF width = 8 THEN <<0, 0>> ELSE 0]
Bytes(n) ==
  [kind |-> "bytes", length |-> n, size |-> n, align |-> 1, default |-> Zeros(n)]
\* tpm2b_simple: a u16 size and the buffer it counts in.
Blob(max) ==
  [kind |-> "blob", max |-> max, size |-> Packed(<<Word(2), Bytes(max)>>),
   align |-> 2, default |-> <<>>]
Struct(fields) ==
  [kind |-> "struct", fields |-> fields, size |-> Packed(fields),
   align |-> AlignOf(fields),
   default |-> [k \in DOMAIN fields |-> fields[k].default]]

\* A field with the attribute length = the field at position by.
Counted(by, max, of) ==
  [kind |-> "counted", by |-> by, max |-> max, of |-> of,
   size |-> max * of.size, align |-> of.align,
   default |-> [i \in 1 .. max |-> of.default]]
\* The union of an enum's variants, of which the field at position by says
\* which it is.
Chosen(by, default, variants) ==
  [kind |-> "chosen", by |-> by, variants |-> variants,
   size |-> UnionSize(variants), align |-> AlignOf(variants),
   default |-> variants[default].default]

\* An enum of repr(C, uN), and the selector of its Default.
Tag(width, default) == [Word(width) EXCEPT !.default = default]
Tagged(width, default, variants) ==
  <<Tag(width, default),
    Chosen(1, default, [s \in DOMAIN variants |-> Struct(variants[s])])>>
Enum(width, default, variants) == Struct(Tagged(width, default, variants))

\* The three hand-written impls: the last field is an enum whose selector is
\* marshaled after so many of the fields before it.
Apart(before, fields, enum) ==
  LET all == Append(fields, enum)
      wire == SubSeq(fields, 1, before) \o <<enum.fields[1]>>
              \o After(fields, before)
              \o <<[enum.fields[2] EXCEPT !.by = before + 1]>>
  IN [Struct(wire) EXCEPT !.size = Packed(all), !.align = AlignOf(all)]
-----------------------------------------------------------------------------
(* try_marshal into room bytes: "ok" with the bytes, "memory", or a panic. *)

Wrote(bytes) == [res |-> "ok", bytes |-> bytes]
NotWritten(res) == [res |-> res, bytes |-> <<>>]

WordBytes(width, v) ==
  CASE width = 1 -> <<v>>
    [] width = 2 -> BE2(v)
    [] width = 4 -> BE4(v)
    [] width = 8 -> BE4(v[1]) \o BE4(v[2])

Put(bytes, room) == IF Len(bytes) <= room THEN Wrote(bytes)
                                          ELSE NotWritten("memory")
\* The size is compared with the larger of two bounds, then used as a range.
PutBlob(max, v, room) ==
  IF room < 2 \/ (Len(v) > max /\ Len(v) > room - 2) THEN NotWritten("memory")
  ELSE IF Len(v) > room - 2 THEN NotWritten("panic")
  ELSE Wrote(BE2(Len(v)) \o v)

LeafMarshal(T, v, room) ==
  CASE T.kind = "word" -> Put(WordBytes(T.width, v), room)
    [] T.kind = "bytes" -> Put(v, room)
    [] T.kind = "blob" -> PutBlob(T.max, v, room)
-----------------------------------------------------------------------------
(* try_unmarshal from buf.                                                 *)

Took(value, rest) == [res |-> "ok", value |-> value, rest |-> rest]
NotTaken(res) == [res |-> res, value |-> <<>>, rest |-> <<>>]

\* All of a u32, where U32 of TpmBytes stops at the upper half.
BigEndian4(s) == 16777216 * s[1] + 65536 * s[2] + 256 * s[3] + s[4]
WordOf(width, s) ==
  CASE width = 1 -> s[1]
    [] width = 2 -> U16(s)
    [] width = 4 -> BigEndian4(s)
    [] width = 8 -> <<BigEndian4(s), BigEndian4(After(s, 4))>>

Take(buf, n) ==
  IF CanGet(buf, n) THEN Took(Got(buf, n), After(buf, n)) ELSE NotTaken("memory")
TakeWord(width, buf) ==
  IF CanGet(buf, width) THEN Took(WordOf(width, buf), After(buf, width))
                        ELSE NotTaken("memory")
\* Faulty TakeBlob: what is there of the contents is enough.
TakeSomeBlob(max, buf) ==
  LET n == Tpm2bLen(buf)
  IN IF ~CanGet(buf, 2) \/ n - 2 > max THEN NotTaken("memory")
     ELSE Took(SubSeq(buf, 3, Min({n, Len(buf)})), After(buf, n))
TakeBlob(max, buf) ==
  LET n == Tpm2bLen(buf)
  IN IF ~CanGet(buf, n) \/ n - 2 > max THEN NotTaken("memory")
     ELSE Took(SubSeq(buf, 3, n), After(buf, n))

LeafUnmarshal(T, buf) ==
  CASE T.kind = "word" -> TakeWord(T.width, buf)
    [] T.kind = "bytes" -> Take(buf, T.length)
    [] T.kind = "blob" -> TakeBlob(T.max, buf)
-----------------------------------------------------------------------------
(* What the types and their values are.                                    *)

LeafIsType(T) ==
  \/ T.kind = "word" /\ T.width \in {1, 2, 4, 8} /\ T.size = T.width
  \/ T.kind = "bytes" /\ T.length \in Nat /\ T.size = T.length
  \/ T.kind = "blob" /\ T.max \in 0 .. U16Max /\ T.size \in Nat /\ T.max + 2 <= T.size

IsU32(v) == v \in Nat /\ v \div 16777216 \in Octet
IsWord(width, v) ==
  CASE width = 1 -> v \in Octet
    [] width = 2 -> v \in 0 .. U16Max
    [] width = 4 -> IsU32(v)
    [] width = 8 -> v = <<v[1], v[2]>> /\ IsU32(v[1]) /\ IsU32(v[2])
LeafIsValue(T, v) ==
  CASE T.kind = "word" -> IsWord(T.width, v)
    [] T.kind = "bytes" -> v \in Seq(Octet) /\ Len(v) = T.length
    [] T.kind = "blob" -> v \in Seq(Octet) /\ Len(v) <= T.max

\* What the code shows of a value: here, all of it.
LeafSeen(T, v) == v
\* None of these has a count.
LeafOvercounted(T, v) == FALSE
-----------------------------------------------------------------------------
(* Fields of the impls that are generated.                                 *)

\* The first length entries of a field that is an array.
Entries(F, length) ==
  [kind |-> "array", length |-> length, max |-> F.max, of |-> F.of,
   size |-> length * F.of.size]

\* Whether more entries are counted than there are.
Overruns(F, before) == F.kind = "counted" /\ before[F.by] \notin 0 .. F.max

\* Faulty Refusal: one entry more than there is room for.
RefusalOneMore(F, before) ==
  IF F.kind = "counted" /\ before[F.by] \notin 0 .. F.max + 1 THEN "size"
  ELSE IF F.kind = "chosen" /\ before[F.by] \notin DOMAIN F.variants
  THEN "selector" ELSE "ok"

\* What is wrong with a field, from what the fields before it say.
Refusal(F, before) ==
  IF Overruns(F, before) THEN "size"
  ELSE IF F.kind = "chosen" /\ before[F.by] \notin DOMAIN F.variants
  THEN "selector" ELSE "ok"

\* What a field is, from what the fields before it say.
Resolve(F, before) ==
  IF F.kind = "counted"
  THEN Entries(F, IF Overruns(F, before) THEN F.max ELSE before[F.by])
  ELSE IF F.kind = "chosen" THEN F.variants[before[F.by]]
  ELSE F

Composite == {"struct", "array"}
Fields(T) ==
  IF T.kind = "array" THEN [i \in 1 .. T.length |-> T.of] ELSE T.fields

\* The entries of an array that are not counted keep their Default.
Uncounted(T) ==
  IF T.kind = "array" THEN [i \in 1 .. T.max - T.length |-> T.of.default]
                      ELSE <<>>
=============================================================================
