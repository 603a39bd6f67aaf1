------------------------------ MODULE TpmDerive ------------------------------
(***************************************************************************)
(* The Marshalable derive macro: what the impls that it generates read and *)
(* write, given the impls of the types of the fields.  One instance is one *)
(* level of nesting, and the types that are neither structs nor arrays are *)
(* passed on to the level below.                                           *)
(***************************************************************************)
EXTENDS TpmMarshal

CONSTANTS
  InnerMarshal(_, _, _),  \* try_marshal of a type and a value, into some room
  InnerUnmarshal(_, _)    \* try_unmarshal of a type, from a buffer
-----------------------------------------------------------------------------
(* try_marshal.                                                            *)

\* Faulty Write: what is there of the entries is enough.
WriteClamped(out, fields, k, v, room) ==
  LET more == InnerMarshal(Resolve(fields[k], v), v[k], room - Len(out.bytes))
  IN IF out.res # "ok" THEN out
     ELSE IF more.res # "ok" THEN NotWritten(more.res)
     ELSE Wrote(out.bytes \o more.bytes)
\* Field k of v behind what is written.  Entries past the end of their array
\* are indexed all the same, and the index is only checked by Rust.
Write(out, fields, k, v, room) ==
  LET F == fields[k]
      more == InnerMarshal(Resolve(F, v), v[k], room - Len(out.bytes))
  IN IF out.res # "ok" THEN out
     ELSE IF more.res # "ok" THEN NotWritten(more.res)
     ELSE IF Overruns(F, v) THEN NotWritten("panic")
     ELSE Wrote(out.bytes \o more.bytes)
\* The outcome after each field.
Writes(fields, v, room) ==
  LET out[k \in 0 .. Len(fields)] ==
        IF k = 0 THEN Wrote(<<>>) ELSE Write(out[k - 1], fields, k, v, room)
  IN out

\* Faulty Marshal: an array is marshaled to its end.
MarshalAll(T, v, room) ==
  LET fields == IF T.kind = "array" THEN [i \in 1 .. T.max |-> T.of] ELSE T.fields
  IN IF T.kind \in Composite THEN Writes(fields, v, room)[Len(fields)]
     ELSE InnerMarshal(T, v, room)
Marshal(T, v, room) ==
  IF T.kind \in Composite THEN Writes(Fields(T), v, room)[Len(Fields(T))]
  ELSE InnerMarshal(T, v, room)
-----------------------------------------------------------------------------
(* try_unmarshal.                                                          *)

\* Field F behind what is read.
Read(got, F) ==
  LET refusal == Refusal(F, got.value)
      more == InnerUnmarshal(Resolve(F, got.value), got.rest)
  IN IF got.res # "ok" THEN got
     ELSE IF refusal # "ok" THEN NotTaken(refusal)
     ELSE IF more.res # "ok" THEN NotTaken(more.res)
     ELSE Took(Append(got.value, more.value), more.rest)
\* The outcome after each field.
Reads(fields, buf) ==
  LET got[k \in 0 .. Len(fields)] ==
        IF k = 0 THEN Took(<<>>, buf) ELSE Read(got[k - 1], fields[k])
  IN got

Unmarshal(T, buf) ==
  LET got == Reads(Fields(T), buf)[Len(Fields(T))]
  IN IF T.kind \notin Composite THEN InnerUnmarshal(T, buf)
     ELSE IF got.res # "ok" THEN got
     ELSE Took(got.value \o Uncounted(T), got.rest)
=============================================================================
