---------------------------- MODULE TpmDerivable ----------------------------
(***************************************************************************)
(* What the Marshalable derive macro accepts: the types that it generates  *)
(* impls for and their values, given those of the fields.  One instance is *)
(* one level of nesting, like one of TpmDerive.                            *)
(***************************************************************************)
EXTENDS TpmMarshal

CONSTANTS
  InnerIsType(_),         \* the types there are
  InnerIsValue(_, _),     \* and the values of a type
  InnerSeen(_, _),        \* what the code shows of a value
  InnerOvercounted(_, _)  \* and what is none, as a count in it says too much
-----------------------------------------------------------------------------
(* Types: a length attribute, like the selector of a variant, is an        *)
(* integer field before.                                                   *)

Room(fields) ==
  LET sum[k \in 0 .. Len(fields)] ==
        IF k = 0 THEN 0 ELSE sum[k - 1] + fields[k].size
  IN sum

IsField(fields, k) ==
  LET F == fields[k]
  IN /\ F.size \in Nat
     /\ F.kind \in {"counted", "chosen"} =>
          /\ F.by \in 1 .. k - 1
          /\ fields[F.by].kind = "word"
          /\ fields[F.by].width # 8
     /\ CASE F.kind = "counted" ->
               /\ F.max \in Nat
               /\ \A n \in 0 .. F.max : /\ InnerIsType(Entries(F, n))
                                        /\ Entries(F, n).size \in 0 .. F.size
          [] F.kind = "chosen" ->
               \A s \in DOMAIN F.variants : /\ InnerIsType(F.variants[s])
                                            /\ F.variants[s].size \in 0 .. F.size
          [] OTHER -> InnerIsType(F)
AreFields(fields) ==
  /\ Len(fields) \in Nat
  /\ DOMAIN fields = 1 .. Len(fields)
  /\ \A k \in DOMAIN fields : IsField(fields, k)

IsType(T) ==
  IF T.kind \in Composite
  THEN /\ T.kind = "array" => T.max \in Nat /\ T.length \in 0 .. T.max
       /\ AreFields(Fields(T))
       /\ T.size \in Nat /\ Room(Fields(T))[Len(Fields(T))] <= T.size
  ELSE InnerIsType(T)
-----------------------------------------------------------------------------
(* Values.                                                                 *)

\* A count that says more than there is does not make a value.
IsValue(T, v) ==
  IF T.kind \in Composite
  THEN \A k \in DOMAIN Fields(T) :
         /\ Refusal(Fields(T)[k], v) = "ok"
         /\ InnerIsValue(Resolve(Fields(T)[k], v), v[k])
  ELSE InnerIsValue(T, v)

\* What a public count may make of a value all the same: somewhere in it, more
\* entries are counted than there are.
Overcounted(T, v) ==
  IF T.kind \in Composite
  THEN \E k \in DOMAIN Fields(T) :
         \/ Overruns(Fields(T)[k], v)
         \/ /\ Refusal(Fields(T)[k], v) = "ok"
            /\ InnerOvercounted(Resolve(Fields(T)[k], v), v[k])
  ELSE InnerOvercounted(T, v)

\* Of an array the code shows only the entries that are counted.
Seen(T, v) ==
  IF T.kind \in Composite
  THEN [k \in DOMAIN Fields(T) |-> InnerSeen(Resolve(Fields(T)[k], v), v[k])]
  ELSE InnerSeen(T, v)
=============================================================================
