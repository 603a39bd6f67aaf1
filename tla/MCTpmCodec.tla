----------------------------- MODULE MCTpmCodec -----------------------------
(***************************************************************************)
(* The instance of TpmCodec for TLC: the base types that are built in each *)
(* way the macro accepts and the commands with their responses, with       *)
(* capacities of a few bytes and entries.                                  *)
(***************************************************************************)
EXTENDS TpmCodec

MCDigestSize ==
  [SHA1 |-> 2, SHA256 |-> 3, SHA384 |-> 4, SHA512 |-> 5, SM3256 |-> 3]
\* Room for one TpmsTaggedPolicy next to the TpmCap and the count.
MCMaxCapBuffer == 20

MCTypes ==
  [TpmsAttest |-> TpmsAttest, TpmtPublic |-> TpmtPublic,
   TpmtSensitive |-> TpmtSensitive, TpmtSignature |-> TpmtSignature,
   TpmtSigScheme |-> TpmtSigScheme, TpmsAsymParms |-> TpmsAsymParms,
   TpmsSensitiveCreate |-> TpmsSensitiveCreate,
   TpmsCreationData |-> TpmsCreationData, TpmsNvPublic |-> TpmsNvPublic,
   TpmsIdObject |-> TpmsIdObject,
   StartupCmd |-> StartupCmd,
   GetRandomCmd |-> GetRandomCmd, GetRandomResp |-> GetRandomResp,
   GetCapabilityCmd |-> GetCapabilityCmd, GetCapabilityResp |-> GetCapabilityResp,
   PcrReadCmd |-> PcrReadCmd, PcrReadResp |-> PcrReadResp,
   CreatePrimaryCmd |-> CreatePrimaryCmd, CreatePrimaryResp |-> CreatePrimaryResp,
   StartAuthSessionCmd |-> StartAuthSessionCmd,
   StartAuthSessionHandles |-> StartAuthSessionHandles,
   StartAuthSessionResp |-> StartAuthSessionResp]
MCHeld == {"TpmtPublic", "TpmsSensitiveCreate", "TpmsCreationData"}
\* Bytes that keep a u32 within TLC's integers.
MCNewBytes == {0, 3, 127}
-----------------------------------------------------------------------------
(* Values of a type: for each of its parts a few, one part at a time, the  *)
(* other parts at their default, and one with everything full.  Entries    *)
(* behind the counted ones are not the default.                            *)

Arrays(fields) == {k \in DOMAIN fields : fields[k].kind = "counted"}
Unions(fields) == {k \in DOMAIN fields : fields[k].kind = "chosen"}
Plain(fields) ==
  {k \in DOMAIN fields \ (Arrays(fields) \cup Unions(fields)) :
     \A a \in Arrays(fields) \cup Unions(fields) : fields[a].by # k}

\* The longest value there is.
RECURSIVE Full(_)
FullStruct(T) ==
  LET counts == {T.fields[a].by : a \in Arrays(T.fields)}
      full == [k \in DOMAIN T.fields |->
                 IF k \in counts
                 THEN T.fields[CHOOSE a \in Arrays(T.fields) : T.fields[a].by = k].max
                 ELSE Full(T.fields[k])]
      variants == UNION {{[full EXCEPT ![T.fields[u].by] = s,
                                       ![u] = Full(T.fields[u].variants[s])] :
                            s \in DOMAIN T.fields[u].variants} :
                         u \in Unions(T.fields)}
      length(v) == Len(Marshal(T, v, 65535).bytes)
  IN IF variants = {} THEN full
     ELSE CHOOSE v \in variants : \A w \in variants : length(w) <= length(v)
Full(T) ==
  CASE T.kind \in {"word", "chosen"} -> T.default
    [] T.kind = "bytes" -> [i \in 1 .. T.length |-> i]
    [] T.kind = "blob" -> [i \in 1 .. T.max |-> i]
    [] T.kind = "struct" -> FullStruct(T)
    [] T.kind = "counted" -> [i \in 1 .. T.max |-> Full(T.of)]

\* Whether the count is a public field: that of a TpmsPcrSelection, or of a
\* TpmlTaggedTpmProperty.
IsPublic(T, k) ==
  LET of == T.fields[k].of
  IN IF of.kind = "struct"
     THEN \A f \in DOMAIN of.fields : of.fields[f].kind = "word" /\ of.fields[f].width = 4
     ELSE of.kind = "word" /\ T.fields[1].width = 2

RECURSIVE ValuesOf(_)
\* The array of a counted field and the count in front of it, which may count one
\* more where it is public.
CountedValues(T, k) ==
  LET F == T.fields[k]
      filled == [i \in 1 .. F.max |->
                   CHOOSE v \in ValuesOf(F.of) :
                     v # F.of.default /\ ~K8!Overcounted(F.of, v)]
  IN (IF IsPublic(T, k) THEN {[T.default EXCEPT ![F.by] = F.max + 1]} ELSE {})
     \cup {[T.default EXCEPT ![F.by] = n, ![k] = filled] : n \in {0, 1, F.max}}
     \cup {[T.default EXCEPT ![F.by] = 1, ![k] = [filled EXCEPT ![1] = v]] :
             v \in ValuesOf(F.of)}
ChosenValues(T, k) ==
  LET F == T.fields[k]
  IN UNION {{[T.default EXCEPT ![F.by] = s, ![k] = v] : v \in ValuesOf(F.variants[s])} :
              s \in DOMAIN F.variants}
StructValues(T) ==
  {T.default, Full(T)}
  \cup UNION {CountedValues(T, k) : k \in Arrays(T.fields)}
  \cup UNION {ChosenValues(T, k) : k \in Unions(T.fields)}
  \cup UNION {{[T.default EXCEPT ![k] = v] : v \in ValuesOf(T.fields[k])} :
                k \in Plain(T.fields)}
ValuesOf(T) ==
  CASE T.kind = "word" ->
         CASE T.width = 1 -> {0, 2} [] T.width = 8 -> {<<0, 0>>, <<16909060, 1>>}
           [] OTHER -> {0, 258}
    [] T.kind = "bytes" -> {[i \in 1 .. T.length |-> i]}
    [] T.kind = "blob" -> {[i \in 1 .. n |-> i] : n \in {0, 1, T.max}}
    [] T.kind = "struct" -> StructValues(T)

MCValues == [t \in DOMAIN MCTypes |-> ValuesOf(MCTypes[t])]
=============================================================================
