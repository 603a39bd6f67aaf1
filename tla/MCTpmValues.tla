----------------------------- MODULE MCTpmValues -----------------------------
(***************************************************************************)
(* The values of the base, error and DRBG crates whose code is a machine   *)
(* of its own: lists, attribute words, error codes, draws.  They share     *)
(* nothing, so a behaviour is one of any of them.                          *)
(***************************************************************************)
EXTENDS TpmLists, TpmAttributes, TpmErrorCodes, TpmDrbgHelpers

VARIABLE part   \* the machine that runs

\* Marshalable of entries, which may be structs with an array in them.
M == INSTANCE TpmMarshal
D1 == INSTANCE TpmDerive WITH
  InnerMarshal <- M!LeafMarshal, InnerUnmarshal <- M!LeafUnmarshal
D2 == INSTANCE TpmDerive WITH
  InnerMarshal <- D1!Marshal, InnerUnmarshal <- D1!Unmarshal

TpmsPcrSelection ==
  M!Struct(<<M!Word(2), M!Word(1), M!Counted(2, 2, M!Word(1))>>)
Tpm2bDigest == M!Blob(2)
TpmsTaggedProperty == M!Struct(<<M!Word(4), M!Word(4)>>)

\* Entries of lists, by name: a public sizeof_select within the array and one
\* past it, a Tpm2b that a short buffer ends in, and one that never fails but
\* for want of room.
EntryType ==
  [none |-> TpmsPcrSelection, some |-> TpmsPcrSelection, beyond |-> TpmsPcrSelection,
   empty |-> Tpm2bDigest, digest |-> Tpm2bDigest,
   zero |-> TpmsTaggedProperty, one |-> TpmsTaggedProperty]
EntryValue ==
  [none |-> <<0, 0, <<0, 0>>>>, some |-> <<4, 2, <<1, 1>>>>, beyond |-> <<4, 3, <<1, 1>>>>,
   empty |-> <<>>, digest |-> <<1, 2>>,
   zero |-> <<0, 0>>, one |-> <<1, 1>>]
MCOutcomes ==
  [none |-> {"ok", "memory"}, some |-> {"ok", "memory"}, beyond |-> {"memory", "panic"},
   empty |-> {"ok", "memory"}, digest |-> {"ok", "memory", "panic"},
   zero |-> {"ok", "memory"}, one |-> {"ok", "memory"}]
\* What try_marshal comes to in buffers up to the longest.
ASSUME OutcomesAssumption ==
  \A x \in DOMAIN EntryType :
    MCOutcomes[x] =
      {D2!Marshal(EntryType[x], EntryValue[x], room).res : room \in 0 .. 9}

MCLists ==
  [TpmlPcrSelection |->
     [entries |-> {"none", "some", "beyond"}, default |-> "none",
      refusals |-> {"memory", "size"}, public |-> FALSE],
   TpmlDigest |->
     [entries |-> {"empty", "digest"}, default |-> "empty",
      refusals |-> {"memory"}, public |-> FALSE],
   TpmlTaggedTpmProperty |->
     [entries |-> {"zero", "one"}, default |-> "zero",
      refusals |-> {"memory"}, public |-> TRUE]]
\* What try_unmarshal of an entry comes to where it is refused.
ASSUME RefusalsAssumption ==
  \A l \in DOMAIN MCLists :
    MCLists[l].refusals =
      {D2!Unmarshal(EntryType[MCLists[l].default], buf).res :
         buf \in SeqOf({0, 3}, 5)} \ {"ok"}

\* Lists of up to three entries, given up to one more, and announced with counts
\* up to two more.
MCInputs == UNION {SeqOf(MCLists[l].entries, 4) : l \in DOMAIN MCLists}
MCCounts == 0 .. 5

\* Nothing, values that fit into four, eight and sixteen bits, one that is just
\* too wide for each field, and all bits; the flags next to the fields.
MCFieldValues == {{}, {0, 3}, {1, 4, 7}, {2, 15, 16}, Positions}
MCFlagsUsed == {3, 10, 31, 22, 24, 28}

ValuesInit ==
  /\ ListInit /\ AttrInit /\ CodesInit /\ DrbgInit
  /\ part \in {"lists", "attributes", "codes", "draws"}
  /\ part # "lists" => list = "TpmlDigest"
  /\ part # "attributes" => kind = "TpmaNv"
  /\ part # "draws" => native = "u64"

ValuesNext ==
  /\ UNCHANGED part
  /\ \/ part = "lists" /\ ListNext /\ UNCHANGED <<attrVars, codeVars, drbgVars>>
     \/ part = "attributes" /\ AttrNext /\ UNCHANGED <<listVars, codeVars, drbgVars>>
     \/ part = "codes" /\ CodesNext /\ UNCHANGED <<listVars, attrVars, drbgVars>>
     \/ part = "draws" /\ DrbgNext /\ UNCHANGED <<listVars, attrVars, codeVars>>

ValuesSpec == ValuesInit /\ [][ValuesNext]_<<part, listVars, attrVars, codeVars, drbgVars>>
==============================================================================
