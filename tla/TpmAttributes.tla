--------------------------- MODULE TpmAttributes ---------------------------
(***************************************************************************)
(* An attribute word with fields of several bits between its flags: TpmaNv *)
(* with the type of the index, TpmaCc with a command index and a number of *)
(* handles.                                                                *)
(***************************************************************************)
EXTENDS TpmBits

CONSTANTS
  FieldValues,   \* what the fields are set to, as words
  FlagsUsed      \* the flags that are set and removed

ASSUME AttributesAssumption ==
  FieldValues \subseteq SUBSET Positions /\ FlagsUsed \subseteq Positions

VARIABLES
  attr,    \* the word
  kind,    \* "TpmaNv" or "TpmaCc"
  flags,   \* the flags its owner has set and not removed since
  fields   \* what its owner has set each field to

attrVars == <<attr, kind, flags, fields>>

\* Where a field begins, its mask, and how wide the argument of its setter is.
Field(shift, mask, argument) == [shift |-> shift, mask |-> mask, argument |-> argument]

TpmaNvFlags == 0 .. 3 \cup 10 .. 19 \cup 25 .. 31
TpmaNvFields == [index_type |-> Field(4, 4 .. 7, 8)]
TpmaCcFlags == {22, 23, 24, 28, 29}
TpmaCcFields ==
  [command_index |-> Field(0, 0 .. 15, 16), c_handles |-> Field(25, 25 .. 27, 32)]

FlagsOf ==
  [TpmaNv |-> TpmaNvFlags \cap FlagsUsed, TpmaCc |-> TpmaCcFlags \cap FlagsUsed]
FieldsOf == [TpmaNv |-> TpmaNvFields, TpmaCc |-> TpmaCcFields]

NewAttributeField(value, f) == Shl(value, f.shift) \cap f.mask
GetAttributeField(word, f) == Shr(word \cap f.mask, f.shift)

\* Faulty SetAttributeField: the value before is not cleared.
SetAttributeFieldOver(word, value, f) == word \cup NewAttributeField(value, f)

SetAttributeField(word, value, f) ==
  (word \ f.mask) \cup NewAttributeField(value, f)

\* The argument as the setter's type holds it.
Argument(value, f) == value \cap 0 .. f.argument - 1

AttrInit ==
  /\ attr = {} /\ flags = {}
  /\ kind \in DOMAIN FieldsOf
  /\ fields = [name \in DOMAIN FieldsOf[kind] |-> {}]

\* from_index_type, command_index and c_handles, with flags added by |.
NewAttributes(set, name, value) ==
  LET f == FieldsOf[kind][name]
  IN /\ attr' = set \cup NewAttributeField(Argument(value, f), f)
     /\ flags' = set
     /\ fields' = [other \in DOMAIN fields |->
                     IF other = name THEN Argument(value, f) ELSE {}]
     /\ UNCHANGED kind

\* set_type, set_command_index and set_c_handles.
SetField(name, value) ==
  LET f == FieldsOf[kind][name]
  IN /\ attr' = SetAttributeField(attr, Argument(value, f), f)
     /\ fields' = [fields EXCEPT ![name] = Argument(value, f)]
     /\ UNCHANGED <<kind, flags>>

\* insert and remove of bitflags.
InsertFlag(flag) ==
  attr' = attr \cup {flag} /\ flags' = flags \cup {flag} /\ UNCHANGED <<kind, fields>>
RemoveFlag(flag) ==
  attr' = attr \ {flag} /\ flags' = flags \ {flag} /\ UNCHANGED <<kind, fields>>

AttrNext ==
  \/ \E name \in DOMAIN fields, value \in FieldValues,
        flag \in FlagsOf[kind] : NewAttributes({flag}, name, value)
  \/ \E name \in DOMAIN fields, value \in FieldValues : SetField(name, value)
  \/ \E flag \in FlagsOf[kind] : InsertFlag(flag) \/ RemoveFlag(flag)

AttrSpec == AttrInit /\ [][AttrNext]_attrVars
-----------------------------------------------------------------------------
(* Properties.                                                             *)

\* Whatever was set and removed in whatever order, the word has the flags that
\* are set and each field reads as the value it was last given, cut to its
\* width: "Only the field bits should be set".
FieldsKeepApart ==
  /\ attr \cap FlagsOf[kind] = flags
  /\ \A name \in DOMAIN fields :
       LET f == FieldsOf[kind][name]
       IN GetAttributeField(attr, f) =
            {i \in fields[name] : i + f.shift \in f.mask}
=============================================================================
