--------------------------- MODULE TpmErrorCodes ---------------------------
(***************************************************************************)
(* The u32 error codes of tpm2-rs-errors: what they are composed of when   *)
(* they are made, and what is read back from them.  A code is its bits.    *)
(***************************************************************************)
EXTENDS TpmBits

VARIABLES
  code,   \* the u32 of the error at hand, none yet or that of success if {}
  meant   \* what it was made of: the error, and for a format 1 code on what

codeVars == <<code, meant>>

RC_FMT1 == 128
Format1 == [Asymmetric |-> 1, Value |-> 4, Size |-> 21, Selector |-> 24]
Format0 ==
  [BadTag |-> 30, Initialize |-> 256, Failure |-> 257, Sequence |-> 258,
   CommandSize |-> 322, CommandCode |-> 323, ContextGap |-> 2305,
   ObjectMemory |-> 2306, SessionMemory |-> 2307, Memory |-> 2308]
Warnings == {"ContextGap", "ObjectMemory", "SessionMemory", "Memory"}
Layers == [Tddl |-> 1, Tcs |-> 2, Tsp |-> 3]
LayerErrors ==
  [GeneralFailure |-> 2, BadParameter |-> 3, InternalError |-> 4,
   OutOfMemory |-> 5, NotImplemented |-> 6, KeyAlredyRegistered |-> 8,
   TpmUnexpected |-> 16, CommFailure |-> 17, Timeout |-> 18,
   Unsupported |-> 20, Canceled |-> 22]

TypeMask == [Handle |-> {}, Parameter |-> {6}, Session |-> {11}]
ErrorTypes == DOMAIN TypeMask
ErrorPositions == 1 .. 15
PositionBits == Bits(3840)
-----------------------------------------------------------------------------
(* Codes.                                                                  *)

\* ErrorPosition::to_mask
PositionMask(pos) == Shl(Bits(pos), 8)

Format1Code(base) == Bits(RC_FMT1 + Format1[base])
CodeFor(base, on, pos) == Format1Code(base) \cup TypeMask[on] \cup PositionMask(pos)

\* Faulty LayerCode: the layer is where the position of an error is.
LayerCodeLow(layer, error) == Bits(LayerErrors[error]) \cup Shl(Bits(Layers[layer]), 8)
LayerCode(layer, error) == Bits(LayerErrors[error]) \cup Shl(Bits(Layers[layer]), 12)

\* Faulty IsWarning: the format is not looked at.
IsWarningOfAnyFormat(word) == Bits(2304) \subseteq word
IsWarning(word) == word \cap Bits(2432) = Bits(2304)

\* Faulty TypeOf: a parameter is one if there is a position.
TypeByPosition(word) ==
  IF 7 \notin word THEN "none"
  ELSE IF word \cap PositionBits # {} THEN "Session"
  ELSE "Parameter"

\* ErrorType::from_mask; the code asks whether the mask of sessions, not the
\* bit it masks, is zero.
TypeOf(word) ==
  IF 7 \notin word THEN "none"
  ELSE IF TypeMask.Parameter \cap word # {} THEN "Parameter"
  ELSE IF TypeMask.Session # {} THEN "Session"
  ELSE "Handle"

\* ErrorPosition::from_mask
PositionOf(word) ==
  LET found == {p \in ErrorPositions : PositionMask(p) = word \cap PositionBits}
  IN IF 7 \notin word \/ found = {} THEN 0 ELSE CHOOSE p \in found : TRUE

\* format1_parameter
Format1Parameter(word) ==
  IF TypeOf(word) = "none" \/ PositionOf(word) = 0 THEN <<>>
  ELSE <<TypeOf(word), PositionOf(word)>>
-----------------------------------------------------------------------------
(* Making errors, one after the other.                                     *)

Meaning(kind, error, on, pos) ==
  [kind |-> kind, error |-> error, on |-> on, pos |-> pos]

CodesInit == code = {} /\ meant = Meaning("success", "none", "none", 0)

Format0Error(error) ==
  /\ code' = Bits(Format0[error])
  /\ meant' = Meaning("format0", error, "none", 0)

Format1Error(error) ==
  /\ code' = Format1Code(error)
  /\ meant' = Meaning("format1", error, "none", 0)

\* AsymmetricFor, ValueFor, SizeFor and SelectorFor
ErrorFor(error, on, pos) ==
  /\ code' = CodeFor(error, on, pos)
  /\ meant' = Meaning("format1", error, on, pos)

ClientError(layer, error) ==
  /\ code' = LayerCode(layer, error)
  /\ meant' = Meaning("client", error, layer, 0)

CodesNext ==
  \/ \E error \in DOMAIN Format0 : Format0Error(error)
  \/ \E error \in DOMAIN Format1 : Format1Error(error)
  \/ \E error \in DOMAIN Format1, on \in ErrorTypes, pos \in ErrorPositions :
       ErrorFor(error, on, pos)
  \/ \E layer \in DOMAIN Layers, error \in DOMAIN LayerErrors :
       ClientError(layer, error)

CodesSpec == CodesInit /\ [][CodesNext]_codeVars
-----------------------------------------------------------------------------
(* Properties.                                                             *)

\* is_warning is for a code that asks to be tried again: neither the session
\* bit and position of a format 1 error nor a client's layer pass for it.
OnlyWarningsWarn == IsWarning(code) <=> meant.error \in Warnings

\* A parameter error names its parameter, and nothing but a format 1 error with
\* a position names anything.
ParameterErrorsNamedBack ==
  /\ meant.on = "Parameter" =>
       Format1Parameter(code) = <<"Parameter", meant.pos>>
  /\ Format1Parameter(code) # <<>> =>
       meant.kind = "format1" /\ meant.on \in ErrorTypes

\* Two errors share a code only where a session's bit is one of a handle's
\* position, and then they are of one base: server, client layers, parameters
\* and the errors themselves are told apart.
Overlap(m) == m.on \in {"Handle", "Session"}
ErrorsKeptApart ==
  [][code' = code /\ meant # meant' =>
       meant'.error = meant.error /\ Overlap(meant) /\ Overlap(meant')]_codeVars

\* "Returns the format1 type and position parameters if this is a format1 error
\* type": the handle that an error is made for is returned as a handle.
HandleErrorsNamedBack ==
  meant.on = "Handle" /\ meant.pos \in 1 .. 7 =>
    Format1Parameter(code) = <<"Handle", meant.pos>>
=============================================================================
