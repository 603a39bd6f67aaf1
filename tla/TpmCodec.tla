------------------------------ MODULE TpmCodec ------------------------------
(***************************************************************************)
(* A value of one of the base types on its way: marshaled into a buffer,   *)
(* carried there whole, cut short or with a byte changed, unmarshaled, and *)
(* marshaled again.  A value of a type that has a Tpm2bStruct holder may   *)
(* take the way through the holder instead.  Where a count is a public     *)
(* field, there are values that count more entries than they have.         *)
(***************************************************************************)
EXTENDS TpmTypes

CONSTANTS
  Types,     \* the types that travel, by name
  Values,    \* the values of each that are sent
  Held,      \* the names of those that a Tpm2bStruct holds
  NewBytes   \* what a changed byte becomes

-----------------------------------------------------------------------------
(* The generated impls, as far as the types nest: GetCapabilityResp, its   *)
(* enum, the variant, the list in it and that list's array, the policies,  *)
(* the hash in one and the variant of that.                                *)

L1 == INSTANCE TpmDerive WITH
  InnerMarshal <- LeafMarshal, InnerUnmarshal <- LeafUnmarshal
L2 == INSTANCE TpmDerive WITH
  InnerMarshal <- L1!Marshal, InnerUnmarshal <- L1!Unmarshal
L3 == INSTANCE TpmDerive WITH
  InnerMarshal <- L2!Marshal, InnerUnmarshal <- L2!Unmarshal
L4 == INSTANCE TpmDerive WITH
  InnerMarshal <- L3!Marshal, InnerUnmarshal <- L3!Unmarshal
L5 == INSTANCE TpmDerive WITH
  InnerMarshal <- L4!Marshal, InnerUnmarshal <- L4!Unmarshal
L6 == INSTANCE TpmDerive WITH
  InnerMarshal <- L5!Marshal, InnerUnmarshal <- L5!Unmarshal
L7 == INSTANCE TpmDerive WITH
  InnerMarshal <- L6!Marshal, InnerUnmarshal <- L6!Unmarshal
L8 == INSTANCE TpmDerive WITH
  InnerMarshal <- L7!Marshal, InnerUnmarshal <- L7!Unmarshal

\* And the types and values at each level.
K1 == INSTANCE TpmDerivable WITH
  InnerIsType <- LeafIsType, InnerIsValue <- LeafIsValue, InnerSeen <- LeafSeen,
  InnerOvercounted <- LeafOvercounted
K2 == INSTANCE TpmDerivable WITH
  InnerIsType <- K1!IsType, InnerIsValue <- K1!IsValue, InnerSeen <- K1!Seen,
  InnerOvercounted <- K1!Overcounted
K3 == INSTANCE TpmDerivable WITH
  InnerIsType <- K2!IsType, InnerIsValue <- K2!IsValue, InnerSeen <- K2!Seen,
  InnerOvercounted <- K2!Overcounted
K4 == INSTANCE TpmDerivable WITH
  InnerIsType <- K3!IsType, InnerIsValue <- K3!IsValue, InnerSeen <- K3!Seen,
  InnerOvercounted <- K3!Overcounted
K5 == INSTANCE TpmDerivable WITH
  InnerIsType <- K4!IsType, InnerIsValue <- K4!IsValue, InnerSeen <- K4!Seen,
  InnerOvercounted <- K4!Overcounted
K6 == INSTANCE TpmDerivable WITH
  InnerIsType <- K5!IsType, InnerIsValue <- K5!IsValue, InnerSeen <- K5!Seen,
  InnerOvercounted <- K5!Overcounted
K7 == INSTANCE TpmDerivable WITH
  InnerIsType <- K6!IsType, InnerIsValue <- K6!IsValue, InnerSeen <- K6!Seen,
  InnerOvercounted <- K6!Overcounted
K8 == INSTANCE TpmDerivable WITH
  InnerIsType <- K7!IsType, InnerIsValue <- K7!IsValue, InnerSeen <- K7!Seen,
  InnerOvercounted <- K7!Overcounted

Marshal(T, v, room) == L8!Marshal(T, v, room)
Unmarshal(T, buf) == L8!Unmarshal(T, buf)

\* Faulty FromStruct: the size of the holder is never set.
FromStructUnsized(T, v) == [Marshal(T, v, T.size) EXCEPT !.bytes = <<>>]

\* Tpm2bStruct: the bytes of a struct in a buffer of its size in memory.
FromStruct(T, v) == Marshal(T, v, T.size)
\* What is left of the buffer is not looked at.
ToStruct(T, blob) == Unmarshal(T, blob)

ASSUME TypesAssumption ==
  /\ \A t \in DOMAIN Types :
       /\ K8!IsType(Types[t])
       /\ \A v \in Values[t] : K8!IsValue(Types[t], v) \/ K8!Overcounted(Types[t], v)
  /\ Held \subseteq DOMAIN Types
ASSUME NewBytesAssumption == NewBytes \subseteq Octet

VARIABLES
  step,    \* where the value is
  name,    \* its type
  value,   \* what was marshaled
  wire,    \* its bytes
  damage,  \* what became of them: "none", "cut" or "changed"
  got,     \* the outcome of try_unmarshal or to_struct
  again    \* the outcome of marshaling that

vars == <<step, name, value, wire, damage, got, again>>
-----------------------------------------------------------------------------
NoOutcome == NotTaken("none")

Init ==
  /\ step = "start" /\ name \in DOMAIN Types /\ value \in Values[name]
  /\ wire = <<>> /\ damage = "none" /\ got = NoOutcome /\ again = NotWritten("none")

\* try_marshal into a buffer that is as long as the value is in memory.
MarshalValue ==
  /\ step = "start"
  /\ \E out \in {Marshal(Types[name], value, Types[name].size)} :
       /\ wire' = out.bytes
       /\ step' = IF out.res = "ok" THEN "sent" ELSE "refused"
  /\ UNCHANGED <<name, value, damage, got, again>>

Cut ==
  /\ step = "sent" /\ damage = "none"
  /\ \E n \in 0 .. Len(wire) - 1 : wire' = SubSeq(wire, 1, n)
  /\ damage' = "cut"
  /\ UNCHANGED <<step, name, value, got, again>>

Change ==
  /\ step = "sent" /\ damage = "none"
  /\ \E i \in DOMAIN wire, b \in NewBytes :
       /\ wire[i] # b
       /\ wire' = [wire EXCEPT ![i] = b]
  /\ damage' = "changed"
  /\ UNCHANGED <<step, name, value, got, again>>

\* More bytes may follow in the same buffer.
Junk == <<0, 1>>
UnmarshalWire ==
  /\ step = "sent"
  /\ \E junk \in (IF damage = "cut" THEN {<<>>} ELSE {<<>>, Junk}) :
       /\ wire' = wire \o junk
       /\ got' = Unmarshal(Types[name], wire')
  /\ step' = "read"
  /\ UNCHANGED <<name, value, damage, again>>

\* from_struct, and to_struct of what it returned.
ThroughHolder ==
  /\ step = "start" /\ name \in Held
  /\ \E out \in {FromStruct(Types[name], value)} :
       /\ wire' = out.bytes
       /\ got' = IF out.res = "ok" THEN ToStruct(Types[name], out.bytes)
                                   ELSE NotTaken(out.res)
  /\ step' = "held"
  /\ UNCHANGED <<name, value, damage, again>>

\* try_marshal of what was unmarshaled, into just the room it came from.
MarshalAgain ==
  /\ step = "read" /\ got.res = "ok"
  /\ again' = Marshal(Types[name], got.value, Len(wire) - Len(got.rest))
  /\ step' = "written"
  /\ UNCHANGED <<name, value, wire, damage, got>>

Next ==
  MarshalValue \/ Cut \/ Change \/ UnmarshalWire \/ ThroughHolder \/ MarshalAgain

Spec == Init /\ [][Next]_vars
-----------------------------------------------------------------------------
(* Properties.                                                             *)

\* Of an array the code shows only the entries counted.
Same(v, w) == K8!Seen(Types[name], v) = K8!Seen(Types[name], w)

\* A value arrives as it was sent, whatever follows it in the buffer, and what
\* follows is left there.
ArrivesIntact ==
  step = "read" /\ damage = "none" =>
    got.res = "ok" /\ Same(got.value, value) /\ got.rest \in {<<>>, Junk}

\* A struct always fits the buffer of its holder, which is as long as the
\* struct is in memory and not on the wire, and comes out as it went in, or not
\* at all if it counts more than it has.
HolderHolds ==
  step = "held" =>
    IF K8!Overcounted(Types[name], value) THEN got.res # "ok"
    ELSE got.res = "ok" /\ Same(got.value, value) /\ got.rest = <<>>

\* No message ever announces more entries than it has: what a public count
\* makes a value of is marshaled exactly if each count in it, of a field, in a
\* variant or in the entry of a list, stays within its array.
MarshalsWhatItCounts ==
  step \in {"sent", "read", "written", "refused"} =>
    (step = "refused" <=> K8!Overcounted(Types[name], value))

\* Whatever is accepted, damaged or not, is marshaled back to the very bytes it
\* was read from: no two messages are read as one value, and no count read from
\* a message indexes past its array.
ReadsBackTheSame ==
  step = "written" =>
    again = Wrote(SubSeq(wire, 1, Len(wire) - Len(got.rest)))

\* A message is never read from a part of it, and the reason given is that the
\* buffer ended.
CutIsNoticed == step = "read" /\ damage = "cut" => got.res = "memory"
=============================================================================
